SPECIFICATION Spec
CONSTANTS
  Programs = {"home", "remote"}
  HomeId = {h1, h2}
  JunkId = {j1, j2}
  Payload = {24, 1250}
INVARIANTS TypeOK RemoteListens OnlyGenuineFed
CHECK_DEADLOCK FALSE
