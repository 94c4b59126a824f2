SPECIFICATION Spec
CONSTANTS
  HighWater = 2
  MaxFrags = 1
  SocketsFail = TRUE
  HomeChunks = 1
  RemoteChunks = 1
PROPERTIES UpRelays DownRelays
CHECK_DEADLOCK FALSE
