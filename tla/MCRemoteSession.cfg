SPECIFICATION Spec
CONSTANTS
  HighWater = 3
  MaxFrags = 2
  MaxChunks = 3
  SocketsFail = TRUE
  PeerDatagram <- MCPeerDatagram
INVARIANTS TypeOK NoOverlap ReadingOrBackedUp BacklogBounded WriteOwnsHead NothingBeforeHandshake MountedUntilClosed EmptyPopOnlyAfterClose
PROPERTIES ClosedIsFinal
CHECK_DEADLOCK FALSE
