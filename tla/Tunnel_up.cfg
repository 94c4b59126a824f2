SPECIFICATION FairSpec
CONSTANTS
  HighWater = 2
  MaxFrags = 1
  SocketsFail = FALSE
  HomeChunks = 2
  RemoteChunks = 0
PROPERTIES UpDelivers
