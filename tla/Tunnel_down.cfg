SPECIFICATION FairSpec
CONSTANTS
  HighWater = 2
  MaxFrags = 1
  SocketsFail = FALSE
  HomeChunks = 0
  RemoteChunks = 2
PROPERTIES DownDelivers
