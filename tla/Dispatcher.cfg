SPECIFICATION DispatcherFairSpec
CONSTANTS
  threadSize_ = 3
  InitialStatus = {0}
  ConnectMayFail = TRUE
  Socket = {s1, s2, s3, s4, s5}
INVARIANTS DispatcherTypeOK WorkOnlyWhenReady StartedOnReadyWorker ChosenHasFewest
PROPERTIES ClientsServed
CHECK_DEADLOCK FALSE
