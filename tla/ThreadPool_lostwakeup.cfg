SPECIFICATION FairSpec
CONSTANTS
  threadSize_ = 2
  InitialStatus = {0}
  ConnectMayFail = FALSE
PROPERTIES ReadyThenWork
CHECK_DEADLOCK FALSE
