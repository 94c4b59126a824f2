SPECIFICATION FairSpec
CONSTANTS
  Task = {t1, t2, t3}
  NULL = NULL
  WheelLength = 3
  DeltaTime = 2
  MaxDelay = 5
  Clock = {0, 2, 4}
INVARIANTS TypeOK ListsIntact RemoveFollowsLink OncePerTick RedrivenOnTime
PROPERTIES DrivenForever
