SPECIFICATION Spec
CONSTANTS
  Task = {t1}
  NULL = NULL
  WheelLength = 4
  DeltaTime = 3
  MaxDelay = 10
  Clock = {0, 5, 13}
INVARIANTS FirstDriveOnTime
