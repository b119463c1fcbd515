SPECIFICATION Spec
CONSTANTS
  MaxServerId = 3
  MaxChanges = 0
  MaxTime = 1
  MaxLost = 1
  MaxVidRestarts = 0
  Capacity = 1
INVARIANTS
  TimeNeverGoesBack
CHECK_DEADLOCK FALSE
