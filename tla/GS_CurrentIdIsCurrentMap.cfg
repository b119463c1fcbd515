SPECIFICATION Spec
CONSTANTS
  MaxServerId = 3
  MaxChanges = 0
  MaxTime = 0
  MaxLost = 1
  MaxVidRestarts = 0
  Capacity = 1
INVARIANTS
  CurrentIdIsCurrentMap
CHECK_DEADLOCK FALSE
