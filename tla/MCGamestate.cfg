SPECIFICATION FairSpec
CONSTANTS
  MaxServerId = 3
  MaxChanges = 1
  MaxTime = 0
  MaxLost = 1
  MaxVidRestarts = 1
  Capacity = 1
CONSTRAINT
  Followed
INVARIANTS
  CurrentIdUntilRushed
  NeverUnpure
  OneMap
PROPERTIES
  ClientGetsIntoGame
CHECK_DEADLOCK FALSE
