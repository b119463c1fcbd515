SPECIFICATION Spec
CONSTANTS
  Blocks <- MCFiles
  MAX_DOWNLOAD_WINDOW = 2
  SHORT_LIMIT = 8
  MaxBlocksPerSnap = 2
  MaxLost = 0
  MaxCommands = 10
  Capacity = 2
INVARIANTS
  EveryFileIntact
CHECK_DEADLOCK FALSE
