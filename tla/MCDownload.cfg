SPECIFICATION FairSpec
CONSTANTS
  Blocks <- MCFiles
  MAX_DOWNLOAD_WINDOW = 2
  SHORT_LIMIT = 8
  MaxBlocksPerSnap = 2
  MaxLost = 2
  MaxCommands = 10
  Capacity = 2
INVARIANTS
  FilesIntact
  WindowKept
PROPERTIES
  DownloadSucceeds
CHECK_DEADLOCK FALSE
