CONSTANTS
  MAX_QUED_EVENTS = 1
  MAX_PUSHED_EVENTS = 1
  MAX_LOOPBACK = 1
  MAX_CMD_BUFFER = 5
  MAX_CMD_LINE = 2
  Pumps <- MCPumps
  Files <- MCFiles
  Waits = {1}
  MaxEvents = 2
  MaxLines = 2
  MaxPackets = 2
  MaxDrops = 1
  MaxNested = 2
SPECIFICATION Spec

PROPERTIES WaitLasts
