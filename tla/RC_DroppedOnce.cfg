SPECIFICATION Spec
CONSTANTS
  MAX_RELIABLE_COMMANDS = 2
  MaxClientCommands = 4
  MaxServerCommands = 4
  Capacity = 1
INVARIANTS
  DroppedOnce
