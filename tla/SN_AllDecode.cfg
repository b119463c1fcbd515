CONSTANTS
  FRAGMENT_SIZE = 2
  MAX_MSGLEN = 5
  Byte <- MCByte
  ZeroByte = 0
  BuiltLengths = {1, 3}
  MaxBuilt = 4
  MaxCommands = 1
SPECIFICATION QueueSpec
INVARIANTS
  AllDecode
CHECK_DEADLOCK FALSE
