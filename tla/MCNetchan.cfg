CONSTANTS
  FRAGMENT_SIZE = 2
  MAX_MSGLEN = 4
  Byte <- MCByte
  ZeroByte = 0
  Payload <- MCPayload
  MaxMessages = 3
SPECIFICATION FairSpec
INVARIANTS
  NetchanInv
PROPERTIES
  AdvanceByMessage
  FragmentsDrain
  ImplementsStream
CHECK_DEADLOCK FALSE
