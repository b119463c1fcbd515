SPECIFICATION Spec
CONSTANTS
  Clients = {c1, c2}
  NoClient = NoClient
  sv_maxclients = 2
  MAX_CHALLENGES = 2
  RETRANSMIT_TIMEOUT = 1
  sv_reconnectlimit = 1
  SPOOF_LIMIT = 1
  sv_zombietime = 0
  sv_timeout = 0
  cl_timeout = 0
  TIMEOUT_FRAMES = 0
  Life = 0
  MaxStarts = 1
  MaxChallenge = 2
  MaxRemaps = 1
  ServerCapacity = 1
  ClientCapacity = 1
SYMMETRY Symmetry
INVARIANTS
  OneSlot
  GameKnows
PROPERTIES
  NotPutOut
CHECK_DEADLOCK FALSE
