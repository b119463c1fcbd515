SPECIFICATION FairSpec
CONSTANTS
  Clients = {c1}
  NoClient = NoClient
  sv_maxclients = 1
  MAX_CHALLENGES = 2
  RETRANSMIT_TIMEOUT = 3
  sv_reconnectlimit = 3
  SPOOF_LIMIT = 1
  sv_zombietime = 1
  sv_timeout = 2
  cl_timeout = 2
  TIMEOUT_FRAMES = 1
  Life = 1
  MaxStarts = 1
  MaxChallenge = 2
  MaxRemaps = 0
  ServerCapacity = 1
  ClientCapacity = 1
PROPERTY
  ForgottenClientLeaves
CHECK_DEADLOCK FALSE
