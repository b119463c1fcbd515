CONSTANTS
  PACKET_BACKUP = 3
  DELTA_MARGIN = 1
  numSnapshotEntities = 3
  MAX_PARSE_ENTITIES = 2
  PARSE_MARGIN = 1
  MaxEntities = 2
  OtherEntities = 1
  MaxMessages = 5
  Capacity = 1
SPECIFICATION Spec
CONSTRAINT WithinRings
INVARIANTS
  SnapshotFaithful
  BaseUsable
CHECK_DEADLOCK FALSE
