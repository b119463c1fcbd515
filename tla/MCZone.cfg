CONSTANTS
  Units = 14
  Requests = {2, 3, 5}
  MinFragment = 1
SPECIFICATION FairSpec
INVARIANTS ZoneSound UsedIsHeld
PROPERTIES Allocates
\* a request that cannot be met ends the program
CHECK_DEADLOCK FALSE
