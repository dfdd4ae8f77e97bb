SPECIFICATION Spec
CONSTANTS
  Items = {i1}
  i1 = i1
  MaxSessions = 1
  MaxIds = 1
  MaxPosted = 1
  MaxClock = 2
  None = None
INVARIANT RouterCheckHolds
CHECK_DEADLOCK FALSE
