SPECIFICATION FairSpec
CONSTANTS
  Items = {i1, i2}
  i1 = i1
  i2 = i2
  MaxSessions = 2
  MaxIds = 2
  MaxPosted = 1
  MaxClock = 2
  None = None
INVARIANTS ItemsAgree NoValueIsMissed NoSilentStop
PROPERTY ShowsSource
CHECK_DEADLOCK FALSE
