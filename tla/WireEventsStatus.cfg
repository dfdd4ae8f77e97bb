SPECIFICATION EvSpec
CONSTANTS
  EventItems = {e1, e2}
  e1 = e1
  e2 = e2
  MaxNotices = 2
  MaxChannels = 2
  NoEventItem = NoEventItem
INVARIANT StatusReachesHandler
CHECK_DEADLOCK FALSE
