SPECIFICATION SubscriptionSpec
CONSTANTS
  i1 = i1
  i2 = i2
  b1 = b1
  b2 = b2
  Items = {i1, i2}
  MaxPending = 2
  MaxBatch = 2
  MaxPushes = 4
  None = None
  MergedItems = {i1, i2}
  Backends = {b1, b2}
  Routes <- MovesAndFansOut
  MaxFails = 1
  MaxRefusals = 1
  Loop = Loop
INVARIANTS ReadersAreServed NothingIsLeftBehind
PROPERTIES ImplementsStream ReadTerminates  LostItemComesBack
CHECK_DEADLOCK FALSE
