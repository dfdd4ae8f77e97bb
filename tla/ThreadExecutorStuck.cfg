CONSTANTS
  Tasks = {a, b, d, e}
  a = a
  b = b
  d = d
  e = e
  Delay <- Delays
  MaxTime = 2
  OwnStop = {}
SPECIFICATION FairSpec
PROPERTY
  ShutdownReturns
CHECK_DEADLOCK FALSE
