SPECIFICATION AsyncSpec
CONSTANTS
  GateWaiters = {"w1", "w2", "w3"}
  Slotted = {"w1", "w2"}
  CacheWaiters = {"c1", "c2", "c3"}
  Eager = {"c1", "c2"}
  Keys = {"k1", "k2"}
  Tasks = {a, b, d, e}
  a = a
  b = b
  d = d
  e = e
  Delay <- Delays
  MaxTime = 2
  OwnStop = {a}
  Radix = 2
  kMaxMessageSize = 3
  Outboxes <- MCOutboxes
  Endpoints = 2
  MaxAccepted = 2
  GuardThreads = {"t1", "t2", "t3"}
  MaxSections = 2
  IoTasks = {"p", "q"}
INVARIANTS WaitsEndOnce ThreadsAreSound DeliveredInOrder ListenersAreSound
PROPERTIES EverythingReturns
CHECK_DEADLOCK FALSE
