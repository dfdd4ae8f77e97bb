SPECIFICATION ProcessSpec
CONSTANTS
  MaxStored = 3
  MaxChunks = 4
  MaxSubscriptions = 2
  MaxBatch = 2
  Holders = {"h1", "h2"}
  MaxSpans = 3
  MaxAttributes = 3
  Recorders = {"t1", "t2", "t3"}
  MaxExports = 2
  MaxSamples = 3
  Samples = {1, 2, 3}
  EventItems = {e1, e2}
  MaxNotices = 2
  MaxChannels = 2
  NoEventItem = NoEventItem
  SentKinds = {"Ping", "Read", "HistoryReadEvents", "DeleteMonitoredItem"}
  MaxDebugId = 3
  MaxSent = 2
  Slots = {s1, s2}
  MaxGateIds = 3
  MaxGateBlocks = 2
  Threads = {t1}
  ProviderKinds = {"answers", "declines", "asks"}
  MaxProviders = 2
  OnWindows = FALSE
  CellValues = {FALSE, TRUE}
  MaxScopes = 2
  MaxTold = 3
  MaxLines = 2
  Items = {i1, i2}
  Readers = {r1, r2}
  MaxPending = 2
  ReadBatch = 1
  MaxPushes = 3
  MaxBlocks = 1
  Deployments = {TRUE, FALSE}
  NoReader = NoReader
  CommTexts <- MCCommTexts
  Ticks = {0, 7}
  BootTimes = {5}
  TicksPerSecond <- MCTicksPerSecond
  MaxCores = 4
  MaxTasks = 2
  Observers = {"o1", "o2", "o3"}
  MaxSlots = 4
  MaxDepth = 2
  CacheKeys = {"a", "b", "c"}
  MaxSize = 2
  CacheDuration = 2
  MaxRate = 1
  MaxBurst = 2
  RateTicks = 2
  Bounds = {0, 1, 2, 3, 4}
  MaxNow = 7
  Nodes = {"n1", "n2"}
  Types = {"t1"}
  Verbs = {"NodeAdded", "NodeDeleted", "ReferenceAdded"}
  MaxEvents = 3
INVARIANTS GateIsEnforced SessionIsFollowed TelemetryIsTrue ProcessIsInOrder ObjectsKeepTheirWord
PROPERTIES  HistoryIsWhole NothingComesLate
CHECK_DEADLOCK FALSE
