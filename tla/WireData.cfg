CONSTANTS
  W8 = 2
  W16 = 3
  W32 = 4
  W64 = 6
  Epoch = 5
  SystemEventType <- MCSystemEventType
  GeneralModelChangeEventType <- MCGeneralModelChangeEventType
  SemanticChangeEventType <- MCSemanticChangeEventType
  ContextHolders = {h1, h2}
  MaxReps = 4
  Downstreams <- MCDownstreams
  NamespaceArrays <- MCNamespaceArrays
  Indexes <- MCIndexes
  LocaleLists <- MCLocaleLists
  StoredTexts <- MCStoredTexts
  Fragments <- MCFragments
  CustomRole = 1
  Passwords <- MCPasswords
  Items = {i1, i2, i3}
  InlineFailure = TRUE
  CellTexts <- MCCellTexts
  Signatures <- MCSignatures
  MaxCells = 2
  Codes <- MCCodes
  MaxText = 3
  Word = 4
  Batch = 2
  MaxAscii = 20
  IntBits <- MCBits
  ByteRadix = 3
  Capacities = {0, 1, 3, 4}
  Strings <- MCStrings
  MaxFields = 2
  Days <- MCDays
  Exploded <- MCExploded
  Durations <- MCDurations
  MsPerSecond = 3
  UsPerMs = 2
  DayLength = 8
  Zones <- MCZones
  Seconds <- MCSeconds
SPECIFICATION DataSpec
INVARIANTS NodesKeepTheirNamespace  AccessIsGuarded  WrittenIsReadBack ItemsAreServed
CHECK_DEADLOCK FALSE
