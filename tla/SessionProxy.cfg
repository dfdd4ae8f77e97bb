CONSTANTS
  Openers = {opener}
  Closers = {closer}
  Calls = {k1}
  MaxLoops = 2
  MaxPings = 2
  None = None
SPECIFICATION FairSpec
INVARIANT SessionIsSound
PROPERTIES ReportsAreTrue EveryoneReturns
CHECK_DEADLOCK FALSE
