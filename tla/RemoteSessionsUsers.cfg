SPECIFICATION FairSpec
CONSTANTS
  Users = {u1, u2}
  MultiUsers = {u2}
  Conns = {c1, c2}
  Sessions = {s1, s2}
  MaxCalls = 1
  None = None
PROPERTIES   SessionsSettle
CHECK_DEADLOCK FALSE
