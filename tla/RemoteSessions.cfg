SPECIFICATION Spec
CONSTANTS
  Users = {u1}
  MultiUsers = {}
  Conns = {c1, c2, c3}
  Sessions = {s1, s2, s3}
  MaxCalls = 1
  None = None
SYMMETRY Symmetry
INVARIANTS  LossesAreTold
CHECK_DEADLOCK FALSE
