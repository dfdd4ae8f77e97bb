SPECIFICATION Spec
CONSTANTS
  Callers = {"a", "b"}
  Workloads <- MCWorkloads
  MaxRequestId = 2
  Points = {p}
  OwnUser = "user"
  Offers <- MCOffers
  MaxCalls = 3
  MaxSessions = 2
INVARIANT AnswerMatchesCall
INVARIANT NoContinuationLeak
PROPERTY ServedCallReturns
CHECK_DEADLOCK FALSE
