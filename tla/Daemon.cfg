CONSTANTS
  Calls = {c1, c2}
  Ids = {c1, c2}
  IdOf <- OwnIds
  Names = {o, p, k, q}
  o = o
  p = p
  k = k
  q = q
  Requests <- DaemonRequests
  Backlog = 1
  SockBuf = 1
  MaxFaults = 2
  MaxStarts = 3
  None = None
SPECIFICATION MCFairSpec
INVARIANTS OwnVerdict LoadsWhatWasVerified AnswerIsAddressed OnlyShutdownLosesCalls
PROPERTIES ImplementsService CallEnds ShutdownCompletes
CHECK_DEADLOCK FALSE
