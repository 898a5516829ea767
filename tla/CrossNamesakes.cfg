CONSTANTS
  Calls = {c1}
  Ids = {c1}
  IdOf <- OwnIds
  Names = {o, p, k, q}
  o = o
  p = p
  k = k
  q = q
  Requests <- CrossOnly
  Backlog = 1
  SockBuf = 3
  MaxFaults = 0
  MaxStarts = 1
  None = None
SPECIFICATION Spec
INVARIANT CrossProgramsKeptApart
CHECK_DEADLOCK FALSE
