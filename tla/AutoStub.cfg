CONSTANTS
  Funcs = {f, g}
  Mapped = {f, g}
  f = f
  g = g
  Rankings <- SomeRankings
  PathThreshold = 0
  MaxPaths = 1
  MaxRuns = 2
  None = None
SPECIFICATION Spec
INVARIANTS FreshEvidence SuccessIsConclusive
CHECK_DEADLOCK FALSE
