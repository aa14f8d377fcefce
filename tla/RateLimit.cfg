SPECIFICATION Spec
CONSTANTS
  r1 = r1
  r2 = r2
  Requests <- MCRequests
  LIMIT = 2
  WINDOW = 3
  MaxTime = 6
  MaxPasses = 5
SYMMETRY RateSymmetry
CHECK_DEADLOCK FALSE
INVARIANT WithinLimit
INVARIANT RefusedAfterRun
