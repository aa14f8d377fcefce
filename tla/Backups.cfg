SPECIFICATION Spec
CONSTANTS
  KEEP = 2
  MaxImages = 2
  MaxRuns = 5
INVARIANT RecoveryPoint
INVARIANT LastKept
INVARIANT ImagesKept
CHECK_DEADLOCK FALSE
