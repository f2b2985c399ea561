CONSTANTS
  o1 = o1  o2 = o2
  Operators <- One
  Batches = 2
  BatchRows = 2
  ReplayShare = 2
  SampleSize = 1
  Positions <- MCPositions
  Throttled = FALSE
  MaxRuns = 2
SPECIFICATION Spec
CHECK_DEADLOCK FALSE
INVARIANT AtLeastOnce
