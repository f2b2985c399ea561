CONSTANTS
  o1 = o1  o2 = o2
  Operators <- Two
  Batches = 2
  BatchRows = 2
  ReplayShare = 2
  SampleSize = 1
  Positions <- MCPositions
  Throttled = TRUE
  MaxRuns = 2
SPECIFICATION Spec
SYMMETRY Symmetry
CHECK_DEADLOCK FALSE
INVARIANTS RowsInOwnBatch OneWriter WrittenIsRegistered CaughtIsReplayed FirstRunComplete
