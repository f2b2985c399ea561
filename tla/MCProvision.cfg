CONSTANTS
  s1 = s1  s2 = s2
  Sessions <- Two
  Unlisted <- Nothing
  Earlier <- Others
  MaxRepeats = 1
  MaxFailures = 1
SPECIFICATION Spec
CHECK_DEADLOCK FALSE
INVARIANTS NothingDangles DoneIsReady Repeatable
PROPERTY EverySessionCompletes
