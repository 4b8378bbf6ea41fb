SPECIFICATION Spec
CONSTANTS
  KeepRecent = 20
  RetryLimit = 2
  MaxPrompts = 1
  MaxCalls = 1
  MaxBatch = 1
  MaxCrashes = 0
  Unnamed = {}
INVARIANT ShrinkAvoidsOrphans
CHECK_DEADLOCK FALSE
