SPECIFICATION Spec
CONSTANTS
  Tasks <- PairTasks
  Id <- PairId
  Seeded <- PairSeeded
  Parent <- PairParent
  Deps <- PairDeps
  Cascading = {1}
  Prompted = {1}
  Stalls = TRUE
  Priorities = {0}
  MaxConcurrency = 1
  Runners = {s1, s2}
  NoTask = NoTask
  MaxCrashes = 2
  MaxControls = 1
  MaxRequests = 1
INVARIANTS
  IInv
  OneRunnerPerTask
  DependenciesFirst
  TaskNeverAheadOfAttempt
  NoRerunOfFinishedTask
PROPERTIES
  SupersededAttemptsStay
  LiveLeaseIsRespected
  RecoveryIsIdempotent
