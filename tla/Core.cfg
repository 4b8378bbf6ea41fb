SPECIFICATION Spec
CONSTANTS
  Tasks <- PairTasks
  Id <- PairId
  Seeded <- PairSeeded
  Parent <- PairParent
  Deps <- PairDeps
  Cascading = {1}
  Prompted = {1}
  Stalls = FALSE
  Priorities = {0}
  MaxConcurrency = 1
  Runners = {s1, s2}
  NoTask = NoTask
  MaxCrashes = 1
  MaxControls = 1
  MaxRequests = 1
INVARIANTS
  CancelledIsQuiet
PROPERTIES
  BoardSpec
