SPECIFICATION BusySpec
CONSTANTS
  Tasks <- PairTasks
  Id <- PairId
  Seeded <- PairSeeded
  Parent <- PairParent
  Deps <- PairDeps
  Cascading = {1}
  Prompted = {1, 2}
  Stalls = FALSE
  Priorities = {0, 1}
  MaxConcurrency = 1
  Runners = {s1, s2}
  NoTask = NoTask
  MaxCrashes = 0
  MaxControls = 1
  MaxRequests = 1
PROPERTIES
  ReadyWorkIsPickedUp
