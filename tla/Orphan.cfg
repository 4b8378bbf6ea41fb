SPECIFICATION BusySpec
CONSTANTS
  Tasks <- PairTasks
  Id <- PairId
  Seeded <- PairSeeded
  Parent <- PairParent
  Deps <- PairDeps
  Cascading = {1}
  Prompted = {}
  Stalls = FALSE
  Priorities = {0}
  MaxConcurrency = 1
  Runners = {s1, s2}
  NoTask = NoTask
  MaxCrashes = 1
  MaxControls = 0
  MaxRequests = 0
PROPERTIES
  RestartResumesTasks
