SPECIFICATION FairSpec
CONSTANTS
  Tasks <- ForkTasks
  Id <- ForkId
  Seeded <- ForkSeeded
  Parent <- ForkParent
  Deps <- ForkDeps
  Cascading = {1}
  Prompted = {}
  Stalls = FALSE
  Priorities = {0}
  MaxConcurrency = 1
  Runners = {s1, s2}
  NoTask = NoTask
  MaxCrashes = 0
  MaxControls = 0
  MaxRequests = 0
PROPERTIES
  DelegatedWorkSettles
