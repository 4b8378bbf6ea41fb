SPECIFICATION PartsSpec
CONSTANTS
  KeepRecent = 20
  RetryLimit = 2
  MaxPrompts = 2
  MaxCalls = 3
  MaxBatch = 2
  MaxCrashes = 1
  Unnamed = {2}
  MaxSends = 2
  MaxTexts = 2
  MaxStreamCalls = 2
  MaxWire = 3
  Workers = {w1}
  Tabs = {t1}
  Terminals = {c1}
  AutoReset = TRUE
  MaxFlows = 2
  MaxTokens = 2
  Processes = {p1, p2}
  Versions = 3
  Statements = 2
  Tasks = {a, b, c}
  Sessions = {s1}
  Editors = {e1}
  Doubles = {e1}
  Texts = {x, none}
  Empty = none
  MaxLines = 3
  MaxNew = 2
  MaxEdits = 1
  Files = {f1, f2}
  Outside = out
  Narrow = n
  WideChar = w
  NL = nl
  MaxRenameEdits = 2
  MaxRenames = 1
INVARIANTS
  PartsOK
  StoreIsPaired
  OrphansOnlyInFront
  NewestIsSent
  HistoryEndsLikeStore
  AnswerIsOneStream
  LateAtMostOne
  ActiveIsUsable
  OpenIsComplete
  GraphStaysAcyclic
  RelatedIsMutual
  EditsMatchRequest
  TextEditsMatch
PROPERTIES
  LoginsEndOnce
CHECK_DEADLOCK FALSE
