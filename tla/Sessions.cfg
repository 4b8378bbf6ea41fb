SPECIFICATION PartsSpec
CONSTANTS
  Controllers = {c1, c2}
  Loops = {s1}
  NoOne = NoOne
  NoTurn = NoTurn
  MaxTurns = 3
  Sockets = {p1, p2}
  Sessions = {a, b}
  Models = {m1, m2}
  Default = m1
  MaxUpdates = 1
  Capacity = 4
  MaxStreamed = 2
  MaxDeltas = 2
  MaxSnapshots = 2
  Tasks = {t1, t2}
  MaxEvents = 4
INVARIANTS
  PartsOK
  OnePromptAtATime
  OneEndPerPrompt
  LocksFollowSockets
  PageKeepsUp
  EventsComeOnceInOrder
PROPERTIES
  AbortEnds
  ResultFreesSession
  TurnKeepsSocket
