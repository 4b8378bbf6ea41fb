SPECIFICATION PartsSpec
CONSTANTS
  Users = {u1, u2, u3}
  NoOne = NoOne
  Garbage = Garbage
  MaxIds = 5
  MaxNoise = 1
  Shell = sh
  Others = {p1, p2}
  Hardened = {{}, {sh, p1}}
INVARIANTS
  PartsOK
  AnswerIsOwn
  SeenIsEnded
PROPERTIES
  EveryoneIsAnswered
  EveryCommandReturns
CHECK_DEADLOCK FALSE
