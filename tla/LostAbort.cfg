SPECIFICATION FairSpec
CONSTANTS
  Controllers = {c1}
  Loops = {}
  NoOne = NoOne
  NoTurn = NoTurn
  MaxTurns = 2
PROPERTIES
  AbortSticks
