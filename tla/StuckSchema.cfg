SPECIFICATION Spec
CONSTANTS
  Processes = {p1, p2}
  Versions = 3
  Statements = 2
INVARIANT
  CanBeOpened
CHECK_DEADLOCK FALSE
