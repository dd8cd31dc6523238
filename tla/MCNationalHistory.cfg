SPECIFICATION Spec
CONSTANTS
  Command = {c1, c2}
  HISTORY_LIMIT = 2
  BACKEND_TARGET = 5
  MaxTime = 3
  MaxGeneration = 2
  MaxDocument = 2
SYMMETRY Symmetry
INVARIANTS
  TotalWithinTarget
PROPERTIES
  ImplementsReversibleHistory
CHECK_DEADLOCK FALSE
