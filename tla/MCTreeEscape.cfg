SPECIFICATION Spec
CONSTANTS
  MaxProcs = 4
  Stubborn = {}
  Detaches = TRUE
INVARIANTS
  TreeDies
CHECK_DEADLOCK FALSE
