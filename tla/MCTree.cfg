SPECIFICATION Spec
CONSTANTS
  MaxProcs = 4
  Stubborn = {2, 3}
  Detaches = TRUE
INVARIANTS
  IInv
  OnlyEscapeesSurvive
CHECK_DEADLOCK FALSE
