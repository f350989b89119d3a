SPECIFICATION Spec
CONSTANTS
  MaxProcs = 4
  Stubborn = {2}
  Detaches = FALSE
INVARIANTS
  LoopKillsGroup
CHECK_DEADLOCK FALSE
