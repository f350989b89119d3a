SPECIFICATION Spec
CONSTANTS
  Calls = {c1, c2, c3, c4}
  MaxPerHour = 2
  Hour = 2
  Horizon = 4
  MaxCrashes = 0
SYMMETRY CallSymmetry
INVARIANTS
  HardCap
CHECK_DEADLOCK FALSE
