SPECIFICATION Spec
CONSTANTS
  Calls = {c1, c2, c3}
  MaxPerHour = 2
  Hour = 2
  Horizon = 1
  MaxCrashes = 0
SYMMETRY CallSymmetry
PROPERTIES
  NoDispatchWhenOpen
CHECK_DEADLOCK FALSE
