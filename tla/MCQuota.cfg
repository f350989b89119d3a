SPECIFICATION Spec
CONSTANTS
  Calls = {c1, c2, c3}
  MaxPerHour = 2
  Hour = 2
  Horizon = 4
  MaxCrashes = 1
SYMMETRY CallSymmetry
INVARIANTS
  ForgottenByRefunds
  FailuresBurnNothing
  CapWhileNothingFails
CHECK_DEADLOCK FALSE
