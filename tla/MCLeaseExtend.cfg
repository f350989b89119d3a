SPECIFICATION Spec
CONSTANTS
  Ttl = 2
  MaxTtl = 4
  Extensions = {1, 3}
  Unreachable = 1
  MaxHellos = 2
  MaxAttempts = 2
  Horizon = 5
INVARIANTS
  ExtensionTakesEffect
CHECK_DEADLOCK FALSE
