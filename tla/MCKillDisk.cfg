SPECIFICATION Spec
CONSTANTS
  c1 = c1
  c2 = c2
  Cmds = {c1, c2}
  Workers = {w1}
  Pids = {p1, p2}
  Stubborn = {}
  Limits = {"timeout"}
  NoCmd = NoCmd
  NoPid = NoPid
  DiskFills = TRUE
  MayCancel = FALSE
  MaxStops = 0
  MaxLosses = 0
  MaxCrashes = 0
  MaxMishaps = 1
INVARIANTS
  EnospcIsThisCommands
CHECK_DEADLOCK FALSE
