SPECIFICATION FairSpec
CONSTANTS
  c1 = c1
  c2 = c2
  Cmds = {c1}
  Workers = {w1}
  Pids = {p1}
  Stubborn = {}
  Limits = {"timeout"}
  NoCmd = NoCmd
  NoPid = NoPid
  DiskFills = FALSE
  MayCancel = FALSE
  MaxStops = 0
  MaxLosses = 0
  MaxCrashes = 0
  MaxMishaps = 1
PROPERTIES
  TimeLimitHolds
CHECK_DEADLOCK FALSE
