SPECIFICATION FairSpec
CONSTANTS
  c1 = c1
  c2 = c2
  Cmds = {c2}
  Workers = {w1}
  Pids = {p1}
  Stubborn = {c2}
  Limits = {"timeout", "inactivity"}
  NoCmd = NoCmd
  NoPid = NoPid
  DiskFills = TRUE
  MayCancel = TRUE
  MaxStops = 1
  MaxLosses = 1
  MaxCrashes = 1
  MaxMishaps = 2
PROPERTIES
  EveryRunEnds
  StopEndsTheProcess
CHECK_DEADLOCK FALSE
