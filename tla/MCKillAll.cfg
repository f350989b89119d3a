SPECIFICATION Spec
CONSTANTS
  c1 = c1
  c2 = c2
  Cmds = {c1, c2}
  Workers = {w1, w2}
  Pids = {p1, p2}
  Stubborn = {}
  Limits = {"timeout"}
  NoCmd = NoCmd
  NoPid = NoPid
  DiskFills = FALSE
  MayCancel = FALSE
  MaxStops = 1
  MaxLosses = 0
  MaxCrashes = 0
  MaxMishaps = 1
SYMMETRY Alike
INVARIANTS
  IInv
  VerdictAfterDeath
  UserReasonIsTrue
  EndLeavesNoProcess
PROPERTIES
  KeepsPromise
CHECK_DEADLOCK FALSE
