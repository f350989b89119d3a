SPECIFICATION FairSpec
CONSTANTS
  env = env
  Procs = {p1, p2}
  Objects = {env}
  Requests = {r1, r2}
  Target <- AllAboutOne
  NoProc = NoProc
  MaxCalls = 2
  MaxEvictions = 1
  MaxCrashes = 1
INVARIANTS
  IInv
PROPERTIES
  Implements
  EveryCallIsAnswered
