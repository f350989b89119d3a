SPECIFICATION Spec
CONSTANTS
  c1 = c1
  c2 = c2
  c3 = c3
  Cmds = {c1, c2}
  Workers = {w1, w2}
  FileJobs = {c1, c2}
  IdemKey <- OwnKeys
  MaxQueue = 2
  IdemWindow = 0
  ClaimRedeliver = 0
  SpawnGap = 0
  ExitCodes = {0}
  LoopReasons = {}
  NoCmd = NoCmd
  ChunkLoss = FALSE
  MaxCrashes = 0
SYMMETRY WorkerSymmetry
INVARIANTS
  QueuedIffUnclaimed
  FirstClaimsInOrder
