SPECIFICATION Spec
CONSTANTS
  c1 = c1
  c2 = c2
  c3 = c3
  Cmds = {c1}
  Workers = {w1}
  FileJobs = {}
  IdemKey <- OwnKeys
  MaxQueue = 1
  IdemWindow = 0
  ClaimRedeliver = 1
  SpawnGap = 0
  ExitCodes = {0}
  LoopReasons = {}
  NoCmd = NoCmd
  ChunkLoss = FALSE
  MaxCrashes = 0
PROPERTIES
  SpawnGapNeverRuns
