SPECIFICATION FairSpec
CONSTANTS
  c1 = c1
  c2 = c2
  c3 = c3
  Cmds = {c1}
  Workers = {w1, w2}
  FileJobs = {}
  IdemKey <- OwnKeys
  MaxQueue = 2
  IdemWindow = 0
  ClaimRedeliver = 1
  SpawnGap = 0
  ExitCodes = {0}
  LoopReasons = {"enospc"}
  NoCmd = NoCmd
  ChunkLoss = FALSE
  MaxCrashes = 0
PROPERTIES
  EveryCommandConcludes
  EveryRunIsRecorded
