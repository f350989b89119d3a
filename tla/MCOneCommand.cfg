SPECIFICATION Spec
CONSTANTS
  c1 = c1
  c2 = c2
  c3 = c3
  Cmds = {c1}
  Workers = {w1, w2}
  FileJobs = {}
  IdemKey <- OwnKeys
  MaxQueue = 2
  IdemWindow = 0
  ClaimRedeliver = 1
  SpawnGap = 0
  ExitCodes = {0, 1}
  LoopReasons = {"timeout", "enospc"}
  NoCmd = NoCmd
  ChunkLoss = TRUE
  MaxCrashes = 1
SYMMETRY WorkerSymmetry
INVARIANTS
  IInv
  AtMostOnce
  SettledIsTheRunsVerdict
PROPERTIES
  SettledForever
  ReasonNeverWeakens
  KeepsPromise
