SPECIFICATION Spec
CONSTANTS
  c1 = c1
  c2 = c2
  c3 = c3
  a = a
  b = b
  Calls = {c1, c2}
  Workers = {w1, w2}
  Contents = {a, b}
  Empty = b
  Initially = {Absent}
  Content <- ContentOf
  CallBase <- NoneNamed
  NoBase = NoBase
  Absent = Absent
  Part <- PartOf
  NoJob = NoJob
  MaxCrashes = 1
  MaxShort = 1
  MaxExecs = 1
  MaxMishaps = 1
  ExecContents = {b}
SYMMETRY CallSymmetry
INVARIANTS
  StaleOnlyIfRaced
  OkMeansWritten
  RefusedMeansUnwritten
PROPERTIES
  RepeatsWriteOnce
  KeepsPromise
CHECK_DEADLOCK FALSE
