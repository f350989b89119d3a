SPECIFICATION Spec
CONSTANTS
  c1 = c1
  c2 = c2
  c3 = c3
  a = a
  b = b
  Calls = {c1, c2}
  Workers = {w1}
  Contents = {a, b}
  Empty = b
  Initially = {Absent, a, b}
  Content <- ContentOf
  CallBase <- NoneNamed
  NoBase = NoBase
  Absent = Absent
  Part <- PartOf
  NoJob = NoJob
  MaxCrashes = 0
  MaxShort = 0
  MaxExecs = 0
  MaxMishaps = 1
  ExecContents = {a, b}
INVARIANTS
  RetryIsReplayed
CHECK_DEADLOCK FALSE
