SPECIFICATION FairSpec
CONSTANTS
  MaxSize = 3
  MaxLate = 1
  PushMax = 2
  RingMax = 3
  TailMax = 2
  Want = 2
  PushLoss = TRUE
  Stale = FALSE
  MaxEvictions = 0
PROPERTIES
  ReaderReachesEof
CHECK_DEADLOCK FALSE
