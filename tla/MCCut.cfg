SPECIFICATION Spec
CONSTANTS
  MaxSize = 3
  MaxLate = 1
  PushMax = 2
  RingMax = 2
  TailMax = 1
  Want = 2
  PushLoss = TRUE
  Stale = TRUE
  MaxEvictions = 1
  Lookback = 2
  MaxTail = 3
  MaxText = 5
INVARIANTS
  CutKeepsSequences
  CutKeepsCharacters
  ForcedBySequence
CHECK_DEADLOCK FALSE
