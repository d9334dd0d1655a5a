CONSTANTS
  Clients = {"c", "d"}
  LeftKeys <- KeysOfTwo
  ClientOf <- Owners
  KeyOf <- RowKeys
  Arrivals <- Interleaved
  AtLeastOne = TRUE
  ReplayInOrder = TRUE
  MergeSpilled = FALSE
  JoinSpilled = FALSE
  CheckpointEvery = 2
  Droppers = {"d"}
  MaxFaults = 2
SPECIFICATION Spec
INVARIANT TypeOK
INVARIANT StampedOnce
INVARIANT AnswersWholeResult
INVARIANT NeverStuck
PROPERTY SilentAfterAbort
PROPERTY AnsweredAndReleased
CHECK_DEADLOCK FALSE
