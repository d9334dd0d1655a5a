CONSTANTS
  Clients = {"c", "d"}
  LeftKeys <- KeysOfTwo
  ClientOf <- Owners
  KeyOf <- RowKeys
  Arrivals <- Interleaved
  AtLeastOne = TRUE
  ReplayInOrder = TRUE
  MergeSpilled = FALSE
  JoinSpilled = TRUE
  CheckpointEvery = 2
  Droppers = {"d"}
  MaxFaults = 2
SPECIFICATION Spec
INVARIANT AnswersWholeResult
CHECK_DEADLOCK FALSE
