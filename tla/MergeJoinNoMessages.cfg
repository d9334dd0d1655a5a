CONSTANTS
  Clients = {"c", "d"}
  LeftKeys <- KeysOfTwo
  ClientOf <- Owners
  KeyOf <- RowKeys
  Arrivals <- Interleaved
  AtLeastOne = FALSE
  ReplayInOrder = TRUE
  MergeSpilled = FALSE
  JoinSpilled = FALSE
  CheckpointEvery = 2
  Droppers = {"d"}
  MaxFaults = 2
SPECIFICATION Spec
PROPERTY SilentAfterAbort
CHECK_DEADLOCK FALSE
