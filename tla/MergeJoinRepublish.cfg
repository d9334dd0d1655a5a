CONSTANTS
  Clients = {"c", "d"}
  LeftKeys <- KeysOfTwo
  ClientOf <- Owners
  KeyOf <- RowKeys
  Arrivals <- Interleaved
  AtLeastOne = TRUE
  ReplayInOrder = TRUE
  MergeSpilled = FALSE
  JoinSpilled = FALSE
  CheckpointEvery = 2
  Droppers = {}
  MaxFaults = 1
SPECIFICATION Spec
CHECK_DEADLOCK FALSE
INVARIANT NotRepublished
