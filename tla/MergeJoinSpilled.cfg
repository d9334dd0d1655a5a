CONSTANTS
  Clients = {"c", "d"}
  LeftKeys <- KeysOfTwo
  ClientOf <- Owners
  KeyOf <- RowKeys
  Arrivals <- Interleaved
  AtLeastOne = TRUE
  ReplayInOrder = TRUE
  MergeSpilled = TRUE
  JoinSpilled = FALSE
  CheckpointEvery = 2
  Droppers = {"d"}
  MaxFaults = 2
SPECIFICATION Spec
INVARIANT StampedOnce
CHECK_DEADLOCK FALSE
