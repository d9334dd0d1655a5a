CONSTANTS
  Layouts <- InsideLine
  Workers = 2
  AccBatches = 1
  Shards <- TwoAndOne
  UseCases = {"uc1", "uc2"}
  Needs <- OneAndTwo
  Chunks = 2
  SendBuffer = 2
  QueueMaxsize = 2
  MaxFaults = 2
  MaxRestarts = 1
SPECIFICATION Spec
INVARIANT ShardsAnnounced
INVARIANT EofCoversFile
INVARIANT OutputIsWhole
INVARIANT NoResponseLost
PROPERTY TornDownIsReleased
PROPERTY SessionCompletes
CHECK_DEADLOCK FALSE
