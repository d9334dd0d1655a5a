CONSTANTS
  Layouts <- OnLineStart
  Workers = 2
  AccBatches = 1
  Shards <- TwoAndOne
  UseCases = {"uc1", "uc2"}
  Needs <- OneAndTwo
  Chunks = 1
  SendBuffer = 4
  QueueMaxsize = 2
  MaxFaults = 0
  MaxRestarts = 0
SPECIFICATION Spec
INVARIANT EofCoversFile
CHECK_DEADLOCK FALSE
