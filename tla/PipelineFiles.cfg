SPECIFICATION Spec
CONSTANTS
  Inputs <- MCCases
  Hash <- MCHash
  EurRates <- MCEurRates
  NPeers = 2
  AffinityShards = 2
  BatchAffinityShards = 2
  GraphAffinityShards = 2
  ShardingFiles = 2
  SpillThreshold = 2
  SplitThreshold = 4
  ChunkSize = 2
  MinDegree = 2
  MinPathCount = 2
CHECK_DEADLOCK FALSE
INVARIANTS TypeOK OraclesAgree KeyInOnePlace HighDegreeExact PathsCounted AnswerIsOracle
PROPERTIES Answered
