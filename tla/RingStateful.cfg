CONSTANTS
  N = 2
  Shards = {0, 1}
  Input <- TwoPeersInput
  Kind = "inMemory"
  Route <- MCRoute
  Results <- MCResults
  Absent = Absent
  CheckpointEvery = 2
  MaxCrashes = 1
  MaxResends = 1
  MaxFailures = 1
  MaxAborts = 0
SPECIFICATION Spec
INVARIANT TypeOK
INVARIANT EofIsExact
INVARIANT OnlyWholeResults
INVARIANT EmitsWholeInput
INVARIANT AckedIsDurable
\* The stage stops for good once its client's stream is closed.
CHECK_DEADLOCK FALSE
