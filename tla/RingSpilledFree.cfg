CONSTANTS
  N = 2
  Shards = {0, 1}
  Input <- TwoPeersInput
  Kind = "spilled"
  Route <- MCRoute
  Results <- MCResults
  Absent = Absent
  CheckpointEvery = 2
  MaxCrashes = 2
  MaxResends = 0
  MaxFailures = 0
  MaxAborts = 0
SPECIFICATION Spec
INVARIANT EmitsWholeInput
\* The stage stops for good once its client's stream is closed.
CHECK_DEADLOCK FALSE
