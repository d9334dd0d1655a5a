CONSTANTS
  N = 2
  Shards = {0, 1}
  Input <- TwoPeersInput
  Kind = "stateless"
  Route <- MCRoute
  Results <- MCResults
  Absent = Absent
  CheckpointEvery = 2
  MaxCrashes = 1
  MaxResends = 1
  MaxFailures = 1
  MaxAborts = 0
SPECIFICATION Spec
INVARIANT EofIsExact
INVARIANT AckedIsDurable
INVARIANT TokensTruthful
PROPERTY BarrierRefined
\* The stage stops for good once its client's stream is closed.
CHECK_DEADLOCK FALSE
