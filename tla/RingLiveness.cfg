CONSTANTS
  N = 2
  Shards = {0, 1}
  Input <- EmptyLeaderInput
  Kind = "stateless"
  Route <- MCRoute
  Results <- MCResults
  Absent = Absent
  CheckpointEvery = 2
  MaxCrashes = 1
  MaxResends = 0
  MaxFailures = 0
  MaxAborts = 1
SPECIFICATION FairSpec
INVARIANT DoneMeansForwarded
PROPERTY BarrierRefined
PROPERTY NoEofAfterAbort
PROPERTY StageCloses
PROPERTY RingDrains
\* The stage stops for good once its client's stream is closed.
CHECK_DEADLOCK FALSE
