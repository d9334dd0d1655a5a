CONSTANTS
  N = 3
  MaxKills = 1
  MaxRaises = 1
  MaxFaults = 1
  MaxPending = 0
SPECIFICATION Spec
INVARIANT FollowsWhatItNames
PROPERTY SettlesUnlessHarmed
PROPERTY LeaderlessOnlyIfStoodDown
CHECK_DEADLOCK FALSE
