CONSTANTS
  Nodes = {"a", "b"}
  Excluded = {}
  Timeout = 6
  Interval = 2
  ReconnectDelay = 4
  ReviveInterval = 1
  Cooldown = 30
  Jitter = 1
  MaxGap = 1
  MaxOverlap = 1
  MaxStrikes = 1
  MaxVictims = 1
  MaxLeaderChanges = 1
  MaxStartFailures = 0
SPECIFICATION Spec
INVARIANT NoneGivenUp
