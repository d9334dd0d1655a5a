CONSTANTS
  Nodes = {"a", "b"}
  Excluded = {}
  Timeout = 6
  Interval = 2
  ReconnectDelay = 4
  ReviveInterval = 1
  Cooldown = 8
  Jitter = 1
  MaxGap = 1
  MaxOverlap = 1
  MaxStrikes = 2
  MaxVictims = 1
  MaxLeaderChanges = 1
  MaxStartFailures = 1
SPECIFICATION Spec
INVARIANT NoFalseDeath
INVARIANT DownIsShort
PROPERTY Recovers
