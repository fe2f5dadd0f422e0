SPECIFICATION FairSpec
CONSTANTS
  FailTarget = {1, 2, 3, 4}
  SlowTarget = {1, 2, 3}
  Latency = {1, 10}
  NoLatency = NoLatency
  SlowSlack = 2
  SampleCap = 1
  Penalty = 2
  Cooldown = 1
  FloorFor = 1
  IdlePause = 1
  MaxTriggers = 1
ACTION_CONSTRAINTS
  OneAtATime
  InOrder
INVARIANT
  BaselineOnItsWay
PROPERTIES
  PenaltyEarned
  Recovers
