SPECIFICATION Spec
CONSTANTS
  QueueSize = 2
  LockTimeout = 2
  Interval = 2
  BatchSize = 2
  BatchTimeout = 3
  RetentionEvery = 4
  Warmup = 1
  Jumps <- MCJumps
  MaxBlocks = 7
  MaxJumps = 1
  MaxStarved = 1
INVARIANTS
  QueueIsNewest
  WindowEnds
PROPERTIES
  LossTakesTwoWaits
  RowsFollow
  ChannelSpec
CHECK_DEADLOCK FALSE
