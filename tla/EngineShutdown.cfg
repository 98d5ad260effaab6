SPECIFICATION EngineFairSpec
CONSTANTS
  BatchSize = 2
  BatchTimeout = 1
  MaxRows = 2
  MaxCrashes = 1
  MaxSignals = 2
INVARIANTS
  StopWritesAll
  TwiceOnlyIfStruck
PROPERTIES
  SignalEndsProcess
CHECK_DEADLOCK FALSE
