SPECIFICATION AlgSpec
CONSTANTS
  Frames <- MCFrames
  MinHz = 2
  MaxHz = 4
  NBands = 2
  Interval = 2
  QMax = 3
  HistoryLen = 3
  Delays = {1, 2}
  Sounds <- MCSounds
  ConfigFiles <- MCConfigFiles
  MaxFrames = 4
INVARIANTS
  FloorIsMedianOfRecent
  CrestsSurvive
  MatchIsCompatible
  AcceptedConfigRuns
CHECK_DEADLOCK FALSE
