SPECIFICATION ReportSpec
CONSTANTS
  Levels <- MCLevels
  Bins <- MCBins
  Threshold = 2
  Release = 1
  Debounce = 2
  MaxTicks = 4
  CorrectifBounds <- MCCorrectifBounds
  BaseDay = 1
  BaseNight = 0
  NightFrom = 6
  MinRecording = 3
  AmbientRecording = 5
  Horizon = 9
INVARIANTS
  TypeOK
  DurationsInRange
  PeakOfLoudestFrame
  CumulatedIsElapsed
  LoudIsActive
  NoMissedExceedance
  ReportAgreesWithDetector
CHECK_DEADLOCK FALSE
