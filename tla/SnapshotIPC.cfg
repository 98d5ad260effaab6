SPECIFICATION FairSpec
CONSTANTS
  MaxLogs = 2
  MaxRestarts = 1
  Period = 2
INVARIANTS
  CapturedOnce
  NoRequestLost
  CapturedPromptly
  QuietDeleteIsClean
PROPERTY TriggersAreServed
