SPECIFICATION Spec
CONSTANTS
  Limit = 4
  Slack = 1
  Horizon = 2
  Views <- MCViews
  Recorded = 6
  MaxEvents = 8
  MaxActs = 2
  MaxRefreshes = 2
INVARIANTS
  CursorIsFloor
