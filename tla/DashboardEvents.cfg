SPECIFICATION FairSpec
CONSTANTS
  Limit = 3
  Slack = 1
  Horizon = 2
  Views <- MCViews
  Recorded = 5
  MaxEvents = 8
  MaxActs = 3
  MaxRefreshes = 2
INVARIANTS
  ViewIsComplete
PROPERTIES
  FreshInTheEnd
