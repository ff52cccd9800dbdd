\* The lists, reports and drawers of the two clients, each on its own.
SPECIFICATION FairSpec
CONSTANTS
  Store = {}
  None = None
  View <- MCView
  Features <- MCFeatures
  MaxCalls = 3
  MaxClicks = 4

  
PROPERTIES
  ShowsLatestAnswer AnswersInTheEnd
\* The user may stop.
CHECK_DEADLOCK FALSE
