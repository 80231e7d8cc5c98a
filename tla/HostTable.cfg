SPECIFICATION FairSpec
CONSTANTS
  Workers = {w1}
  Main = main
  MaxRequests = 2
  MaxActs = 3
  MaxRecords = 1
INVARIANTS FrameIsOwed NobodyIsMissed
PROPERTIES FramesComeAndGo
CHECK_DEADLOCK FALSE
