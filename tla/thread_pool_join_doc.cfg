SPECIFICATION FairSpec
CONSTANTS
  N = 2
  MaxPicks = 1
CHECK_DEADLOCK FALSE
PROPERTY
  JoinReturns
