SPECIFICATION FairSpec
CONSTANTS
  N = 3
  MaxPicks = 2
CHECK_DEADLOCK FALSE
INVARIANTS
  TypeOK
  PublishedIsAlive
  CollectedIsAlive
  ObjectOutlivesThread
  Balanced
PROPERTIES
  StartReturns
  DestructorReturns
