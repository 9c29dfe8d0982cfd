SPECIFICATION FairSpec
CONSTANTS
  MaxThreads = 2
  MaxClients = 3
  MaxFds = 2
CHECK_DEADLOCK FALSE
INVARIANTS
  TypeOK
  NothingDangles
PROPERTIES
  LivesInOrder
  ClosedIsReleased
  AcceptsAgain
  EverythingIsReleased
