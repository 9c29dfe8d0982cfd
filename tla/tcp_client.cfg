SPECIFICATION FairSpec
CONSTANT MaxAttempts = 3
CHECK_DEADLOCK FALSE
INVARIANTS
  TypeOK
  SocketsAreOwned
  StoppedIsQuiet
PROPERTIES
  Perseveres
  NothingIsLeft
