SPECIFICATION FairSpec
CONSTANTS
  c1 = c1
  c2 = c2
  f1 = f1
  f2 = f2
  f3 = f3
  socket = socket
  WakeupChannel = eventfd
  Callers <- TwoCallers
  Functors <- ThreeFunctors
  InitFunctors <- FirstFunctor
  IoChannels <- OneSocket
INVARIANTS
  TypeOK
  NoLostWakeup
  QuitIsNoticed
PROPERTIES
  RunsOnceInOrder
  EveryFunctorRuns
  QuitEndsLoop
