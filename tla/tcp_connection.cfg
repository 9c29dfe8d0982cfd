SPECIFICATION FairSpec
CONSTANTS
  u1 = u1
  Loop = loop
  Users <- OneUser
  UserOps <- AnyOp
  HighWater = 3
  MaxCalls <- OwnOne_OthersOne
  MaxUnread = 1
  OwnerMayGo = TRUE
CHECK_DEADLOCK FALSE
INVARIANTS
  TypeOK
  StreamUnlessRefused
  BufferedIsWatched
  ShutdownAfterData
PROPERTIES
  OneWay
  MessagesWhileUp
  PeerCloseIsNoticed
  ShutdownCompletes
