SPECIFICATION Spec
CONSTANTS
  u1 = u1
  Loop = loop
  Users <- OneUser
  UserOps <- AnyOp
  HighWater = 3
  MaxCalls <- OwnOne_OthersTwo
  MaxUnread = 1
  OwnerMayGo = FALSE
CHECK_DEADLOCK FALSE
INVARIANT
  QueuedDataIsStable
