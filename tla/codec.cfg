SPECIFICATION FairSpec
CONSTANTS
  kCheapPrepend = 2
  kInitialSize = 3
  kExtraSize = 2
  kHeaderLen = 2
  kBase = 2
  kMaxLength = 2
  Messages <- SomeMessages
  MaxSent = 3
CHECK_DEADLOCK FALSE
INVARIANTS
  TypeOK
  MessagesIntact
PROPERTIES
  IsMessageChannel
  EveryMessageArrives
