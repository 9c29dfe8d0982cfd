SPECIFICATION FairSpec
CONSTANTS
  ch1 = ch1
  ch2 = ch2
  fd1 = fd1
  fd2 = fd2
  None = None
  Channels <- TwoChannels
  Fds <- TwoFds
  Conditions <- AnyCondition
  InitSize = 1
  MaxSize = 2
INVARIANTS
  TypeOK
  TablesAgree
  NeverFatal
PROPERTY
  EveryReadyIsReported
