SPECIFICATION Spec
CONSTANT MaxAttempts = 3
CHECK_DEADLOCK FALSE
INVARIANT
  HandledChannelExists
