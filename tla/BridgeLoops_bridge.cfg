SPECIFICATION FairSpec
CONSTANTS
  MaxCalls = 2
  MaxMessages = 3
  MaxConns = 2
  Strangers = {2}
  OutCap = 1
  InCap = 1
  PreInitCap = 1
  BackoffCap = 1
  MaxRetries = 2
  None = None
INVARIANTS TypeOK HeardInOrder RepliesInOrder
PROPERTIES MessagesAreHandedOver RepliesAreHandedOver WaitsEnd
CHECK_DEADLOCK FALSE
