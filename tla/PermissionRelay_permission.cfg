SPECIFICATION FairSpec
CONSTANTS
  MaxRequests = 2
  MaxConns = 2
  MaxRestarts = 1
  MaxRetries = 2
  BackoffCap = 1
  OutCap = 1
  InCap = 1
  VerdictMax = 1
  VerdictDrain = 1
  None = None
INVARIANTS TypeOK OnePlace ToldWhatTheUserSaid OrderIsKept
PROPERTIES OutboundLeaves VerdictArrives
CHECK_DEADLOCK FALSE
