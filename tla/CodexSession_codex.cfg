SPECIFICATION FairSpec
CONSTANTS
  MaxInputs = 2
  MaxConns = 2
  MaxChanges = 1
  Changes = {"systemError"}
  InjectCap = 2
  InCap = 1
  OutCap = 1
  MaxAttempts = 2
  RawCap = 2
  None = None
INVARIANTS TypeOK TargetIsHonoured PreviewShowsTheMessage StatusFollowsThread
PROPERTIES InputsAreHandedOver 
CHECK_DEADLOCK FALSE
