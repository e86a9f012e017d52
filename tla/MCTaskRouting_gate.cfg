SPECIFICATION Spec
CONSTANTS
  Daemon = Daemon
  BridgeConns = {b1}
  SdkConns = {}
  CodexConns = {c1}
  Tasks = {t1}
  None = None
  MaxMsgs = 3
  BufferMax = 1
  BufferDrain = 1
  Replies <- GateReplies
  Targets = {}
  Launches <- GateLaunches
  RoleChanges = {}
  Stalling = {}
INVARIANTS BlockedOnlyUnderReview ReviewingHasRound ExactlyOnePlace
PROPERTIES GateOpensOnlyOnApproval
CHECK_DEADLOCK FALSE
