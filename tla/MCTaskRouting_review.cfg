SPECIFICATION Spec
CONSTANTS
  Daemon = Daemon
  BridgeConns = {b1}
  SdkConns = {}
  CodexConns = {c1, c2}
  Tasks = {t1}
  None = None
  MaxMsgs = 2
  BufferMax = 2
  BufferDrain = 1
  Replies <- ReviewReplies
  Targets = {}
  Launches <- ReviewLaunches
  RoleChanges = {}
  Stalling = {}
PROPERTY NoLeadToCoderDuringReview
CHECK_DEADLOCK FALSE
