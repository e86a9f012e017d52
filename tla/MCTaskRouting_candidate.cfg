SPECIFICATION Spec
CONSTANTS
  Daemon = Daemon
  BridgeConns = {b1}
  SdkConns = {s1}
  CodexConns = {c1}
  Tasks = {t1}
  None = None
  MaxMsgs = 1
  BufferMax = 2
  BufferDrain = 1
  Replies <- PairReplies
  Targets = {}
  Launches <- PairLaunches
  RoleChanges = {}
  Stalling = {}
PROPERTY BufferedOnlyWithoutCandidate
CHECK_DEADLOCK FALSE
