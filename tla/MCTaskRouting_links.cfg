SPECIFICATION FairSpec
CONSTANTS
  Daemon = Daemon
  BridgeConns = {b1}
  SdkConns = {}
  CodexConns = {c1}
  Tasks = {t1}
  None = None
  MaxMsgs = 2
  BufferMax = 1
  BufferDrain = 1
  Replies <- LinkReplies
  Targets = {"lead"}
  Launches <- LinkLaunches
  RoleChanges <- LinkRoles
  Stalling = {b1, c1}
PROPERTIES MessagesAreHandedOver ThreadsComeBack
CHECK_DEADLOCK FALSE
