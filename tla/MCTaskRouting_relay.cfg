SPECIFICATION Spec
CONSTANTS
  Daemon = Daemon
  BridgeConns = {b1, b2}
  SdkConns = {}
  CodexConns = {c1}
  Tasks = {}
  None = None
  MaxMsgs = 3
  BufferMax = 2
  BufferDrain = 1
  Replies <- RelayReplies
  Targets = {"auto"}
  Launches <- RelayLaunches
  RoleChanges = {}
  Stalling = {}
INVARIANTS ExactlyOnePlace BufferBounded
PROPERTIES RegistrationFollowsLink
CHECK_DEADLOCK FALSE
SYMMETRY BridgeSymmetry
