SPECIFICATION Spec
CONSTANTS
  Daemon = Daemon
  BridgeConns = {}
  SdkConns = {s1}
  CodexConns = {c1,c2}
  Tasks = {t1,t2}
  None = None
  MaxMsgs = 1
  BufferMax = 2
  BufferDrain = 1
  Replies <- SessionReplies
  Targets = {"lead"}
  Launches <- SessionLaunches
  RoleChanges = {}
  Stalling = {}
INVARIANTS TypeOK PointersOwnTheirSessions
PROPERTIES RoutesStayInTask
CHECK_DEADLOCK FALSE
