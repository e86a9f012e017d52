SPECIFICATION FairSpec
CONSTANTS
  Daemon = Daemon
  MaxProcs = 3
  Sockets = {w1, w2}
  MaxAttempts = 2
  None = None
INVARIANTS TypeOK OnlineIsCurrent
PROPERTIES ReadyByOwnProcess LiveSocketStays LossIsResolved LoopComesBack
CHECK_DEADLOCK FALSE
