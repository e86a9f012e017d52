SPECIFICATION Spec
CONSTANTS
  MaxMessages = 2
  MaxLaunches = 1
  MaxEvents = 1
  MaxAttach = 1
  MaxFaults = 0
  QueueCap = 2
  Tries = 2
  None = None
INVARIANTS LockedTurnIsAnswered
CHECK_DEADLOCK FALSE
