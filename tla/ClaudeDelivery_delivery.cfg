SPECIFICATION Spec
CONSTANTS
  MaxMessages = 2
  MaxLaunches = 2
  MaxEvents = 3
  MaxAttach = 1
  MaxFaults = 1
  QueueCap = 1
  Tries = 2
  None = None
INVARIANTS TypeOK UndisturbedTurnIsAnsweredOnce PreviewHasTimer PreviewIsOfTheTurn
CHECK_DEADLOCK FALSE
