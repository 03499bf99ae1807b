SPECIFICATION NearWrapSpec
CONSTANTS
  Half = 5
  SndLimit = 2
  Lifetime = 2
  Continued <- EveryThird
  SmallLengthDelayedAck = FALSE
  DefaultWindowSize = 0
  MaxRxtShift = 1
  KeepTicks = 1
  MaxIdle = 0
  MaxRecords = 11
INVARIANTS
  InOrder
  AckedWasTaken
  ReorderQueueAhead
  SenderPointers
CHECK_DEADLOCK FALSE
