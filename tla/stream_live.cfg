SPECIFICATION FairSpec
CONSTANTS
  Half = 3
  SndLimit = 1
  Lifetime = 1
  Continued <- EveryThird
  SmallLengthDelayedAck = FALSE
  DefaultWindowSize = 0
  MaxRxtShift = 1
  KeepTicks = 2
  MaxIdle = 2
  MaxRecords = 2
PROPERTIES
  WrittenIsReadOrClosed
  HalfOpenDetected
CHECK_DEADLOCK FALSE
