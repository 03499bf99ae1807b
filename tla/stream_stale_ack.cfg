SPECIFICATION Spec
CONSTANTS
  Half = 5
  SndLimit = 2
  Lifetime = 2
  Continued <- EveryThird
  SmallLengthDelayedAck = FALSE
  DefaultWindowSize = 0
  MaxRxtShift = 1
  KeepTicks = 1
  MaxIdle = 1
  MaxRecords = 2
INVARIANTS
  RexmtFindsRecord
CHECK_DEADLOCK FALSE
