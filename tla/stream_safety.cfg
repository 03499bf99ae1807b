SPECIFICATION Spec
CONSTANTS
  Half = 5
  SndLimit = 2
  Lifetime = 2
  Continued <- EveryThird
  SmallLengthDelayedAck = TRUE
  DefaultWindowSize = 1
  MaxRxtShift = 1
  KeepTicks = 1
  MaxIdle = 1
  MaxRecords = 2
INVARIANTS
  TypeOK
  RexmtCoversOutstanding
  RexmtOnlyWhileUnacked
PROPERTIES
  ImplementsReliableStream
CHECK_DEADLOCK FALSE
