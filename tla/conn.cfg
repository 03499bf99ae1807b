SPECIFICATION FairSpec
CONSTANTS
  RxtCur = 1
  Keep = 1
  MaxIdle = 5
  Msl = 4
  Discon = 4
  MaxRxtShift = 6
  MaxRxtShiftConnect = 2
  Overlap = 1
INVARIANTS
  TypeOK
  ReferenceReturned
  MarkedIsDetached
  TimerLeft
PROPERTIES
  ClosedIsFreed
  DeadPeerNoticed
  ConnectEnds
CHECK_DEADLOCK FALSE
