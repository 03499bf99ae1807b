SPECIFICATION Spec
CONSTANTS
  RxtCur <- MCRxtCur
  Keep <- MCKeep
  MaxIdle <- MCMaxIdle
  Msl <- MCMsl
  Discon <- MCDiscon
  MaxRxtShift = 6
  MaxRxtShiftConnect = 2
  Overlap = 1
PROPERTIES
  DroppedStaysDropped
CHECK_DEADLOCK FALSE
