SPECIFICATION Spec
CONSTANTS
  RxtCur <- MCRxtCur
  Keep <- MCKeep
  MaxIdle <- MCMaxIdle
  Msl <- MCMsl
  Discon <- MCDiscon
  MaxRxtShift = 6
  MaxRxtShiftConnect = 2
  Overlap = 1
INVARIANTS
  BackPointerLive
CHECK_DEADLOCK FALSE
