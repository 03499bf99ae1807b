CONSTANTS
  NULL = NULL
  Cache = 1
  Capacity = 2
  MaxCmds = 1
  MaxOutages = 1
  MaxRefusals = 0
  Refusable = {}
  Careful = FALSE
SPECIFICATION Spec
PROPERTY RecoveryDoneInSync
