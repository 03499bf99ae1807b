\* The same with fair threads: a read and the copying of a block may be refused.
CONSTANTS
  NULL = NULL
  Cache = 1
  Capacity = 2
  MaxCmds = 2
  MaxOutages = 1
  MaxRefusals = 1
  Refusable = {"read", "copy"}
  Careful = TRUE
SPECIFICATION FairSpec
PROPERTIES CommandCompletes MirrorRestored
