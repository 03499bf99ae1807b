\* Disks that are lost and come back, without what their caches lost, and that
\* refuse an I/O, while the host reads and writes.
CONSTANTS
  NULL = NULL
  Cache = 1
  Capacity = 2
  MaxCmds = 2
  MaxOutages = 2
  MaxRefusals = 1
  Refusable = {"read", "write", "copy", "map"}
  Careful = TRUE
SPECIFICATION Spec
INVARIANTS TypeOK CountMatches Recorded
PROPERTIES RecoveryDoneInSync DiskSpec
