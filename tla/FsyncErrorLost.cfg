\* A failed fdatasync and a waiter that arrives late.
SPECIFICATION Spec
CONSTANTS
  c1 = c1
  c2 = c2
  c3 = c3
  Committer <- MCThree
  MaxLsn = 3
  FileSize = 4
  Placements = {"buffered"}
  Modes = {"commit"}
  MaxLeaders = 1
  AdaptiveLeaders = 1
  BatchTrigger = 0
  GrpcThreshold = 0
  Timeouts = FALSE
  Failures = TRUE
  DropsPages = FALSE
SYMMETRY Symmetry3
INVARIANTS
  AckedIsDurable
CHECK_DEADLOCK FALSE
