\* Every I/O may fail, every placement, one leader at a time, and no timeout to rescue
\* a waiter that is not woken.
SPECIFICATION Spec
CONSTANTS
  c1 = c1
  c2 = c2
  c3 = c3
  Committer <- MCThree
  MaxLsn = 3
  FileSize = 2
  Placements = {"buffered", "bumped", "oversized"}
  Modes = {"commit", "flush", "nosync"}
  MaxLeaders = 1
  AdaptiveLeaders = 1
  BatchTrigger = 1
  GrpcThreshold = 0
  Timeouts = FALSE
  Failures = TRUE
  DropsPages = FALSE
SYMMETRY Symmetry3
INVARIANTS
  TypeOK
  WatermarkDurable
  SlotsAccounted
  
CHECK_DEADLOCK FALSE
