\* Up to two leaders under the adaptive ceiling: cohorts, piggybacking, hand-off,
\* timeouts, no-sync flushes, file flips and the group-commit wait.
SPECIFICATION Spec
CONSTANTS
  c1 = c1
  c2 = c2
  c3 = c3
  Committer <- MCThree
  MaxLsn = 4
  FileSize = 2
  Placements = {"buffered"}
  Modes = {"commit", "nosync"}
  MaxLeaders = 1
  AdaptiveLeaders = 2
  BatchTrigger = 1
  GrpcThreshold = 2
  Timeouts = TRUE
  Failures = FALSE
  DropsPages = FALSE
SYMMETRY Symmetry3
INVARIANT AckedIsDurable
PROPERTY ImplementsCommitLog
CHECK_DEADLOCK FALSE
