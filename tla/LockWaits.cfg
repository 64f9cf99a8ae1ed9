\* Three lockers, one LSN, two of them replay lockers that steal: the line of
\* waiters, the hand-over, the lock timeout.
SPECIFICATION Spec
CONSTANTS
  Locker = {1, 2, 3}
  NLsns = 1
  ShareGroup <- MCNoGroups
  RequestTypes = {"Read", "Write"}
  Importunate = {2, 3}
  Demoters = {1}
  ReadCommitted = {}
  LockTimeout = TRUE
  TxnTimeout = FALSE
INVARIANTS
  TypeOK
  OwnersCompatible
  WaitersHaveOwner
  WaitsOnce
  OwnedIsRecorded
  ErrorMeansNotGranted
  NoStaleEdge
  NoSilentLoss
PROPERTY
  ImportunateKeepsLocks
