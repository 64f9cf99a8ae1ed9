\* Two lockers, all five lock types: every upgrade and every conflict.
SPECIFICATION Spec
CONSTANTS
  Locker = {1, 2}
  NLsns = 1
  ShareGroup <- MCNoGroups
  RequestTypes = {"Read", "Write", "RangeRead", "RangeWrite", "RangeInsert"}
  Importunate = {}
  Demoters = {1}
  ReadCommitted = {2}
  LockTimeout = TRUE
  TxnTimeout = TRUE
INVARIANT OwnersCompatible
