SPECIFICATION Spec
CONSTANTS
    Key = {1}
    Txn = {1}
    FileSize = 2
    MinAge = 1
    MaxLog = 12
    MaxCrashLog = 0
INVARIANTS
    NoCommitIsUndone
