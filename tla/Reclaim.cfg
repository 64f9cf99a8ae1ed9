SPECIFICATION Spec
CONSTANTS
    Key = {1}
    Txn = {1}
    FileSize = 2
    MinAge = 1
    MaxLog = 9
    MaxCrashLog = 6
INVARIANTS
    TypeOK
    RecoversCommitted
    LiveVersionsKept
    PendingKept
    SeededUnlessLapped
