SPECIFICATION Spec
CONSTANTS
    Key = {1}
    Txn = {1}
    FileSize = 2
    MinAge = 1
    MaxLog = 9
    MaxCrashLog = 0
INVARIANTS
    SeededTreeIsComplete
