SPECIFICATION Spec
CONSTANTS
    Txns = {1, 2}
    Keys = {1, 2}
    Handles <- MCOwnHandles
    Policies = {"Sync", "NoSync"}
    Xa = {1}
    LateWrites = FALSE
    Failures = TRUE
    MaxWrites = 3
INVARIANTS
    TypeOK
    UnlockedIsRecoverable
    CommittedSurvives
    AbortedStaysAborted
    PreparedIsKept
    OneOutcome
    BeforeImageIsCommitted
    InsertReplacesNothing
CHECK_DEADLOCK FALSE
