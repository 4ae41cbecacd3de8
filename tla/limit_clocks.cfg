SPECIFICATION EitherSpec
CONSTANTS
    Request = {r1, r2, r3, r4}
    Limit = 2
    Window = 4
    FailOpen = FALSE
    Ahead = 1
    Late = 1
    MaxTime = 7
SYMMETRY Symmetric
CHECK_DEADLOCK FALSE
INVARIANTS
    TypeOK
    QuotaHolds
    StorageBounded
PROPERTIES
    NoEarlyAdmission
    DenialIsJustified
    ResetLeavesRoom
    ImplementsQuota
