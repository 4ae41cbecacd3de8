SPECIFICATION Spec
CONSTANTS
    Tenant = {t1}
    Doc = {d1}
    Worker = {w1, w2}
    Api = {a1, a2}
    ChunkCount <- TwoChunks
    StrayJob <- NoStray
    AckLate = TRUE
    FaultKind = {"redis"}
    MaxFault = 1
    MaxRetry = 1
    None = None
SYMMETRY Symmetric
CHECK_DEADLOCK FALSE
INVARIANTS
    FailuresAreReplayable
