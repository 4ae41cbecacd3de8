SPECIFICATION Spec
CONSTANTS
    Tenant = {t1}
    Doc = {d1}
    Worker = {w1, w2}
    Api = {a1, a2}
    ChunkCount <- TwoChunks
    StrayJob <- NoStray
    AckLate = TRUE
    FaultKind = {"postgres", "redis", "index", "crash"}
    MaxFault = 3
    MaxRetry = 2
    None = None
SYMMETRY Symmetric
CHECK_DEADLOCK FALSE
INVARIANTS
    TypeOK
    IndexedIsSearchable
    NoSilentLoss
