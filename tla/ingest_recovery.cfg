SPECIFICATION FairSpec
CONSTANTS
    Tenant = {t1}
    Doc = {d1}
    Worker = {w1, w2}
    Api = {a1}
    ChunkCount <- TwoChunks
    StrayJob <- NoStray
    AckLate = TRUE
    FaultKind = {"postgres", "redis", "index", "crash"}
    MaxFault = 2
    MaxRetry = 2
    None = None
CHECK_DEADLOCK FALSE
PROPERTIES
    EventuallyAllIndexed
