SPECIFICATION EitherSpec
CONSTANTS
    Tenant = {t1, t2}
    Doc = {d1, d2}
    Worker = {w1}
    Api = {a1}
    ChunkCount <- OneBlank
    StrayJob <- StrayOfOneTenant
    AckLate = FALSE
    FaultKind = {"postgres", "index"}
    MaxFault = 2
    MaxRetry = 2
    None = None
CHECK_DEADLOCK FALSE
INVARIANTS
    JobsNameStoredDocuments
    TenantIsolation
    OneJobPerDocument
    RowIsCoherent
    NoSilentLoss
PROPERTIES
    ReplayMovesOneEntry
    ReplaysStayInTenant
    OnlyReplaysRepeat
