SPECIFICATION HarnessSpec
CONSTANTS
    Tenant = {"ta", "tb"}
    Request = {1, 2, 3}
    Ours = {a1, a2, a3}
    Main = a1
    Second = a2
    Others = {a3}
    Theirs = {b1}
    Chunk <- MCChunk
    Owner <- MCOwner
    DocumentOf <- MCDocumentOf
    Corpora <- MCCorpora
    BenchCorpora <- MCBenchCorpora
    Datasets <- MCDatasets
    Text = {"whole", "cut", "endless"}
    Words <- MCWords
    Quoted <- MCQuoted
    Absent = Absent
    TopK = 2
    Bm25Weight = 11
    VectorWeight = 9
    Scores = {1}
    Cosines = {0, 1}
    Opposite <- MCOpposite
    MaxWrite = 0
    Latency = {1, 4}
    Elapsed = {1, 2, 4}
    Concurrency = 2
    Unit = 78
    Document = {"d1", "d2", "d3"}
    Term = {"audit", "log", "retention"}
    NoReport = NoReport
    NoSummary = NoSummary
CHECK_DEADLOCK FALSE
INVARIANTS
    PassedMeansExpected
    PassesStayInTenant
    ReportAddsUp
    LatenciesAreRanked
    SummaryAddsUp
PROPERTIES
    BenchmarkEnds
