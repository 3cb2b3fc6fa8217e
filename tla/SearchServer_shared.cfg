\* all-v3: the indexer takes the only connection. Liveness.
SPECIFICATION FairSpec
CONSTANTS
    Files = {p}
    Contents = {"prose"}
    Indexable = {"prose"}
    Binary = {}
    NodeNames <- MCNodeNames
    Pieces <- MCPieces
    Names = {"file"}
    Texts = {"t1", "t2"}
    NodeIds = {n1}
    ChunkIds = {c1}
    Schemes = {"new"}
    Null = Null
    QuantMode <- MCQuantMode
    ServerScheme = "new"
    Queries <- MCAuto
    MaxResults = 2
    SharedPool = TRUE
    InitialDatabases <- MCShared
    Seconds = {2}
    MaxCommits = 1
    MaxFaults = 0
    p = p
    q = q
    n1 = n1
    n2 = n2
    c1 = c1
    c2 = c2
CHECK_DEADLOCK FALSE
PROPERTIES
    SearchReturns
    GoroutinesEnd
