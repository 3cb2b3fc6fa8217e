\* One source at a time, failing statements, and a longer run of commits.
SPECIFICATION Spec
CONSTANTS
    Files = {p, q}
    Contents = {"prose", "memo"}
    Indexable = {"prose", "memo"}
    Binary = {}
    NodeNames <- MCNodeNames
    Pieces <- MCPieces
    Names = {"file"}
    Texts = {"t1", "t2"}
    NodeIds = {n1, n2}
    ChunkIds = {c1, c2}
    Schemes = {"new", "old"}
    Null = Null
    QuantMode <- MCQuantMode
    ServerScheme = "new"
    Queries <- MCModes
    MaxResults = 2
    SharedPool = FALSE
    InitialDatabases <- MCDatabases
    Seconds = {2}
    MaxCommits = 2
    MaxFaults = 1
    p = p
    q = q
    n1 = n1
    n2 = n2
    c1 = c1
    c2 = c2
CHECK_DEADLOCK FALSE
INVARIANTS
    UntouchedHitsAreExact
    KNNComparesLikeWithLike
    QuietAnswersAreComplete
