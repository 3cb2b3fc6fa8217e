\* A required source fails and the completeness stays full.
SPECIFICATION Spec
CONSTANTS
    Files = {p, q}
    Contents = {"prose", "memo"}
    Indexable = {"prose", "memo"}
    Binary = {}
    NodeNames <- MCNodeNames
    Pieces <- MCPieces
    Names = {"file"}
    Texts = {"t1", "t2"}
    NodeIds = {n1, n2}
    ChunkIds = {c1, c2}
    Schemes = {"new"}
    Null = Null
    QuantMode <- MCQuantMode
    ServerScheme = "new"
    Queries <- MCModes
    MaxResults = 2
    SharedPool = FALSE
    InitialDatabases <- MCBoth
    Seconds = {2}
    MaxCommits = 0
    MaxFaults = 1
    p = p
    q = q
    n1 = n1
    n2 = n2
    c1 = c1
    c2 = c2
CHECK_DEADLOCK FALSE
INVARIANTS
    FailedSourceIsAnnounced
