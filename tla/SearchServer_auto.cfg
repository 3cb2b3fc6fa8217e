\* The automatic mode while another process commits to the index.
SPECIFICATION Spec
CONSTANTS
    Files = {p, q}
    Contents = {"prose", "memo"}
    Indexable = {"prose", "memo"}
    Binary = {}
    NodeNames <- MCNodeNames
    Pieces <- MCPieces
    Names = {"file"}
    Texts = {"t1", "t2"}
    NodeIds = {n1, n2}
    ChunkIds = {c1, c2}
    Schemes = {"new", "old"}
    Null = Null
    QuantMode <- MCQuantMode
    ServerScheme = "new"
    Queries <- MCAuto
    MaxResults = 2
    SharedPool = FALSE
    InitialDatabases <- MCDatabases
    Seconds = {2}
    MaxCommits = 1
    MaxFaults = 0
    p = p
    q = q
    n1 = n1
    n2 = n2
    c1 = c1
    c2 = c2
CHECK_DEADLOCK FALSE
INVARIANTS
    TypeOK
    HonestCompleteness
    NobodyWaitsForItself
