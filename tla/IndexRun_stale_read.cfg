\* A file edited while it is being indexed, and then edited back.
SPECIFICATION Spec
CONSTANTS
    Files = {p}
    Contents = {"prose", "blank"}
    Indexable = {"prose", "blank"}
    Binary = {}
    NodeNames <- MCNodeNames
    Pieces <- MCPieces
    Names = {"f", "g", "file"}
    Texts = {"t1", "t2"}
    NodeIds = {n1, n2}
    ChunkIds = {c1, c2}
    Schemes = {"s1"}
    Null = Null
    Absent = Absent
    FetchSize = 1
    WalkBatch = 1
    EmbedBatch = 1
    EditWhileRunning = TRUE
    MaxClock = 2
    MaxDisturbances = 2
INVARIANTS
    NoStaleRead
