\* Runs repeat while disturbances last; edits fall between runs.
\* Liveness is checked without symmetry.
SPECIFICATION FairSpec
CONSTANTS
    Files = {p, q}
    Contents = {"prose", "media"}
    Indexable = {"prose"}
    Binary = {}
    NodeNames <- MCNodeNames
    Pieces <- MCPieces
    Names = {"f", "g", "file"}
    Texts = {"t1", "t2"}
    NodeIds = {n1, n2}
    ChunkIds = {c1, c2}
    Schemes = {"s1"}
    Null = Null
    Absent = Absent
    FetchSize = 1
    WalkBatch = 2
    EmbedBatch = 1
    EditWhileRunning = FALSE
    MaxClock = 2
    MaxDisturbances = 2
PROPERTIES
    RunsEnd
    IndexConverges
