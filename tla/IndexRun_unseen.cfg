\* A file that is there but cannot be read during one walk.
SPECIFICATION Spec
CONSTANTS
    Files = {p}
    Contents = {"prose"}
    Indexable = {"prose"}
    Binary = {}
    NodeNames <- MCNodeNames
    Pieces <- MCPieces
    Names = {"f", "g", "file"}
    Texts = {"t1", "t2"}
    NodeIds = {n1, n2}
    ChunkIds = {c1, c2}
    Schemes = {"s1"}
    Null = Null
    Absent = Absent
    FetchSize = 1
    WalkBatch = 1
    EmbedBatch = 1
    EditWhileRunning = FALSE
    MaxClock = 2
    MaxDisturbances = 1
PROPERTIES
    UnseenFilesDisappeared
