\* One file through long histories of every kind of content.
SPECIFICATION Spec
CONSTANTS
    Files = {p}
    Contents = {"code", "prose", "media", "late", "blank"}
    Indexable = {"code", "prose", "late", "blank"}
    Binary = {"late"}
    NodeNames <- MCNodeNames
    Pieces <- MCPieces
    Names = {"f", "g", "file"}
    Texts = {"t1", "t2"}
    NodeIds = {n1, n2, n3}
    ChunkIds = {c1, c2, c3}
    Schemes = {"s1"}
    Null = Null
    Absent = Absent
    FetchSize = 1
    WalkBatch = 1
    EmbedBatch = 2
    EditWhileRunning = TRUE
    MaxClock = 3
    MaxDisturbances = 4
SYMMETRY Symmetry
INVARIANTS
    TypeOK
PROPERTIES
    PublishesWholeEditions
    CommitsAreWhole
