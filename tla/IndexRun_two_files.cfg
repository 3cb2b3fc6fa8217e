\* Two files, all row ids shared: rollbacks, reused ids, two binaries, edits at any time.
SPECIFICATION Spec
CONSTANTS
    Files = {p, q}
    Contents = {"long", "prose", "media"}
    Indexable = {"long", "prose"}
    Binary = {}
    NodeNames <- MCNodeNames
    Pieces <- MCPieces
    Names = {"f", "g", "file"}
    Texts = {"t1", "t2"}
    NodeIds = {n1, n2}
    ChunkIds = {c1, c2, c3, c4}
    Schemes = {"s1", "s2"}
    Null = Null
    Absent = Absent
    FetchSize = 1
    WalkBatch = 2
    EmbedBatch = 1
    EditWhileRunning = TRUE
    MaxClock = 2
    MaxDisturbances = 2
SYMMETRY Symmetry
INVARIANTS
    EveryPendingFileAttempted
    IndexInvariant
    SearchIndexesMirrorChunks
    FilesAreAllOrNothing
    VectorsMatchFingerprint
    FailuresAreVisible
    QuietRunIsAccurate
