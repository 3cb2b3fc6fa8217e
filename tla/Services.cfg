\* Everything may stop: what drives these parts is people and faults.
SPECIFICATION Spec
CONSTANTS
    Processes = {p1, p2}
    Builds = {"int8", "fixed"}
    Migrations = {1, 2, 3}
    Stores <- MCStores
    MaxLaunches = 3
    NoBuild = NoBuild
    NoProcess = NoProcess
    Paths = {"a", "b", "noise"}
    Filtered = {"a", "b"}
    ChannelSize = 1
    MaxChanges = 2
    MaxFailures = 1
    Savers = {p1, p2}
    MaxTries = 2
    MaxSaves = 3
    Nobody = Nobody
    Getters = {p1, p2}
    MaxPieces = 2
    MaxGets = 2
    MaxSourceEdits = 2
    Runs = {p1, p2}
    MaxConcurrent = 1
    RotateAt = 2
    MaxInvocations = 5
    MaxFaults = 2
    Entries = {1, 2, 3}
    Subdirs = {2}
    Passes = {"structural", "embeddings"}
    MaxItems = 1
    MaxNodeId = 3
    MaxWrites = 5
    Connects = {p1, p2}
    Projects = {"app", "fork", "lib"}
    BaseName <- MCBaseName
    Applications = {"claude-desktop", "claude-code", "cursor", "vscode", "windsurf"}
    MaxSettings = 2
    MaxConnects = 3
    Searches = {p1, p2}
    Indexer = Indexer
    Phrases = {"t1", "t2"}
    NoPhrase = NoPhrase
    MaxEmbeds = 3
    MaxBreaks = 1
    Characters = {"a", "b", "A", "aacute", "acute", "han", "!", "space", "tab", "nul"}
    Dropped = {"nul"}
    Whitespace = {"space", "tab"}
    Spaces = {"space", "tab"}
    Ideographs = {"han"}
    Marks = {"acute"}
    Punctuation = {"!"}
    Decompose <- MCDecompose
    Lower <- MCLower
    Vocabulary <- MCVocabulary
    AddedTokens <- MCAddedTokens
    MaxInputChars = 3
    MaxSeqLen = 5
    MaxText = 4
    Options <- MCOptions
    p1 = p1
    p2 = p2
SYMMETRY Symmetry
CHECK_DEADLOCK FALSE
INVARIANTS
    SchemaIsComplete
    LoneDaemonIsReached
    VectorsAreComparable
    EventsTellTheSnapshot
    ApprovalsAreWhole
    CachedCopyIsOfTheSource
    SlotsAreOfRuns
    AuditKeepsTheLatest
    BrowsePages
    InspectIsOfTheHit
    StatusAddsUp
    SettingsSurvive
    EmbeddingsAreOfTheText
    TokensAreOfTheWords
PROPERTIES
    UpgradesAreBackedUp
