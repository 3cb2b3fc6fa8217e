# foldermcp in TLA+

This directory holds TLA+ models of foldermcp, the TLC configurations that check
them on small instances, and proofs of their main results for TLAPS. Paths are
relative to the repository root; `pipeline/runner.go` and the like are short for
`internal/v3/pipeline/runner.go`.

## 1. The system

foldermcp is two programs in one binary.

**v3** is a local search engine. An *indexer* (`index-v3`, or a goroutine of
`all-v3`) walks a workspace and fills a SQLite database with files, nodes
(symbols or whole files), chunks of text, a full-text index and a vector table.
A *server* (`serve-v3`, or the same `all-v3` process) answers gRPC searches from
that database, and a stateless *router* translates MCP tool calls into gRPC.

**v0.1** is an MCP tool server: it scans a project for functions, keeps their
approval state in another SQLite database, lets an operator review them, and
executes the approved ones in subprocesses.

| Part | State it keeps | Operations | What is hard | What makes it correct |
|---|---|---|---|---|
| walker (`walker/`) | batch of unflushed rows | hash, classify, upsert | reads a file several times; passes silently over unreadable ones | every readable file has a row with its hash |
| pipeline runner (`pipeline/`) | pending ids, attempted set, embedding buffer, current pass | one transaction per file: delete, extract, chunk, embed, commit | errors, panics, cancellation and crashes anywhere; a selector that keeps returning failed files | a file is indexed whole or not at all; failures are visible; later runs repair |
| index database (`store/migrations`) | seven tables | cascades and triggers | the vector and text indexes are outside the foreign keys; row ids are reused | the indexes mirror the chunk rows |
| fingerprint (`store/fingerprint.go`, `embed/writer.go`, `embed/compat.go`) | one row | check, write; read-side gate | binaries of different versions over one store | vectors of one scheme only |
| migrations and backup (`store/migrate.go`, `store/snapshot.go`) | schema version, `pre-migration.db` | apply, snapshot | several openers, crashes between steps | the schema is what its version says; data are changed only under a backup |
| daemon start-up (`transport`, `cmd/foldermcp/v3_*.go`) | socket or pipe, gates | listen, gate, assemble, serve | what a crashed predecessor left; another daemon on the same store | the endpoint leads to the daemon; servers compare vectors of their own scheme |
| embedder and tokenizer (`embed/onnx.go`, `embed/query.go`, `embed/berttok`) | tensors, session, two `sync.Once` | init, embed, close, encode | tensors shared by all searches; one environment per process | a vector is of the text it was asked for |
| browse, inspect, status (`grpc/tools`, `grpc/admin`) | a cursor, a node id | page, fetch, count | each statement sees another index | nothing is skipped, mixed up or counted twice for no reason |
| search (`grpc/tools`, `grpc/query`) | three goroutines per call, a one-connection pool | match, hydrate, fuse | deadline, partial answers, index changing between statements | honest completeness |
| state store and review (`internal/state`, `cmd/foldermcp/review.go`) | tool rows, `foldermcp.yaml` | upsert, transition, approve | several processes; steps that fail half way | what is served is what was approved |
| MCP server (`internal/server`) | registered handlers | invoke, read resource | concurrent calls of one handler | each call uses the row it read |
| executor (`internal/sandbox`) | semaphore, cached `.env` | run | timeouts while waiting | slots are returned |
| audit log, cache, watcher, approvals (`internal/audit`, `cache`, `watcher`, `workspace`) | files, a channel, a lock file | rotate, copy, poll, lock | failing I/O, dropped events, stale locks | what is kept is whole and in order |
| connect (`cmd/foldermcp/connect.go`) | another program's settings | read, write beside, rename | crashes; the other program writes as well | settings survive |

The parts meet in five places: the indexer and the server share the database
file (and in `all-v3` its only connection); any number of v3 processes may be started
on one store directory; the review command, the scan and the
tool server share the state store; the router sees only gRPC responses; and the
file system changes under all of them.

`PROJECT.json` lists every part with its status, and every hazard with the line
where it bites.

## 2. Modules

| Module | What it is |
|---|---|
| `IndexStore` | the database as a value: tables, cascades, triggers, and one operator per SQL statement |
| `IndexRun` | the indexer process over that database, with the disk, the clock, faults and crashes |
| `IndexContract` | the abstract specification: what a reader of the index may ever see |
| `IndexRunInvariant` | the inductive invariant of `IndexRun`, named part by part |
| `IndexStoreProofs` | one lemma per statement of `IndexStore`: what it does to a sound database |
| `IndexRunProofs` | the proof of the invariant, and the theorems that follow |
| `IndexCommitsProofs` | what a transaction holds at each step, and from it: all or nothing, the two refinements, what a run attempts and reports, that a quiet run is accurate, and that a run is bounded |
| `MCIndexRun` | the instances of `IndexRun` that TLC checks |
| `IndexWriter` | the database as another process sees it: one step per commit of the indexer |
| `SearchServer` | one search, from the start of the server to the answer, while the indexer commits |
| `SearchServerProofs` | what every commit of the indexer preserves; the invariants of the search and their proofs |
| `MCSearchServer` | the instances of `SearchServer` that TLC checks |
| `IndexDaemon` | `index-v3`, `all-v3` and `serve-v3` as processes on one store directory: opening, migrating, listening, gates, the fingerprint |
| `IndexTools` | browse, inspect and status beside an indexer |
| `IndexServicesProofs` | the properties of `IndexDaemon` and of `IndexTools`, proved |
| `QueryEmbedder` | the embedders of a process: locks, initialisation, shared tensors, `Close` |
| `BertTokenizer` | the tokenizer as an algorithm, with what it should compute said independently |
| `BertTokenizerProofs` | that the two agree |
| `ToolStore` | v0.1's data: tool rows and states, `foldermcp.yaml`, the scan and its numbering of duplicates |
| `ToolReview` | `init` and `review` as processes over store, configuration and disk |
| `ToolServer` | `serve`: the handler of a tool and its concurrent calls, beside the commands of `ToolReview` |
| `ToolServerProofs` | the five properties of the tool life cycle, proved |
| `MCToolServer` | the instance of `ToolServer` that TLC checks |
| `ToolRuntime` | the executor's slots and timeouts, and the audit log with its rotation, in two processes |
| `FolderWatch` | the polling watcher, its channel and its reader |
| `SharedApprovals` | `SaveApprovals` of several machines: the lock file, the temporary file |
| `SourceCache` | the copy of a source on a network share |
| `ClientConfig` | `connect` rewriting the settings of another program that writes them too |
| `ServicesProofs` | the properties of `QueryEmbedder`, `FolderWatch`, `SharedApprovals`, `SourceCache`, `ToolRuntime` and `ClientConfig`, proved |
| `MCServices` | one instance of the nine parts that share no state |

`IndexRun` implements both `IndexContract` and `IndexWriter`; `SearchServer`
extends `IndexWriter`, shares its `db`, and has its commits for an indexer. What the search
promises therefore holds against everything that the indexer can do to the
database, and not against an indexer made up for the purpose. `ToolServer` extends
`ToolReview`, which extends `ToolStore`: one state store and one disk, changed by
the commands while the server's calls read them.

`MCServices` composes `IndexDaemon`, `FolderWatch`, `SharedApprovals`,
`SourceCache`, `ToolRuntime`, `IndexTools`, `ClientConfig`, `QueryEmbedder` and
`BertTokenizer`. In the program these parts share no variable and no file, so a
product of their states would only multiply numbers: a behaviour chooses one part
(`focus`) and is a behaviour of that part, and the state space is the sum of the
nine.

### How the index model corresponds to the code

*State.* `db` is the committed database. `tx` is the view inside the open
per-file transaction, equal to `db` when none is open, so that commit is
`db' = tx` and rollback is `tx' = db`. `pc` is the position in `Run`; `ids` and
`attempted` are its locals; `cur`, `body`, `todo` the file in hand, its content
and the chunks not yet buffered; `pass` and `embedBuf` are the fields
`Runner.currentPass` and `Runner.embedBuf`; `visited`, `hash` and `batch` are the
walk's. `quiet`, `unlogged` and `torn` only observe.

*Steps.* One action is one SQL transaction, one statement outside a transaction,
or one read of the file system; inside the per-file transaction one action is
one stage, because another process sees none of them. A run goes

    StartRun, {HashFile, ClassifyFile | SkipUnhashed | SkipUnclassified}*,
    FinishWalk, ReconcileDeletions, EnsureFingerprint | RefuseFingerprint,
    {FetchPending, {BeginFile,
        SkipOther | ReadFile [RunStructural RunChunker
                              {BufferChunk | FlushEmbedBatch}* FinishEmbeddings],
        CommitFile | FailFile | FailFileUnrecorded}*}*, FinishRun

and `Interrupt` (a kill, a cancellation, or a failing statement outside the
per-file transaction, all of which end the run and roll the transaction back)
may fall anywhere. `Edit`, `Tick` and `DeleteIndex` are the environment's: files
change, whole seconds pass, and between runs the operator may delete the
database, which is the recovery `store/fingerprint.go` names.

*Abstractions.* A content stands for its SHA-256, and its nodes, chunks and class
are functions of it (`NodeNames`, `Pieces`, `Indexable`, `Binary`). Tree-sitter,
tokenizer, splitter and embedder are therefore out of sight, but that each of
them may fail is not: `FailFile` may happen at every stage. A file above the
32 MB cap and one its extractor rejects are such failures. The classes image,
media, data, unknown and binary documents are one class, "other": all are
skipped. Row ids come from a finite pool and a free id may be used again, which
is more than SQLite does (it reuses only the highest deleted id). Marking a pass
'running' and then 'done' within one stage is one step, since nothing reads the
table in between. The walk visits files in any order; the code's is
lexical, and nothing below depends on it. One indexer runs at a time
(`pipeline/pipeline.go:33`).

### How the search model corresponds to the code

*State.* `server` is what start-up leaves behind: whether there is an embedder,
and `VectorHandler.Disabled`. `conn` is the pool's only connection
(`store/open.go:46`) and says who has it. `src` holds the three goroutines of
`SearchBroadly`, each with the node ids it found, the rows and texts it hydrated
them with, and the status it answers; `ch` is their channel, `turns` the
iterations of the collecting loop, `resp` the response. `gate`, `compared` and
`touched` only observe.

*Steps.* `OpenServer` and `NewServer` each read the fingerprint; `StartSearch` (or
`RefuseSemantic`) starts the goroutines, and each goes

    [EmbedQuery] (AnswerUnqueried | Match EndMatch [Hydrate EndHydrate
        {FetchChunks EndFetch}* AnswerHydrated]) Send

with `FailQuery` possible wherever a statement runs or waits. A query is two
steps, so that it is seen to hold the connection; it reads the snapshot at the
first. The handler takes one `Collect` or `CollectDeadline` per goroutine
started, then `Enforce` or `Fuse`, and the router's `AnnotateCompleteness` hands
the result over. `IndexerCommit` is `Commit`, any step of `IndexWriter` but the
deletion of the database; with `SharedPool` it first takes the connection
(`IndexerBegin`) and may roll back.

*Abstractions.* The query is the set of texts its words match and the set of
files its path words match. Scores are left out: which rows survive a `LIMIT` or
the cut to `MaxResults` is open. A list is a set, so a node that one source
lists twice is listed once. `CONTRACT_ERROR` and `DEGRADED` are one status, since
no reader tells them apart. One call at a time; concurrent calls would share
nothing but the connection and the lock inside `EmbedQuery`, and the model lets
both be withheld for ever.

### How the tool life cycle corresponds to the code

*State.* `store` is the SQLite state store of v0.1 (one row per tool, one state per
resource), `config` is `foldermcp.yaml`, `disk` the source files. `cmd` holds, for
each operator, the command running and its locals: the configuration it loaded,
the decisions left, the hash it computed. `server` and `t` are the registered tools
and the variable that every handler closes over (`server/mcp.go:216`); `call`
holds the calls. `quiet`, `approved`, `excused`, `synced`, `lone` and `barred` only observe.

*Steps.* A command loads the configuration when it starts. `init` goes

    StatConfig [CreateConfig FillConfig] Scan* UpsertTools UpsertNextResource*

with one `Scan` for each file, which may fail to be extracted; `review` goes

    {[Ask] (DecideResource | RefuseTransition | WarnOfFailure |
        CheckTransition (ToolNotFound | WarnOfFailure |
            UpdateToolState [[LookUpTool] HashSource [StoreHash]]))}* [TruncateConfig SaveConfig]

since `UpdateToolState` of `state/store.go` reads the row, validates, and then
updates in a second statement. `WarnOfFailure` is the error that `--confirm` only warns
of. `LoseHash` may take the place of `LookUpTool`, `HashSource` and `StoreHash`: a lookup
that fails, a source that cannot be read and a hash that cannot be stored are a warning
at most, and the review goes on with a tool that is served without a hash
(`review.go:203-215`). `Kill` may fall anywhere; it stands for a signal and for every
call whose failure ends the command. `Edit` changes files. A call goes

    BeginCall ReadRow BindSource BindState CheckTool [HashTool CompareHash] Execute Reply

and ends early where the code returns an error. `t = *fresh` is unsynchronised, a
data race when two calls of one tool meet: it is a copy in two halves, in the order
of the fields, and another call may read between them.

*Abstractions.* A content is its hash. A tool's name is a tuple, so that the name
that a scan gives a duplicate and the same name spelled in a file are equal. What a
file defines is a constant. In a call of the server, a `GetTool` that fails is one that
finds no row. A configuration file that is truncated is empty, which `Load` takes for the
default; one that is written over what another command has written meanwhile, or in part,
may be one that `Load` refuses (`Unreadable`). A tool's row is never deleted, and its dependency state never changes: nothing in the program
does either.

### How the processes on one store correspond to the code

*State.* `db` has what decides between processes: the stored `schema_version`, the
migrations whose tables exist, the fingerprint and the schemes of the vectors.
`backup` is `pre-migration.db`, `endpoint` the process that the socket, or the pipe
named in the endpoint file, leads to. `proc` gives each process its position, what it
read, and the answers of its two gates (`semantic` of the commands, `vector` of
`NewServer`); `runner` is the stage of its indexer. `alone` and `mixed` observe.

*Steps.* A process goes

    Launch OpenStore [ReadSchemaVersion [ClearBackup BeginVacuum EndVacuum] ApplyMigration*]
    index-v3: IndexModel CheckFingerprint ReadFingerprint [WriteFingerprint] WriteBatch* FinishRun
    others:   RemoveSocket Bind [SecureSocket] ResolveModel NewServer, serving, Shutdown

where `all-v3` runs the indexer's steps while it serves, `SecureSocket` is of Unix
only, and `KillProcess` (a crash, or an error that ends the command without cleaning
up) may fall anywhere. A step is a statement, a transaction or a system call, since
nothing but SQLite keeps two processes apart.

*Abstractions.* Of a migration the model knows what it creates and whether the file
tolerates a replay, which all but `0001_init.sql` do. A locked database that does not
come free is an error, hence a kill. The version is read in one step, though the code
looks first if the table is there: one of the two statements decides the answer (a missing
table is version 0), and the step is that one. Whether a read-only open of a missing file fails
is left to the driver: both happen.

### How the other parts correspond to the code

Each module's header says what its variables stand for. In all of them a step is one
system call, one statement or one critical section, and a content is known by a number.
A call that may fail and whose failure makes a difference to what follows fails in the
model as well, bounded where it would otherwise do so for ever; where a failure only ends
an operation it is one with a crash at that point.

- `ToolRuntime`: `host` are the `serve` process and a `test` command with their
  executor (slots, `dotEnvOnce`) and logger (open file, mutex); `files` are all
  audit files ever made, so that a process can hold one open that has been renamed. A
  file is a list of lines, each of an entry and whole or not: `WriteEntry` may fail with
  nothing written or with a part of the line, and what comes next is appended to that.
- `FolderWatch`: `seen` is the snapshot being taken; events are decided entry by entry,
  by `News`, created and modified files before deleted ones as the two loops of the code do.
- `SharedApprovals`: a lock or a file knows who made it; bytes go to the file that was
  opened, whatever its name is by then. A write or a rename that fails gives the lock back
  (`FailToWrite`, `FailToRename`).
- `SourceCache`: a content is a sequence of pieces. A `Get` hashes and copies piece by piece
  (`HashPiece`, `CopyPiece`) from the file it opened, wherever that is by now, while others
  edit the source in place, put another file there or remove it; either loop may be
  cut short at every piece.
- `IndexTools`: the index is `IndexRun`'s, by its transactions; a session follows the
  cursors of `BrowseFolder` to the end, inspects a hit, or counts.
- `ClientConfig`: an object keeps the number of its file across a rename.
- `QueryEmbedder`: `query` is the embedder of the searches, guarded by the mutex of
  `EmbedQuery`; `index` is the runner's. A vector is known by the ids and by the mask
  that made it.
- `BertTokenizer`: characters are known by their classes. `Encode` works in passes as
  the code does; `TokensOf` says of positions of the text what the ids should be. Characters
  are decomposed one by one: that Unicode also reorders a run of marks makes no
  difference, since the pass that decomposes drops the marks next.

## 3. Runs

| Run | Instance | What it shows |
|---|---|---|
| `two_files` | 2 files, 3 contents, 2 node and 4 chunk ids shared by both, 2 binaries, 2 disturbances | the inductive invariant; search indexes mirror the chunks; files are all or nothing; vectors match the fingerprint; the growing limit reaches every pending file; failures are visible; a quiet run is accurate |
| `one_file` | 1 file, all five kinds of content, 4 disturbances, clock to 3 | the indexer implements `IndexContract` (`PublishesWholeEditions`) and `IndexWriter` (`CommitsAreWhole`) |
| `converges` | 2 files fetched one at a time, edits between runs only, with fairness | every run ends, failed files included; once disturbances stop, repeated runs make the index agree with the disk for good |
| `stale_read` | expected violation of `NoStaleRead` | a file edited between hashing and reading and then edited back is served stale for ever |
| `unseen` | expected violation of `UnseenFilesDisappeared` | a file that is unreadable during one walk is marked deleted |
| `search_auto` | three sources, 2 files, 1 commit, the deadline at any time, 3 initial indexes | a response that claims to be complete is; no goroutine waits for a connection it holds |
| `search_modes` | one source at a time and an unknown mode, queries without terms, 2 commits, 1 fault | hits on untouched nodes are exact even when ids are freed and reused within the call; the gate keeps codes of two quantisations apart; an answer graded "ok" has every match |
| `search_shared` | three sources and an indexer on one connection, with fairness | the call returns and its goroutines end |
| `unannounced` | expected violation of `FailedSourceIsAnnounced` | in a single-source mode the failed source leaves completeness "full" and no warning |
| `fresh_index` | expected violation of `FreshIndexIsComparable` | the gate is read once, before another binary fills the index |
| `tools` | 2 operators, 2 calls, 2 source files that may both define a tool, every review mode, 1 edit, kill or failing call (2 beside 1 command and 1 call), 6 initial directories | configuration and store agree after commands that ran one at a time; what is served is sealed, or its hash was lost in one of the ways the code warns of; `diff` settles; what a call verified was approved; a lone call never runs a tool that is disabled, or whose files hold nothing approved, all the while |
| `services` | each of the nine parts of `MCServices`, with two actors each | one property or more of each part: see below |

What `services` shows, by part: *IndexDaemon* `SchemaIsComplete`, `UpgradesAreBackedUp`,
`LoneDaemonIsReached`, `VectorsAreComparable`; *FolderWatch* `EventsTellTheSnapshot`;
*SharedApprovals* `ApprovalsAreWhole`; *SourceCache* `CachedCopyIsOfTheSource`;
*ToolRuntime* `SlotsAreOfRuns`, `AuditKeepsTheLatest`; *IndexTools* `BrowsePages`,
`InspectIsOfTheHit`, `StatusAddsUp`; *ClientConfig* `SettingsSurvive`; *QueryEmbedder*
`EmbeddingsAreOfTheText`; *BertTokenizer* `TokensAreOfTheWords`.

**Bounds.** `MaxDisturbances` bounds edits, faults, interruptions and index
deletions together: with two, a crash can follow a fault, an edit can be undone,
and every property has a mutant that is caught within the bound. `MaxClock`
bounds the seconds: with two, a run can start in the second of an earlier walk
or in the next, which is all that `last_seen < start` can tell apart. Node and
chunk ids are just enough to hold both files at once, so an id freed by one is
the id the other gets. `FetchSize`, `WalkBatch` and `EmbedBatch` are 100, 100
and 32 in the code and 1 or 2 here, so that their limits are reached.

In the search runs two commits are enough for a node id to be given up (an
upsert that changes a hash) and taken by another file (a file's transaction);
one suffices to touch a node between any two statements of the call. The
initial indexes are states that `IndexRun` reaches. `MaxResults` is 2, which
halves to 1 for the filename source, so that its limit bites.

In `tools` a budget is shared: two commands and one call, or one command and two calls,
with one disturbance, that is, an edit, a kill or a call that fails; or one command, one call and two, so that a file can
be edited and edited back while a call holds the row it read. Two commands are an overlap, or a later command that meets what
an earlier one left; the initial directories are states that commands reach, one with
a tool approved and one whose approved content has gone. Two calls of one tool are
enough for the race on `t`.

In `services` every part has two actors and can start one more: three launches are two
overlapping processes and a successor; three migrations leave one to replay before and
one after; a channel of one entry overflows with two changes; three saves, connects
and embeddings are two that overlap and one that finds what they left; two gets of a
source of up to two pieces, edited twice, are one that is cut short or mixes two contents
and one that finds what it left, and the copy an earlier `Get` left is there at first; five
invocations rotate the log twice (`RotateAt` is 2), with two failures in between; three
entries and pages of one give a client two cursors to go stale; three node ids are
handed out again. Texts have up to four characters of ten classes: enough for a piece
that is the longest but leads nowhere, two overlapping special tokens, and more tokens
than fit. The two actors are interchangeable in every part and in `tools` (`Symmetry`),
where only invariants and one action property without an actor's name are checked.

`tools` and `services` switch deadlock checking off: commands, changes and faults are
bounded, and when they are used up nothing need happen.

**Fairness.** `FairSpec` of `IndexRun` asks that the indexer, once started, keeps taking steps
(one goroutine that never waits on another process), that the clock advances,
and that somebody runs the indexer again and again; the last is the operator's
habit (the README calls re-indexing a manual re-run) and is needed only for
`IndexConverges`. Nothing is asked of faults, edits or interruptions; they stop
because they are bounded. `converges` lets edits fall between runs only: an edit
during a run can be torn, which is what `stale_read` shows.

`FairSpec` of `SearchServer` asks that every goroutine and the handler are
scheduled and that the timer fires. It asks nothing of `EmbedQuery`, which waits
for a lock and runs native code that no context cancels, and nothing of the
indexer, which may keep the connection for as long as a file takes: the call
must return all the same. The search runs switch deadlock checking off because
one call is modelled, and the system rests when it has been answered.

**Exemptions.** `torn` is the set of files last committed from a content that
was not the one hashed or classified. `QuietRunIsAccurate` and `IndexConverges`
exempt exactly these, and `QuietRunIsAccurate` also a vanished file last seen in
the second in which the run started.

## 4. Proofs

`IndexRunProofs` proves for all values of the constants (under the named
assumptions `ContentAssumption`, `FilesAssumption`, `NullAssumption`,
`SizesAssumption`, `AbsentAssumption`, `QueueAssumption`, which TLC evaluates in every run):

- `IndexInvariantHolds`: `Spec => []IndexInvariant`
- `TypeCorrect`: `Spec => []TypeOK`
- `SearchIndexesAreMirrors`: `Spec => []SearchIndexesMirrorChunks`
- `VectorsHaveTheFingerprint`: `Spec => []VectorsMatchFingerprint`

*The argument.* The mirror property is not inductive: it speaks of `db` only,
and what `CommitFile` publishes is `tx`. The invariant therefore says of both
`db` and `tx` that references resolve, that the text index is the chunk table,
and that a vector belongs to a chunk, embeds its text and has the scheme of the
fingerprint (`Sound`). Inside a transaction chunks exist before their vectors,
so it says which chunks may still lack one (`VectorsMissingOnly`): those to be
buffered and those in the buffer; `FinishEmbeddings` needs both to be empty. The
buffer holds copies of texts, so it must agree with the chunk rows
(`BufferMatchesChunks`), which is where emptying it in `BeginFile` matters: a
buffer left by a failed file names ids that the next file reuses. A scheme may
be written only because the gate was passed by this binary (`GatePassed`). One
lemma per SQL statement says how it changes `Sound` and the missing vectors, and
one lemma per action applies them.

`IndexCommitsProofs` goes on from there, under the same assumptions, to what is
committed and what a run does:

- `CommitInvariantHolds`: `Spec => []CommitInvariant`
- `FilesStayAllOrNothing`: `Spec => []FilesAreAllOrNothing`
- `CommitsAreAlwaysWhole`: `Spec => CommitsAreWhole`, that is, `IndexRun` implements `IndexWriter`
- `PublishesOnlyWholeEditions`: `Spec => PublishesWholeEditions`, that is, it implements `IndexContract`
- `EveryPendingFileIsAttempted`: `Spec => []EveryPendingFileAttempted`
- `FailuresStayVisible`: `Spec => []FailuresAreVisible`
- `QuietRunsAreAccurate`: `Spec => []QuietRunIsAccurate`
- `RunsAreBounded`: `Spec => [][RunAdvances]_vars`, if `ChunkIds` is finite

*The argument.* None of these speaks of the open transaction, and all depend on what
is in it when it commits. `Transaction` says so step by step: the transaction is the
committed database less the rows of `cur`, with the nodes of the content that was
read once the structural pass is over (`NodesWritten`), its chunks after the chunker
(`ChunksWritten`), a vector for each chunk that is neither to be buffered nor in the
buffer (`VectorsWritten`), and the statuses of the passes so far (`StatusWritten`).
At `CommitFile` this is a whole edition of one content (`IndexedFile`), or nothing
(`SkippedFile`), and nothing else has changed (`OthersCommitted`). The committed
database changes only at the few steps that `StepsOfTheDatabase` lists; each is
then a commit of `IndexWriter` for the same statements, and publishes or withdraws
whole editions as `IndexContract` allows. That the rows found dirty are of files
that have left nothing takes the trigger on a changed hash (`UpsertedWhole`). For
the limit it suffices that a query that returned only attempted files was longer
than their number (`LimitNotReached`, with `PendingIds` for what it returned). A
failure stays visible because after the walk only its own attempt writes a file's
status, and it is attempted once in a run (`Reported`).

`QuietRunIsAccurate` speaks of the end of a run and rests on every stage before it
(`AccurateInvariant`). The walk has queued or written what it found, and touched
nothing else (`Walked`); so every row is fresh, or of a file that is gone and was
last seen before the run or in its first second (`RowsOfTheRun`), which is where whole
seconds and the clock matter (`Dated`). A file that was attempted has come to what
the disk asks for (`FilesOfTheRun`). A file that was not attempted was not pending,
hence indexed, and what an earlier run indexed is the content it hashed
(`IndexedAsHashed`) unless the file is `torn`; so the hash in a fresh row says that
it is still right. This is the reason why skipping an unchanged file is sound.

`RunsAreBounded` is the safety half of `RunsEnd`. `RunAhead` counts what a run may
still do: two steps for each path of the walk, and for each file that has not been
attempted its stages and two for each chunk. Every step of the indexer makes it
smaller (`RunAdvances`), and none of the environment makes it larger but for a start, which
sets it to at most |Files| (2 |ChunkIds| + 9) + 6. What fails is not
tried again in the same run, and a turn of the loop that finds no new file is the
last. The finite `ChunkIds` say that a file has finitely many chunks.

`SearchServerProofs` begins with `IndexWriter`: of the database that another process
sees, its tables are always sound (`IndexIsAlwaysSound`), from the lemmas about
statements; each commit is a composition of them, and `Seconds \subseteq Nat` is
assumed of the clock. It goes on to prove for every database, query, limit, number of commits
and number of faults (under the above and `SearchAssumption`, which asks of the
initial databases what `IndexIsAlwaysSound` shows of every database):

- `ServerTypeCorrect`: `Spec => []TypeOK`
- `ResponsesAreHonest`: `Spec => []HonestCompleteness`
- `ConnectionIsGivenBack`: `Spec => []NobodyWaitsForItself`
- `NoForeignVectors`: `Spec => []KNNComparesLikeWithLike`
- `HitsAreOfTheIndex`: `Spec => []UntouchedHitsAreExact`
- `QuietSearchesFindAll`: `Spec => []QuietAnswersAreComplete`
- `CallsAreBounded`: `Spec => [][CallAdvances]_vars`
- `NobodyWaitsToAnswer`: `Spec => []AnswersFindRoom`

`SearchAssumption` says besides that the pools of ids are finite, as every database
is, and `HitAssumption` that the mark for a node that is not among the hits is no hit.

*The argument.* `HonestCompleteness` speaks of the finished call; why it holds is
a matter of counting. The loop runs as often as goroutines were started and
never looks at which of them answered. `CallInvariant` says that an answer is in
the channel or collected, once and never both (`AnswersTravelOnce`), and that as
long as no deadline was taken each turn was an answer and each answer without a
finished query is recorded as failed (`TurnsAreAnswers`). A subset of the started
sources that is as large as they are is all of them. After the return the
statuses stay, because a goroutine that has sent is gone. The connection is held
exactly by the goroutine in a stage with open rows (`ConnectionIsHeld`). For the
gate, `GateInvariant` says that the fingerprint the server found is still the
stored one and that an enabled vector source agrees with it; that it stays, and
that all vectors have its scheme, is what `CommitSound` says of every commit.
Where no fingerprint was found nothing is promised: see `fresh_index`.

What a hit says was read by several statements, and the index moved between them. So
`ListInvariant` says it of every goroutine at every stage: what it found of a node that
no commit touched is what its query finds now, the row it read is the node's, and the
texts it read are the chunks' (`Accurate`). As long as no commit fell into the call, it
has found all that its query matches, from the end of the match on, and a row for each
match once the hydration has begun (`Thorough`). Neither needs more of a commit than what
`touched` records of it: what a query finds of a node depends on nothing outside the
node's picture, its row, its file and its chunks with their vectors (`Picture`). The fusion
then only has to keep what the executed sources hold, and that it took all of them when
the answer is "ok" is `CallInvariant` again.

The last two are the safety half of `SearchReturns` and `GoroutinesEnd`. `CallAhead`
counts what the handler, its timer and the three goroutines may still do; each step
of theirs makes it smaller, no commit makes it larger, and it is never more than
six for each node and thirty. And the step that could block for ever, the send of an
answer that nobody collects, never does: the channel has room for all three.

`IndexServicesProofs` proves of `IndexDaemon` for any number of processes, binaries and versions
(under `DaemonAssumption` and `StoresAssumption`, which describe what the binaries
embed and what may lie in the directory at first):

- `DaemonTypeCorrect`: `DaemonSpec => []DaemonTypeOK`
- `SchemaStaysComplete`: `DaemonSpec => []SchemaIsComplete`
- `VectorsStayComparable`: `DaemonSpec => []VectorsAreComparable`
- `LoneDaemonsAreReached`: `DaemonSpec => []LoneDaemonIsReached`
- `LoneUpgradesAreBackedUp`: `DaemonSpec => UpgradesAreBackedUp`

*The argument.* Every step replaces the record of one process by one of a few
updates (`Steps`), so types are a matter of the updates. `SchemaIsComplete` speaks
of processes past their migrations; a process still applying them has read a
version that may be old by now, because another process moves it on. What survives
is that the migrations it will *not* apply are made (`UpgradesKnow`): the database
only gains migrations, as long as the index is not deleted, and deletion stops every
claim. For the vectors the question is who relies on the fingerprint: a process that
`Trusts` it has read or written it with its own build, a process that embeds has
left one in the database, and one build is at work unless fingerprints were `mixed`
(`VectorsInvariant`). The last two theorems hold of a process that is alone, so
their invariant begins by saying that a process marked alone is the only live one
(`LoneInvariant`); from it, nobody moved the socket it bound (`EndpointIsKept`) and
nobody touched the backup between its snapshot and its migrations
(`BackupIsUnderWay`).

Of `IndexTools` it proves, for any set of files and passes, any page size and any number
of writes (under `ToolsAssumption`: a folder lists finitely many entries, numbered in
the order of their paths, and a page holds at least one):

- `BrowsingMissesNothing`: `ToolsSpec => []BrowsePages`
- `InspectionsAreOfTheHit`: `ToolsSpec => []InspectIsOfTheHit`
- `StatusAlwaysAddsUp`: `ToolsSpec => []StatusAddsUp`

*The argument.* `BrowsePages` speaks of a client that is through; what makes it true
holds at each page (`OffsetIsBetween`): the offset has not passed an entry that was
there all along and is not listed, and it has passed every entry that is, where the
place of an entry is the number of entries before it (`Rank`) in what would be listed
now (`Upcoming`). A write moves the place of an entry down only if one before it went,
and up only if one before it came, and these are the two exemptions. Because the
folders are read before the files, the list of a page may be of no moment at all; it
suffices that what it has too much has vanished meanwhile and what it lacks has
appeared (`DirsAreKnown`). That each entry is in a listing once, where its rank puts
it, is `InOrderFinds`. A hit keeps its id because the next id is above all that are in
use and only its own file's transactions take its row away (`HitStays`, with the
effect of each transaction as `Touching`). The files that are indexed, failed and
skipped are different ones because only a whole commit makes a file's embeddings done,
and then every other pass too (`StatusesAgree`); that the five statements counted the
same rows is `NumbersStay`.

`ServicesProofs` proves for any number of actors, under `EmbedderAssumption`,
`WatchAssumption`, `ApprovalsAssumption`, `CacheAssumption`, `RuntimeAssumption` and `ClientAssumption`
(numbers are numbers, and the marks for nobody and nothing are not somebody):

- `EmbeddingsStayOfTheText`: `EmbedderSpec => []EmbeddingsAreOfTheText`
- `EventsAlwaysTell`: `WatchSpec => []EventsTellTheSnapshot`
- `ApprovalsStayWhole`: `ApprovalsSpec => []ApprovalsAreWhole`
- `CachedCopiesStayOfTheSource`: `CacheSpec => []CachedCopyIsOfTheSource`
- `SettingsAlwaysSurvive`: `ClientSpec => []SettingsSurvive`
- `SlotsStayOfRuns`: `RuntimeSpec => []SlotsAreOfRuns`
- `TheLatestStayAudited`: `RuntimeSpec => []AuditKeepsTheLatest`

*The argument*, one for each. A call past the embedder's lock is the one that holds
it, so the tensors hold its text until it has pooled them; and a call that embeds has
passed the two `sync.Once`, which nothing undoes (`EmbedderInvariant`). The last event
of a path in the channel, or without one what the reader knows, agrees with the last
snapshot at every moment of a poll (`WatchInvariant`). A saver at
work owns the lock, and with it the temporary file, until somebody robs it; what it
renames is whole (`ApprovalsInvariant`). A `Get` that met nobody knows that the
copy is as it saw it or wrote it. The source moves under it, so `held` keeps every content
the source had meanwhile: each piece that was read was at its place in one of them, and
what was read is the beginning of one unless the file was edited in place, because then
the file that is open does not change, whatever the path leads to (`CacheInvariant`). A connect writes a file of a
number not used before, so what it writes is never the file in place until it renames
it (`ClientInvariant`). Slots are the cardinality of the set of runs at their
subprocess, which a step changes by one run or by all of a process
(`SlotsInvariant`). A line is of the entry that follows those acknowledged before it, so a
write that fails leaves a line of the number that the next entry has, and the numbers go
on where a line is whole; lines keep that order when older ones go and when the next is
appended, whole or in part (`LatestEntries`). Dropping the backup is safe because only a
full log is rotated, and that the logger in the middle of a rotation is the only one
takes the mutex, the single process and the file it has open together
(`AuditInvariant`).

`ToolServerProofs` proves for any files, reviews, operators and calls:

- `ConfigAgrees`: `Spec => []ConfigMirrorsStore`
- `ServedToolsAreSealed`: `Spec => []ApprovedToolsAreSealed`
- `DiffIsSettled`: `Spec => []DiffSettles`
- `BarredCallsStop`: `Spec => []BarredCallsNeverRun`
- `VerifiedWasApproved`: `Spec => []VerifiedContentWasApproved`

It assumes `StoreAssumption` (every name that a scan can give is listed),
`ReviewAssumption` (the initial directories are `Settled`: left by commands
that ran to their end; a batch names no tool twice in conflicting lists) and
`ServerAssumption`.

*The argument.* What a command does to the store comes down to three steps that
change rows (`WhoChangesRows`). That a row whose state is written just before its
hash is never left without one is `ApprovedToolsAreSealed` itself: the review that
is at the hash keeps the item until the hash is stored, lost or the review killed, and the last two
are excused by name. While one command
runs at a time its configuration agrees with the store after every decision, and it
is the file's until the first of them (`OneAgrees`); while the file is truncated nothing is
said of it, and since nobody else wrote it, what is then written is what was to be
written (`WrittenAlone`). `DiffSettles` needs that the
scan that was written stays in the rows (`ScanStored`), whatever reviews do after.
Every hash in a row was approved for the row's name (`SoundRows`); a row that a
call read, and each half of the captured variable, whoever wrote it, is of the same
name, so the hash in it is approved too (`ServeHolds`), and this is why the data race
cannot let foreign content pass. For a call alone of its tool, the captured variable
is what it wrote itself: as long as a reason stands against the tool, the row it read
says so and the call is before the check that it fails (`BarHolds`).

`BertTokenizerProofs` proves for every text, vocabulary, set of special tokens and choice
of normalisers, and all lengths:

- `TokensStayOfTheWords`: `TokenizerSpec => []TokensAreOfTheWords`

It assumes `TokenizerAssumption` (the sets are of characters, no special token is empty,
CLS and SEP fit) and `CharacterAssumption`, which is what the proof needs of Unicode:
a space is no mark and its own decomposition and lower case; punctuation is no space; an
ideograph is no white space, and decomposes to one letter that is neither a mark nor, in
any case, a space. Without the last the pass that sets ideographs apart and the pass
that decomposes them could not be exchanged, and the two sides would differ.

*The argument.* The behaviour has one step, so everything is in the operators: that
`TokensFrom`, which rewrites the text pass after pass and scans it from the left, is
`TokensOf`, which reads the tokens off the positions of the text (`TokensFromIs`). The
passes are maps of characters to strings, so they distribute over concatenation and can
be made character by character (`NormalizeThen`, `NormalizeOne`). What the scanner
holds, the words so far and the open word, is then compared with the marked letters so
far (`Matches`): the ids of the finished words are those of the positions that end a
word, and the open word is the run of letters that ends here. A character keeps the two
together (`MatchesCharacter`), hence a segment between special tokens does; a special token
closes the word on both sides, and the search for the leftmost and longest one stops
where `SpecialAt` says that one begins (`ReachIs`, `NoneBefore`). For one word, the
greedy loop produces the one cut of it in which no piece could be longer
(`CutIsGreedy`); it is the only one because two cuts agree up to the first piece in
which they differ, and the longer of these was possible in both (`WordPieceIs`).

Each of these is an induction over positions or lengths. The induction theorems of the
library cannot be instantiated (see below), so an induction is an argument by the least
counterexample: the positions at which the claim fails are a set of numbers, which
has a least element unless it is empty (`Climb`, and `Descend` for the loops that are
defined from the end). A function defined in a `LET` by recursion is shown to exist, and
to be the only one with its equation, in the same way. One more device is visible in the
statements: concatenation and singletons have names (`Then`, `One`, `Str`) whose
definitions are cited only in the lemmas that state their laws, because a solver that sees
them expands every sequence.

*Only model-checked:* `RunsEnd`, `IndexConverges`, `SearchReturns` and `GoroutinesEnd`,
which are liveness and out of the prover's reach. Of all but `IndexConverges` the
safety half is proved: the steps run out (`RunsAreBounded`, `CallsAreBounded`). That there is
one to take as long as they have not, and that fairness takes it, is left to TLC. Every other
property of a passing run is a theorem. What the prover cannot do at all is use a theorem that takes an
operator as a parameter, the library's induction theorems among them; where a proof
needs induction (the tokenizer), it makes it from sets.

## 5. What is left

1. *Proofs*: that `SharedApprovals` and `SourceCache` implement an atomic file, said as
   an abstract specification.
2. *Pure algorithms*: rank fusion, the recursive splitter, the quantiser.

### Not modelled

- *Chunker and grammar extractors*: pure functions of a file's bytes. What they
  return is a constant (`Pieces`, `NodeNames`); no state depends on how it comes about.
- *Protocol stubs*: generated.
- *Arithmetic of the embedder*: pooling, normalising and quantising floats. That a
  vector is of its text and has the scheme of the fingerprint is modelled.
- *Ranking*: which rows survive a limit is left open in `SearchServer`.
- *Graph, batch and blob queries*: single statements over tables that nothing fills,
  or loops over handlers that are modelled.
- *HTTP serving, key files, `auth-v3`*: keys and certificates are made anew by each
  start, or written for nobody: nothing in the program reads what `auth-v3` writes.
- *Dependency manager*: `deps.NewManager` has no caller.
- *Source parsers*: what a source file defines is a constant (`Defines`).
- *Studio, export, doctor, deploy, catalog, status, logs*: they read and print.
- *A settings file that holds the JSON value `null`* in `connect`.

### Observations

Points at which the code does less than a reader may expect. Where a run expects a
violation it is a finding in `PROJECT.json`; the others are guarded by an exemption
in a property, or have no property.

- Overlapping calls of one tool share the captured row: a call may run with the row
  that another call fetched, although the handler re-reads it (`server/mcp.go:202`).
  `VerifiedContentWasApproved` holds all the same; `BarredCallsNeverRun` is stated of a lone call.
- `review --approve` of an enabled tool whose file changed fails on the transition,
  although the refusal of the handler advises to run the review again (`server/mcp.go:249`).
- Two processes that open one old database may each apply a migration. All but the
  first tolerate it.
- Two processes that rotate one audit log drop the first backup early, and a
  rotation that cannot reopen its file silences the log while it reports success.
- A write of the audit log that stops half-way leaves a part of a line, and the next entry,
  for which `Log` reports success, is appended to it (`audit/logger.go:69`): the two share a
  line that no longer parses. `AuditKeepsTheLatest` says that the entries are there.
- A tool whose hash could not be stored, or which could not be looked up for it, is served
  without a hash, and such a tool runs unverified (`review.go:212`, `:228`, `:270`).
  `ApprovedToolsAreSealed` exempts it.
- A source that is edited in place while it is copied leaves a copy of pieces of both
  contents, and `Get` returns it without an error (`cache/cache.go:94`); the next `Get` copies
  again. `CachedCopyIsOfTheSource` then only says where the pieces come from.
- `foldermcp.yaml` is truncated and written in place: a command that is killed in
  between leaves it empty, which is read as the default configuration, or unreadable.
- Of two daemons on one store, the later removes the socket of the first; of two savers of
  the approvals that find one old lock, the later removes the new lock of the other; of two
  indexers of different builds, both may pass the fingerprint's gate. Each is modelled, and
  exempted by the observers `alone`, `robbed` and `mixed`.
- Nothing writes the `audit_log` table, though the studio reads it;
  `ensureInstanceUUID`, `Invalidate`, `SaveApprovals` and `deps.NewManager` have no caller.
- A count that admin status fails to read stays zero without a word.
- The search command destroys its embedder when it returns, and on a deadline a
  goroutine may still embed (`v3_search.go:75`). `Close` takes no lock; what follows in
  a process about to exit is the stage `undefined`, of which no property speaks.

## 6. Running

    tlc -config IndexRun_two_files.cfg MCIndexRun.tla
    tlc -config SearchServer_auto.cfg MCSearchServer.tla
    tlc -config ToolServer.cfg MCToolServer.tla
    tlc -config Services.cfg MCServices.tla
    tlapm IndexRunProofs.tla
    tlapm IndexCommitsProofs.tla
    tlapm SearchServerProofs.tla
    tlapm IndexServicesProofs.tla
    tlapm ServicesProofs.tla
    tlapm ToolServerProofs.tla
    tlapm BertTokenizerProofs.tla
