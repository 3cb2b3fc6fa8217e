------------------------------ MODULE IndexRun ------------------------------
(***************************************************************************)
(* The indexing pipeline of foldermcp v3 (index-v3, and the indexer half   *)
(* of all-v3): one process that walks a tree, reconciles deletions, checks *)
(* the embedding fingerprint and then indexes every pending file, one      *)
(* transaction per file, while the file system changes, reads fail, the    *)
(* process is stopped and the clock moves by whole seconds.                *)
(*                                                                         *)
(* One action is one SQL transaction, one statement outside a transaction, *)
(* or one read of the file system: a crash, a cancellation or an edit can  *)
(* fall between any two of them.                                           *)
(***************************************************************************)
EXTENDS IndexStore

CONSTANTS
    Absent,            \* what the disk holds where there is no file
    FetchSize,         \* pendingFetchSize, the least PendingFiles limit
    WalkBatch,         \* files per walker transaction
    EmbedBatch,        \* chunks per embedding batch
    EditWhileRunning,  \* may a file change while a run is in progress?
    MaxClock,          \* bound: the last second of the clock
    MaxDisturbances    \* bound: edits, faults, interruptions, index deletions

ASSUME SizesAssumption ==
    /\ FetchSize \in Nat \ {0}
    /\ WalkBatch \in Nat \ {0}
    /\ EmbedBatch \in Nat \ {0}
    /\ MaxClock \in Nat \ {0}
    /\ MaxDisturbances \in Nat
    /\ EditWhileRunning \in BOOLEAN

ASSUME AbsentAssumption == Absent \notin Contents

\* What is queued for a file is never the mark of nothing queued.
ASSUME QueueAssumption == Null \notin WalkRow

VARIABLES
    (* The environment. *)
    disk,        \* what each path holds
    clock,       \* time.Now().Unix()
    budget,      \* disturbances left
    (* The database file. *)
    db,          \* the committed database
    tx,          \* the view inside the open transaction; db when none is open
    (* The indexer process. *)
    pc,
    scheme,      \* the fingerprint this binary writes
    startTime,
    visited,     \* paths the walk has dealt with
    hash,        \* HashFile's result for the path in hand
    batch,       \* the walker's unflushed rows
    ids,         \* the last PendingFiles result
    attempted,
    cur,         \* the path in hand
    body,        \* the content read for it
    pass,        \* Runner.currentPass
    todo,        \* chunk ids of the file in hand not yet buffered
    embedBuf,    \* Runner.embedBuf: chunk id -> text, or Null
    (* Observers, read by no action. *)
    quiet,       \* nothing was edited and nothing failed during this run
    unlogged,    \* files of this run whose failure could not be recorded
    torn         \* files last committed from a content that its hash or class belies

envVars   == <<disk, clock, budget>>
storeVars == <<db, tx>>
runVars   == <<scheme, startTime>>
walkVars  == <<visited, hash, batch>>
loopVars  == <<ids, attempted>>
fileVars  == <<cur, body, pass, todo, embedBuf>>
obsVars   == <<quiet, unlogged, torn>>
vars == <<envVars, storeVars, pc, runVars, walkVars, loopVars, fileVars, obsVars>>

FilePcs == {"dispatch", "structural", "chunker", "embed", "commit"}
RunPcs == {"walk", "classify", "reconcile", "fingerprint", "loop", "summary"} \cup FilePcs

TypeOK ==
    /\ disk \in [Files -> Contents \cup {Absent}]
    /\ clock \in Nat
    /\ budget \in Nat
    /\ db \in Database
    /\ tx \in Database
    /\ pc \in {"idle"} \cup RunPcs
    /\ scheme \in Schemes \cup {Null}
    /\ startTime \in Nat
    /\ visited \subseteq Files
    /\ hash \in Contents \cup {Null}
    /\ batch \in [Files -> WalkRow \cup {Null}]
    /\ ids \subseteq Files
    /\ attempted \subseteq Files
    /\ cur \in Files \cup {Null}
    /\ body \in Contents \cup {Null}
    /\ pass \in Passes
    /\ todo \subseteq ChunkIds
    /\ embedBuf \in [ChunkIds -> Texts \cup {Null}]
    /\ quiet \in BOOLEAN
    /\ unlogged \subseteq Files
    /\ torn \subseteq Files

-----------------------------------------------------------------------------
NothingQueued == [f \in Files |-> Null]
NothingBuffered == [c \in ChunkIds |-> Null]

Init ==
    /\ disk \in [Files -> Contents \cup {Absent}]
    /\ clock = 1
    /\ budget = MaxDisturbances
    /\ db = EmptyDatabase
    /\ tx = EmptyDatabase
    /\ pc = "idle"
    /\ scheme = Null
    /\ startTime = 0
    /\ visited = {}
    /\ hash = Null
    /\ batch = NothingQueued
    /\ ids = {}
    /\ attempted = {}
    /\ cur = Null
    /\ body = Null
    /\ pass = "structural"
    /\ todo = {}
    /\ embedBuf = NothingBuffered
    /\ quiet = TRUE
    /\ unlogged = {}
    /\ torn = {}

\* The process ends, or Run returns: its memory is gone.
ForgetRun ==
    /\ pc' = "idle"
    /\ scheme' = Null
    /\ startTime' = 0
    /\ visited' = {}
    /\ hash' = Null
    /\ batch' = NothingQueued
    /\ ids' = {}
    /\ attempted' = {}
    /\ cur' = Null
    /\ body' = Null
    /\ pass' = "structural"
    /\ todo' = {}
    /\ embedBuf' = NothingBuffered
    /\ quiet' = TRUE
    /\ unlogged' = {}

\* Something goes wrong that the program does not control.
Disturb ==
    /\ budget > 0
    /\ budget' = budget - 1

\* A statement or transaction outside the per-file transaction commits.
Store(d) == db' = d /\ tx' = d

-----------------------------------------------------------------------------
(* Steps 1 to 4 of Run: start, walk, reconcile, fingerprint.               *)

StartRun(v) ==
    /\ pc = "idle"
    /\ pc' = "walk"
    /\ scheme' = v
    /\ startTime' = clock
    /\ UNCHANGED <<envVars, storeVars, walkVars, loopVars, fileVars, obsVars>>

\* The walk passes over a path for good: it is not there, or d.Info, HashFile
\* or ClassifyFile fails, upon which the callback returns nil.
PassOver(f) ==
    /\ \/ disk[f] = Absent /\ UNCHANGED <<budget, quiet>>
       \/ disk[f] # Absent /\ Disturb /\ quiet' = FALSE
    /\ pc' = "walk"
    /\ visited' = visited \cup {f}
    /\ hash' = Null
    /\ cur' = Null
    /\ UNCHANGED <<disk, clock, storeVars, runVars, batch, loopVars,
                   body, pass, todo, embedBuf, unlogged, torn>>

HashFile(f) ==
    /\ pc = "walk"
    /\ f \notin visited
    /\ disk[f] # Absent
    /\ pc' = "classify"
    /\ cur' = f
    /\ hash' = disk[f]
    /\ UNCHANGED <<envVars, storeVars, runVars, visited, batch, loopVars,
                   body, pass, todo, embedBuf, obsVars>>

SkipUnhashed(f) == pc = "walk" /\ f \notin visited /\ PassOver(f)

SkipUnclassified == pc = "classify" /\ PassOver(cur)

ClassOf(c) == IF c \in Indexable THEN "indexable" ELSE "other"

Queued(rows) == {f \in Files : rows[f] # Null}

\* ClassifyFile opens the file again, so its content may no longer be the one
\* that was hashed.  The row is queued, and a full batch is flushed at once.
ClassifyFile ==
    /\ pc = "classify"
    /\ disk[cur] # Absent
    /\ LET rows == [batch EXCEPT ![cur] = [sha |-> hash, class |-> ClassOf(disk[cur])]]
       IN  IF Cardinality(Queued(rows)) >= WalkBatch
           THEN Store(UpsertFiles(db, rows, clock)) /\ batch' = NothingQueued
           ELSE UNCHANGED storeVars /\ batch' = rows
    /\ pc' = "walk"
    /\ visited' = visited \cup {cur}
    /\ hash' = Null
    /\ cur' = Null
    /\ UNCHANGED <<envVars, runVars, loopVars, body, pass, todo, embedBuf, obsVars>>

FinishWalk ==
    /\ pc = "walk"
    /\ visited = Files
    /\ Store(UpsertFiles(db, batch, clock))
    /\ batch' = NothingQueued
    /\ pc' = "reconcile"
    /\ UNCHANGED <<envVars, runVars, visited, hash, loopVars, fileVars, obsVars>>

ReconcileDeletions ==
    /\ pc = "reconcile"
    /\ Store(MarkUnseenDeleted(db, startTime))
    /\ pc' = "fingerprint"
    /\ UNCHANGED <<envVars, runVars, walkVars, loopVars, fileVars, obsVars>>

EnsureFingerprint ==
    /\ pc = "fingerprint"
    /\ FingerprintAccepts(db, scheme)
    /\ Store([db EXCEPT !.fp = scheme])
    /\ pc' = "loop"
    /\ UNCHANGED <<envVars, runVars, walkVars, loopVars, fileVars, obsVars>>

\* A mismatch is fatal: the run ends before any vector is written.
RefuseFingerprint ==
    /\ pc = "fingerprint"
    /\ ~FingerprintAccepts(db, scheme)
    /\ ForgetRun
    /\ UNCHANGED <<envVars, storeVars, torn>>

-----------------------------------------------------------------------------
(* Step 5 of Run: the loop over PendingFiles.                              *)

\* Fault: the limit does not grow with the files attempted.
FetchPendingFixedLimit ==
    /\ pc = "loop"
    /\ ids \subseteq attempted
    /\ \E S \in PendingFiles(db, FetchSize) :
        /\ ids' = S
        /\ pc' = IF S \subseteq attempted THEN "summary" ELSE "loop"
    /\ UNCHANGED <<envVars, storeVars, runVars, walkVars, attempted, fileVars, obsVars>>

\* One turn of the loop: the previous ids have all been attempted.  The limit
\* grows with the files attempted, and a turn without a new id is the last.
FetchPending ==
    /\ pc = "loop"
    /\ ids \subseteq attempted
    /\ \E S \in PendingFiles(db, Cardinality(attempted) + FetchSize) :
        /\ ids' = S
        /\ pc' = IF S \subseteq attempted THEN "summary" ELSE "loop"
    /\ UNCHANGED <<envVars, storeVars, runVars, walkVars, attempted, fileVars, obsVars>>

\* Fault: a file begun is not remembered as attempted.
BeginFileForgotten(f) ==
    /\ pc = "loop"
    /\ f \in ids \ attempted
    /\ ids' = ids \ {f}
    /\ cur' = f
    /\ pass' = "structural"
    /\ embedBuf' = NothingBuffered
    /\ tx' = ClearFiles(db, {f})
    /\ pc' = "dispatch"
    /\ UNCHANGED <<envVars, db, runVars, walkVars, attempted, body, todo, obsVars>>

\* Fault: the buffer left by a file that failed is kept.
BeginFileStaleBuffer(f) ==
    /\ pc = "loop"
    /\ f \in ids \ attempted
    /\ attempted' = attempted \cup {f}
    /\ cur' = f
    /\ pass' = "structural"
    /\ tx' = ClearFiles(db, {f})
    /\ pc' = "dispatch"
    /\ UNCHANGED <<envVars, db, runVars, walkVars, ids, body, todo, embedBuf, obsVars>>

\* processOneFile and the head of runPerFile: the buffer is emptied, the
\* transaction begins, and the Layer 2 deletes run.
BeginFile(f) ==
    /\ pc = "loop"
    /\ f \in ids \ attempted
    /\ attempted' = attempted \cup {f}
    /\ cur' = f
    /\ pass' = "structural"
    /\ embedBuf' = NothingBuffered
    /\ tx' = ClearFiles(db, {f})
    /\ pc' = "dispatch"
    /\ UNCHANGED <<envVars, db, runVars, walkVars, ids, body, todo, obsVars>>

\* Media, data, unknown files and binary documents: nothing to extract.
SkipOther ==
    /\ pc = "dispatch"
    /\ tx.files[cur].class # "indexable"
    /\ tx' = MarkSkipped(tx, cur)
    /\ pc' = "commit"
    /\ UNCHANGED <<envVars, db, runVars, walkVars, loopVars, fileVars, obsVars>>

\* The content is read again, long after it was hashed, and checked for a
\* NUL beyond the walker's sample.
ReadFile ==
    /\ pc = "dispatch"
    /\ tx.files[cur].class = "indexable"
    /\ disk[cur] # Absent
    /\ body' = disk[cur]
    /\ IF disk[cur] \in Binary
       THEN tx' = MarkSkipped(tx, cur) /\ pc' = "commit"
       ELSE tx' = tx /\ pc' = "structural"
    /\ UNCHANGED <<envVars, db, runVars, walkVars, loopVars,
                   cur, pass, todo, embedBuf, obsVars>>

\* runStructural: one node per symbol, or one for the file.
RunStructural ==
    /\ pc = "structural"
    /\ \E new \in SUBSET FreeIds(tx.nodes) :
       \E name \in Bijection(new, NodeNames[body]) :
          tx' = MarkStatus(
                  InsertNodes(tx, [n \in new |-> [file |-> cur, name |-> name[n]]]),
                  cur, "structural", "done")
    /\ pass' = "chunker"
    /\ pc' = "chunker"
    /\ UNCHANGED <<envVars, db, runVars, walkVars, loopVars,
                   cur, body, todo, embedBuf, obsVars>>

\* The chunk rows of the body, each under the node inserted for its symbol.
ChunkRows ==
    {r \in [node : NodesOf(tx, {cur}), text : Texts] :
        <<tx.nodes[r.node].name, r.text>> \in Pieces[body]}

\* runChunker, and the 'running' mark with which the embeddings pass begins.
RunChunker ==
    /\ pc = "chunker"
    /\ \E new \in SUBSET FreeIds(tx.chunks) :
       \E row \in Bijection(new, ChunkRows) :
          /\ tx' = MarkStatus(
                     MarkStatus(InsertChunks(tx, row), cur, "chunker", "done"),
                     cur, "embeddings", "running")
          /\ todo' = new
    /\ pass' = "embeddings"
    /\ pc' = "embed"
    /\ UNCHANGED <<envVars, db, runVars, walkVars, loopVars, cur, body, embedBuf, obsVars>>

Buffered == {c \in ChunkIds : embedBuf[c] # Null}

BufferChunk(c) ==
    /\ pc = "embed"
    /\ c \in todo
    /\ Cardinality(Buffered) < EmbedBatch
    /\ embedBuf' = [embedBuf EXCEPT ![c] = tx.chunks[c].text]
    /\ todo' = todo \ {c}
    /\ UNCHANGED <<envVars, storeVars, pc, runVars, walkVars, loopVars,
                   cur, body, pass, obsVars>>

\* A full buffer is flushed, and the remainder when the chunks are used up.
FlushEmbedBatch ==
    /\ pc = "embed"
    /\ Buffered # {}
    /\ todo = {} \/ Cardinality(Buffered) >= EmbedBatch
    /\ tx' = WriteBatch(tx, embedBuf, scheme)
    /\ embedBuf' = NothingBuffered
    /\ UNCHANGED <<envVars, db, pc, runVars, walkVars, loopVars,
                   cur, body, pass, todo, obsVars>>

FinishEmbeddings ==
    /\ pc = "embed"
    /\ todo = {}
    /\ Buffered = {}
    /\ tx' = MarkStatus(tx, cur, "embeddings", "done")
    /\ pc' = "commit"
    /\ UNCHANGED <<envVars, db, runVars, walkVars, loopVars, fileVars, obsVars>>

\* The file is done with, one way or another; the embedding buffer is only
\* emptied when the next file begins.
NextFile ==
    /\ pc' = "loop"
    /\ cur' = Null
    /\ body' = Null
    /\ pass' = "structural"
    /\ todo' = {}

CommitFile ==
    /\ pc = "commit"
    /\ Store(tx)
    /\ NextFile
    /\ torn' = IF body = Null \/ body \in {tx.files[cur].sha} \cap Indexable
               THEN torn \ {cur}
               ELSE torn \cup {cur}
    /\ UNCHANGED <<envVars, runVars, walkVars, loopVars, embedBuf, quiet, unlogged>>

\* Fault: on a panic the deferred function sees a nil error and commits.
FailFileCommitted ==
    /\ pc \in FilePcs
    /\ Disturb
    /\ quiet' = FALSE
    /\ Store(RecordFailure(tx, cur, pass))
    /\ NextFile
    /\ UNCHANGED <<disk, clock, runVars, walkVars, loopVars, embedBuf, unlogged, torn>>

\* An error or a panic anywhere in runPerFile, the commit included: the
\* transaction is rolled back, and the failure is recorded under currentPass
\* outside it.  A file that has vanished fails without any disturbance.
FailFile ==
    /\ pc \in FilePcs
    /\ \/ /\ pc = "dispatch"
          /\ tx.files[cur].class = "indexable"
          /\ disk[cur] = Absent
          /\ UNCHANGED <<budget, quiet>>
       \/ Disturb /\ quiet' = FALSE
    /\ Store(RecordFailure(db, cur, pass))
    /\ NextFile
    /\ UNCHANGED <<disk, clock, runVars, walkVars, loopVars, embedBuf, unlogged, torn>>

\* The same, and the statement that records the failure fails too: the error
\* is logged and the run goes on.
FailFileUnrecorded ==
    /\ pc \in FilePcs
    /\ Disturb
    /\ quiet' = FALSE
    /\ Store(db)
    /\ unlogged' = unlogged \cup {cur}
    /\ NextFile
    /\ UNCHANGED <<disk, clock, runVars, walkVars, loopVars, embedBuf, torn>>

\* Step 6: the summary is logged and Run returns nil.
FinishRun ==
    /\ pc = "summary"
    /\ ForgetRun
    /\ UNCHANGED <<envVars, storeVars, torn>>

-----------------------------------------------------------------------------
(* The environment.                                                        *)

\* The process is killed, its context is cancelled, or a statement outside
\* the per-file transaction (or Embedder.Init) fails, which is fatal.  The
\* open transaction is rolled back and nothing is recorded.
Interrupt ==
    /\ pc # "idle"
    /\ Disturb
    /\ ForgetRun
    /\ tx' = db
    /\ UNCHANGED <<disk, clock, db, torn>>

\* A file is created, changed or removed.  The bound on the clock leaves at
\* least one second after every edit.
Edit(f, c) ==
    /\ EditWhileRunning \/ pc = "idle"
    /\ c # disk[f]
    /\ clock < MaxClock
    /\ Disturb
    /\ disk' = [disk EXCEPT ![f] = c]
    /\ quiet' = (pc = "idle")
    /\ UNCHANGED <<clock, storeVars, pc, runVars, walkVars, loopVars, fileVars, unlogged, torn>>

Tick ==
    /\ clock < MaxClock
    /\ clock' = clock + 1
    /\ UNCHANGED <<disk, budget, storeVars, pc, runVars, walkVars, loopVars,
                   fileVars, obsVars>>

\* The recovery the fingerprint error names: delete index.db and start again.
DeleteIndex ==
    /\ pc = "idle"
    /\ Disturb
    /\ Store(EmptyDatabase)
    /\ torn' = {}
    /\ UNCHANGED <<disk, clock, pc, runVars, walkVars, loopVars, fileVars, quiet, unlogged>>

-----------------------------------------------------------------------------
\* What the indexer does by itself once a run has started.
RunnerStep ==
    \/ \E f \in Files : HashFile(f) \/ SkipUnhashed(f) \/ BeginFile(f)
    \/ SkipUnclassified \/ ClassifyFile \/ FinishWalk \/ ReconcileDeletions
    \/ EnsureFingerprint \/ RefuseFingerprint
    \/ FetchPending \/ SkipOther \/ ReadFile \/ RunStructural \/ RunChunker
    \/ \E c \in ChunkIds : BufferChunk(c)
    \/ FlushEmbedBatch \/ FinishEmbeddings \/ CommitFile
    \/ FailFile \/ FailFileUnrecorded \/ FinishRun

EnvironmentStep ==
    \/ \E v \in Schemes : StartRun(v)
    \/ Interrupt
    \/ \E f \in Files, c \in Contents \cup {Absent} : Edit(f, c)
    \/ Tick
    \/ DeleteIndex

Next == RunnerStep \/ EnvironmentStep

Spec == Init /\ [][Next]_vars

FairSpec ==
    /\ Spec
    /\ WF_vars(RunnerStep)
    /\ WF_vars(\E v \in Schemes : StartRun(v))
    /\ WF_vars(Tick)

-----------------------------------------------------------------------------
(* Safety.                                                                 *)

\* No orphan vectors: both search indexes describe the chunk rows that exist,
\* with the same text, whatever deletes, cascades, rollbacks and reused chunk
\* ids came before (runner.go:231-237, 0002_invalidate_on_sha256.sql:8-14).
SearchIndexesMirrorChunks ==
    \A c \in ChunkIds :
        IF db.chunks[c] = Null
        THEN db.emb[c] = Null /\ db.fts[c] = Null
        ELSE /\ db.nodes[db.chunks[c].node] # Null
             /\ db.fts[c] = db.chunks[c].text
             /\ db.emb[c] # Null
             /\ db.emb[c].text = db.chunks[c].text

IndexedWith(d, f, c) ==
    /\ {d.nodes[n].name : n \in NodesOf(d, {f})} = NodeNames[c]
    /\ Served(d, f) = Pieces[c]

\* "All of a file's rows commit together or not at all" (runner.go:205-207):
\* a committed file is indexed with the whole of one content, or has no nodes;
\* and no other process ever sees a pass that is still running.
FilesAreAllOrNothing ==
    \A f \in Files :
        /\ \A p \in Passes : db.pstate[f][p] # "running"
        /\ IF IsIndexed(db, f)
           THEN /\ \A p \in Passes : db.pstate[f][p] = "done"
                /\ \E c \in Contents \ Binary : IndexedWith(db, f, c)
           ELSE NodesOf(db, {f}) = {}

\* Every stored vector was quantised with the scheme the fingerprint records,
\* through any sequence of runs of binaries of different versions and of index
\* deletions (embed/writer.go:50-62).
VectorsMatchFingerprint ==
    \A c \in ChunkIds : db.emb[c] # Null => db.emb[c].scheme = db.fp

\* The growing limit of PendingFiles reaches every pending file although
\* failed and skipped ones keep coming back (runner.go:136-142).
EveryPendingFileAttempted ==
    pc = "summary" => \A f \in Files : IsPending(db, f) => f \in attempted

\* A file that a completed run tried and did not index has a row saying why,
\* unless writing that row failed as well (runner.go:513-516).
FailuresAreVisible ==
    pc = "summary" =>
        \A f \in attempted \ unlogged :
            IsIndexed(db, f) \/ \E p \in Passes : db.pstate[f][p] \in {"failed", "skipped"}

\* The index says of f what the disk says.
Accurate(f) ==
    IF disk[f] = Absent
    THEN ~IsLive(db, f)
    ELSE /\ IsLive(db, f)
         /\ db.files[f].sha = disk[f]
         /\ IF disk[f] \in Indexable \ Binary
            THEN IsIndexed(db, f) /\ IndexedWith(db, f, disk[f])
            ELSE /\ NodesOf(db, {f}) = {}
                 /\ \A p \in Passes : db.pstate[f][p] = "skipped"

\* A run in which nothing fails and nothing is edited leaves the index
\* accurate, whatever happened in the runs before it.  There are two ways out:
\* a file committed by an earlier run from a content that was not the one
\* hashed or the one classified, and a vanished file that an earlier run saw in the very second in
\* which this run started (timestamps are whole seconds).
QuietRunIsAccurate ==
    (pc = "summary" /\ quiet) =>
        \A f \in Files \ torn :
            \/ Accurate(f)
            \/ disk[f] = Absent /\ IsLive(db, f) /\ db.files[f].seen = startTime

-----------------------------------------------------------------------------
(* The indexer implements IndexContract.                                   *)

Edition(c) == [names |-> NodeNames[c], pieces |-> Pieces[c]]

\* What a reader of the committed database finds of f.
PublishedFor(d, f) ==
    IF NodesOf(d, {f}) = {}
    THEN Null
    ELSE [names |-> {d.nodes[n].name : n \in NodesOf(d, {f})}, pieces |-> Served(d, f)]

Contract ==
    INSTANCE IndexContract WITH
        Editions <- {Edition(c) : c \in Contents \ Binary},
        Nothing <- Null,
        published <- [f \in Files |-> PublishedFor(db, f)]

\* Readers see a file's index appear whole and disappear whole, and never
\* change in place (runner.go:205-229, 0002_invalidate_on_sha256.sql:3-6).
PublishesWholeEditions == Contract!Spec

Writer == INSTANCE IndexWriter WITH Seconds <- 0 .. MaxClock

\* Between one commit and the next a reader sees nothing: every change of the
\* committed database is one whole statement of the walker or of Run, one whole
\* file transaction, or one recorded failure (walker.go:36-66,
\* runner.go:205-229).  The search server is composed with this view.
CommitsAreWhole == Writer!WriterSpec

-----------------------------------------------------------------------------
(* Liveness.                                                               *)

\* Every run ends: no file is processed twice in a run, so the loop over
\* PendingFiles runs out (runner.go:136-142).
RunsEnd == pc # "idle" ~> pc = "idle"

\* Once edits, faults and interruptions stop, further runs make the index
\* accurate and it stays so: but for torn reads, nothing is stuck in a state
\* that no run repairs.
IndexConverges == <>[](\A f \in Files \ torn : Accurate(f))

-----------------------------------------------------------------------------
(* Two claims of the repository that the code does not keep.               *)

\* "Schema-level invariant prevents any future code path from sneaking in a
\* stale read" (0002_invalidate_on_sha256.sql:5-6): a live file that holds
\* what its row's sha256 says is served with that content.
NoStaleRead ==
    \A f \in Files :
        (pc = "idle" /\ IsLive(db, f) /\ IsIndexed(db, f) /\ disk[f] = db.files[f].sha)
            => IndexedWith(db, f, disk[f])

\* "Files not seen by this walk disappeared from disk" (runner.go:114-115).
UnseenFilesDisappeared ==
    [][\A f \in Files :
        (IsLive(db, f) /\ db'.files[f] # Null /\ db'.files[f].deleted)
            => disk[f] = Absent]_vars
=============================================================================
