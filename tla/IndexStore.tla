----------------------------- MODULE IndexStore -----------------------------
(***************************************************************************)
(* The index database of foldermcp v3: the tables of store/migrations, the *)
(* vec0 table created by store/open.go, and the SQL statements that the    *)
(* walker and the pipeline runner execute on them.  A database value is a  *)
(* record of tables; a statement is an operator from a database to a       *)
(* database, so that the same operators act on the committed database and  *)
(* on the view inside an open transaction.                                 *)
(*                                                                         *)
(* A table is a total function from its keys to a row or Null.  Row ids of *)
(* nodes and chunks come from finite pools: a free id may be handed out    *)
(* again, which includes what SQLite does for an INTEGER PRIMARY KEY       *)
(* without AUTOINCREMENT when the highest row has been deleted.            *)
(***************************************************************************)
EXTENDS Integers, FiniteSets, Functions

CONSTANTS
    Files,          \* paths below the root that the walker does not ignore
    Contents,       \* what a file may hold (content and its sha256 are one)
    Indexable,      \* contents that ClassifyFile calls code or document
    Binary,         \* contents with a NUL: in Indexable, one behind the sample
    NodeNames,      \* content -> names of the nodes extracted from it
    Pieces,         \* content -> its chunks, as <<node name, text>> pairs
    Names, Texts,
    NodeIds, ChunkIds,
    Schemes,        \* fingerprints: model, chunking policy and quantisation
    Null

ASSUME ContentAssumption ==
    /\ Indexable \subseteq Contents
    /\ Binary \subseteq Contents
    /\ NodeNames \in [Contents -> SUBSET Names]
    /\ Pieces \in [Contents -> SUBSET (Names \X Texts)]
    /\ \A c \in Contents : NodeNames[c] # {}
    /\ \A c \in Contents : \A p \in Pieces[c] : p[1] \in NodeNames[c]

ASSUME FilesAssumption == IsFiniteSet(Files)

-----------------------------------------------------------------------------
(* Row types.                                                              *)

Passes == {"structural", "chunker", "embeddings"}
\* "none" stands for the absence of a pipeline_state row.
Statuses == {"none", "running", "done", "failed", "skipped"}
Classes == {"indexable", "other"}

FileRow == [sha : Contents, class : Classes, seen : Nat, deleted : BOOLEAN]
NodeRow == [file : Files, name : Names]
ChunkRow == [node : NodeIds, text : Texts]
Vector == [text : Texts, scheme : Schemes]

Database ==
    [files  : [Files -> FileRow \cup {Null}],
     nodes  : [NodeIds -> NodeRow \cup {Null}],
     chunks : [ChunkIds -> ChunkRow \cup {Null}],
     fts    : [ChunkIds -> Texts \cup {Null}],
     emb    : [ChunkIds -> Vector \cup {Null}],
     pstate : [Files -> [Passes -> Statuses]],
     fp     : Schemes \cup {Null}]

ASSUME NullAssumption ==
    Null \notin Files \cup Contents \cup Texts \cup Schemes
                \cup FileRow \cup NodeRow \cup ChunkRow \cup Vector

\* A freshly migrated index.db: every table is empty.
EmptyDatabase ==
    [files  |-> [f \in Files |-> Null],
     nodes  |-> [n \in NodeIds |-> Null],
     chunks |-> [c \in ChunkIds |-> Null],
     fts    |-> [c \in ChunkIds |-> Null],
     emb    |-> [c \in ChunkIds |-> Null],
     pstate |-> [f \in Files |-> [p \in Passes |-> "none"]],
     fp     |-> Null]

-----------------------------------------------------------------------------
(* Deleting what is derived from a set F of files.                         *)

Without(table, keys) ==
    [k \in DOMAIN table |-> IF k \in keys THEN Null ELSE table[k]]

With(table, rows) ==
    [k \in DOMAIN table |-> IF k \in DOMAIN rows THEN rows[k] ELSE table[k]]

FreeIds(table) == {k \in DOMAIN table : table[k] = Null}

NodesOf(d, F) == {n \in NodeIds : d.nodes[n] # Null /\ d.nodes[n].file \in F}

ChunksOf(d, F) ==
    {c \in ChunkIds : d.chunks[c] # Null /\ d.chunks[c].node \in NodesOf(d, F)}

\* vec0 rows are outside the foreign-key graph: this delete finds them
\* through the chunk rows, which must still be there.
DeleteVectors(d, F) == [d EXCEPT !.emb = Without(@, ChunksOf(d, F))]

DeleteStatus(d, F) ==
    [d EXCEPT !.pstate = [f \in Files |->
        IF f \in F THEN [p \in Passes |-> "none"] ELSE @[f]]]

\* ON DELETE CASCADE takes the chunks, whose chunks_ad trigger takes the
\* FTS rows.  Nothing takes the vectors.
DeleteNodes(d, F) ==
    [d EXCEPT !.nodes = Without(@, NodesOf(d, F)),
              !.chunks = Without(@, ChunksOf(d, F)),
              !.fts = Without(@, ChunksOf(d, F))]

\* Fault: the nodes are deleted before the vectors are looked up.
ClearFilesNodesFirst(d, F) == DeleteVectors(DeleteStatus(DeleteNodes(d, F), F), F)

\* The body of the trigger files_sha256_invalidate, and the "Layer 2" deletes
\* with which the runner opens every file transaction: the same three deletes
\* in the same order.
ClearFiles(d, F) == DeleteNodes(DeleteStatus(DeleteVectors(d, F), F), F)

-----------------------------------------------------------------------------
(* The statements of the walker and of the deletion reconciliation.        *)

\* What the walker knows of a file when it flushes.
WalkRow == [sha : Contents, class : Classes]

\* Fault: an upsert that does not invalidate what was derived from the file.
UpsertFilesNoTrigger(d, batch, now) ==
    [d EXCEPT !.files = [f \in Files |->
        IF batch[f] # Null
        THEN [sha |-> batch[f].sha, class |-> batch[f].class,
              seen |-> now, deleted |-> FALSE]
        ELSE @[f]]]

\* One flush: upserts every row of the batch (a function from Files to
\* [sha, class] or Null).  The trigger fires for the rows whose sha256 changed.
UpsertFiles(d, batch, now) ==
    LET rows == {f \in Files : batch[f] # Null}
        changed == {f \in rows : d.files[f] # Null /\ d.files[f].sha # batch[f].sha}
    IN  [ClearFiles(d, changed) EXCEPT !.files = [f \in Files |->
            IF f \in rows
            THEN [sha |-> batch[f].sha, class |-> batch[f].class,
                  seen |-> now, deleted |-> FALSE]
            ELSE @[f]]]

\* A live row: deleted_at IS NULL.
IsLive(d, f) == d.files[f] # Null /\ ~d.files[f].deleted

\* Fault: rows seen in the second in which the run started count as unseen.
MarkUnseenDeletedInclusive(d, start) ==
    [d EXCEPT !.files = [f \in Files |->
        IF IsLive(d, f) /\ d.files[f].seen <= start
        THEN [@[f] EXCEPT !.deleted = TRUE]
        ELSE @[f]]]

MarkUnseenDeleted(d, start) ==
    [d EXCEPT !.files = [f \in Files |->
        IF IsLive(d, f) /\ d.files[f].seen < start
        THEN [@[f] EXCEPT !.deleted = TRUE]
        ELSE @[f]]]

-----------------------------------------------------------------------------
(* The statements of the pipeline runner.                                  *)

\* markStatusTx: an upsert of one (file, pass) row.
MarkStatus(d, f, p, s) == [d EXCEPT !.pstate[f][p] = s]

\* The loops that mark all three passes skipped.
MarkSkipped(d, f) == [d EXCEPT !.pstate[f] = [p \in Passes |-> "skipped"]]

\* Fault: a plain UPDATE, as in MarkFailed.
RecordFailureUpdate(d, f, p) ==
    IF d.pstate[f][p] = "none" THEN d ELSE MarkStatus(d, f, p, "failed")

\* Fault: a status the CHECK constraint of pipeline_state does not admit.
RecordFailureBadStatus(d, f, p) == MarkStatus(d, f, p, "error")

\* recordFailure: an upsert, so that it also works after the rollback has
\* removed the 'running' row.
RecordFailure(d, f, p) == MarkStatus(d, f, p, "failed")

InsertNodes(d, rows) == [d EXCEPT !.nodes = With(@, rows)]

\* The chunks_ai trigger writes the FTS row of every inserted chunk.
InsertChunks(d, rows) ==
    [d EXCEPT !.chunks = With(@, rows),
              !.fts = With(@, [c \in DOMAIN rows |-> rows[c].text])]

\* INSERT OR REPLACE of one vector per buffered chunk; the buffer maps a chunk
\* id to the text to embed, or to Null.
WriteBatch(d, buffer, scheme) ==
    [d EXCEPT !.emb = [c \in ChunkIds |->
        IF buffer[c] # Null THEN [text |-> buffer[c], scheme |-> scheme] ELSE @[c]]]

\* Fault: a failed file counts as finished.
IsPendingUnlessFailed(d, f) ==
    IsLive(d, f) /\ d.pstate[f]["embeddings"] # "done"
        /\ \A p \in Passes : d.pstate[f][p] # "failed"

\* Fault: every live file is selected, indexed or not.
IsPendingAlways(d, f) == IsLive(d, f)

\* Files that PendingFiles may return: live and without a 'done' row for the
\* terminal pass.  Failed and skipped files stay pending.
IsPending(d, f) == IsLive(d, f) /\ d.pstate[f]["embeddings"] # "done"

\* The results of one PendingFiles query: LIMIT without ORDER BY.
PendingFiles(d, limit) ==
    LET pending == {f \in Files : IsPending(d, f)}
    IN  {S \in SUBSET pending :
            \/ S = pending /\ Cardinality(S) <= limit
            \/ Cardinality(S) = limit}

\* Fault: a mismatch is not fatal.
FingerprintAcceptsAny(d, scheme) == TRUE

\* CheckFingerprint: no row yet, or the row of this binary.
FingerprintAccepts(d, scheme) == d.fp \in {Null, scheme}

-----------------------------------------------------------------------------
(* What a query over a file's rows finds.                                  *)

Piece(d, c) == <<d.nodes[d.chunks[c].node].name, d.chunks[c].text>>

\* The chunks of f that the vector index and the text index both serve.
Served(d, f) ==
    {Piece(d, c) : c \in {k \in ChunksOf(d, {f}) : d.emb[k] # Null /\ d.fts[k] # Null}}

IsIndexed(d, f) == d.pstate[f]["embeddings"] = "done"

-----------------------------------------------------------------------------
(* Consistency of the tables.                                              *)

\* References between tables resolve, the text index mirrors the chunks, and
\* every vector belongs to a chunk, embeds its text, and has the scheme of the
\* fingerprint.  Holds inside a transaction as well.
Sound(d) ==
    \A c \in ChunkIds :
        /\ d.chunks[c] = Null => d.emb[c] = Null /\ d.fts[c] = Null
        /\ d.chunks[c] # Null =>
             /\ d.nodes[d.chunks[c].node] # Null
             /\ d.fts[c] = d.chunks[c].text
        /\ d.emb[c] # Null =>
             /\ d.emb[c].text = d.chunks[c].text
             /\ d.emb[c].scheme = d.fp

\* The chunks that still wait for a vector are among those of W.
VectorsMissingOnly(d, W) ==
    \A c \in ChunkIds : d.chunks[c] # Null /\ d.emb[c] = Null => c \in W
=============================================================================
