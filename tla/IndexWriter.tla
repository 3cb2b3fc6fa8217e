---------------------------- MODULE IndexWriter ----------------------------
(***************************************************************************)
(* The index database as another process sees it: one step is one commit   *)
(* of the indexer, with everything that happens between commits left out.  *)
(* IndexRun implements this specification, and the search server is        *)
(* composed with it.                                                       *)
(***************************************************************************)
EXTENDS IndexStore

CONSTANT Seconds    \* values of time.Now().Unix() that matter

VARIABLE db

WriterInit == db = EmptyDatabase

\* A flush of the walker's batch.
Upsert(rows, now) == db' = UpsertFiles(db, rows, now)

Reconcile(start) == db' = MarkUnseenDeleted(db, start)

WriteFingerprint(v) ==
    /\ FingerprintAccepts(db, v)
    /\ db' = [db EXCEPT !.fp = v]

\* What a file transaction starts from.
Cleared(f) == ClearFiles(db, {f})

\* The transaction of a file with nothing to index.
CommitSkipped(f) ==
    /\ IsPending(db, f)
    /\ db' = MarkSkipped(Cleared(f), f)

\* The transaction of a file read as c: its nodes, chunks and vectors arrive
\* together, under ids that may have been another file's.
CommitIndexed(f, c) ==
    /\ IsPending(db, f)
    /\ db.fp # Null
    /\ \E new \in SUBSET FreeIds(Cleared(f).nodes) :
       \E name \in Bijection(new, NodeNames[c]) :
       LET noded == InsertNodes(Cleared(f), [n \in new |-> [file |-> f, name |-> name[n]]])
           rows == {r \in [node : new, text : Texts] : <<name[r.node], r.text>> \in Pieces[c]}
       IN  \E fresh \in SUBSET FreeIds(noded.chunks) :
           \E row \in Bijection(fresh, rows) :
              LET buffer == [k \in ChunkIds |-> IF k \in fresh THEN row[k].text ELSE Null]
                  filled == WriteBatch(InsertChunks(noded, row), buffer, db.fp)
              IN  db' = [filled EXCEPT !.pstate[f] = [p \in Passes |-> "done"]]

\* The row that records a failure, after the rollback.
CommitFailure(f, p) == IsLive(db, f) /\ db' = RecordFailure(db, f, p)

\* The operator deletes index.db.
Recreate == db' = EmptyDatabase

Commit ==
    \/ \E rows \in [Files -> WalkRow \cup {Null}], now \in Seconds :
          Upsert(rows, now)
    \/ \E start \in Seconds : Reconcile(start)
    \/ \E v \in Schemes : WriteFingerprint(v)
    \/ \E f \in Files : CommitSkipped(f)
    \/ \E f \in Files, c \in Contents \ Binary : CommitIndexed(f, c)
    \/ \E f \in Files, p \in Passes : CommitFailure(f, p)

WriterNext == Commit \/ Recreate

WriterSpec == WriterInit /\ [][WriterNext]_db
=============================================================================
