---------------------------- MODULE IndexRunProofs ----------------------------
(***************************************************************************)
(* Proofs about IndexRun: the inductive invariant action by action, then   *)
(* the theorems.                                                           *)
(***************************************************************************)
EXTENDS IndexRunInvariant, IndexStoreProofs

-----------------------------------------------------------------------------
(* The inductive invariant, action by action.                              *)

LEMMA InvariantInit == Init => IndexInvariant
<1> SUFFICES ASSUME Init PROVE IndexInvariant
  OBVIOUS
<1>1. TypeOK
  BY EmptyDatabaseSound, SizesAssumption
     DEF Init, TypeOK, RunPcs, FilePcs, NothingQueued, NothingBuffered, Passes
<1> QED
  BY <1>1, EmptyDatabaseSound
     DEF Init, IndexInvariant, InHand, Waiting, BufferMatchesChunks, GatePassed, FilePcs

\* Steps that leave the database and the open transaction alone.
LEMMA StartRunInvariant ==
    ASSUME IndexInvariant, NEW v \in Schemes, StartRun(v)
    PROVE  IndexInvariant'
<1>1. TypeOK'
  BY DEF IndexInvariant, TypeOK, StartRun, RunPcs, envVars, storeVars, walkVars,
         loopVars, fileVars, obsVars
<1> QED
  BY <1>1, NullAssumption
     DEF IndexInvariant, StartRun, InHand, Waiting, Buffered, BufferMatchesChunks,
         GatePassed, FilePcs, Sound, VectorsMissingOnly, storeVars, fileVars

LEMMA PassOverInvariant ==
    ASSUME IndexInvariant, NEW f \in Files, PassOver(f), pc \in {"walk", "classify"}
    PROVE  IndexInvariant'
<1>1. budget' \in Nat
  <2>1. budget \in Nat
    BY DEF IndexInvariant, TypeOK
  <2> QED
    BY <2>1 DEF PassOver, Disturb
<1>2. quiet' \in BOOLEAN
  <2>1. quiet \in BOOLEAN
    BY DEF IndexInvariant, TypeOK
  <2> QED
    BY <2>1, Zenon DEF PassOver, Disturb
<1>3. TypeOK'
  BY <1>1, <1>2 DEF IndexInvariant, TypeOK, PassOver, RunPcs, storeVars, runVars, loopVars
<1> QED
  BY <1>3
     DEF IndexInvariant, PassOver, InHand, Waiting, Buffered, BufferMatchesChunks,
         GatePassed, FilePcs, Sound, VectorsMissingOnly, storeVars, runVars

LEMMA SkipInvariant ==
    ASSUME IndexInvariant, SkipUnclassified \/ \E f \in Files : SkipUnhashed(f)
    PROVE  IndexInvariant'
  BY PassOverInvariant DEF IndexInvariant, InHand, SkipUnhashed, SkipUnclassified

LEMMA HashFileInvariant ==
    ASSUME IndexInvariant, NEW f \in Files, HashFile(f)
    PROVE  IndexInvariant'
<1>1. TypeOK'
  BY DEF IndexInvariant, TypeOK, HashFile, RunPcs, FilePcs, envVars, storeVars, runVars, walkVars,
         loopVars, fileVars, obsVars
<1> QED
  BY <1>1, NullAssumption
     DEF IndexInvariant, TypeOK, HashFile, InHand, Waiting, Buffered,
         BufferMatchesChunks, GatePassed, RunPcs, FilePcs, Sound, VectorsMissingOnly,
         envVars, storeVars, runVars, walkVars,
         loopVars, fileVars, obsVars

LEMMA RefuseFingerprintInvariant ==
    ASSUME IndexInvariant, RefuseFingerprint
    PROVE  IndexInvariant'
<1>1. TypeOK'
  BY DEF IndexInvariant, TypeOK, RefuseFingerprint, ForgetRun, NothingQueued, NothingBuffered, Passes, RunPcs, FilePcs, envVars, storeVars, runVars, walkVars,
         loopVars, fileVars, obsVars
<1> QED
  BY <1>1, NullAssumption
     DEF IndexInvariant, TypeOK, RefuseFingerprint, ForgetRun, NothingQueued, NothingBuffered, Passes, InHand, Waiting, Buffered,
         BufferMatchesChunks, GatePassed, RunPcs, FilePcs, Sound, VectorsMissingOnly,
         envVars, storeVars, runVars, walkVars,
         loopVars, fileVars, obsVars

LEMMA FetchPendingInvariant ==
    ASSUME IndexInvariant, FetchPending
    PROVE  IndexInvariant'
<1>1. TypeOK'
  BY DEF IndexInvariant, TypeOK, FetchPending, PendingFiles, RunPcs, FilePcs, envVars, storeVars, runVars, walkVars,
         loopVars, fileVars, obsVars
<1> QED
  BY <1>1, NullAssumption
     DEF IndexInvariant, TypeOK, FetchPending, PendingFiles, InHand, Waiting, Buffered,
         BufferMatchesChunks, GatePassed, RunPcs, FilePcs, Sound, VectorsMissingOnly,
         envVars, storeVars, runVars, walkVars,
         loopVars, fileVars, obsVars

LEMMA FinishRunInvariant ==
    ASSUME IndexInvariant, FinishRun
    PROVE  IndexInvariant'
<1>1. TypeOK'
  BY DEF IndexInvariant, TypeOK, FinishRun, ForgetRun, NothingQueued, NothingBuffered, Passes, RunPcs, FilePcs, envVars, storeVars, runVars, walkVars,
         loopVars, fileVars, obsVars
<1> QED
  BY <1>1, NullAssumption
     DEF IndexInvariant, TypeOK, FinishRun, ForgetRun, NothingQueued, NothingBuffered, Passes, InHand, Waiting, Buffered,
         BufferMatchesChunks, GatePassed, RunPcs, FilePcs, Sound, VectorsMissingOnly,
         envVars, storeVars, runVars, walkVars,
         loopVars, fileVars, obsVars

LEMMA InterruptInvariant ==
    ASSUME IndexInvariant, Interrupt
    PROVE  IndexInvariant'
<1>1. TypeOK'
  BY DEF IndexInvariant, TypeOK, Interrupt, Disturb, ForgetRun, NothingQueued, NothingBuffered, Passes, RunPcs, FilePcs, envVars, storeVars, runVars, walkVars,
         loopVars, fileVars, obsVars
<1> QED
  BY <1>1, NullAssumption
     DEF IndexInvariant, TypeOK, Interrupt, Disturb, ForgetRun, NothingQueued, NothingBuffered, Passes, InHand, Waiting, Buffered,
         BufferMatchesChunks, GatePassed, RunPcs, FilePcs, Sound, VectorsMissingOnly,
         envVars, storeVars, runVars, walkVars,
         loopVars, fileVars, obsVars

LEMMA EditInvariant ==
    ASSUME IndexInvariant, NEW f \in Files, NEW c \in Contents \cup {Absent}, Edit(f, c)
    PROVE  IndexInvariant'
<1>1. TypeOK'
  BY DEF IndexInvariant, TypeOK, Edit, Disturb, RunPcs, FilePcs, envVars, storeVars, runVars, walkVars,
         loopVars, fileVars, obsVars
<1> QED
  BY <1>1, NullAssumption
     DEF IndexInvariant, TypeOK, Edit, Disturb, InHand, Waiting, Buffered,
         BufferMatchesChunks, GatePassed, RunPcs, FilePcs, Sound, VectorsMissingOnly,
         envVars, storeVars, runVars, walkVars,
         loopVars, fileVars, obsVars

LEMMA TickInvariant ==
    ASSUME IndexInvariant, Tick
    PROVE  IndexInvariant'
<1>1. TypeOK'
  BY DEF IndexInvariant, TypeOK, Tick, RunPcs, FilePcs, envVars, storeVars, runVars, walkVars,
         loopVars, fileVars, obsVars
<1> QED
  BY <1>1, NullAssumption
     DEF IndexInvariant, TypeOK, Tick, InHand, Waiting, Buffered,
         BufferMatchesChunks, GatePassed, RunPcs, FilePcs, Sound, VectorsMissingOnly,
         envVars, storeVars, runVars, walkVars,
         loopVars, fileVars, obsVars


\* Steps that write the committed database outside a file transaction.
LEMMA ClassifyFileInvariant ==
    ASSUME IndexInvariant, ClassifyFile
    PROVE  IndexInvariant'
<1> DEFINE rows == [batch EXCEPT ![cur] = [sha |-> hash, class |-> ClassOf(disk[cur])]]
<1>1. /\ pc = "classify" /\ pc' = "walk" /\ cur' = Null /\ hash' = Null
      /\ cur \in Files /\ hash \in Contents /\ tx = db
      /\ visited' = visited \cup {cur}
      /\ UNCHANGED <<disk, clock, budget, scheme, startTime, ids, attempted, body,
                     pass, todo, embedBuf, quiet, unlogged, torn>>
  BY DEF ClassifyFile, IndexInvariant, InHand, FilePcs, envVars, runVars, loopVars, obsVars
<1>2. /\ db \in Database /\ clock \in Nat /\ Sound(db) /\ VectorsMissingOnly(db, {})
  BY DEF IndexInvariant, TypeOK
<1>3. rows \in [Files -> WalkRow \cup {Null}]
  BY <1>1 DEF IndexInvariant, TypeOK, WalkRow, ClassOf, Classes
<1>4. \/ db' = UpsertFiles(db, rows, clock) /\ tx' = db' /\ batch' = NothingQueued
      \/ db' = db /\ tx' = tx /\ batch' = rows
  BY DEF ClassifyFile, Store, storeVars
<1> HIDE DEF rows
<1>5. /\ db' \in Database /\ Sound(db') /\ VectorsMissingOnly(db', {}) /\ tx' = db'
  BY <1>1, <1>2, <1>3, <1>4, UpsertFilesSound
<1>6. batch' \in [Files -> WalkRow \cup {Null}]
  BY <1>3, <1>4 DEF NothingQueued
<1>7. TypeOK'
  BY <1>1, <1>5, <1>6 DEF IndexInvariant, TypeOK, RunPcs
<1> QED
  BY <1>1, <1>5, <1>7
     DEF IndexInvariant, InHand, Waiting, BufferMatchesChunks, GatePassed, FilePcs,
         Sound, VectorsMissingOnly

LEMMA FinishWalkInvariant ==
    ASSUME IndexInvariant, FinishWalk
    PROVE  IndexInvariant'
<1>1. /\ pc = "walk" /\ pc' = "reconcile" /\ batch' = NothingQueued
      /\ db' = UpsertFiles(db, batch, clock) /\ tx' = db'
      /\ UNCHANGED <<disk, clock, budget, scheme, startTime, visited, hash, ids,
                     attempted, cur, body, pass, todo, embedBuf, quiet, unlogged, torn>>
  BY DEF FinishWalk, Store, envVars, runVars, loopVars, fileVars, obsVars
<1>2. /\ db' \in Database /\ Sound(db') /\ VectorsMissingOnly(db', {})
  BY <1>1, UpsertFilesSound DEF IndexInvariant, TypeOK
<1>3. TypeOK'
  BY <1>1, <1>2 DEF IndexInvariant, TypeOK, RunPcs, NothingQueued
<1> QED
  BY <1>1, <1>2, <1>3
     DEF IndexInvariant, InHand, Waiting, BufferMatchesChunks, GatePassed, FilePcs,
         Sound, VectorsMissingOnly

LEMMA ReconcileDeletionsInvariant ==
    ASSUME IndexInvariant, ReconcileDeletions
    PROVE  IndexInvariant'
<1>1. /\ pc = "reconcile" /\ pc' = "fingerprint"
      /\ db' = MarkUnseenDeleted(db, startTime) /\ tx' = db'
      /\ UNCHANGED <<disk, clock, budget, scheme, startTime, visited, hash, batch, ids,
                     attempted, cur, body, pass, todo, embedBuf, quiet, unlogged, torn>>
  BY DEF ReconcileDeletions, Store, envVars, runVars, walkVars, loopVars, fileVars, obsVars
<1>2. /\ db' \in Database /\ Sound(db') /\ VectorsMissingOnly(db', {})
  BY <1>1, MarkUnseenDeletedSound DEF IndexInvariant, TypeOK
<1>3. TypeOK'
  BY <1>1, <1>2 DEF IndexInvariant, TypeOK, RunPcs
<1> QED
  BY <1>1, <1>2, <1>3
     DEF IndexInvariant, InHand, Waiting, BufferMatchesChunks, GatePassed, FilePcs,
         Sound, VectorsMissingOnly

\* The fingerprint is only ever set where there was none, and a database
\* without one holds no vector.
LEMMA EnsureFingerprintInvariant ==
    ASSUME IndexInvariant, EnsureFingerprint
    PROVE  IndexInvariant'
<1>1. /\ pc = "fingerprint" /\ pc' = "loop"
      /\ db.fp \in {Null, scheme}
      /\ db' = [db EXCEPT !.fp = scheme] /\ tx' = db'
      /\ UNCHANGED <<disk, clock, budget, scheme, startTime, visited, hash, batch, ids,
                     attempted, cur, body, pass, todo, embedBuf, quiet, unlogged, torn>>
  BY DEF EnsureFingerprint, FingerprintAccepts, Store, envVars, runVars, walkVars,
         loopVars, fileVars, obsVars
<1>2. /\ db \in Database /\ scheme \in Schemes
      /\ Sound(db) /\ VectorsMissingOnly(db, {})
  BY <1>1 DEF IndexInvariant, TypeOK, InHand
<1>3. /\ db' \in Database /\ db'.fp = scheme
      /\ db'.nodes = db.nodes /\ db'.chunks = db.chunks
      /\ db'.fts = db.fts /\ db'.emb = db.emb
  BY <1>1, <1>2 DEF Database
<1>4. \A c \in ChunkIds : db.emb[c] # Null => db.emb[c].scheme \in Schemes
  BY <1>2 DEF Database, Vector
<1>5. db.fp = Null => \A c \in ChunkIds : db.emb[c] = Null
  BY <1>2, <1>4, NullAssumption DEF Sound
<1>6. Sound(db')
  BY <1>1, <1>2, <1>3, <1>5 DEF Sound
<1>7. VectorsMissingOnly(db', {})
  BY <1>2, <1>3 DEF VectorsMissingOnly
<1>8. TypeOK'
  BY <1>1, <1>3 DEF IndexInvariant, TypeOK, RunPcs
<1> QED
  BY <1>1, <1>2, <1>3, <1>6, <1>7, <1>8, NullAssumption
     DEF IndexInvariant, InHand, Waiting, BufferMatchesChunks, GatePassed, FilePcs,
         Sound, VectorsMissingOnly

LEMMA DeleteIndexInvariant ==
    ASSUME IndexInvariant, DeleteIndex
    PROVE  IndexInvariant'
<1>1. /\ pc = "idle" /\ pc' = "idle"
      /\ db' = EmptyDatabase /\ tx' = db' /\ torn' = {}
      /\ UNCHANGED <<disk, clock, scheme, startTime, visited, hash, batch, ids,
                     attempted, cur, body, pass, todo, embedBuf, quiet, unlogged>>
  BY DEF DeleteIndex, Store, runVars, walkVars, loopVars, fileVars
<1>2. budget' \in Nat
  <2>1. budget \in Nat
    BY DEF IndexInvariant, TypeOK
  <2> QED
    BY <2>1 DEF DeleteIndex, Disturb
<1>3. TypeOK'
  BY <1>1, <1>2, EmptyDatabaseSound DEF IndexInvariant, TypeOK
<1> QED
  BY <1>1, <1>3, EmptyDatabaseSound
     DEF IndexInvariant, InHand, Waiting, BufferMatchesChunks, GatePassed, FilePcs,
         Sound, VectorsMissingOnly

\* Steps inside the file transaction.
LEMMA BeginFileInvariant ==
    ASSUME IndexInvariant, NEW f \in Files, BeginFile(f)
    PROVE  IndexInvariant'
<1>1. /\ pc = "loop" /\ pc' = "dispatch" /\ cur' = f /\ pass' = "structural"
      /\ attempted' = attempted \cup {f}
      /\ embedBuf' = NothingBuffered /\ tx' = ClearFiles(db, {f})
      /\ UNCHANGED <<disk, clock, budget, db, scheme, startTime, visited, hash, batch,
                     ids, body, todo, quiet, unlogged, torn>>
  BY DEF BeginFile, envVars, runVars, walkVars, obsVars
<1>2. db \in Database /\ Sound(db) /\ VectorsMissingOnly(db, {})
  BY DEF IndexInvariant, TypeOK
<1>3. /\ tx' \in Database /\ tx'.fp = db.fp
      /\ Sound(tx') /\ VectorsMissingOnly(tx', {})
  BY <1>1, <1>2, ClearFilesEffect, ClearFilesSound
<1>4. TypeOK'
  BY <1>1, <1>3 DEF IndexInvariant, TypeOK, RunPcs, FilePcs, Passes, NothingBuffered
<1> QED
  BY <1>1, <1>2, <1>3, <1>4
     DEF IndexInvariant, InHand, Waiting, Buffered, BufferMatchesChunks, GatePassed,
         FilePcs, Sound, VectorsMissingOnly

LEMMA SkipOtherInvariant ==
    ASSUME IndexInvariant, SkipOther
    PROVE  IndexInvariant'
<1>1. /\ pc = "dispatch" /\ pc' = "commit" /\ tx' = MarkSkipped(tx, cur)
      /\ UNCHANGED <<disk, clock, budget, db, scheme, startTime, visited, hash, batch,
                     ids, attempted, cur, body, pass, todo, embedBuf, quiet, unlogged, torn>>
  BY DEF SkipOther, envVars, runVars, walkVars, loopVars, fileVars, obsVars
<1>2. tx \in Database /\ cur \in Files /\ Sound(tx) /\ VectorsMissingOnly(tx, {})
  BY <1>1 DEF IndexInvariant, TypeOK, InHand, FilePcs, Waiting
<1>3. /\ tx' \in Database /\ tx'.fp = tx.fp
      /\ Sound(tx') /\ VectorsMissingOnly(tx', {})
  BY <1>1, <1>2, MarkSkippedEffect
<1>4. TypeOK'
  BY <1>1, <1>3 DEF IndexInvariant, TypeOK, RunPcs, FilePcs
<1> QED
  BY <1>1, <1>2, <1>3, <1>4
     DEF IndexInvariant, InHand, Waiting, Buffered, BufferMatchesChunks, GatePassed,
         FilePcs, Sound, VectorsMissingOnly

LEMMA ReadFileInvariant ==
    ASSUME IndexInvariant, ReadFile
    PROVE  IndexInvariant'
<1>1. /\ pc = "dispatch" /\ disk[cur] # Absent /\ body' = disk[cur]
      /\ \/ tx' = MarkSkipped(tx, cur) /\ pc' = "commit"
         \/ tx' = tx /\ pc' = "structural"
      /\ UNCHANGED <<disk, clock, budget, db, scheme, startTime, visited, hash, batch,
                     ids, attempted, cur, pass, todo, embedBuf, quiet, unlogged, torn>>
  BY DEF ReadFile, envVars, runVars, walkVars, loopVars, obsVars
<1>2. tx \in Database /\ cur \in Files /\ Sound(tx) /\ VectorsMissingOnly(tx, {})
  BY <1>1 DEF IndexInvariant, TypeOK, InHand, FilePcs, Waiting
<1>3. /\ tx' \in Database /\ tx'.fp = tx.fp
      /\ Sound(tx') /\ VectorsMissingOnly(tx', {})
  BY <1>1, <1>2, MarkSkippedEffect
<1>4. body' \in Contents
  BY <1>1, <1>2 DEF IndexInvariant, TypeOK
<1>5. TypeOK'
  BY <1>1, <1>3, <1>4 DEF IndexInvariant, TypeOK, RunPcs, FilePcs
<1> QED
  BY <1>1, <1>2, <1>3, <1>4, <1>5
     DEF IndexInvariant, InHand, Waiting, Buffered, BufferMatchesChunks, GatePassed,
         FilePcs, Sound, VectorsMissingOnly

LEMMA RunStructuralInvariant ==
    ASSUME IndexInvariant, RunStructural
    PROVE  IndexInvariant'
<1>1. /\ pc = "structural" /\ pc' = "chunker" /\ pass' = "chunker"
      /\ UNCHANGED <<disk, clock, budget, db, scheme, startTime, visited, hash, batch,
                     ids, attempted, cur, body, todo, embedBuf, quiet, unlogged, torn>>
  BY DEF RunStructural, envVars, runVars, walkVars, loopVars, obsVars
<1>2. /\ tx \in Database /\ cur \in Files /\ body \in Contents
      /\ Sound(tx) /\ VectorsMissingOnly(tx, {})
  BY <1>1 DEF IndexInvariant, TypeOK, InHand, FilePcs, Waiting
<1>3. PICK new \in SUBSET FreeIds(tx.nodes) : \E name \in Bijection(new, NodeNames[body]) :
          tx' = MarkStatus(
                  InsertNodes(tx, [n \in new |-> [file |-> cur, name |-> name[n]]]),
                  cur, "structural", "done")
  BY DEF RunStructural
<1>4. PICK name \in Bijection(new, NodeNames[body]) :
          tx' = MarkStatus(
                  InsertNodes(tx, [n \in new |-> [file |-> cur, name |-> name[n]]]),
                  cur, "structural", "done")
  BY <1>3
<1> DEFINE rows == [n \in new |-> [file |-> cur, name |-> name[n]]]
           mid == InsertNodes(tx, rows)
<1>5. rows \in [new -> NodeRow]
  <2>1. name \in [new -> NodeNames[body]] /\ NodeNames[body] \subseteq Names
    BY <1>2, ContentAssumption DEF Bijection, Injection
  <2> QED
    BY <1>2, <2>1 DEF NodeRow
<1> HIDE DEF rows
<1>6. /\ mid \in Database /\ mid.fp = tx.fp
      /\ Sound(mid) /\ VectorsMissingOnly(mid, {})
  BY <1>2, <1>5, InsertNodesSound
<1>7. tx' = MarkStatus(mid, cur, "structural", "done")
  BY <1>4 DEF rows
<1> HIDE DEF mid
<1>8. /\ tx' \in Database /\ tx'.fp = tx.fp
      /\ Sound(tx') /\ VectorsMissingOnly(tx', {})
  <2>1. "structural" \in Passes /\ "done" \in Statuses
    BY DEF Passes, Statuses
  <2>2. LET e == MarkStatus(mid, cur, "structural", "done")
        IN  e \in Database /\ e.fp = mid.fp /\ Sound(e) /\ VectorsMissingOnly(e, {})
    BY <1>2, <1>6, <2>1, MarkStatusEffect
  <2>3. QED
    BY <1>6, <1>7, <2>2
<1>9. TypeOK'
  BY <1>1, <1>8 DEF IndexInvariant, TypeOK, RunPcs, FilePcs, Passes
<1> QED
  BY <1>1, <1>2, <1>8, <1>9
     DEF IndexInvariant, InHand, Waiting, Buffered, BufferMatchesChunks, GatePassed,
         FilePcs, Sound, VectorsMissingOnly

LEMMA RunChunkerInvariant ==
    ASSUME IndexInvariant, RunChunker
    PROVE  IndexInvariant'
<1>1. /\ pc = "chunker" /\ pc' = "embed" /\ pass' = "embeddings"
      /\ UNCHANGED <<disk, clock, budget, db, scheme, startTime, visited, hash, batch,
                     ids, attempted, cur, body, embedBuf, quiet, unlogged, torn>>
  BY DEF RunChunker, envVars, runVars, walkVars, loopVars, obsVars
<1>2. /\ tx \in Database /\ cur \in Files /\ embedBuf = NothingBuffered
      /\ Sound(tx) /\ VectorsMissingOnly(tx, {})
  BY <1>1 DEF IndexInvariant, TypeOK, InHand, FilePcs, Waiting, BufferMatchesChunks
<1>3. PICK new \in SUBSET FreeIds(tx.chunks) : \E row \in Bijection(new, ChunkRows) :
          /\ tx' = MarkStatus(
                     MarkStatus(InsertChunks(tx, row), cur, "chunker", "done"),
                     cur, "embeddings", "running")
          /\ todo' = new
  BY DEF RunChunker
<1>4. PICK row \in Bijection(new, ChunkRows) :
          /\ tx' = MarkStatus(
                     MarkStatus(InsertChunks(tx, row), cur, "chunker", "done"),
                     cur, "embeddings", "running")
          /\ todo' = new
  BY <1>3
<1> DEFINE mid == InsertChunks(tx, row)
           late == MarkStatus(mid, cur, "chunker", "done")
<1>5. /\ row \in [new -> ChunkRow]
      /\ \A c \in new : tx.nodes[row[c].node] # Null
  <2>1. row \in [new -> ChunkRows]
    BY DEF Bijection, Injection
  <2>2. \A r \in ChunkRows : r \in ChunkRow /\ tx.nodes[r.node] # Null
    BY DEF ChunkRows, ChunkRow, NodesOf
  <2> QED
    BY <2>1, <2>2
<1>6. /\ mid \in Database /\ mid.fp = tx.fp
      /\ \A c \in new : mid.chunks[c] # Null
      /\ Sound(mid) /\ VectorsMissingOnly(mid, new)
  BY <1>2, <1>5, InsertChunksSound
<1> HIDE DEF mid
<1>7. /\ late \in Database /\ late.fp = tx.fp /\ late.chunks = mid.chunks
      /\ Sound(late) /\ VectorsMissingOnly(late, new)
  BY <1>2, <1>6, MarkStatusEffect DEF Passes, Statuses
<1> DEFINE last == MarkStatus(late, cur, "embeddings", "running")
<1>8. tx' = last
  BY <1>4 DEF mid
<1> HIDE DEF late
<1>9. /\ last \in Database /\ last.fp = tx.fp /\ last.chunks = mid.chunks
      /\ Sound(last) /\ VectorsMissingOnly(last, new)
  BY <1>2, <1>7, MarkStatusEffect DEF Passes, Statuses
<1> HIDE DEF last
<1>10. /\ tx' \in Database /\ tx'.fp = tx.fp /\ tx'.chunks = mid.chunks
       /\ Sound(tx') /\ VectorsMissingOnly(tx', new)
  BY <1>8, <1>9
<1>11. todo' = new /\ new \subseteq ChunkIds
  BY <1>2, <1>4 DEF FreeIds, Database
<1>12. TypeOK'
  BY <1>1, <1>10, <1>11 DEF IndexInvariant, TypeOK, RunPcs, FilePcs, Passes
<1>13. BufferMatchesChunks'
  BY <1>1, <1>2, <1>6, <1>10, <1>11 DEF BufferMatchesChunks, NothingBuffered
<1>14. VectorsMissingOnly(tx, Waiting)'
  BY <1>1, <1>10, <1>11 DEF VectorsMissingOnly, Waiting
<1> QED
  BY <1>1, <1>2, <1>10, <1>12, <1>13, <1>14
     DEF IndexInvariant, InHand, GatePassed, FilePcs, Sound, VectorsMissingOnly

LEMMA BufferChunkInvariant ==
    ASSUME IndexInvariant, NEW c \in ChunkIds, BufferChunk(c)
    PROVE  IndexInvariant'
<1>1. /\ pc = "embed" /\ pc' = "embed" /\ c \in todo /\ todo' = todo \ {c}
      /\ embedBuf' = [embedBuf EXCEPT ![c] = tx.chunks[c].text]
      /\ UNCHANGED <<disk, clock, budget, db, tx, scheme, startTime, visited, hash, batch,
                     ids, attempted, cur, body, pass, quiet, unlogged, torn>>
  BY DEF BufferChunk, envVars, storeVars, runVars, walkVars, loopVars, obsVars
<1>2. tx \in Database /\ todo \subseteq ChunkIds /\ embedBuf \in [ChunkIds -> Texts \cup {Null}]
  BY DEF IndexInvariant, TypeOK
<1>3. tx.chunks[c] \in ChunkRow
  BY <1>1, <1>2 DEF IndexInvariant, BufferMatchesChunks, Database
<1>4. tx.chunks[c].text \in Texts /\ tx.chunks[c].text # Null
  BY <1>3, NullAssumption DEF ChunkRow
<1>5. TypeOK'
  BY <1>1, <1>4 DEF IndexInvariant, TypeOK, RunPcs, FilePcs
<1>6. BufferMatchesChunks'
  BY <1>1, <1>2, <1>3, NullAssumption DEF IndexInvariant, BufferMatchesChunks
<1>7. (todo \cup Buffered) \subseteq (todo \cup Buffered)'
  BY <1>1, <1>2, <1>4 DEF Buffered
<1>8. VectorsMissingOnly(tx, Waiting)'
  BY <1>1, <1>7 DEF IndexInvariant, VectorsMissingOnly, Waiting
<1> QED
  BY <1>1, <1>5, <1>6, <1>8
     DEF IndexInvariant, InHand, GatePassed, FilePcs, Sound, VectorsMissingOnly

LEMMA FlushEmbedBatchInvariant ==
    ASSUME IndexInvariant, FlushEmbedBatch
    PROVE  IndexInvariant'
<1>1. /\ pc = "embed" /\ pc' = "embed"
      /\ tx' = WriteBatch(tx, embedBuf, scheme) /\ embedBuf' = NothingBuffered
      /\ UNCHANGED <<disk, clock, budget, db, scheme, startTime, visited, hash, batch,
                     ids, attempted, cur, body, pass, todo, quiet, unlogged, torn>>
  BY DEF FlushEmbedBatch, envVars, runVars, walkVars, loopVars, obsVars
<1>2. /\ tx \in Database /\ embedBuf \in [ChunkIds -> Texts \cup {Null}]
      /\ scheme \in Schemes /\ scheme = tx.fp /\ Sound(tx)
      /\ VectorsMissingOnly(tx, todo \cup {c \in ChunkIds : embedBuf[c] # Null})
  BY <1>1 DEF IndexInvariant, TypeOK, GatePassed, FilePcs, Waiting, Buffered
<1>3. \A c \in ChunkIds : embedBuf[c] # Null =>
          tx.chunks[c] # Null /\ tx.chunks[c].text = embedBuf[c]
  BY <1>1 DEF IndexInvariant, BufferMatchesChunks
<1>4. /\ tx' \in Database /\ tx'.fp = tx.fp /\ tx'.chunks = tx.chunks
      /\ Sound(tx') /\ VectorsMissingOnly(tx', todo)
  BY <1>1, <1>2, <1>3, WriteBatchSound
<1>5. TypeOK'
  BY <1>1, <1>4 DEF IndexInvariant, TypeOK, RunPcs, FilePcs, NothingBuffered
<1>6. BufferMatchesChunks'
  BY <1>1, <1>4 DEF IndexInvariant, BufferMatchesChunks, NothingBuffered
<1>7. VectorsMissingOnly(tx, Waiting)'
  BY <1>1, <1>4 DEF VectorsMissingOnly, Waiting
<1>8. InHand'
  BY <1>1 DEF IndexInvariant, InHand, FilePcs
<1>9. GatePassed'
  BY <1>1, <1>4 DEF IndexInvariant, GatePassed, FilePcs
<1>10. Sound(db)' /\ VectorsMissingOnly(db, {})'
  BY <1>1 DEF IndexInvariant, Sound, VectorsMissingOnly
<1>11. Sound(tx)'
  BY <1>4 DEF Sound
<1> QED
  BY <1>1, <1>5, <1>6, <1>7, <1>8, <1>9, <1>10, <1>11 DEF IndexInvariant, FilePcs

LEMMA FinishEmbeddingsInvariant ==
    ASSUME IndexInvariant, FinishEmbeddings
    PROVE  IndexInvariant'
<1>1. /\ pc = "embed" /\ pc' = "commit" /\ todo = {} /\ Buffered = {}
      /\ tx' = MarkStatus(tx, cur, "embeddings", "done")
      /\ UNCHANGED <<disk, clock, budget, db, scheme, startTime, visited, hash, batch,
                     ids, attempted, cur, body, pass, todo, embedBuf, quiet, unlogged, torn>>
  BY DEF FinishEmbeddings, envVars, runVars, walkVars, loopVars, fileVars, obsVars
<1>2. tx \in Database /\ cur \in Files /\ Sound(tx) /\ VectorsMissingOnly(tx, {})
  BY <1>1 DEF IndexInvariant, TypeOK, InHand, FilePcs, Waiting
<1>3. /\ tx' \in Database /\ tx'.fp = tx.fp
      /\ Sound(tx') /\ VectorsMissingOnly(tx', {})
  BY <1>1, <1>2, MarkStatusEffect DEF Passes, Statuses
<1>4. TypeOK'
  BY <1>1, <1>3 DEF IndexInvariant, TypeOK, RunPcs, FilePcs
<1> QED
  BY <1>1, <1>2, <1>3, <1>4
     DEF IndexInvariant, InHand, Waiting, Buffered, BufferMatchesChunks, GatePassed,
         FilePcs, Sound, VectorsMissingOnly

\* Steps that end the file transaction.
LEMMA CommitFileInvariant ==
    ASSUME IndexInvariant, CommitFile
    PROVE  IndexInvariant'
<1>1. /\ pc = "commit" /\ pc' = "loop" /\ db' = tx /\ tx' = tx
      /\ cur' = Null /\ body' = Null /\ pass' = "structural" /\ todo' = {}
      /\ torn' \in {torn \ {cur}, torn \cup {cur}}
      /\ UNCHANGED <<disk, clock, budget, scheme, startTime, visited, hash, batch,
                     ids, attempted, embedBuf, quiet, unlogged>>
  BY DEF CommitFile, Store, NextFile, envVars, runVars, walkVars, loopVars
<1>2. tx \in Database /\ cur \in Files /\ Sound(tx) /\ VectorsMissingOnly(tx, {})
  BY <1>1 DEF IndexInvariant, TypeOK, InHand, FilePcs, Waiting
<1>3. torn' \subseteq Files
  BY <1>1, <1>2 DEF IndexInvariant, TypeOK
<1>4. TypeOK'
  BY <1>1, <1>2, <1>3 DEF IndexInvariant, TypeOK, RunPcs, Passes
<1> QED
  BY <1>1, <1>2, <1>4
     DEF IndexInvariant, InHand, Waiting, Buffered, BufferMatchesChunks, GatePassed,
         FilePcs, Sound, VectorsMissingOnly

\* What the two failing steps do to the store: the transaction is dropped, and
\* at most pipeline_state changes.
LEMMA RollbackInvariant ==
    ASSUME IndexInvariant, pc \in FilePcs, NextFile,
           db' \in Database, tx' = db',
           db'.files = db.files, db'.nodes = db.nodes, db'.chunks = db.chunks,
           db'.fts = db.fts, db'.emb = db.emb, db'.fp = db.fp,
           budget' \in Nat, quiet' \in BOOLEAN, unlogged' \subseteq Files,
           UNCHANGED <<disk, clock, runVars, walkVars, loopVars, embedBuf, torn>>
    PROVE  IndexInvariant'
<1>1. Sound(db') /\ VectorsMissingOnly(db', {})
  BY SoundTables DEF IndexInvariant
<1>2. TypeOK'
  BY DEF IndexInvariant, TypeOK, NextFile, RunPcs, Passes, runVars, walkVars, loopVars
<1> QED
  BY <1>1, <1>2
     DEF IndexInvariant, NextFile, InHand, Waiting, Buffered, BufferMatchesChunks,
         GatePassed, FilePcs, Sound, VectorsMissingOnly, runVars

LEMMA FailFileInvariant ==
    ASSUME IndexInvariant, FailFile \/ FailFileUnrecorded
    PROVE  IndexInvariant'
<1>1. /\ db \in Database /\ cur \in Files /\ pass \in Passes /\ pc \in FilePcs
      /\ budget \in Nat /\ unlogged \subseteq Files
  BY DEF IndexInvariant, TypeOK, InHand, FailFile, FailFileUnrecorded
<1>2. quiet \in BOOLEAN
  BY DEF IndexInvariant, TypeOK
<1>3. /\ budget' \in Nat
  BY <1>1 DEF FailFile, FailFileUnrecorded, Disturb
<1>4. quiet' \in BOOLEAN
  BY <1>2, Zenon DEF FailFile, FailFileUnrecorded
<1>5. unlogged' \subseteq Files
  BY <1>1 DEF FailFile, FailFileUnrecorded
<1>6. /\ db' \in Database /\ tx' = db'
      /\ db'.files = db.files /\ db'.nodes = db.nodes /\ db'.chunks = db.chunks
      /\ db'.fts = db.fts /\ db'.emb = db.emb /\ db'.fp = db.fp
  BY <1>1, MarkStatusEffect
     DEF FailFile, FailFileUnrecorded, Store, RecordFailure, Statuses
<1>7. NextFile /\ UNCHANGED <<disk, clock, runVars, walkVars, loopVars, embedBuf, torn>>
  BY DEF FailFile, FailFileUnrecorded
<1> QED
  BY <1>1, <1>3, <1>4, <1>5, <1>6, <1>7, RollbackInvariant

\* Every step preserves the invariant.
LEMMA InvariantNext ==
    ASSUME IndexInvariant, [Next]_vars
    PROVE  IndexInvariant'
<1>1. CASE RunnerStep
  BY <1>1, SkipInvariant, HashFileInvariant, ClassifyFileInvariant,
     FinishWalkInvariant, ReconcileDeletionsInvariant, EnsureFingerprintInvariant,
     RefuseFingerprintInvariant, FetchPendingInvariant, BeginFileInvariant,
     SkipOtherInvariant, ReadFileInvariant, RunStructuralInvariant,
     RunChunkerInvariant, BufferChunkInvariant, FlushEmbedBatchInvariant,
     FinishEmbeddingsInvariant, CommitFileInvariant, FailFileInvariant,
     FinishRunInvariant DEF RunnerStep
<1>2. CASE EnvironmentStep
  BY <1>2, StartRunInvariant, InterruptInvariant, EditInvariant, TickInvariant,
     DeleteIndexInvariant DEF EnvironmentStep
<1>3. CASE UNCHANGED vars
  BY <1>3
     DEF IndexInvariant, TypeOK, InHand, Waiting, Buffered, BufferMatchesChunks,
         GatePassed, Sound, VectorsMissingOnly, vars, envVars, storeVars, runVars,
         walkVars, loopVars, fileVars, obsVars
<1> QED
  BY <1>1, <1>2, <1>3 DEF Next

-----------------------------------------------------------------------------
(* The theorems.                                                           *)

\* The inductive invariant holds in every reachable state, whatever the files,
\* contents, id pools, batch sizes, schemes and disturbances.
THEOREM IndexInvariantHolds == Spec => []IndexInvariant
  BY InvariantInit, InvariantNext, PTL DEF Spec

\* Type correctness of the indexer and of every table.
THEOREM TypeCorrect == Spec => []TypeOK
<1>1. IndexInvariant => TypeOK
  BY DEF IndexInvariant
<1> QED
  BY <1>1, IndexInvariantHolds, PTL

\* No orphan vectors and no stale text rows, after any history of deletes,
\* cascades, rollbacks and reused ids.
THEOREM SearchIndexesAreMirrors == Spec => []SearchIndexesMirrorChunks
<1>1. IndexInvariant => SearchIndexesMirrorChunks
  BY DEF IndexInvariant, Sound, VectorsMissingOnly, SearchIndexesMirrorChunks
<1> QED
  BY <1>1, IndexInvariantHolds, PTL

\* No vector is ever stored under a fingerprint that is not its own.
THEOREM VectorsHaveTheFingerprint == Spec => []VectorsMatchFingerprint
<1>1. IndexInvariant => VectorsMatchFingerprint
  BY DEF IndexInvariant, Sound, VectorsMatchFingerprint
<1> QED
  BY <1>1, IndexInvariantHolds, PTL
=============================================================================
