--------------------------- MODULE IndexStoreProofs ---------------------------
(***************************************************************************)
(* What each statement of IndexStore does to a sound database, for the     *)
(* proofs about the processes that execute them.                           *)
(***************************************************************************)
EXTENDS IndexStore, FiniteSetTheorems, TLAPS

\* A database is its seven tables.
LEMMA DatabaseFields ==
    ASSUME NEW d
    PROVE  d \in Database <=>
             /\ d = [files |-> d.files, nodes |-> d.nodes, chunks |-> d.chunks,
                     fts |-> d.fts, emb |-> d.emb, pstate |-> d.pstate, fp |-> d.fp]
             /\ d.files \in [Files -> FileRow \cup {Null}]
             /\ d.nodes \in [NodeIds -> NodeRow \cup {Null}]
             /\ d.chunks \in [ChunkIds -> ChunkRow \cup {Null}]
             /\ d.fts \in [ChunkIds -> Texts \cup {Null}]
             /\ d.emb \in [ChunkIds -> Vector \cup {Null}]
             /\ d.pstate \in [Files -> [Passes -> Statuses]]
             /\ d.fp \in Schemes \cup {Null}
  BY DEF Database

\* The deletes leave a database, and remove exactly the nodes of F, their
\* chunks, and the text rows and vectors of those chunks.
LEMMA ClearFilesEffect ==
    ASSUME NEW d \in Database, NEW F \in SUBSET Files
    PROVE  LET e == ClearFiles(d, F)
           IN  /\ e \in Database
               /\ e.files = d.files
               /\ e.fp = d.fp
               /\ e.nodes = Without(d.nodes, NodesOf(d, F))
               /\ e.chunks = Without(d.chunks, ChunksOf(d, F))
               /\ e.fts = Without(d.fts, ChunksOf(d, F))
               /\ e.emb = Without(d.emb, ChunksOf(d, F))
<1> DEFINE d1 == DeleteVectors(d, F)
           d2 == DeleteStatus(d1, F)
<1>1. /\ d1 \in Database
      /\ d1 = [d EXCEPT !.emb = Without(d.emb, ChunksOf(d, F))]
  BY DEF Database, DeleteVectors, Without
<1>2. /\ d2 \in Database
      /\ d2.files = d.files /\ d2.fp = d.fp /\ d2.nodes = d.nodes
      /\ d2.chunks = d.chunks /\ d2.fts = d.fts
      /\ d2.emb = Without(d.emb, ChunksOf(d, F))
  <2>1. d2 = [d1 EXCEPT !.pstate = [f \in Files |->
                IF f \in F THEN [p \in Passes |-> "none"] ELSE d1.pstate[f]]]
    BY <1>1 DEF DeleteStatus, Database
  <2>2. [f \in Files |-> IF f \in F THEN [p \in Passes |-> "none"] ELSE d1.pstate[f]]
          \in [Files -> [Passes -> Statuses]]
    BY <1>1 DEF Database, Statuses
  <2> QED
    BY <1>1, <2>1, <2>2 DEF Database
<1>3. NodesOf(d2, F) = NodesOf(d, F) /\ ChunksOf(d2, F) = ChunksOf(d, F)
  BY <1>2 DEF NodesOf, ChunksOf
<1>4. ClearFiles(d, F) = DeleteNodes(d2, F)
  BY DEF ClearFiles
<1> HIDE DEF d1, d2
<1>5. ClearFiles(d, F) = [d2 EXCEPT !.nodes = Without(d2.nodes, NodesOf(d, F)),
                                    !.chunks = Without(d2.chunks, ChunksOf(d, F)),
                                    !.fts = Without(d2.fts, ChunksOf(d, F))]
  BY <1>2, <1>3, <1>4 DEF DeleteNodes, Database
<1>6. /\ Without(d2.nodes, NodesOf(d, F)) \in [NodeIds -> NodeRow \cup {Null}]
      /\ Without(d2.chunks, ChunksOf(d, F)) \in [ChunkIds -> ChunkRow \cup {Null}]
      /\ Without(d2.fts, ChunksOf(d, F)) \in [ChunkIds -> Texts \cup {Null}]
  BY <1>2 DEF Database, Without
<1> DEFINE e == ClearFiles(d, F)
<1>7. e \in Database
  BY <1>2, <1>5, <1>6 DEF Database
<1>8. /\ e.files = d2.files /\ e.fp = d2.fp /\ e.emb = d2.emb
      /\ e.nodes = Without(d2.nodes, NodesOf(d, F))
      /\ e.chunks = Without(d2.chunks, ChunksOf(d, F))
      /\ e.fts = Without(d2.fts, ChunksOf(d, F))
  BY <1>2, <1>5 DEF Database
<1> HIDE DEF e
<1>9. /\ e.files = d.files /\ e.fp = d.fp /\ e.emb = Without(d.emb, ChunksOf(d, F))
      /\ e.nodes = Without(d.nodes, NodesOf(d, F))
      /\ e.chunks = Without(d.chunks, ChunksOf(d, F))
      /\ e.fts = Without(d.fts, ChunksOf(d, F))
  BY <1>2, <1>8
<1> QED
  BY <1>7, <1>9 DEF e

\* The deletes leave no orphan: the database stays sound, and lacks no vector
\* that it did not lack before.
LEMMA ClearFilesSound ==
    ASSUME NEW d \in Database, NEW F \in SUBSET Files, Sound(d)
    PROVE  /\ Sound(ClearFiles(d, F))
           /\ \A W : VectorsMissingOnly(d, W) => VectorsMissingOnly(ClearFiles(d, F), W)
<1> DEFINE e == ClearFiles(d, F)
<1>1. /\ e.fp = d.fp
      /\ e.nodes = Without(d.nodes, NodesOf(d, F))
      /\ e.chunks = Without(d.chunks, ChunksOf(d, F))
      /\ e.fts = Without(d.fts, ChunksOf(d, F))
      /\ e.emb = Without(d.emb, ChunksOf(d, F))
  BY ClearFilesEffect
<1>2. /\ DOMAIN d.nodes = NodeIds
      /\ DOMAIN d.chunks = ChunkIds
      /\ DOMAIN d.fts = ChunkIds
      /\ DOMAIN d.emb = ChunkIds
  BY DEF Database
<1> HIDE DEF e
<1>3. ASSUME NEW c \in ChunkIds
      PROVE  IF c \in ChunksOf(d, F)
             THEN e.chunks[c] = Null /\ e.fts[c] = Null /\ e.emb[c] = Null
             ELSE e.chunks[c] = d.chunks[c] /\ e.fts[c] = d.fts[c] /\ e.emb[c] = d.emb[c]
  BY <1>1, <1>2 DEF Without
<1>4. ASSUME NEW c \in ChunkIds, c \notin ChunksOf(d, F), d.chunks[c] # Null
      PROVE  e.nodes[d.chunks[c].node] = d.nodes[d.chunks[c].node]
  <2>1. d.chunks[c].node \in NodeIds /\ d.chunks[c].node \notin NodesOf(d, F)
    BY <1>4 DEF ChunksOf, Database, ChunkRow
  <2> QED
    BY <2>1, <1>1, <1>2 DEF Without
<1>5. Sound(e)
  BY <1>1, <1>3, <1>4 DEF Sound
<1>6. \A W : VectorsMissingOnly(d, W) => VectorsMissingOnly(e, W)
  BY <1>3 DEF VectorsMissingOnly
<1> QED
  BY <1>5, <1>6 DEF e

\* What the invariant says of a database depends on neither its files table
\* nor its pipeline_state.
LEMMA SoundTables ==
    ASSUME NEW d, NEW e,
           e.nodes = d.nodes, e.chunks = d.chunks, e.fts = d.fts,
           e.emb = d.emb, e.fp = d.fp
    PROVE  /\ Sound(d) => Sound(e)
           /\ \A W : VectorsMissingOnly(d, W) => VectorsMissingOnly(e, W)
  BY DEF Sound, VectorsMissingOnly

\* A flush of the walker keeps the database sound and complete.
LEMMA UpsertFilesSound ==
    ASSUME NEW d \in Database, NEW rows \in [Files -> WalkRow \cup {Null}],
           NEW now \in Nat, Sound(d), VectorsMissingOnly(d, {})
    PROVE  /\ UpsertFiles(d, rows, now) \in Database
           /\ UpsertFiles(d, rows, now).fp = d.fp
           /\ Sound(UpsertFiles(d, rows, now))
           /\ VectorsMissingOnly(UpsertFiles(d, rows, now), {})
<1> DEFINE changed == {f \in {g \in Files : rows[g] # Null} :
                          d.files[f] # Null /\ d.files[f].sha # rows[f].sha}
           base == ClearFiles(d, changed)
           table == [f \in Files |->
                        IF f \in {g \in Files : rows[g] # Null}
                        THEN [sha |-> rows[f].sha, class |-> rows[f].class,
                              seen |-> now, deleted |-> FALSE]
                        ELSE base.files[f]]
           new == [base EXCEPT !.files = table]
<1>1. /\ base \in Database /\ base.fp = d.fp
      /\ Sound(base) /\ VectorsMissingOnly(base, {})
  BY ClearFilesEffect, ClearFilesSound
<1>2. UpsertFiles(d, rows, now) = new
  BY DEF UpsertFiles
<1>3. table \in [Files -> FileRow \cup {Null}]
  <2>1. base.files \in [Files -> FileRow \cup {Null}]
    BY <1>1 DEF Database
  <2> QED
    BY <2>1 DEF WalkRow, FileRow
<1> HIDE DEF base, table
<1>4. new \in Database
  BY <1>1, <1>3 DEF Database
<1>5. /\ new.nodes = base.nodes /\ new.chunks = base.chunks /\ new.fts = base.fts
      /\ new.emb = base.emb /\ new.fp = base.fp
  BY <1>1 DEF Database
<1> QED
  BY <1>1, <1>2, <1>4, <1>5, SoundTables

\* Marking the unseen files deleted touches no other table.
LEMMA MarkUnseenDeletedSound ==
    ASSUME NEW d \in Database, NEW start \in Nat, Sound(d), VectorsMissingOnly(d, {})
    PROVE  /\ MarkUnseenDeleted(d, start) \in Database
           /\ MarkUnseenDeleted(d, start).fp = d.fp
           /\ Sound(MarkUnseenDeleted(d, start))
           /\ VectorsMissingOnly(MarkUnseenDeleted(d, start), {})
<1> DEFINE table == [f \in Files |->
                        IF IsLive(d, f) /\ d.files[f].seen < start
                        THEN [d.files[f] EXCEPT !.deleted = TRUE]
                        ELSE d.files[f]]
           new == [d EXCEPT !.files = table]
<1>1. MarkUnseenDeleted(d, start) = new
  BY DEF MarkUnseenDeleted
<1>2. table \in [Files -> FileRow \cup {Null}]
  <2>1. d.files \in [Files -> FileRow \cup {Null}]
    BY DEF Database
  <2>2. ASSUME NEW f \in Files, IsLive(d, f)
        PROVE  [d.files[f] EXCEPT !.deleted = TRUE] \in FileRow
    BY <2>1, <2>2 DEF IsLive, FileRow
  <2> QED
    BY <2>1, <2>2
<1> HIDE DEF table
<1>3. /\ new \in Database
      /\ new.nodes = d.nodes /\ new.chunks = d.chunks /\ new.fts = d.fts
      /\ new.emb = d.emb /\ new.fp = d.fp
  BY <1>2 DEF Database
<1> QED
  BY <1>1, <1>3, SoundTables

\* Marks of pipeline_state leave the other tables alone.
LEMMA MarkStatusEffect ==
    ASSUME NEW d \in Database, NEW f \in Files, NEW p \in Passes, NEW s \in Statuses
    PROVE  LET e == MarkStatus(d, f, p, s)
           IN  /\ e \in Database
               /\ e.files = d.files /\ e.nodes = d.nodes /\ e.chunks = d.chunks
               /\ e.fts = d.fts /\ e.emb = d.emb /\ e.fp = d.fp
               /\ Sound(d) => Sound(e)
               /\ \A W : VectorsMissingOnly(d, W) => VectorsMissingOnly(e, W)
<1> DEFINE table == [d.pstate EXCEPT ![f] = [d.pstate[f] EXCEPT ![p] = s]]
<1>1. MarkStatus(d, f, p, s) = [d EXCEPT !.pstate = table]
  BY DEF MarkStatus
<1>2. table \in [Files -> [Passes -> Statuses]]
  BY DEF Database
<1> HIDE DEF table
<1>3. LET e == MarkStatus(d, f, p, s)
      IN  /\ e \in Database
          /\ e.files = d.files /\ e.nodes = d.nodes /\ e.chunks = d.chunks
          /\ e.fts = d.fts /\ e.emb = d.emb /\ e.fp = d.fp
  BY <1>1, <1>2 DEF Database
<1> QED
  BY <1>3, SoundTables

LEMMA MarkSkippedEffect ==
    ASSUME NEW d \in Database, NEW f \in Files
    PROVE  LET e == MarkSkipped(d, f)
           IN  /\ e \in Database
               /\ e.files = d.files /\ e.nodes = d.nodes /\ e.chunks = d.chunks
               /\ e.fts = d.fts /\ e.emb = d.emb /\ e.fp = d.fp
               /\ Sound(d) => Sound(e)
               /\ \A W : VectorsMissingOnly(d, W) => VectorsMissingOnly(e, W)
<1> DEFINE table == [d.pstate EXCEPT ![f] = [p \in Passes |-> "skipped"]]
<1>1. MarkSkipped(d, f) = [d EXCEPT !.pstate = table]
  BY DEF MarkSkipped
<1>2. table \in [Files -> [Passes -> Statuses]]
  BY DEF Database, Statuses
<1> HIDE DEF table
<1>3. LET e == MarkSkipped(d, f)
      IN  /\ e \in Database
          /\ e.files = d.files /\ e.nodes = d.nodes /\ e.chunks = d.chunks
          /\ e.fts = d.fts /\ e.emb = d.emb /\ e.fp = d.fp
  BY <1>1, <1>2 DEF Database
<1> QED
  BY <1>3, SoundTables

\* New nodes under free ids disturb no chunk.
LEMMA InsertNodesSound ==
    ASSUME NEW d \in Database, NEW new \in SUBSET FreeIds(d.nodes),
           NEW rows \in [new -> NodeRow], Sound(d)
    PROVE  /\ InsertNodes(d, rows) \in Database
           /\ InsertNodes(d, rows).fp = d.fp
           /\ Sound(InsertNodes(d, rows))
           /\ \A W : VectorsMissingOnly(d, W)
                        => VectorsMissingOnly(InsertNodes(d, rows), W)
<1> DEFINE e == InsertNodes(d, rows)
<1>1. /\ DOMAIN rows = new /\ DOMAIN d.nodes = NodeIds
      /\ \A n \in new : n \in NodeIds /\ d.nodes[n] = Null
  BY DEF FreeIds, Database
<1>2. With(d.nodes, rows) \in [NodeIds -> NodeRow \cup {Null}]
  BY <1>1 DEF With, Database
<1>3. /\ e \in Database
      /\ e.nodes = With(d.nodes, rows)
      /\ e.chunks = d.chunks /\ e.fts = d.fts /\ e.emb = d.emb /\ e.fp = d.fp
  BY <1>2 DEF InsertNodes, Database
<1> HIDE DEF e
<1>4. ASSUME NEW n \in NodeIds, d.nodes[n] # Null
      PROVE  e.nodes[n] = d.nodes[n]
  BY <1>1, <1>3, <1>4 DEF With
<1>5. \A c \in ChunkIds : d.chunks[c] # Null => d.chunks[c].node \in NodeIds
  BY DEF Database, ChunkRow
<1>6. Sound(e)
  BY <1>3, <1>4, <1>5 DEF Sound
<1>7. \A W : VectorsMissingOnly(d, W) => VectorsMissingOnly(e, W)
  BY <1>3 DEF VectorsMissingOnly
<1> QED
  BY <1>3, <1>6, <1>7 DEF e

\* New chunks under free ids and existing nodes are mirrored by the trigger;
\* they are the ones that then lack a vector.
LEMMA InsertChunksSound ==
    ASSUME NEW d \in Database, NEW new \in SUBSET FreeIds(d.chunks),
           NEW rows \in [new -> ChunkRow], Sound(d), VectorsMissingOnly(d, {}),
           \A c \in new : d.nodes[rows[c].node] # Null
    PROVE  /\ InsertChunks(d, rows) \in Database
           /\ InsertChunks(d, rows).fp = d.fp
           /\ \A c \in new : InsertChunks(d, rows).chunks[c] # Null
           /\ Sound(InsertChunks(d, rows))
           /\ VectorsMissingOnly(InsertChunks(d, rows), new)
<1> DEFINE e == InsertChunks(d, rows)
           texts == [c \in DOMAIN rows |-> rows[c].text]
<1>1. /\ DOMAIN rows = new /\ DOMAIN texts = new
      /\ DOMAIN d.chunks = ChunkIds /\ DOMAIN d.fts = ChunkIds
      /\ \A c \in new : c \in ChunkIds /\ d.chunks[c] = Null
  BY DEF FreeIds, Database
<1>2. /\ With(d.chunks, rows) \in [ChunkIds -> ChunkRow \cup {Null}]
      /\ With(d.fts, texts) \in [ChunkIds -> Texts \cup {Null}]
  BY <1>1 DEF With, Database, ChunkRow
<1> HIDE DEF texts
<1>3. /\ e \in Database
      /\ e.chunks = With(d.chunks, rows) /\ e.fts = With(d.fts, texts)
      /\ e.nodes = d.nodes /\ e.emb = d.emb /\ e.fp = d.fp
  <2>1. e = [d EXCEPT !.chunks = With(d.chunks, rows), !.fts = With(d.fts, texts)]
    BY DEF InsertChunks, Database, texts
  <2> HIDE DEF e
  <2> QED
    BY <1>2, <2>1 DEF Database
<1> HIDE DEF e
<1>4. ASSUME NEW c \in ChunkIds
      PROVE  IF c \in new
             THEN e.chunks[c] = rows[c] /\ e.fts[c] = rows[c].text
             ELSE e.chunks[c] = d.chunks[c] /\ e.fts[c] = d.fts[c]
  BY <1>1, <1>3 DEF With, texts
<1>5. \A c \in new : rows[c] # Null /\ d.emb[c] = Null
  BY <1>1, NullAssumption DEF Sound
<1>6. Sound(e)
  BY <1>3, <1>4, <1>5 DEF Sound
<1>7. VectorsMissingOnly(e, new)
  BY <1>3, <1>4, <1>5 DEF VectorsMissingOnly
<1> QED
  BY <1>1, <1>3, <1>4, <1>5, <1>6, <1>7 DEF e

\* A flushed batch of the embedder fills in the vectors of what was buffered.
LEMMA WriteBatchSound ==
    ASSUME NEW d \in Database, NEW buffer \in [ChunkIds -> Texts \cup {Null}],
           NEW s \in Schemes, s = d.fp, Sound(d),
           \A c \in ChunkIds : buffer[c] # Null =>
                d.chunks[c] # Null /\ d.chunks[c].text = buffer[c]
    PROVE  /\ WriteBatch(d, buffer, s) \in Database
           /\ WriteBatch(d, buffer, s).fp = d.fp
           /\ WriteBatch(d, buffer, s).chunks = d.chunks
           /\ Sound(WriteBatch(d, buffer, s))
           /\ \A W : VectorsMissingOnly(d, W \cup {c \in ChunkIds : buffer[c] # Null})
                        => VectorsMissingOnly(WriteBatch(d, buffer, s), W)
<1> DEFINE table == [c \in ChunkIds |->
                        IF buffer[c] # Null
                        THEN [text |-> buffer[c], scheme |-> s]
                        ELSE d.emb[c]]
           e == WriteBatch(d, buffer, s)
<1>1. e = [d EXCEPT !.emb = table]
  BY DEF WriteBatch
<1>2. table \in [ChunkIds -> Vector \cup {Null}]
  BY DEF Database, Vector
<1>3. \A c \in ChunkIds : buffer[c] # Null =>
          table[c] # Null /\ table[c].text = buffer[c] /\ table[c].scheme = s
  BY NullAssumption DEF Vector
<1>4. \A c \in ChunkIds : buffer[c] = Null => table[c] = d.emb[c]
  OBVIOUS
<1> HIDE DEF table, e
<1>5. /\ e \in Database
      /\ e.emb = table /\ e.chunks = d.chunks /\ e.nodes = d.nodes
      /\ e.fts = d.fts /\ e.fp = d.fp
  BY <1>1, <1>2 DEF Database
<1>6. Sound(e)
  BY <1>3, <1>4, <1>5 DEF Sound
<1>7. \A W : VectorsMissingOnly(d, W \cup {c \in ChunkIds : buffer[c] # Null})
                => VectorsMissingOnly(e, W)
  BY <1>3, <1>4, <1>5 DEF VectorsMissingOnly
<1> QED
  BY <1>5, <1>6, <1>7 DEF e

\* Nothing is indexed in a fresh database.
LEMMA EmptyDatabaseSound ==
    /\ EmptyDatabase \in Database
    /\ Sound(EmptyDatabase)
    /\ VectorsMissingOnly(EmptyDatabase, {})
<1>1. EmptyDatabase \in Database
  BY DEF EmptyDatabase, Database, Statuses
<1>2. /\ \A c \in ChunkIds : EmptyDatabase.chunks[c] = Null
      /\ \A c \in ChunkIds : EmptyDatabase.emb[c] = Null
      /\ \A c \in ChunkIds : EmptyDatabase.fts[c] = Null
  BY DEF EmptyDatabase
<1> QED
  BY <1>1, <1>2 DEF Sound, VectorsMissingOnly

\* The first fingerprint finds no vectors, a later one is the stored one.
LEMMA FingerprintSound ==
    ASSUME NEW d \in Database, NEW v \in Schemes, FingerprintAccepts(d, v),
           Sound(d), VectorsMissingOnly(d, {}), NEW e, e = [d EXCEPT !.fp = v]
    PROVE  /\ e \in Database /\ e.fp = v
           /\ Sound(e) /\ VectorsMissingOnly(e, {})
           /\ d.fp # Null => e.fp = d.fp
<1>1. /\ e \in Database /\ e.fp = v
      /\ e.nodes = d.nodes /\ e.chunks = d.chunks /\ e.fts = d.fts /\ e.emb = d.emb
  BY DEF Database
<1>2. d.fp \in {Null, v}
  BY DEF FingerprintAccepts
<1>3. d.fp = Null => \A c \in ChunkIds : d.emb[c] = Null
  <2>1. \A c \in ChunkIds : d.emb[c] # Null => d.emb[c].scheme \in Schemes
    BY DEF Database, Vector
  <2> QED
    BY <2>1, NullAssumption DEF Sound
<1>4. Sound(e)
  BY <1>1, <1>2, <1>3 DEF Sound
<1>5. VectorsMissingOnly(e, {})
  BY <1>1 DEF VectorsMissingOnly
<1> QED
  BY <1>1, <1>2, <1>4, <1>5
===============================================================================
