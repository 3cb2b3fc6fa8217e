------------------------- MODULE SearchServerProofs -------------------------
(***************************************************************************)
(* Proofs about SearchServer.  A response does not claim a completeness it *)
(* lacks and no goroutine waits for a connection it holds: both rest on an *)
(* invariant over the goroutines, the channel and the collecting loop, in  *)
(* which the index plays no part.  No vectors of another quantisation are  *)
(* compared: that rests on what the indexer's commits preserve.  And the   *)
(* hits are of the index, all of them where it is quiet: that rests on     *)
(* what each goroutine holds of the files that no commit touched.  At last *)
(* a call is bounded, and nobody waits to answer.                          *)
(***************************************************************************)
EXTENDS SearchServer, IndexStoreProofs

-----------------------------------------------------------------------------
(* What every commit of the indexer preserves.  Another process finds an   *)
(* index whose vectors and text rows belong to its chunks, and whose       *)
(* fingerprint, once there, is the one its vectors were made with.         *)

SoundIndex == db \in Database /\ Sound(db) /\ VectorsMissingOnly(db, {})

\* A whole file arrives at once: its nodes, then its chunks, then their vectors.
LEMMA CommitIndexedSound ==
    ASSUME SoundIndex, NEW f \in Files, NEW c \in Contents, CommitIndexed(f, c)
    PROVE  SoundIndex' /\ db'.fp = db.fp
<1> DEFINE cleared == ClearFiles(db, {f})
<1>1. PICK new \in SUBSET FreeIds(cleared.nodes) :
        \E name \in Bijection(new, NodeNames[c]) :
        LET noded == InsertNodes(cleared, [n \in new |-> [file |-> f, name |-> name[n]]])
            rows == {r \in [node : new, text : Texts] : <<name[r.node], r.text>> \in Pieces[c]}
        IN  \E fresh \in SUBSET FreeIds(noded.chunks) :
            \E row \in Bijection(fresh, rows) :
               LET buffer == [k \in ChunkIds |-> IF k \in fresh THEN row[k].text ELSE Null]
                   filled == WriteBatch(InsertChunks(noded, row), buffer, db.fp)
               IN  db' = [filled EXCEPT !.pstate[f] = [p \in Passes |-> "done"]]
  BY DEF CommitIndexed, Cleared
<1>2. PICK name \in Bijection(new, NodeNames[c]) :
        LET noded == InsertNodes(cleared, [n \in new |-> [file |-> f, name |-> name[n]]])
            rows == {r \in [node : new, text : Texts] : <<name[r.node], r.text>> \in Pieces[c]}
        IN  \E fresh \in SUBSET FreeIds(noded.chunks) :
            \E row \in Bijection(fresh, rows) :
               LET buffer == [k \in ChunkIds |-> IF k \in fresh THEN row[k].text ELSE Null]
                   filled == WriteBatch(InsertChunks(noded, row), buffer, db.fp)
               IN  db' = [filled EXCEPT !.pstate[f] = [p \in Passes |-> "done"]]
  BY <1>1
<1> DEFINE nodeRows == [n \in new |-> [file |-> f, name |-> name[n]]]
           noded == InsertNodes(cleared, nodeRows)
           rows == {r \in [node : new, text : Texts] : <<name[r.node], r.text>> \in Pieces[c]}
<1> DEFINE Stored(fresh, row) ==
             [WriteBatch(InsertChunks(noded, row),
                         [k \in ChunkIds |-> IF k \in fresh THEN row[k].text ELSE Null],
                         db.fp)
                EXCEPT !.pstate[f] = [p \in Passes |-> "done"]]
<1>3. PICK fresh \in SUBSET FreeIds(noded.chunks) :
        \E row \in Bijection(fresh, rows) : db' = Stored(fresh, row)
  BY <1>2
<1>4. PICK row \in Bijection(fresh, rows) : db' = Stored(fresh, row)
  BY <1>3
<1>5. /\ cleared \in Database /\ cleared.fp = db.fp
      /\ Sound(cleared) /\ VectorsMissingOnly(cleared, {})
  BY ClearFilesEffect, ClearFilesSound DEF SoundIndex
<1>6. nodeRows \in [new -> NodeRow]
  <2>1. name \in [new -> NodeNames[c]] /\ NodeNames[c] \subseteq Names
    BY ContentAssumption DEF Bijection, Injection
  <2> QED
    BY <2>1 DEF NodeRow
<1> HIDE DEF cleared
<1>7. /\ noded \in Database /\ noded.fp = db.fp
      /\ Sound(noded) /\ VectorsMissingOnly(noded, {})
      /\ \A n \in new : noded.nodes[n] # Null
  <2>1. \A n \in new : n \in NodeIds /\ nodeRows[n] # Null
    BY <1>5, <1>6, NullAssumption DEF FreeIds, Database
  <2>2. noded.nodes = With(cleared.nodes, nodeRows) /\ DOMAIN cleared.nodes = NodeIds
    BY <1>5 DEF InsertNodes, Database
  <2>3. \A n \in new : noded.nodes[n] # Null
    BY <2>1, <2>2 DEF With
  <2> HIDE DEF nodeRows, noded
  <2>4. /\ InsertNodes(cleared, nodeRows) \in Database
        /\ InsertNodes(cleared, nodeRows).fp = db.fp
        /\ Sound(InsertNodes(cleared, nodeRows))
        /\ VectorsMissingOnly(InsertNodes(cleared, nodeRows), {})
    BY <1>5, <1>6, InsertNodesSound
  <2> QED
    BY <2>3, <2>4 DEF noded
<1>8. /\ row \in [fresh -> ChunkRow]
      /\ \A k \in fresh : noded.nodes[row[k].node] # Null
  <2>1. row \in [fresh -> rows] /\ new \subseteq NodeIds
    BY <1>5 DEF Bijection, Injection, FreeIds, Database
  <2>2. \A r \in rows : r \in ChunkRow /\ r.node \in new
    BY <2>1 DEF ChunkRow
  <2> HIDE DEF rows, noded
  <2> QED
    BY <1>7, <2>1, <2>2
<1> HIDE DEF noded, nodeRows, rows
<1> DEFINE chunked == InsertChunks(noded, row)
           buffer == [k \in ChunkIds |-> IF k \in fresh THEN row[k].text ELSE Null]
           filled == WriteBatch(chunked, buffer, db.fp)
<1>9. /\ chunked \in Database /\ chunked.fp = db.fp
      /\ Sound(chunked) /\ VectorsMissingOnly(chunked, fresh)
      /\ \A k \in fresh : k \in ChunkIds /\ chunked.chunks[k] = row[k]
  <2>1. /\ chunked \in Database /\ chunked.fp = db.fp
        /\ Sound(chunked) /\ VectorsMissingOnly(chunked, fresh)
    BY <1>7, <1>8, InsertChunksSound
  <2>2. /\ chunked.chunks = With(noded.chunks, row)
        /\ DOMAIN noded.chunks = ChunkIds /\ DOMAIN row = fresh /\ fresh \subseteq ChunkIds
    BY <1>7, <1>8 DEF InsertChunks, Database, FreeIds
  <2> QED
    BY <2>1, <2>2 DEF With
<1>10. /\ buffer \in [ChunkIds -> Texts \cup {Null}]
       /\ \A k \in ChunkIds : buffer[k] # Null =>
             chunked.chunks[k] # Null /\ chunked.chunks[k].text = buffer[k]
       /\ \A k \in fresh : buffer[k] # Null
  <2>1. \A k \in fresh : k \in ChunkIds /\ row[k].text \in Texts /\ row[k] # Null
    BY <1>8, <1>9, NullAssumption DEF ChunkRow
  <2> HIDE DEF chunked
  <2> QED
    BY <1>9, <2>1, NullAssumption
<1>11. db.fp \in Schemes
  <2>1. db.fp # Null
    BY DEF CommitIndexed
  <2> QED
    BY <2>1 DEF SoundIndex, Database
<1>12. /\ filled \in Database /\ filled.fp = db.fp
       /\ Sound(filled) /\ VectorsMissingOnly(filled, {})
  <2> HIDE DEF chunked, buffer
  <2>1. VectorsMissingOnly(chunked, {} \cup {k \in ChunkIds : buffer[k] # Null})
    BY <1>9, <1>10 DEF VectorsMissingOnly
  <2>2. /\ filled \in Database /\ filled.fp = chunked.fp /\ Sound(filled)
        /\ \A W : VectorsMissingOnly(chunked, W \cup {k \in ChunkIds : buffer[k] # Null})
                    => VectorsMissingOnly(filled, W)
    BY <1>9, <1>10, <1>11, WriteBatchSound
  <2> HIDE DEF filled
  <2>3. VectorsMissingOnly(filled, {})
    BY <2>1, <2>2, Zenon
  <2> QED
    BY <1>9, <2>2, <2>3
<1> DEFINE table == [filled.pstate EXCEPT ![f] = [p \in Passes |-> "done"]]
<1>13. db' = [filled EXCEPT !.pstate = table]
  BY <1>4
<1> HIDE DEF filled
<1>14. table \in [Files -> [Passes -> Statuses]]
  BY <1>12 DEF Database, Statuses
<1> HIDE DEF table
<1>15. /\ db' \in Database
       /\ db'.nodes = filled.nodes /\ db'.chunks = filled.chunks /\ db'.fts = filled.fts
       /\ db'.emb = filled.emb /\ db'.fp = filled.fp
  BY <1>12, <1>13, <1>14 DEF Database
<1> QED
  BY <1>12, <1>15, SoundTables DEF SoundIndex

LEMMA CommitSound ==
    ASSUME Seconds \subseteq Nat, SoundIndex, Commit
    PROVE  SoundIndex' /\ (db.fp # Null => db'.fp = db.fp)
<1> USE DEF SoundIndex
<1>1. ASSUME NEW rows \in [Files -> WalkRow \cup {Null}], NEW now \in Seconds, Upsert(rows, now)
      PROVE  SoundIndex' /\ db'.fp = db.fp
  BY <1>1, UpsertFilesSound DEF Upsert
<1>2. ASSUME NEW start \in Seconds, Reconcile(start)
      PROVE  SoundIndex' /\ db'.fp = db.fp
  BY <1>2, MarkUnseenDeletedSound DEF Reconcile
<1>3. ASSUME NEW v \in Schemes, WriteFingerprint(v)
      PROVE  SoundIndex' /\ (db.fp # Null => db'.fp = db.fp)
  BY <1>3, FingerprintSound DEF WriteFingerprint
<1>4. ASSUME NEW f \in Files, CommitSkipped(f)
      PROVE  SoundIndex' /\ db'.fp = db.fp
  <2> DEFINE base == ClearFiles(db, {f})
  <2>1. /\ base \in Database /\ base.fp = db.fp
        /\ Sound(base) /\ VectorsMissingOnly(base, {})
    BY ClearFilesEffect, ClearFilesSound
  <2>2. db' = MarkSkipped(base, f)
    BY <1>4 DEF CommitSkipped, Cleared
  <2> HIDE DEF base
  <2> QED
    BY <2>1, <2>2, MarkSkippedEffect
<1>5. ASSUME NEW f \in Files, NEW c \in Contents, CommitIndexed(f, c)
      PROVE  SoundIndex' /\ db'.fp = db.fp
  BY <1>5, CommitIndexedSound
<1>6. ASSUME NEW f \in Files, NEW p \in Passes, CommitFailure(f, p)
      PROVE  SoundIndex' /\ db'.fp = db.fp
  BY <1>6, MarkStatusEffect DEF CommitFailure, RecordFailure, Statuses
<1> QED
  BY <1>1, <1>2, <1>3, <1>4, <1>5, <1>6 DEF Commit

\* What a reader of index.db may count on between any two commits of the
\* indexer, deletions of the file included (runner.go:205-229).
THEOREM IndexIsAlwaysSound ==
    ASSUME Seconds \subseteq Nat
    PROVE  WriterSpec => []SoundIndex
<1>1. EmptyDatabase \in Database /\ Sound(EmptyDatabase) /\ VectorsMissingOnly(EmptyDatabase, {})
  BY EmptyDatabaseSound
<1>2. WriterInit => SoundIndex
  BY <1>1 DEF WriterInit, SoundIndex
<1>3. SoundIndex /\ [WriterNext]_db => SoundIndex'
  <2> SUFFICES ASSUME SoundIndex, [WriterNext]_db PROVE SoundIndex'
    OBVIOUS
  <2>1. CASE Commit
    BY <2>1, CommitSound
  <2>2. CASE Recreate
    BY <1>1, <2>2 DEF Recreate, SoundIndex
  <2>3. CASE UNCHANGED db
    BY <2>3 DEF SoundIndex
  <2> QED
    BY <2>1, <2>2, <2>3 DEF WriterNext
<1> QED
  BY <1>2, <1>3, PTL DEF WriterSpec

-----------------------------------------------------------------------------
(* The inductive invariant.                                                *)

\* The fields that the argument reads and the actions update.
Shape ==
    /\ DOMAIN src = Sources
    /\ \A s \in Sources : {"at", "status", "found"} \subseteq DOMAIN src[s]
    /\ {"status", "completeness", "failed", "answered"} \subseteq DOMAIN resp
    /\ ch \in Seq(Sources)
    /\ resp.answered \subseteq Sources
    /\ pc \in {"idle", "collecting", "answered", "delivered"}

\* A goroutine that has sent is gone; its answer is in the channel once, or it
\* has been collected, never both.
AnswersTravelOnce ==
    /\ \A s \in resp.answered : src[s].at = "gone"
    /\ \A i \in 1 .. Len(ch) : src[ch[i]].at = "gone" /\ ch[i] \notin resp.answered
    /\ \A i, j \in 1 .. Len(ch) : ch[i] = ch[j] => i = j

NothingStarted ==
    pc = "idle" =>
        /\ \A s \in Sources : src[s].at = "off"
        /\ turns = 0
        /\ resp.answered = {}
        /\ resp.failed = {}

\* While no deadline was taken, a turn of the loop is an answer, and whatever
\* answered without a finished query is recorded as failed.
TurnsAreAnswers ==
    /\ pc = "collecting" /\ resp.completeness = "full" => turns = Cardinality(resp.answered)
    /\ pc \in {"idle", "collecting"} =>
          \A s \in resp.answered : src[s].status \in Executed \/ s \in resp.failed

ConnectionIsHeld == \A s \in Sources : conn = s <=> src[s].at \in Holding

CallInvariant ==
    /\ Shape
    /\ AnswersTravelOnce
    /\ NothingStarted
    /\ TurnsAreAnswers
    /\ HonestCompleteness
    /\ ConnectionIsHeld

-----------------------------------------------------------------------------
(* Steps of the goroutines.                                                *)

\* What every step of a goroutine leaves alone: the other goroutines, and the
\* existence of this one's fields.
OnlyMoves(s) ==
    /\ DOMAIN src' = Sources
    /\ \A t \in Sources \ {s} : src'[t] = src[t]
    /\ {"at", "status", "found"} \subseteq DOMAIN src'[s]

Running == Stages \ {"off", "gone"}

LEMMA SourcesFinite == IsFiniteSet(Sources) /\ Cardinality(Sources) = 3
<1>1. IsFiniteSet({}) /\ Cardinality({}) = 0
  BY FS_EmptySet
<1>2. IsFiniteSet({"fts"}) /\ Cardinality({"fts"}) = 1
  BY FS_Singleton
<1>3. IsFiniteSet({"fts"} \cup {"filename"}) /\ Cardinality({"fts"} \cup {"filename"}) = 2
  BY <1>2, FS_AddElement
<1>4. IsFiniteSet(({"fts"} \cup {"filename"}) \cup {"vector"})
      /\ Cardinality(({"fts"} \cup {"filename"}) \cup {"vector"}) = 3
  BY <1>3, FS_AddElement
<1> QED
  BY <1>4 DEF Sources

\* A goroutine between its start and its send disturbs nothing but itself.
LEMMA RunningGoroutine ==
    ASSUME CallInvariant, NEW s \in Sources, OnlyMoves(s),
           src[s].at \in Running, src'[s].at \in Running,
           conn' = s <=> src'[s].at \in Holding,
           \A t \in Sources \ {s} : conn' = t <=> conn = t,
           UNCHANGED <<ch, callVars>>
    PROVE  CallInvariant'
<1> USE DEF CallInvariant, Shape
<1>1. \A t \in Sources : src[t].at \in {"off", "gone"} => t # s
  BY DEF Running
<1>2. Shape'
  BY DEF OnlyMoves, callVars
<1>3. AnswersTravelOnce'
  <2>1. \A i \in 1 .. Len(ch) : ch[i] \in Sources
    OBVIOUS
  <2> QED
    BY <1>1, <2>1 DEF AnswersTravelOnce, OnlyMoves, callVars
<1>4. NothingStarted'
  BY <1>1 DEF NothingStarted, callVars
<1>5. \A t \in resp.answered : src'[t] = src[t]
  BY <1>1 DEF AnswersTravelOnce, OnlyMoves
<1>6. TurnsAreAnswers'
  BY <1>5 DEF TurnsAreAnswers, callVars
<1>7. \A t \in Sources : src'[t].at # "off" => src[t].at # "off"
  BY <1>1 DEF OnlyMoves, Running
<1>8. HonestCompleteness'
  BY <1>5, <1>7 DEF HonestCompleteness, Started, ExecutedOK, Returned, callVars
<1>9. ConnectionIsHeld'
  BY DEF ConnectionIsHeld, OnlyMoves
<1> QED
  BY <1>2, <1>3, <1>4, <1>6, <1>8, <1>9

\* The two ways in which most actions write a goroutine.
LEMMA MovedMoves ==
    ASSUME Shape, NEW s \in Sources, NEW stage, src' = Moved(s, stage)
    PROVE  OnlyMoves(s) /\ src'[s].at = stage
  BY DEF Shape, Moved, OnlyMoves

LEMMA AnswerMoves ==
    ASSUME Shape, NEW s \in Sources, NEW status, NEW nodes, Answer(s, status, nodes)
    PROVE  OnlyMoves(s) /\ src'[s].at = "send"
  BY DEF Shape, Answer, Idle, OnlyMoves

\* The answer enters the channel behind the others; nobody has it yet.
LEMMA SendStep ==
    ASSUME CallInvariant, NEW s \in Sources, Send(s)
    PROVE  CallInvariant'
<1> USE DEF CallInvariant
<1>1. /\ OnlyMoves(s) /\ src'[s].at = "gone" /\ src'[s].status = src[s].status
      /\ src[s].at = "send"
      /\ ch' = Append(ch, s)
      /\ UNCHANGED <<conn, pc, query, turns, resp>>
  BY DEF Send, Moved, OnlyMoves, Shape, callVars
<1>2. s \notin resp.answered /\ \A i \in 1 .. Len(ch) : ch[i] \in Sources /\ ch[i] # s
  BY <1>1 DEF AnswersTravelOnce, Shape
<1>3. Shape'
  BY <1>1 DEF Shape, OnlyMoves
<1>4. /\ Len(ch') = Len(ch) + 1 /\ Len(ch) \in Nat
      /\ ch'[Len(ch) + 1] = s
      /\ \A i \in 1 .. Len(ch) : ch'[i] = ch[i]
  BY <1>1 DEF Shape
<1>5. AnswersTravelOnce'
  <2>1. \A t \in resp'.answered : src'[t].at = "gone"
    BY <1>1 DEF AnswersTravelOnce, OnlyMoves, Shape
  <2>2. \A i \in 1 .. Len(ch') : src'[ch'[i]].at = "gone" /\ ch'[i] \notin resp'.answered
    BY <1>1, <1>2, <1>4 DEF AnswersTravelOnce, OnlyMoves
  <2>3. \A i, j \in 1 .. Len(ch') : ch'[i] = ch'[j] => i = j
    BY <1>2, <1>4 DEF AnswersTravelOnce
  <2> QED
    BY <2>1, <2>2, <2>3 DEF AnswersTravelOnce
<1>6. NothingStarted'
  BY <1>1 DEF NothingStarted
<1>7. \A t \in resp.answered : src'[t] = src[t]
  BY <1>1, <1>2 DEF OnlyMoves, Shape
<1>8. TurnsAreAnswers'
  BY <1>1, <1>7 DEF TurnsAreAnswers
<1>9. \A t \in Sources : src'[t].at # "off" => src[t].at # "off"
  BY <1>1 DEF OnlyMoves
<1>10. HonestCompleteness'
  BY <1>1, <1>7, <1>9 DEF HonestCompleteness, Started, ExecutedOK, Returned
<1>11. ConnectionIsHeld'
  BY <1>1 DEF ConnectionIsHeld, OnlyMoves, Holding
<1> QED
  BY <1>3, <1>5, <1>6, <1>8, <1>10, <1>11

LEMMA SourceSteps ==
    ASSUME CallInvariant, NEW s \in Sources, SourceStep(s)
    PROVE  CallInvariant'
<1>1. Shape /\ (conn = s <=> src[s].at \in Holding)
  BY DEF CallInvariant, ConnectionIsHeld
<1>2. "free" \notin Sources
  BY DEF Sources
<1>3. CASE AnswerUnqueried(s)
  <2>1. OnlyMoves(s) /\ src'[s].at = "send"
    BY <1>1, <1>3, AnswerMoves DEF AnswerUnqueried
  <2> QED
    BY <1>1, <1>3, <2>1, RunningGoroutine DEF AnswerUnqueried, poolVars, Running, Stages, Holding
<1>4. CASE Match(s)
  <2>1. OnlyMoves(s) /\ src'[s].at = "rows"
    BY <1>1, <1>4 DEF Match, OnlyMoves, Shape
  <2> QED
    BY <1>1, <1>2, <1>4, <2>1, RunningGoroutine DEF Match, Acquire, Running, Stages, Holding
<1>5. CASE EndMatch(s)
  <2>1. OnlyMoves(s) /\ src'[s].at \in {"send", "hydrate"}
    BY <1>1, <1>5, MovedMoves, AnswerMoves DEF EndMatch
  <2> QED
    BY <1>1, <1>2, <1>5, <2>1, RunningGoroutine DEF EndMatch, Release, Running, Stages, Holding
<1>6. CASE Hydrate(s)
  <2>1. OnlyMoves(s) /\ src'[s].at = "hydrating"
    BY <1>1, <1>6 DEF Hydrate, OnlyMoves, Shape
  <2> QED
    BY <1>1, <1>2, <1>6, <2>1, RunningGoroutine DEF Hydrate, Acquire, Running, Stages, Holding
<1>7. CASE EndHydrate(s)
  <2>1. OnlyMoves(s) /\ src'[s].at = "chunks"
    BY <1>1, <1>7 DEF EndHydrate, OnlyMoves, Shape
  <2> QED
    BY <1>1, <1>2, <1>7, <2>1, RunningGoroutine DEF EndHydrate, Release, Running, Stages, Holding
<1>8. CASE FetchChunks(s)
  <2>1. OnlyMoves(s) /\ src'[s].at = "fetching"
    BY <1>1, <1>8 DEF FetchChunks, OnlyMoves, Shape
  <2> QED
    BY <1>1, <1>2, <1>8, <2>1, RunningGoroutine DEF FetchChunks, Acquire, Running, Stages, Holding
<1>9. CASE EndFetch(s)
  <2>1. OnlyMoves(s) /\ src'[s].at = "chunks"
    BY <1>1, <1>9, MovedMoves DEF EndFetch
  <2> QED
    BY <1>1, <1>2, <1>9, <2>1, RunningGoroutine DEF EndFetch, Release, Running, Stages, Holding
<1>10. CASE AnswerHydrated(s)
  <2>1. OnlyMoves(s) /\ src'[s].at = "send"
    BY <1>1, <1>10 DEF AnswerHydrated, OnlyMoves, Shape
  <2> QED
    BY <1>1, <1>10, <2>1, RunningGoroutine DEF AnswerHydrated, poolVars, Running, Stages, Holding
<1>11. CASE FailQuery(s)
  <2>1. OnlyMoves(s) /\ src'[s].at = "send"
    BY <1>1, <1>11, AnswerMoves DEF FailQuery
  <2>2. src[s].at \in Running
    BY <1>11 DEF FailQuery, Querying, Running, Stages, Holding
  <2>3. conn' # s /\ \A t \in Sources \ {s} : conn' = t <=> conn = t
    BY <1>2, <1>11 DEF FailQuery, GiveBack, Sources
  <2> QED
    BY <1>11, <2>1, <2>2, <2>3, RunningGoroutine DEF FailQuery, Running, Stages, Holding
<1>12. CASE Send(s)
  BY <1>12, SendStep
<1> QED
  BY <1>3, <1>4, <1>5, <1>6, <1>7, <1>8, <1>9, <1>10, <1>11, <1>12 DEF SourceStep

LEMMA EmbedStep ==
    ASSUME CallInvariant, EmbedQuery
    PROVE  CallInvariant'
<1>1. Shape /\ "vector" \in Sources /\ src["vector"].at = "embed"
  BY DEF CallInvariant, EmbedQuery, Sources
<1>2. OnlyMoves("vector") /\ src'["vector"].at \in {"query", "send"}
  BY <1>1, MovedMoves, AnswerMoves DEF EmbedQuery
<1>3. conn # "vector"
  BY <1>1 DEF CallInvariant, ConnectionIsHeld, Holding
<1> QED
  BY <1>1, <1>2, <1>3, RunningGoroutine
  DEF EmbedQuery, poolVars, Running, Stages, Holding

-----------------------------------------------------------------------------
(* Steps of the handler.                                                   *)

\* An answer is collected: one more turn, one more answer.
LEMMA CollectStep ==
    ASSUME CallInvariant, Collect
    PROVE  CallInvariant'
<1> USE DEF CallInvariant
<1> DEFINE s == Head(ch)
<1>1. /\ pc = "collecting" /\ ch # << >>
      /\ ch' = Tail(ch) /\ turns' = turns + 1
      /\ resp' = [resp EXCEPT !.answered = @ \cup {s},
                              !.failed = IF src[s].status \in Executed THEN @ ELSE @ \cup {s}]
      /\ UNCHANGED <<conn, pc, query, src>>
  BY DEF Collect, Collecting
<1>2. /\ Len(ch) \in Nat \ {0} /\ s = ch[1] /\ s \in Sources
      /\ ch' \in Seq(Sources) /\ Len(ch') = Len(ch) - 1
      /\ \A i \in 1 .. Len(ch') : ch'[i] = ch[i + 1]
  BY <1>1 DEF Shape
<1>3. /\ resp'.answered = resp.answered \cup {s}
      /\ resp'.failed = IF src[s].status \in Executed THEN resp.failed ELSE resp.failed \cup {s}
      /\ resp'.completeness = resp.completeness
      /\ {"status", "completeness", "failed", "answered"} \subseteq DOMAIN resp'
  BY <1>1 DEF Shape
<1> HIDE DEF s
<1>4. s \notin resp.answered /\ src[s].at = "gone"
  BY <1>2 DEF AnswersTravelOnce
<1>5. Shape'
  BY <1>1, <1>2, <1>3 DEF Shape
<1>6. AnswersTravelOnce'
  <2>1. \A t \in resp'.answered : src'[t].at = "gone"
    BY <1>1, <1>3, <1>4 DEF AnswersTravelOnce
  <2>2. \A i \in 1 .. Len(ch') : src'[ch'[i]].at = "gone" /\ ch'[i] \notin resp'.answered
    BY <1>1, <1>2, <1>3 DEF AnswersTravelOnce
  <2>3. \A i, j \in 1 .. Len(ch') : ch'[i] = ch'[j] => i = j
    BY <1>2 DEF AnswersTravelOnce
  <2> QED
    BY <2>1, <2>2, <2>3 DEF AnswersTravelOnce
<1>7. NothingStarted'
  BY <1>1 DEF NothingStarted
<1>8. Cardinality(resp'.answered) = Cardinality(resp.answered) + 1
  <2>1. IsFiniteSet(resp.answered)
    BY SourcesFinite, FS_Subset DEF Shape
  <2> QED
    BY <1>3, <1>4, <2>1, FS_AddElement
<1>9. TurnsAreAnswers'
  BY <1>1, <1>3, <1>8 DEF TurnsAreAnswers
<1>10. HonestCompleteness'
  BY <1>1 DEF HonestCompleteness, Returned
<1>11. ConnectionIsHeld'
  BY <1>1 DEF ConnectionIsHeld
<1> QED
  BY <1>5, <1>6, <1>7, <1>9, <1>10, <1>11

\* What the other steps of the handler have in common: they move neither the
\* goroutines nor the channel, and add no answer.
HandlerOnly ==
    /\ UNCHANGED <<conn, ch, query, src>>
    /\ pc # "idle" /\ pc' \in {"collecting", "answered", "delivered"}
    /\ {"status", "completeness", "failed", "answered"} \subseteq DOMAIN resp'
    /\ resp'.answered = resp.answered

LEMMA HandlerAlone ==
    ASSUME CallInvariant, HandlerOnly, TurnsAreAnswers', HonestCompleteness'
    PROVE  CallInvariant'
<1> USE DEF CallInvariant, HandlerOnly
<1>1. Shape'
  BY DEF Shape
<1>2. AnswersTravelOnce' /\ NothingStarted' /\ ConnectionIsHeld'
  BY DEF AnswersTravelOnce, NothingStarted, ConnectionIsHeld
<1> QED
  BY <1>1, <1>2

\* The deadline costs the response its claim to be complete.
LEMMA CollectDeadlineStep ==
    ASSUME CallInvariant, CollectDeadline
    PROVE  CallInvariant'
<1>1. /\ HandlerOnly /\ pc = "collecting" /\ pc' = pc
      /\ resp'.completeness = "partial" /\ resp'.failed = resp.failed
  BY DEF CallInvariant, Shape, CollectDeadline, Collecting, HandlerOnly, poolVars
<1>2. TurnsAreAnswers'
  BY <1>1 DEF TurnsAreAnswers, CallInvariant, HandlerOnly
<1>3. HonestCompleteness'
  BY <1>1 DEF HonestCompleteness, Returned
<1> QED
  BY <1>1, <1>2, <1>3, HandlerAlone

LEMMA EnforceStep ==
    ASSUME CallInvariant, Enforce
    PROVE  CallInvariant'
<1>1. HandlerOnly /\ pc' = "answered" /\ resp'.status = "error"
  BY DEF CallInvariant, Shape, Enforce, Collected, HandlerOnly, poolVars
<1>2. TurnsAreAnswers' /\ HonestCompleteness'
  BY <1>1 DEF TurnsAreAnswers, HonestCompleteness
<1> QED
  BY <1>1, <1>2, HandlerAlone

\* With as many answers as goroutines, every goroutine has answered; a response
\* that is still full after the grading has no failed source.
LEMMA FuseStep ==
    ASSUME CallInvariant, Fuse
    PROVE  CallInvariant'
<1>1. PICK hits : resp' = Graded([resp EXCEPT !.hits = hits])
  BY DEF Fuse
<1>2. /\ HandlerOnly /\ pc = "collecting" /\ pc' = "answered"
      /\ turns = Cardinality(Started)
      /\ resp'.completeness = "full" => resp.completeness = "full" /\ resp.failed = {}
  BY <1>1 DEF CallInvariant, Shape, Fuse, Collected, Graded, HandlerOnly, poolVars
<1>3. TurnsAreAnswers'
  BY <1>2 DEF TurnsAreAnswers
<1>4. ASSUME resp'.completeness = "full"
      PROVE  \A s \in Started : s \in resp.answered /\ src[s].status \in Executed
  <2>1. Started \subseteq Sources /\ resp.answered \subseteq Started
    BY DEF CallInvariant, Shape, AnswersTravelOnce, Started
  <2>2. Cardinality(resp.answered) = Cardinality(Started)
    BY <1>2, <1>4 DEF CallInvariant, TurnsAreAnswers
  <2>3. resp.answered = Started
    BY <2>1, <2>2, SourcesFinite, FS_Subset
  <2> QED
    BY <1>2, <1>4, <2>3 DEF CallInvariant, TurnsAreAnswers
<1>5. HonestCompleteness'
  BY <1>2, <1>4 DEF HonestCompleteness, Started, ExecutedOK, HandlerOnly
<1> QED
  BY <1>2, <1>3, <1>5, HandlerAlone

LEMMA AnnotateStep ==
    ASSUME CallInvariant, AnnotateCompleteness
    PROVE  CallInvariant'
<1>1. /\ HandlerOnly /\ pc = "answered" /\ pc' = "delivered"
      /\ resp'.completeness = resp.completeness /\ resp'.status = resp.status
  BY DEF CallInvariant, Shape, AnnotateCompleteness, HandlerOnly, poolVars
<1>2. TurnsAreAnswers'
  BY <1>1 DEF TurnsAreAnswers
<1>3. HonestCompleteness'
  BY <1>1 DEF CallInvariant, HonestCompleteness, Returned, Started, ExecutedOK, HandlerOnly
<1> QED
  BY <1>1, <1>2, <1>3, HandlerAlone

-----------------------------------------------------------------------------
(* The call begins; the server, the clock and the indexer.                 *)

LEMMA StartStep ==
    ASSUME CallInvariant, NEW q \in Queries, StartSearch(q) \/ RefuseSemantic(q)
    PROVE  CallInvariant'
<1>1. pc = "idle" /\ ch' = ch /\ conn' = conn /\ turns' = turns
  BY DEF StartSearch, RefuseSemantic, poolVars
<1>2. /\ \A s \in Sources : src[s].at = "off" /\ conn # s
      /\ turns = 0 /\ resp.answered = {} /\ resp.failed = {}
  BY <1>1 DEF CallInvariant, NothingStarted, ConnectionIsHeld, Holding
<1>3. Len(ch) = 0
  <2>1. ch \in Seq(Sources) /\ \A i \in 1 .. Len(ch) : src[ch[i]].at = "gone"
    BY DEF CallInvariant, Shape, AnswersTravelOnce
  <2>2. \A i \in 1 .. Len(ch) : FALSE
    BY <1>2, <2>1
  <2> QED
    BY <2>1, <2>2
<1>4. CASE StartSearch(q)
  <2>1. /\ pc' = "collecting" /\ resp' = resp
        /\ DOMAIN src' = Sources
        /\ \A s \in Sources : /\ {"at", "status", "found"} \subseteq DOMAIN src'[s]
                              /\ src'[s].at \in {"embed", "query", "off"}
    BY <1>4 DEF StartSearch, Idle
  <2>2. Shape'
    BY <1>1, <2>1 DEF CallInvariant, Shape
  <2>3. AnswersTravelOnce' /\ NothingStarted'
    BY <1>1, <1>2, <1>3, <2>1 DEF AnswersTravelOnce, NothingStarted
  <2>4. TurnsAreAnswers'
    BY <1>1, <1>2, <2>1, FS_EmptySet DEF TurnsAreAnswers
  <2>5. HonestCompleteness' /\ ConnectionIsHeld'
    BY <1>1, <1>2, <2>1 DEF HonestCompleteness, Returned, ConnectionIsHeld, Holding
  <2> QED
    BY <2>2, <2>3, <2>4, <2>5 DEF CallInvariant
<1>5. CASE RefuseSemantic(q)
  <2>1. /\ pc' = "answered" /\ src' = src
        /\ resp'.status = "error" /\ resp'.answered = {}
        /\ {"status", "completeness", "failed", "answered"} \subseteq DOMAIN resp'
    BY <1>5 DEF RefuseSemantic, EmptyResponse
  <2>2. Shape'
    BY <1>1, <2>1 DEF CallInvariant, Shape
  <2>3. AnswersTravelOnce' /\ NothingStarted' /\ TurnsAreAnswers' /\ HonestCompleteness'
    BY <1>1, <1>3, <2>1
    DEF AnswersTravelOnce, NothingStarted, TurnsAreAnswers, HonestCompleteness
  <2>4. ConnectionIsHeld'
    BY <1>1, <2>1 DEF CallInvariant, ConnectionIsHeld
  <2> QED
    BY <2>2, <2>3, <2>4 DEF CallInvariant
<1> QED
  BY <1>4, <1>5

\* A step that leaves the call alone, whoever but a source has the connection.
LEMMA ElsewhereStep ==
    ASSUME CallInvariant, UNCHANGED <<pc, turns, resp, src, ch>>,
           \A s \in Sources : conn' = s <=> conn = s
    PROVE  CallInvariant'
  BY DEF CallInvariant, Shape, AnswersTravelOnce, NothingStarted, TurnsAreAnswers,
         HonestCompleteness, Started, ExecutedOK, Returned, ConnectionIsHeld

-----------------------------------------------------------------------------
(* The theorems.                                                           *)

LEMMA CallInvariantInit == Init => CallInvariant
<1> SUFFICES ASSUME Init PROVE CallInvariant
  OBVIOUS
<1>1. Shape
  BY DEF Init, Shape, Idle, EmptyResponse
<1>2. AnswersTravelOnce /\ NothingStarted
  BY DEF Init, AnswersTravelOnce, NothingStarted, Idle, EmptyResponse
<1>3. TurnsAreAnswers /\ HonestCompleteness
  BY DEF Init, TurnsAreAnswers, HonestCompleteness, Returned, EmptyResponse
<1>4. ConnectionIsHeld
  BY DEF Init, ConnectionIsHeld, Sources, Idle, Holding
<1> QED
  BY <1>1, <1>2, <1>3, <1>4 DEF CallInvariant

LEMMA CallInvariantNext == CallInvariant /\ [Next]_vars => CallInvariant'
<1> SUFFICES ASSUME CallInvariant, [Next]_vars PROVE CallInvariant'
  OBVIOUS
<1>1. {"free", "indexer"} \cap Sources = {}
  BY DEF Sources
<1>2. CASE OpenServer \/ NewServer
  BY <1>2, ElsewhereStep DEF OpenServer, NewServer, poolVars, callVars
<1>3. ASSUME NEW q \in Queries, StartSearch(q) \/ RefuseSemantic(q)
      PROVE  CallInvariant'
  BY <1>3, StartStep
<1>4. CASE Expire
  BY <1>4, ElsewhereStep DEF Expire, poolVars
<1>5. CASE EmbedQuery
  BY <1>5, EmbedStep
<1>6. ASSUME NEW s \in Sources, SourceStep(s)
      PROVE  CallInvariant'
  BY <1>6, SourceSteps
<1>7. CASE HandlerStep
  BY <1>7, CollectStep, CollectDeadlineStep, EnforceStep, FuseStep, AnnotateStep
  DEF HandlerStep
<1>8. CASE IndexerBegin
  BY <1>1, <1>8, ElsewhereStep DEF IndexerBegin, callVars
<1>9. CASE IndexerCommit
  BY <1>1, <1>9, ElsewhereStep DEF IndexerCommit, callVars
<1>10. CASE IndexerRollback
  BY <1>1, <1>10, ElsewhereStep DEF IndexerRollback, callVars
<1>11. CASE UNCHANGED vars
  BY <1>11, ElsewhereStep DEF vars
<1> QED
  BY <1>2, <1>3, <1>4, <1>5, <1>6, <1>7, <1>8, <1>9, <1>10, <1>11 DEF Next

\* What the proofs rest on: answers travel once, turns are answers, and the
\* connection is with the goroutine whose rows are open (search_broadly.go).
THEOREM CallInvariantHolds == Spec => []CallInvariant
  BY CallInvariantInit, CallInvariantNext, PTL DEF Spec

\* Whatever deadlines, failures and commits race the answers, a response that
\* does not admit to a gap has every started source's finished query behind it
\* (search_broadly.go: the select of the collecting loop and the grading).
THEOREM ResponsesAreHonest == Spec => []HonestCompleteness
<1>1. CallInvariant => HonestCompleteness
  BY DEF CallInvariant
<1> QED
  BY <1>1, CallInvariantHolds, PTL

\* No goroutine waits for the one connection of the pool while it holds it
\* itself (hydrate.go reads its rows to the end before the next query).
THEOREM ConnectionIsGivenBack == Spec => []NobodyWaitsForItself
<1>1. CallInvariant => NobodyWaitsForItself
  BY DEF CallInvariant, ConnectionIsHeld, NobodyWaitsForItself
<1> QED
  BY <1>1, CallInvariantHolds, PTL

-----------------------------------------------------------------------------
(* The gate.                                                               *)

\* The fingerprint that NewServer found stays, and a vector source that is not
\* disabled agrees with it; before the server is up there are no searches.
GateInvariant ==
    /\ SoundIndex
    /\ {"phase", "disabled"} \subseteq DOMAIN server
    /\ server.phase # "up" => pc = "idle" /\ gate = Null /\ compared = {}
    /\ gate # Null =>
         /\ db.fp = gate
         /\ server.disabled \/ QuantMode[gate] = QuantMode[ServerScheme]
    /\ KNNComparesLikeWithLike

\* Only the vector source's match compares vectors, and all of them have the
\* scheme of the fingerprint.
LEMMA MatchGate ==
    ASSUME GateInvariant, NothingStarted, NEW s \in Sources, Match(s)
    PROVE  GateInvariant'
<1>1. pc # "idle" /\ UNCHANGED <<db, server, gate, pc>>
  BY DEF NothingStarted, Match, indexVars, serverVars, callVars
<1>2. ASSUME gate # Null, NEW v \in compared'
      PROVE  QuantMode[v] = QuantMode[ServerScheme]
  <2>1. CASE v \in compared
    BY <1>2, <2>1 DEF GateInvariant, KNNComparesLikeWithLike
  <2>2. CASE v \notin compared
    <3>1. s = "vector" /\ ~server.disabled
      BY <2>2, <1>2 DEF Match
    <3>2. PICK c \in ChunkIds : db.emb[c] # Null /\ v = db.emb[c].scheme
      BY <2>2, <1>2 DEF Match
    <3>3. v = gate
      BY <1>2, <3>2 DEF GateInvariant, SoundIndex, Sound
    <3> QED
      BY <1>2, <3>1, <3>3 DEF GateInvariant
  <2> QED
    BY <2>1, <2>2
<1> QED
  BY <1>1, <1>2 DEF GateInvariant, SoundIndex, KNNComparesLikeWithLike

\* A step that neither commits, nor starts the server, nor compares.
LEMMA GateElsewhere ==
    ASSUME GateInvariant, UNCHANGED <<db, server, gate, compared>>,
           pc' = "idle" => pc = "idle", pc # "idle" \/ pc' = "idle" \/ server.phase = "up"
    PROVE  GateInvariant'
  BY DEF GateInvariant, SoundIndex, KNNComparesLikeWithLike

LEMMA GateInit == Init => GateInvariant
  BY SearchAssumption DEF Init, GateInvariant, SoundIndex, KNNComparesLikeWithLike

LEMMA GateNext == GateInvariant /\ CallInvariant /\ [Next]_vars => GateInvariant'
<1> SUFFICES ASSUME GateInvariant, CallInvariant, [Next]_vars PROVE GateInvariant'
  OBVIOUS
<1>1. NothingStarted
  BY DEF CallInvariant
<1>2. CASE OpenServer
  BY <1>2 DEF OpenServer, GateInvariant, SoundIndex, KNNComparesLikeWithLike, indexVars, callVars
<1>3. CASE NewServer
  <2>1. /\ UNCHANGED <<db, pc, compared>> /\ gate' = db.fp /\ compared = {}
        /\ server'.disabled \/ Compatible(db)
        /\ server'.phase = "up" /\ {"phase", "disabled"} \subseteq DOMAIN server'
    BY <1>3 DEF NewServer, GateInvariant, indexVars, callVars
  <2> QED
    BY <2>1 DEF GateInvariant, SoundIndex, KNNComparesLikeWithLike, Compatible
<1>4. ASSUME NEW q \in Queries, StartSearch(q) \/ RefuseSemantic(q)
      PROVE  GateInvariant'
  BY <1>4, GateElsewhere DEF StartSearch, RefuseSemantic, serverVars, indexVars
<1>5. CASE Expire \/ EmbedQuery
  BY <1>5, GateElsewhere DEF Expire, EmbedQuery, serverVars, callVars, indexVars
<1>6. ASSUME NEW s \in Sources, SourceStep(s)
      PROVE  GateInvariant'
  <2>1. CASE Match(s)
    BY <1>1, <2>1, MatchGate
  <2>2. CASE ~Match(s)
    <3>1. UNCHANGED <<db, server, gate, compared, pc>>
      BY <1>6, <2>2
      DEF SourceStep, AnswerUnqueried, EndMatch, Hydrate, EndHydrate, FetchChunks, EndFetch,
          AnswerHydrated, FailQuery, Send, serverVars, callVars, indexVars
    <3> QED
      BY <3>1, GateElsewhere
  <2> QED
    BY <2>1, <2>2
<1>7. CASE HandlerStep
  BY <1>7, GateElsewhere
  DEF HandlerStep, Collect, CollectDeadline, Collecting, Enforce, Fuse, Collected,
      AnnotateCompleteness, serverVars, indexVars
<1>8. CASE IndexerBegin \/ IndexerRollback
  BY <1>8, GateElsewhere DEF IndexerBegin, IndexerRollback, serverVars, callVars, indexVars
<1>9. CASE IndexerCommit
  <2>1. Commit /\ UNCHANGED <<server, gate, compared, pc>>
    BY <1>9 DEF IndexerCommit, serverVars, callVars
  <2>2. SoundIndex' /\ (db.fp # Null => db'.fp = db.fp)
    BY <2>1, CommitSound, SearchAssumption DEF GateInvariant
  <2> QED
    BY <2>1, <2>2 DEF GateInvariant, KNNComparesLikeWithLike
<1>10. CASE UNCHANGED vars
  BY <1>10, GateElsewhere DEF vars
<1> QED
  BY <1>2, <1>3, <1>4, <1>5, <1>6, <1>7, <1>8, <1>9, <1>10 DEF Next

\* Where the server found a fingerprint, no KNN ever compares its codes with
\* vectors of another quantisation, however the indexer commits meanwhile
\* (server.go:62-72; the writer's EnsureFingerprint).
THEOREM NoForeignVectors == Spec => []KNNComparesLikeWithLike
<1>1. Init => GateInvariant
  BY GateInit
<1>2. GateInvariant /\ CallInvariant /\ [Next]_vars => GateInvariant'
  BY GateNext
<1>3. GateInvariant => KNNComparesLikeWithLike
  BY DEF GateInvariant
<1> QED
  BY <1>1, <1>2, <1>3, CallInvariantHolds, PTL DEF Spec

-----------------------------------------------------------------------------
(* Types.                                                                  *)

\* The indexer holds the connection only for a commit that the bound admits.
Typed ==
    /\ TypeOK
    /\ conn = "indexer" => SharedPool /\ commits > 0

LEMMA IdleIsTyped ==
    /\ Idle \in Goroutine
    /\ EmptyResponse \in Response
  BY DEF Idle, Goroutine, Stages, Holding, NoRows, NoTexts, EmptyResponse, Response

LEMMA FaultTyped ==
    ASSUME faults \in 0 .. MaxFaults, Fault \/ UNCHANGED faults
    PROVE  faults' \in 0 .. MaxFaults
  BY SearchAssumption DEF Fault

\* A goroutine moves on with typed fields; the rest of the state stays.
LEMMA SourceTyped ==
    ASSUME Typed, NEW s \in Sources, NEW g \in Goroutine, src' = [src EXCEPT ![s] = g],
           conn' \in {"free", conn} \cup Sources, ch' \in Seq(Sources),
           Fault \/ UNCHANGED faults, compared' \subseteq Schemes,
           UNCHANGED <<indexVars, serverVars, callVars>>
    PROVE  Typed'
<1>1. src' \in [Sources -> Goroutine]
  BY DEF Typed, TypeOK
<1>2. faults' \in 0 .. MaxFaults
  BY FaultTyped DEF Typed, TypeOK
<1>3. conn' \in {"free", "indexer"} \cup Sources /\ (conn' = "indexer" => conn = "indexer")
  BY DEF Typed, TypeOK, Sources
<1> QED
  BY <1>1, <1>2, <1>3 DEF Typed, TypeOK, indexVars, serverVars, callVars

LEMMA MovedTyped ==
    ASSUME Typed, NEW s \in Sources, NEW stage \in Stages
    PROVE  [src[s] EXCEPT !.at = stage] \in Goroutine
  BY DEF Typed, TypeOK, Goroutine

LEMMA AnswerTyped ==
    ASSUME Typed, NEW s \in Sources, NEW status \in SourceStatuses,
           NEW nodes \in SUBSET NodeIds, Answer(s, status, nodes)
    PROVE  \E g \in Goroutine : src' = [src EXCEPT ![s] = g]
<1>1. [Idle EXCEPT !.at = "send", !.status = status, !.found = nodes] \in Goroutine
  BY IdleIsTyped DEF Goroutine, Stages
<1> QED
  BY <1>1 DEF Answer

\* The rows that match are rows of existing nodes.
LEMMA MatchRowsTyped ==
    ASSUME Typed, NEW s \in Sources, NEW R \in SUBSET MatchRows(db, s)
    PROVE  NodesIn(R) \subseteq NodeIds
<1>1. \A c \in ChunkIds : db.chunks[c] # Null => db.chunks[c].node \in NodeIds
  BY DEF Typed, TypeOK, Database, ChunkRow
<1>2. \A r \in MatchRows(db, s) : r[1] \in NodeIds
  BY <1>1 DEF MatchRows, Sources
<1> QED
  BY <1>2 DEF NodesIn

LEMMA ChunkTextsTyped ==
    ASSUME Typed, NEW n \in NodeIds, NEW T \in SUBSET ChunkTexts(db, n)
    PROVE  {t[1] : t \in T} \subseteq Texts
<1>1. \A c \in ChunkIds : db.chunks[c] # Null => db.chunks[c].text \in Texts
  BY DEF Typed, TypeOK, Database, ChunkRow
<1>2. \A t \in ChunkTexts(db, n) : t[1] \in Texts
  BY <1>1 DEF ChunkTexts
<1> QED
  BY <1>2

LEMMA SourceStepTyped ==
    ASSUME Typed, NEW s \in Sources, SourceStep(s)
    PROVE  Typed'
<1>1. /\ src \in [Sources -> Goroutine] /\ src[s] \in Goroutine
      /\ db \in Database /\ ch \in Seq(Sources) /\ compared \subseteq Schemes
  BY DEF Typed, TypeOK
<1>2. {"query", "rows", "hydrate", "hydrating", "chunks", "fetching", "send", "gone"} \subseteq Stages
  BY DEF Stages, Holding
<1>3. {"OK", "EMPTY_BUT_EXECUTED", "DEGRADED"} \subseteq SourceStatuses
  BY DEF SourceStatuses, Executed
<1>4. CASE AnswerUnqueried(s)
  <2>1. PICK g \in Goroutine : src' = [src EXCEPT ![s] = g]
    BY <1>3, <1>4, AnswerTyped DEF AnswerUnqueried
  <2> QED
    BY <1>1, <1>4, <2>1, SourceTyped DEF AnswerUnqueried, poolVars
<1>5. CASE Match(s)
  <2>1. PICK R \in Top(MatchRows(db, s), RowLimit(s)) :
          src' = [src EXCEPT ![s] = [src[s] EXCEPT !.at = "rows", !.found = NodesIn(R)]]
    BY <1>5 DEF Match
  <2>2. NodesIn(R) \in SUBSET NodeIds
    BY MatchRowsTyped DEF Top
  <2>3. [src[s] EXCEPT !.at = "rows", !.found = NodesIn(R)] \in Goroutine
    BY <1>1, <1>2, <2>2 DEF Goroutine
  <2>4. compared' \subseteq Schemes
    <3>1. \A c \in ChunkIds : db.emb[c] # Null => db.emb[c].scheme \in Schemes
      BY <1>1 DEF Database, Vector
    <3> QED
      BY <1>1, <1>5, <3>1 DEF Match
  <2> QED
    BY <1>1, <1>5, <2>1, <2>3, <2>4, SourceTyped DEF Match, Acquire
<1>6. CASE EndMatch(s)
  <2>1. PICK g \in Goroutine : src' = [src EXCEPT ![s] = g]
    BY <1>2, <1>3, <1>6, AnswerTyped, MovedTyped DEF EndMatch, Moved
  <2> QED
    BY <1>1, <1>6, <2>1, SourceTyped DEF EndMatch, Release
<1>7. CASE Hydrate(s)
  <2> DEFINE rows == [n \in NodeIds |-> IF n \in src[s].found THEN db.nodes[n] ELSE Null]
  <2>1. rows \in [NodeIds -> NodeRow \cup {Null}]
    BY <1>1 DEF Database
  <2>2. src' = [src EXCEPT ![s] = [src[s] EXCEPT !.at = "hydrating", !.rows = rows]]
    BY <1>7 DEF Hydrate
  <2> HIDE DEF rows
  <2>3. [src[s] EXCEPT !.at = "hydrating", !.rows = rows] \in Goroutine
    BY <1>1, <1>2, <2>1 DEF Goroutine
  <2> QED
    BY <1>1, <1>7, <2>2, <2>3, SourceTyped DEF Hydrate, Acquire
<1>8. CASE EndHydrate(s)
  <2> DEFINE left == {n \in NodeIds : src[s].rows[n] # Null}
  <2>1. src' = [src EXCEPT ![s] = [src[s] EXCEPT !.at = "chunks", !.left = left]]
    BY <1>8 DEF EndHydrate
  <2>2. [src[s] EXCEPT !.at = "chunks", !.left = left] \in Goroutine
    BY <1>1, <1>2 DEF Goroutine
  <2> QED
    BY <1>1, <1>8, <2>1, <2>2, SourceTyped DEF EndHydrate, Release
<1>9. CASE FetchChunks(s)
  <2> DEFINE Fetched(n, T) == [src[s] EXCEPT !.at = "fetching", !.left = src[s].left \ {n},
                                             !.texts[n] = {t[1] : t \in T}]
             Updated(n, T) == [src EXCEPT ![s].at = "fetching",
                                          ![s].left = @ \ {n},
                                          ![s].texts[n] = {t[1] : t \in T}]
  <2>1. PICK n \in src[s].left : \E T \in Top(ChunkTexts(db, n), ChunksPerNode) :
          src' = Updated(n, T)
    BY <1>9 DEF FetchChunks
  <2>2. PICK T \in Top(ChunkTexts(db, n), ChunksPerNode) : src' = Updated(n, T)
    BY <2>1
  <2>3. n \in NodeIds
    BY <1>1 DEF Goroutine
  <2>4. {t[1] : t \in T} \in SUBSET Texts
    BY <2>3, ChunkTextsTyped DEF Top
  <2>5. Fetched(n, T) \in Goroutine
    BY <1>1, <1>2, <2>3, <2>4 DEF Goroutine
  <2>6. Updated(n, T) = [src EXCEPT ![s] = Fetched(n, T)]
    BY <1>1 DEF Goroutine
  <2> HIDE DEF Fetched, Updated
  <2> QED
    BY <1>1, <1>9, <2>2, <2>5, <2>6, SourceTyped DEF FetchChunks, Acquire
<1>10. CASE EndFetch(s)
  <2>1. PICK g \in Goroutine : src' = [src EXCEPT ![s] = g]
    BY <1>2, <1>10, MovedTyped DEF EndFetch, Moved
  <2> QED
    BY <1>1, <1>10, <2>1, SourceTyped DEF EndFetch, Release
<1>11. CASE AnswerHydrated(s)
  <2>1. [src[s] EXCEPT !.at = "send", !.status = "OK"] \in Goroutine
    BY <1>1, <1>2, <1>3 DEF Goroutine
  <2>2. src' = [src EXCEPT ![s] = [src[s] EXCEPT !.at = "send", !.status = "OK"]]
    BY <1>11 DEF AnswerHydrated
  <2> QED
    BY <1>1, <1>11, <2>1, <2>2, SourceTyped DEF AnswerHydrated, poolVars
<1>12. CASE FailQuery(s)
  <2>1. PICK part \in SUBSET src[s].found : Answer(s, "DEGRADED", part)
    BY <1>12 DEF FailQuery
  <2>2. part \in SUBSET NodeIds
    BY <1>1 DEF Goroutine
  <2>3. PICK g \in Goroutine : src' = [src EXCEPT ![s] = g]
    BY <1>3, <2>1, <2>2, AnswerTyped
  <2> QED
    BY <1>1, <1>12, <2>3, SourceTyped DEF FailQuery, GiveBack
<1>13. CASE Send(s)
  <2>1. PICK g \in Goroutine : src' = [src EXCEPT ![s] = g]
    BY <1>2, <1>13, MovedTyped DEF Send, Moved
  <2>2. ch' \in Seq(Sources)
    BY <1>1, <1>13 DEF Send
  <2> QED
    BY <1>1, <1>13, <2>1, <2>2, SourceTyped DEF Send
<1> QED
  BY <1>4, <1>5, <1>6, <1>7, <1>8, <1>9, <1>10, <1>11, <1>12, <1>13 DEF SourceStep

\* The handler leaves the goroutines and the index alone.
LEMMA HandlerTyped ==
    ASSUME Typed, resp' \in Response, turns' \in {turns, turns + 1},
           turns' # turns => turns < Cardinality(Started),
           pc' \in {"collecting", "answered", "delivered"}, ch' \in Seq(Sources),
           UNCHANGED <<indexVars, faults, conn, serverVars, query, expired, src, compared>>
    PROVE  Typed'
<1>1. Cardinality(Started) \in Nat /\ Cardinality(Started) <= Cardinality(Sources)
  BY SourcesFinite, FS_Subset, FS_CardinalityType DEF Started
<1>2. turns' \in 0 .. Cardinality(Sources)
  BY <1>1, SourcesFinite DEF Typed, TypeOK
<1> QED
  BY <1>2 DEF Typed, TypeOK, indexVars, serverVars

LEMMA HandlerStepTyped ==
    ASSUME Typed, HandlerStep
    PROVE  Typed'
<1>1. /\ resp \in Response /\ src \in [Sources -> Goroutine] /\ ch \in Seq(Sources)
      /\ pc \in {"idle", "collecting", "answered", "delivered"}
  BY DEF Typed, TypeOK
<1>2. CASE Collect
  <2>1. Head(ch) \in Sources /\ ch' \in Seq(Sources)
    BY <1>1, <1>2 DEF Collect
  <2>2. resp' \in Response
    BY <1>1, <1>2, <2>1 DEF Collect, Response
  <2> QED
    BY <1>2, <2>1, <2>2, HandlerTyped DEF Collect, Collecting
<1>3. CASE CollectDeadline
  <2>1. resp' \in Response
    BY <1>1, <1>3 DEF CollectDeadline, Response
  <2> QED
    BY <1>1, <1>3, <2>1, HandlerTyped DEF CollectDeadline, Collecting, poolVars
<1>4. CASE Enforce
  <2>1. resp' \in Response
    BY <1>1, <1>4 DEF Enforce, Response
  <2> QED
    BY <1>1, <1>4, <2>1, HandlerTyped DEF Enforce, poolVars
<1>5. CASE Fuse
  <2>1. PICK keep \in Top({n \in NodeIds : ListedIn(n) # {}}, MaxResults) :
          \E donor \in [keep -> Sources] :
             resp' = Graded([resp EXCEPT !.hits = [n \in NodeIds |->
                        IF n \in keep THEN HitFrom(n, donor[n]) ELSE Null]])
    BY <1>5 DEF Fuse
  <2>2. PICK donor \in [keep -> Sources] :
             resp' = Graded([resp EXCEPT !.hits = [n \in NodeIds |->
                        IF n \in keep THEN HitFrom(n, donor[n]) ELSE Null]])
    BY <2>1
  <2> DEFINE hits == [n \in NodeIds |-> IF n \in keep THEN HitFrom(n, donor[n]) ELSE Null]
             fused == [resp EXCEPT !.hits = hits]
  <2>3. ASSUME NEW n \in NodeIds, NEW t \in Sources
        PROVE  HitFrom(n, t) \in Hit
    BY <1>1 DEF HitFrom, Hit, ListedIn, Goroutine, Response
  <2>4. hits \in [NodeIds -> Hit \cup {Null}]
    BY <2>3
  <2> HIDE DEF hits
  <2>5. fused \in Response
    BY <1>1, <2>4 DEF Response
  <2>6. resp' = Graded(fused)
    BY <2>2 DEF hits
  <2> HIDE DEF fused
  <2>7. resp' \in Response
    BY <2>5, <2>6 DEF Graded, Response
  <2> QED
    BY <1>1, <1>5, <2>7, HandlerTyped DEF Fuse, poolVars
<1>6. CASE AnnotateCompleteness
  <2>1. (resp.warned \/ resp.completeness = "partial") \in BOOLEAN
    BY <1>1, Zenon DEF Response
  <2>2. resp' \in Response
    BY <1>1, <1>6, <2>1 DEF AnnotateCompleteness, Response
  <2> QED
    BY <1>1, <1>6, <2>2, HandlerTyped DEF AnnotateCompleteness, poolVars
<1> QED
  BY <1>2, <1>3, <1>4, <1>5, <1>6 DEF HandlerStep

LEMMA EmbedTyped ==
    ASSUME Typed, EmbedQuery
    PROVE  Typed'
<1>1. PICK g \in Goroutine : src' = [src EXCEPT !["vector"] = g]
  <2>1. "vector" \in Sources /\ "query" \in Stages /\ "DEGRADED" \in SourceStatuses
    BY DEF Sources, Stages, SourceStatuses
  <2>2. CASE src' = Moved("vector", "query")
    BY <2>1, <2>2, MovedTyped DEF Moved
  <2>3. CASE Answer("vector", "DEGRADED", {})
    BY <2>1, <2>3, AnswerTyped
  <2> QED
    BY <2>2, <2>3 DEF EmbedQuery
<1>2. ch \in Seq(Sources) /\ compared \subseteq Schemes /\ "vector" \in Sources
  BY DEF Typed, TypeOK, Sources
<1> QED
  BY <1>1, <1>2, SourceTyped DEF EmbedQuery, poolVars

LEMMA StartTyped ==
    ASSUME Typed, NEW q \in Queries, StartSearch(q) \/ RefuseSemantic(q)
    PROVE  Typed'
<1>1. CASE StartSearch(q)
  <2>1. \A stage \in {"embed", "query"} : [Idle EXCEPT !.at = stage] \in Goroutine
    BY IdleIsTyped DEF Goroutine, Stages
  <2>2. src' \in [Sources -> Goroutine]
    BY <1>1, <2>1, IdleIsTyped DEF StartSearch
  <2> QED
    BY <1>1, <2>2 DEF Typed, TypeOK, StartSearch, poolVars, serverVars
<1>2. CASE RefuseSemantic(q)
  <2>1. resp' \in Response
    BY <1>2, IdleIsTyped DEF RefuseSemantic, Response, Sources
  <2> QED
    BY <1>2, <2>1 DEF Typed, TypeOK, RefuseSemantic, indexVars, poolVars, serverVars
<1> QED
  BY <1>1, <1>2

LEMMA ServerTyped ==
    ASSUME Typed, OpenServer \/ NewServer
    PROVE  Typed'
<1>1. faults' \in 0 .. MaxFaults
  BY FaultTyped DEF Typed, TypeOK, OpenServer, NewServer
<1>2. server' \in [phase : {"down", "gated", "up"}, embedder : BOOLEAN, disabled : BOOLEAN]
  <2>1. \A i \in BOOLEAN : (i /\ Compatible(db)) \in BOOLEAN
    BY Zenon
  <2>2. (~Compatible(db)) \in BOOLEAN
    BY Zenon
  <2> QED
    BY <2>1, <2>2 DEF Typed, TypeOK, OpenServer, NewServer
<1>3. gate' \in Schemes \cup {Null}
  BY DEF Typed, TypeOK, Database, OpenServer, NewServer
<1> QED
  BY <1>1, <1>2, <1>3 DEF Typed, TypeOK, OpenServer, NewServer, indexVars, poolVars, callVars

LEMMA IndexerTyped ==
    ASSUME Typed, SoundIndex, IndexerBegin \/ IndexerCommit \/ IndexerRollback
    PROVE  Typed'
<1>1. db' \in Database
  <2>1. Commit \/ UNCHANGED db
    BY DEF IndexerBegin, IndexerCommit, IndexerRollback, indexVars
  <2>2. Commit => SoundIndex'
    BY CommitSound, SearchAssumption
  <2> QED
    BY <2>1, <2>2 DEF SoundIndex
<1>2. commits' \in 0 .. MaxCommits /\ (conn' = "indexer" => SharedPool /\ commits' > 0)
  <2>1. commits \in 0 .. MaxCommits /\ (conn = "indexer" => SharedPool /\ commits > 0) /\ MaxCommits \in Nat
    BY SearchAssumption DEF Typed, TypeOK
  <2>2. CASE IndexerBegin
    BY <2>1, <2>2 DEF IndexerBegin, indexVars
  <2>3. CASE IndexerCommit
    BY <2>1, <2>3 DEF IndexerCommit
  <2>4. CASE IndexerRollback
    BY <2>1, <2>4 DEF IndexerRollback
  <2> QED
    BY <2>2, <2>3, <2>4
<1>3. conn' \in {"free", "indexer"} \cup Sources
  BY DEF Typed, TypeOK, IndexerBegin, IndexerCommit, IndexerRollback
<1>4. touched' \subseteq NodeIds
  BY DEF Typed, TypeOK, IndexerBegin, IndexerCommit, IndexerRollback, indexVars
<1> QED
  BY <1>1, <1>2, <1>3, <1>4
  DEF Typed, TypeOK, IndexerBegin, IndexerCommit, IndexerRollback, serverVars, callVars

LEMMA TypedInit == Init => Typed
<1> SUFFICES ASSUME Init PROVE Typed
  OBVIOUS
<1>1. turns \in 0 .. Cardinality(Sources)
  BY SourcesFinite DEF Init
<1>2. /\ src \in [Sources -> Goroutine] /\ resp \in Response
      /\ ch \in Seq(Sources) /\ db \in Database
      /\ commits \in 0 .. MaxCommits /\ faults \in 0 .. MaxFaults
  BY IdleIsTyped, SearchAssumption DEF Init
<1> QED
  BY <1>1, <1>2 DEF Init, Typed, TypeOK

LEMMA TypedNext == Typed /\ SoundIndex /\ [Next]_vars => Typed'
<1> SUFFICES ASSUME Typed, SoundIndex, [Next]_vars PROVE Typed'
  OBVIOUS
<1>1. CASE Expire
  BY <1>1 DEF Typed, TypeOK, Expire, indexVars, poolVars, serverVars
<1>2. CASE UNCHANGED vars
  BY <1>2 DEF Typed, TypeOK, vars
<1> QED
  BY <1>1, <1>2, ServerTyped, StartTyped, EmbedTyped, SourceStepTyped, HandlerStepTyped,
     IndexerTyped DEF Next

\* Every state of the server, the call, the goroutines and the index has its
\* type, whatever the indexer commits (search_broadly.go, runner.go).
THEOREM ServerTypeCorrect == Spec => []TypeOK
<1>1. Init => GateInvariant /\ Typed
  BY GateInit, TypedInit
<1>2. GateInvariant /\ Typed /\ CallInvariant /\ [Next]_vars => (GateInvariant /\ Typed)'
  <2>1. GateInvariant => SoundIndex
    BY DEF GateInvariant
  <2> QED
    BY <2>1, GateNext, TypedNext
<1>3. Typed => TypeOK
  BY DEF Typed
<1> QED
  BY <1>1, <1>2, <1>3, CallInvariantHolds, PTL DEF Spec

-----------------------------------------------------------------------------
(* What a query finds of one node.                                         *)

\* The chunks that the text or the vector query selects, the nodes that the
\* query for file names selects.
TextMatches(d) == {k \in ChunkIds : d.chunks[k] # Null /\ d.fts[k] \in query.texts}
VectorMatches(d) == {k \in ChunkIds : d.chunks[k] # Null /\ d.emb[k] # Null}
NameMatches(d) == {m \in NodeIds : /\ d.nodes[m] # Null
                                   /\ d.nodes[m].file \in query.files
                                   /\ IsLive(d, d.nodes[m].file)}

LEMMA MatchRowsAre ==
    ASSUME NEW d
    PROVE  /\ \A s \in Sources : ~HasTerms(s) => MatchRows(d, s) = {}
           /\ HasTerms("fts") =>
                 MatchRows(d, "fts") = {<<d.chunks[c].node, c>> : c \in TextMatches(d)}
           /\ MatchRows(d, "vector") = {<<d.chunks[c].node, c>> : c \in VectorMatches(d)}
           /\ HasTerms("filename") =>
                 MatchRows(d, "filename") = {<<n, n>> : n \in NameMatches(d)}
<1>1. \A s \in Sources : ~HasTerms(s) => MatchRows(d, s) = {}
  BY DEF MatchRows, HasTerms, Sources
<1>2. HasTerms("fts") =>
          MatchRows(d, "fts") = {<<d.chunks[c].node, c>> : c \in TextMatches(d)}
  BY DEF MatchRows, TextMatches
<1>3. HasTerms("vector")
  BY DEF HasTerms
<1>4. MatchRows(d, "vector") = {<<d.chunks[c].node, c>> : c \in VectorMatches(d)}
  BY <1>3 DEF MatchRows, VectorMatches
<1>5. HasTerms("filename") =>
          MatchRows(d, "filename") = {<<n, n>> : n \in NameMatches(d)}
  BY DEF MatchRows, NameMatches
<1> QED
  BY <1>1, <1>2, <1>4, <1>5

\* Two databases with the same picture of a node have its chunks in common.
LEMMA SamePicture ==
    ASSUME NEW d, NEW e, NEW n, Picture(d, n) = Picture(e, n)
    PROVE  /\ e.nodes[n] = d.nodes[n]
           /\ d.nodes[n] # Null =>
                 (IsLive(d, d.nodes[n].file) <=> IsLive(e, d.nodes[n].file))
           /\ \A c \in ChunkIds : d.chunks[c] # Null /\ d.chunks[c].node = n =>
                 /\ e.chunks[c] # Null /\ e.chunks[c].node = n
                 /\ e.chunks[c].text = d.chunks[c].text
                 /\ e.emb[c] = d.emb[c]
<1>1. /\ Picture(d, n).row = Picture(e, n).row /\ Picture(d, n).live = Picture(e, n).live
      /\ Picture(d, n).chunks = Picture(e, n).chunks
  OBVIOUS
<1>2. e.nodes[n] = d.nodes[n]
  BY <1>1 DEF Picture
<1>3. d.nodes[n] # Null => (IsLive(d, d.nodes[n].file) <=> IsLive(e, d.nodes[n].file))
  BY <1>1, <1>2 DEF Picture
<1>4. ASSUME NEW c \in ChunkIds, d.chunks[c] # Null, d.chunks[c].node = n
      PROVE  /\ e.chunks[c] # Null /\ e.chunks[c].node = n
             /\ e.chunks[c].text = d.chunks[c].text
             /\ e.emb[c] = d.emb[c]
  <2>1. <<c, d.chunks[c].text, d.emb[c]>> \in Picture(d, n).chunks
    BY <1>4 DEF Picture
  <2>2. PICK k \in ChunkIds :
            /\ e.chunks[k] # Null /\ e.chunks[k].node = n
            /\ <<c, d.chunks[c].text, d.emb[c]>> = <<k, e.chunks[k].text, e.emb[k]>>
    BY <1>1, <2>1 DEF Picture
  <2> QED
    BY <2>2
<1> QED
  BY <1>2, <1>3, <1>4

LEMMA SameMatches ==
    ASSUME NEW d, NEW e, Sound(d), Sound(e), NEW n \in NodeIds,
           Picture(d, n) = Picture(e, n), NEW s \in Sources, NEW x
    PROVE  <<n, x>> \in MatchRows(d, s) => <<n, x>> \in MatchRows(e, s)
<1> SUFFICES ASSUME <<n, x>> \in MatchRows(d, s) PROVE <<n, x>> \in MatchRows(e, s)
  OBVIOUS
<1>1. HasTerms(s)
  BY MatchRowsAre
<1>2. \A c \in ChunkIds : d.chunks[c] # Null /\ d.chunks[c].node = n =>
          /\ e.chunks[c] # Null /\ e.chunks[c].node = n
          /\ e.chunks[c].text = d.chunks[c].text /\ e.emb[c] = d.emb[c]
          /\ d.fts[c] = d.chunks[c].text /\ e.fts[c] = e.chunks[c].text
  BY SamePicture DEF Sound
<1>3. CASE s = "fts"
  <2>1. x \in TextMatches(d) /\ d.chunks[x].node = n
    BY <1>1, <1>3, MatchRowsAre
  <2>2. x \in TextMatches(e) /\ e.chunks[x].node = n
    BY <1>2, <2>1 DEF TextMatches
  <2> QED
    BY <1>1, <1>3, <2>2, MatchRowsAre
<1>4. CASE s = "vector"
  <2>1. x \in VectorMatches(d) /\ d.chunks[x].node = n
    BY <1>4, MatchRowsAre
  <2>2. x \in VectorMatches(e) /\ e.chunks[x].node = n
    BY <1>2, <2>1 DEF VectorMatches
  <2> QED
    BY <1>4, <2>2, MatchRowsAre
<1>5. CASE s = "filename"
  <2>1. x = n /\ n \in NameMatches(d)
    BY <1>1, <1>5, MatchRowsAre
  <2>2. n \in NameMatches(e)
    BY <2>1, SamePicture DEF NameMatches
  <2> QED
    BY <1>1, <1>5, <2>1, <2>2, MatchRowsAre
<1> QED
  BY <1>3, <1>4, <1>5 DEF Sources

\* Every row is a node of the index and one of its rows.
LEMMA RowsOfNodes ==
    ASSUME NEW d \in Database, Sound(d), NEW s \in Sources, NEW r \in MatchRows(d, s)
    PROVE  r = <<r[1], r[2]>> /\ r[1] \in NodeIds /\ d.nodes[r[1]] # Null
<1>1. HasTerms(s)
  BY MatchRowsAre
<1>2. \A c \in ChunkIds : d.chunks[c] # Null =>
          d.chunks[c].node \in NodeIds /\ d.nodes[d.chunks[c].node] # Null
  BY DEF Database, ChunkRow, Sound
<1>3. CASE s = "fts"
  <2>1. PICK c \in TextMatches(d) : r = <<d.chunks[c].node, c>>
    BY <1>1, <1>3, MatchRowsAre
  <2> QED
    BY <1>2, <2>1 DEF TextMatches
<1>4. CASE s = "vector"
  <2>1. PICK c \in VectorMatches(d) : r = <<d.chunks[c].node, c>>
    BY <1>4, MatchRowsAre
  <2> QED
    BY <1>2, <2>1 DEF VectorMatches
<1>5. CASE s = "filename"
  <2>1. PICK n \in NameMatches(d) : r = <<n, n>>
    BY <1>1, <1>5, MatchRowsAre
  <2> QED
    BY <2>1 DEF NameMatches
<1> QED
  BY <1>3, <1>4, <1>5 DEF Sources

LEMMA SameNodesMatch ==
    ASSUME NEW d \in Database, NEW e \in Database, Sound(d), Sound(e),
           NEW n \in NodeIds, Picture(d, n) = Picture(e, n), NEW s \in Sources,
           n \in NodesIn(MatchRows(d, s))
    PROVE  n \in NodesIn(MatchRows(e, s))
<1>1. PICK r \in MatchRows(d, s) : n = r[1]
  BY DEF NodesIn
<1>2. r = <<n, r[2]>>
  BY <1>1, RowsOfNodes
<1>3. <<n, r[2]>> \in MatchRows(e, s)
  BY <1>1, <1>2, SameMatches
<1>4. <<n, r[2]>>[1] = n
  OBVIOUS
<1> QED
  BY <1>3, <1>4 DEF NodesIn

LEMMA SameChunkTexts ==
    ASSUME NEW d, NEW e, NEW n, Picture(d, n) = Picture(e, n)
    PROVE  ChunkTexts(e, n) = ChunkTexts(d, n)
<1>1. \A c \in ChunkIds : d.chunks[c] # Null /\ d.chunks[c].node = n =>
          /\ e.chunks[c] # Null /\ e.chunks[c].node = n
          /\ e.chunks[c].text = d.chunks[c].text
  BY SamePicture
<1>2. \A c \in ChunkIds : e.chunks[c] # Null /\ e.chunks[c].node = n =>
          /\ d.chunks[c] # Null /\ d.chunks[c].node = n
          /\ d.chunks[c].text = e.chunks[c].text
  BY SamePicture
<1>3. {k \in ChunkIds : e.chunks[k] # Null /\ e.chunks[k].node = n}
         = {k \in ChunkIds : d.chunks[k] # Null /\ d.chunks[k].node = n}
  BY <1>1, <1>2
<1> DEFINE K == {k \in ChunkIds : d.chunks[k] # Null /\ d.chunks[k].node = n}
<1>4. \A c \in K : <<e.chunks[c].text, c>> = <<d.chunks[c].text, c>>
  BY <1>1
<1>5. ChunkTexts(e, n) = {<<e.chunks[c].text, c>> : c \in K}
  BY <1>3 DEF ChunkTexts
<1>6. ChunkTexts(d, n) = {<<d.chunks[c].text, c>> : c \in K}
  BY DEF ChunkTexts
<1> HIDE DEF K
<1> QED
  BY <1>4, <1>5, <1>6

\* If every node keeps its picture, every query finds the same rows.
LEMMA SameRowsMatch ==
    ASSUME NEW d \in Database, NEW e \in Database, Sound(d), Sound(e),
           \A n \in NodeIds : Picture(d, n) = Picture(e, n), NEW s \in Sources
    PROVE  MatchRows(e, s) = MatchRows(d, s)
<1>1. ASSUME NEW r \in MatchRows(d, s) PROVE r \in MatchRows(e, s)
  <2>1. r = <<r[1], r[2]>> /\ r[1] \in NodeIds
    BY RowsOfNodes
  <2>2. <<r[1], r[2]>> \in MatchRows(e, s)
    BY <2>1, SameMatches
  <2> QED
    BY <2>1, <2>2
<1>2. ASSUME NEW r \in MatchRows(e, s) PROVE r \in MatchRows(d, s)
  <2>1. r = <<r[1], r[2]>> /\ r[1] \in NodeIds
    BY RowsOfNodes
  <2>2. <<r[1], r[2]>> \in MatchRows(d, s)
    BY <2>1, SameMatches
  <2> QED
    BY <2>1, <2>2
<1> QED
  BY <1>1, <1>2

-----------------------------------------------------------------------------
(* What the goroutines hold.                                               *)

TextsOf(d, n) == {t[1] : t \in ChunkTexts(d, n)}

\* The texts of a hit on n: all of them when there are no more than fit.
TextsAreOf(texts, n) ==
    /\ texts \subseteq TextsOf(db, n)
    /\ Cardinality(ChunkTexts(db, n)) <= ChunksPerNode => texts = TextsOf(db, n)

HasFetched(g, n) ==
    \/ g.at \in {"send", "gone"}
    \/ g.at \in {"chunks", "fetching"} /\ n \notin g.left

\* What g, the goroutine of source s, has found and read of a node.
AccurateOn(g, s, n) ==
    /\ n \in g.found => n \in NodesIn(MatchRows(db, s))
    /\ g.rows[n] # Null => g.rows[n] = db.nodes[n]
    /\ g.rows[n] # Null /\ HasFetched(g, n) => TextsAreOf(g.texts[n], n)

Accurate(g, s) ==
    /\ g.at = "off" => g = Idle
    /\ \A n \in NodeIds \ touched : AccurateOn(g, s, n)

Answering == {"send", "gone"}
Hydrated == {"hydrating", "chunks", "fetching"}
Matched == {"rows", "hydrate"} \cup Hydrated

\* While no commit fell into the call, what g found is all there is, and it has
\* a row for each: as far as g has come, and in an answer that was executed.
FoundAll(g, s) ==
    /\ g.at \in Matched \/ (g.at \in Answering /\ g.status \in Executed)
          => (Unlimited(s) => NodesIn(MatchRows(db, s)) \subseteq g.found)
    /\ g.at \in Hydrated \/ (g.at \in Answering /\ g.status \in Executed)
          => \A n \in g.found : g.rows[n] # Null

Thorough(g, s) == touched = {} => FoundAll(g, s)

\* Before the fusion there are no hits, and a degraded completeness shows.
HitsComeLast ==
    /\ pc \in {"idle", "collecting"} => \A n \in NodeIds : resp.hits[n] = Null
    /\ resp.status = "ok" => resp.completeness = "full"

\* QuietAnswersAreComplete, with a name for what every started source together
\* would find.
AllMatches == UNION {NodesIn(MatchRows(db, s)) : s \in Started}

CompleteWhenQuiet ==
    /\ Returned /\ resp.status = "ok" /\ touched = {}
    /\ Cardinality(AllMatches) <= MaxResults
    /\ \A s \in Started : Unlimited(s)
    => \A n \in AllMatches : resp.hits[n] # Null /\ resp.hits[n].row # Null

ListInvariant ==
    /\ \A s \in Sources : Accurate(src[s], s) /\ Thorough(src[s], s)
    /\ HitsComeLast
    /\ UntouchedHitsAreExact
    /\ CompleteWhenQuiet

\* The invariants proved above, of which the steps below need all.
Known == Typed /\ GateInvariant /\ CallInvariant

LEMMA KnownTypes ==
    ASSUME Known
    PROVE  /\ db \in Database /\ Sound(db)
           /\ src \in [Sources -> Goroutine] /\ resp \in Response
           /\ pc \in {"idle", "collecting", "answered", "delivered"}
           /\ \A s \in Sources :
                 /\ src[s].found \subseteq NodeIds /\ src[s].left \subseteq NodeIds
                 /\ src[s].rows \in [NodeIds -> NodeRow \cup {Null}]
                 /\ src[s].texts \in [NodeIds -> SUBSET Texts]
<1>1. /\ db \in Database /\ Sound(db)
      /\ src \in [Sources -> Goroutine] /\ resp \in Response
      /\ pc \in {"idle", "collecting", "answered", "delivered"}
  BY DEF Known, Typed, TypeOK, GateInvariant, SoundIndex
<1>2. \A s \in Sources : src[s] \in Goroutine
  BY <1>1
<1> QED
  BY <1>1, <1>2 DEF Goroutine

LEMMA SameQuery ==
    ASSUME UNCHANGED <<db, query>>
    PROVE  \A s : MatchRows(db, s)' = MatchRows(db, s)
BY DEF MatchRows, HasTerms, IsLive

\* What is said of a goroutine depends on the index, the query and what was touched.
LEMMA JudgedAsBefore ==
    ASSUME UNCHANGED <<db, query, touched>>, NEW s \in Sources, NEW g, src'[s] = g,
           Accurate(g, s), Thorough(g, s)
    PROVE  Accurate(src[s], s)' /\ Thorough(src[s], s)'
<1>1. MatchRows(db, s)' = MatchRows(db, s)
  BY SameQuery
<1>2. \A n : AccurateOn(src[s], s, n)' <=> AccurateOn(g, s, n)
  BY <1>1 DEF AccurateOn, HasFetched, TextsAreOf
<1>3. FoundAll(src[s], s)' <=> FoundAll(g, s)
  BY <1>1 DEF FoundAll, Unlimited
<1> QED
  BY <1>2, <1>3 DEF Accurate, Thorough

\* The goroutines that a step leaves alone stay as they were, if the index does.
LEMMA OthersHold ==
    ASSUME ListInvariant, NEW s \in Sources, NEW g \in Goroutine,
           src \in [Sources -> Goroutine], src' = [src EXCEPT ![s] = g],
           UNCHANGED <<indexVars, serverVars, callVars>>,
           Accurate(g, s), Thorough(g, s), src[s].at # "off", g.at # "off"
    PROVE  ListInvariant'
<1>1. /\ UNCHANGED <<db, touched, query, resp, pc>> /\ src'[s] = g
      /\ \A t \in Sources \ {s} : src'[t] = src[t]
  BY DEF indexVars, callVars
<1>2. ASSUME NEW t \in Sources PROVE (Accurate(src[t], t) /\ Thorough(src[t], t))'
  <2>1. Accurate(src'[t], t) /\ Thorough(src'[t], t)
    BY <1>1 DEF ListInvariant
  <2> QED
    BY <1>1, <2>1, JudgedAsBefore
<1>3. HitsComeLast'
  BY <1>1 DEF ListInvariant, HitsComeLast
<1>4. UntouchedHitsAreExact'
  BY <1>1, SameQuery DEF ListInvariant, UntouchedHitsAreExact, Returned
<1>5. CompleteWhenQuiet'
  <2>1. Started' = Started
    BY <1>1 DEF Started
  <2>2. AllMatches' = AllMatches
    BY <1>1, <2>1, SameQuery DEF AllMatches
  <2>3. \A t : Unlimited(t)' <=> Unlimited(t)
    BY <1>1, SameQuery DEF Unlimited
  <2> QED
    BY <1>1, <2>1, <2>2, <2>3 DEF ListInvariant, CompleteWhenQuiet, Returned
<1> QED
  BY <1>2, <1>3, <1>4, <1>5 DEF ListInvariant

-----------------------------------------------------------------------------
(* Limits, where they do not bite, leave nothing out.                      *)

LEMMA RowsAreFinite ==
    ASSUME NEW d \in Database, Sound(d), NEW s \in Sources
    PROVE  IsFiniteSet(MatchRows(d, s))
<1>1. IsFiniteSet(NodeIds \X (ChunkIds \cup NodeIds))
  BY SearchAssumption, FS_Union, FS_Product
<1>2. \A r \in MatchRows(d, s) : r \in NodeIds \X (ChunkIds \cup NodeIds)
  <2> SUFFICES ASSUME NEW r \in MatchRows(d, s) PROVE r \in NodeIds \X (ChunkIds \cup NodeIds)
    OBVIOUS
  <2>1. r = <<r[1], r[2]>> /\ r[1] \in NodeIds /\ HasTerms(s)
    BY RowsOfNodes, MatchRowsAre
  <2>2. CASE s = "fts"
    BY <2>1, <2>2, MatchRowsAre DEF TextMatches
  <2>3. CASE s = "vector"
    BY <2>1, <2>3, MatchRowsAre DEF VectorMatches
  <2>4. CASE s = "filename"
    BY <2>1, <2>4, MatchRowsAre DEF NameMatches
  <2> QED
    BY <2>2, <2>3, <2>4 DEF Sources
<1> QED
  BY <1>1, <1>2, FS_Subset

LEMMA TextsAreFinite ==
    ASSUME NEW d, NEW n
    PROVE  IsFiniteSet(ChunkTexts(d, n))
<1> DEFINE K == {k \in ChunkIds : d.chunks[k] # Null /\ d.chunks[k].node = n}
           f == [k \in K |-> <<d.chunks[k].text, k>>]
<1>1. IsFiniteSet(K)
  BY SearchAssumption, FS_Subset
<1>2. f \in Surjection(K, ChunkTexts(d, n))
  BY DEF ChunkTexts, Surjection
<1> HIDE DEF K, f
<1> QED
  BY <1>1, <1>2, FS_Surjection

LEMMA TopIsAll ==
    ASSUME NEW rows, IsFiniteSet(rows), NEW k \in Nat, Cardinality(rows) <= k,
           NEW S \in Top(rows, k)
    PROVE  S = rows
<1>1. S \in SUBSET rows /\ (S = rows \/ Cardinality(S) = k)
  BY DEF Top
<1>2. Cardinality(S) <= Cardinality(rows) /\ (Cardinality(rows) = Cardinality(S) => rows = S)
  BY <1>1, FS_Subset
<1>3. Cardinality(S) \in Nat /\ Cardinality(rows) \in Nat
  BY <1>1, FS_Subset, FS_CardinalityType
<1> QED
  BY <1>1, <1>2, <1>3

LEMMA LimitsAreNumbers == MaxResults \in Nat /\ \A s \in Sources : RowLimit(s) \in Nat
  BY SearchAssumption DEF RowLimit

-----------------------------------------------------------------------------
(* Steps of the goroutines.                                                *)

\* A goroutine that answers without a hydration has lost its rows.
LEMMA AnswerHolds ==
    ASSUME Known, ListInvariant, NEW s \in Sources, NEW status \in SourceStatuses,
           NEW nodes \in SUBSET NodeIds, Answer(s, status, nodes), src[s].at # "off",
           \A n \in nodes \ touched : n \in NodesIn(MatchRows(db, s)),
           status \in Executed =>
              nodes = {} /\ (touched = {} /\ Unlimited(s) => NodesIn(MatchRows(db, s)) = {}),
           UNCHANGED <<indexVars, serverVars, callVars>>
    PROVE  ListInvariant'
<1> DEFINE g == [Idle EXCEPT !.at = "send", !.status = status, !.found = nodes]
<1>1. /\ g \in Goroutine /\ g.at = "send" /\ g.found = nodes /\ g.status = status
      /\ \A n \in NodeIds : g.rows[n] = Null
  BY IdleIsTyped DEF Goroutine, Idle, NoRows, Stages
<1>2. src' = [src EXCEPT ![s] = g] /\ src \in [Sources -> Goroutine]
  BY KnownTypes DEF Answer
<1> HIDE DEF g
<1>3. Accurate(g, s)
  BY <1>1 DEF Accurate, AccurateOn
<1>4. Thorough(g, s)
  BY <1>1 DEF Thorough, FoundAll, Matched, Hydrated
<1> QED
  BY <1>1, <1>2, <1>3, <1>4, OthersHold

\* A goroutine that moves on knows what it knew.
LEMMA MovedHolds ==
    ASSUME Known, ListInvariant, NEW s \in Sources, NEW stage \in Stages \ {"off"},
           src' = Moved(s, stage), src[s].at # "off",
           stage \in {"send", "gone"} => src[s].at \in {"send", "gone"},
           stage \in {"chunks", "fetching"} => src[s].at \in {"chunks", "fetching"},
           stage \in Matched => src[s].at \in Matched,
           stage \in Hydrated => src[s].at \in Hydrated,
           UNCHANGED <<indexVars, serverVars, callVars>>
    PROVE  ListInvariant'
<1> DEFINE g == [src[s] EXCEPT !.at = stage]
<1>1. /\ src[s] \in Goroutine /\ src \in [Sources -> Goroutine]
      /\ src' = [src EXCEPT ![s] = g]
  BY KnownTypes DEF Moved
<1>2. /\ g \in Goroutine /\ g.at = stage /\ g.found = src[s].found /\ g.rows = src[s].rows
      /\ g.left = src[s].left /\ g.texts = src[s].texts /\ g.status = src[s].status
  BY <1>1 DEF Goroutine
<1> HIDE DEF g
<1>3. Accurate(src[s], s) /\ Thorough(src[s], s)
  BY DEF ListInvariant
<1>4. Accurate(g, s)
  BY <1>2, <1>3 DEF Accurate, AccurateOn, HasFetched
<1>5. Thorough(g, s)
  BY <1>2, <1>3 DEF Thorough, FoundAll, Answering
<1> QED
  BY <1>1, <1>2, <1>4, <1>5, OthersHold

LEMMA MatchHolds ==
    ASSUME Known, ListInvariant, NEW s \in Sources, Match(s)
    PROVE  ListInvariant'
<1>1. PICK R \in Top(MatchRows(db, s), RowLimit(s)) :
          src' = [src EXCEPT ![s] = [src[s] EXCEPT !.at = "rows", !.found = NodesIn(R)]]
  BY DEF Match
<1>2. /\ src[s] \in Goroutine /\ src \in [Sources -> Goroutine] /\ db \in Database /\ Sound(db)
      /\ src[s].at = "query" /\ UNCHANGED <<indexVars, serverVars, callVars>>
  BY KnownTypes DEF Match
<1>3. R \in SUBSET MatchRows(db, s)
  BY DEF Top
<1>4. NodesIn(R) \in SUBSET NodeIds /\ NodesIn(R) \subseteq NodesIn(MatchRows(db, s))
  BY <1>3, MatchRowsTyped DEF NodesIn, Known
<1>5. Unlimited(s) => NodesIn(R) = NodesIn(MatchRows(db, s))
  <2> SUFFICES ASSUME Unlimited(s) PROVE R = MatchRows(db, s)
    OBVIOUS
  <2>1. Cardinality(MatchRows(db, s)) <= RowLimit(s)
    BY DEF Unlimited
  <2> QED
    BY <1>2, <2>1, RowsAreFinite, LimitsAreNumbers, TopIsAll
<1> DEFINE g == [src[s] EXCEPT !.at = "rows", !.found = NodesIn(R)]
<1>6. /\ g \in Goroutine /\ g.at = "rows" /\ g.found = NodesIn(R) /\ g.rows = src[s].rows
  BY <1>2, <1>4 DEF Goroutine, Stages, Holding
<1> HIDE DEF g
<1>7. Accurate(g, s)
  BY <1>4, <1>6 DEF ListInvariant, Accurate, AccurateOn, HasFetched
<1>8. Thorough(g, s)
  BY <1>5, <1>6 DEF Thorough, FoundAll, Hydrated, Answering
<1>9. src' = [src EXCEPT ![s] = g]
  BY <1>1 DEF g
<1> QED
  BY <1>2, <1>6, <1>7, <1>8, <1>9, OthersHold

\* The rows that are read are those of the index; of a match in a quiet index
\* there is one.
LEMMA HydrateHolds ==
    ASSUME Known, ListInvariant, NEW s \in Sources, Hydrate(s)
    PROVE  ListInvariant'
<1> DEFINE rows == [n \in NodeIds |-> IF n \in src[s].found THEN db.nodes[n] ELSE Null]
           g == [src[s] EXCEPT !.at = "hydrating", !.rows = rows]
<1>1. /\ src[s] \in Goroutine /\ src \in [Sources -> Goroutine] /\ db \in Database /\ Sound(db)
      /\ src[s].at = "hydrate" /\ UNCHANGED <<indexVars, serverVars, callVars>>
      /\ src[s].found \subseteq NodeIds
  BY KnownTypes DEF Hydrate
<1>2. src' = [src EXCEPT ![s] = g]
  BY DEF Hydrate
<1>3. rows \in [NodeIds -> NodeRow \cup {Null}]
  BY <1>1 DEF Database
<1>4. \A n \in NodeIds : rows[n] = IF n \in src[s].found THEN db.nodes[n] ELSE Null
  OBVIOUS
<1> HIDE DEF rows
<1>5. /\ g \in Goroutine /\ g.at = "hydrating" /\ g.rows = rows /\ g.found = src[s].found
  BY <1>1, <1>3 DEF Goroutine, Stages, Holding
<1> HIDE DEF g
<1>6. Accurate(src[s], s) /\ Thorough(src[s], s)
  BY DEF ListInvariant
<1>7. Accurate(g, s)
  BY <1>4, <1>5, <1>6 DEF Accurate, AccurateOn, HasFetched
<1>8. ASSUME touched = {}, NEW n \in g.found PROVE g.rows[n] # Null
  <2>1. n \in NodeIds /\ n \in NodesIn(MatchRows(db, s))
    BY <1>1, <1>5, <1>6, <1>8 DEF Accurate, AccurateOn
  <2>2. PICK r \in MatchRows(db, s) : n = r[1]
    BY <2>1 DEF NodesIn
  <2>3. db.nodes[n] # Null
    BY <1>1, <2>2, RowsOfNodes
  <2> QED
    BY <1>4, <1>5, <2>1, <2>3
<1>9. Thorough(g, s)
  BY <1>1, <1>5, <1>6, <1>8 DEF Thorough, FoundAll, Matched
<1> QED
  BY <1>1, <1>2, <1>5, <1>7, <1>9, OthersHold

LEMMA EndHydrateHolds ==
    ASSUME Known, ListInvariant, NEW s \in Sources, EndHydrate(s)
    PROVE  ListInvariant'
<1> DEFINE left == {n \in NodeIds : src[s].rows[n] # Null}
           g == [src[s] EXCEPT !.at = "chunks", !.left = left]
<1>1. /\ src[s] \in Goroutine /\ src \in [Sources -> Goroutine]
      /\ src[s].at = "hydrating" /\ UNCHANGED <<indexVars, serverVars, callVars>>
  BY KnownTypes DEF EndHydrate
<1>2. src' = [src EXCEPT ![s] = g]
  BY DEF EndHydrate
<1>3. /\ g \in Goroutine /\ g.at = "chunks" /\ g.left = left
      /\ g.rows = src[s].rows /\ g.found = src[s].found
  BY <1>1 DEF Goroutine, Stages, Holding
<1> HIDE DEF g
<1>4. Accurate(src[s], s) /\ Thorough(src[s], s)
  BY DEF ListInvariant
<1>5. Accurate(g, s)
  BY <1>3, <1>4 DEF Accurate, AccurateOn, HasFetched
<1>6. Thorough(g, s)
  BY <1>1, <1>3, <1>4 DEF Thorough, FoundAll, Matched, Hydrated
<1> QED
  BY <1>1, <1>2, <1>3, <1>5, <1>6, OthersHold

\* The chunks of one node are read: all of them, when there are no more than fit.
LEMMA FetchHolds ==
    ASSUME Known, ListInvariant, NEW s \in Sources, FetchChunks(s)
    PROVE  ListInvariant'
<1> DEFINE Fetched(n, T) == [src[s] EXCEPT !.at = "fetching", !.left = src[s].left \ {n},
                                           !.texts[n] = {t[1] : t \in T}]
           Updated(n, T) == [src EXCEPT ![s].at = "fetching",
                                        ![s].left = @ \ {n},
                                        ![s].texts[n] = {t[1] : t \in T}]
<1>1. /\ src[s] \in Goroutine /\ src \in [Sources -> Goroutine] /\ db \in Database
      /\ src[s].at = "chunks" /\ UNCHANGED <<indexVars, serverVars, callVars>>
      /\ src[s].left \subseteq NodeIds
  BY KnownTypes DEF FetchChunks
<1>2. PICK n \in src[s].left : \E T \in Top(ChunkTexts(db, n), ChunksPerNode) :
          src' = Updated(n, T)
  BY DEF FetchChunks
<1>3. PICK T \in Top(ChunkTexts(db, n), ChunksPerNode) : src' = Updated(n, T)
  BY <1>2
<1>4. T \in SUBSET ChunkTexts(db, n)
  BY DEF Top
<1>5. Cardinality(ChunkTexts(db, n)) <= ChunksPerNode => T = ChunkTexts(db, n)
  BY TextsAreFinite, TopIsAll DEF ChunksPerNode
<1> DEFINE texts == {t[1] : t \in T}
<1>6. TextsAreOf(texts, n) /\ texts \in SUBSET Texts
  <2>1. texts \subseteq TextsOf(db, n)
    BY <1>4 DEF TextsOf
  <2>2. Cardinality(ChunkTexts(db, n)) <= ChunksPerNode => texts = TextsOf(db, n)
    BY <1>5 DEF TextsOf
  <2>3. texts \in SUBSET Texts
    BY <1>1, <1>4, ChunkTextsTyped DEF Known
  <2> QED
    BY <2>1, <2>2, <2>3 DEF TextsAreOf
<1> HIDE DEF texts
<1> DEFINE g == [src[s] EXCEPT !.at = "fetching", !.left = src[s].left \ {n}, !.texts[n] = texts]
<1>7. /\ g \in Goroutine /\ g.at = "fetching" /\ g.left = src[s].left \ {n}
      /\ g.rows = src[s].rows /\ g.found = src[s].found
      /\ g.texts[n] = texts /\ \A m \in NodeIds \ {n} : g.texts[m] = src[s].texts[m]
  BY <1>1, <1>6 DEF Goroutine, Stages, Holding
<1>8. src' = [src EXCEPT ![s] = g]
  BY <1>1, <1>3 DEF texts, Goroutine
<1> HIDE DEF g
<1>9. Accurate(src[s], s) /\ Thorough(src[s], s)
  BY DEF ListInvariant
<1>10. Accurate(g, s)
  <2>1. ASSUME NEW m \in NodeIds \ touched PROVE AccurateOn(g, s, m)
    <3>1. AccurateOn(src[s], s, m)
      BY <1>9 DEF Accurate
    <3>2. CASE m = n
      BY <1>6, <1>7, <3>1, <3>2 DEF AccurateOn
    <3>3. CASE m # n
      BY <1>1, <1>7, <3>1, <3>3 DEF AccurateOn, HasFetched
    <3> QED
      BY <3>2, <3>3
  <2> QED
    BY <1>7, <2>1 DEF Accurate
<1>11. Thorough(g, s)
  BY <1>1, <1>7, <1>9 DEF Thorough, FoundAll, Matched, Hydrated
<1> QED
  BY <1>1, <1>7, <1>8, <1>10, <1>11, OthersHold

\* With nothing left to read, every row has its chunks.
LEMMA AnswerHydratedHolds ==
    ASSUME Known, ListInvariant, NEW s \in Sources, AnswerHydrated(s)
    PROVE  ListInvariant'
<1> DEFINE g == [src[s] EXCEPT !.at = "send", !.status = "OK"]
<1>1. /\ src[s] \in Goroutine /\ src \in [Sources -> Goroutine]
      /\ src[s].at = "chunks" /\ src[s].left = {} /\ UNCHANGED <<indexVars, serverVars, callVars>>
      /\ src' = [src EXCEPT ![s] = g]
  BY KnownTypes DEF AnswerHydrated
<1>2. /\ g \in Goroutine /\ g.at = "send" /\ g.texts = src[s].texts
      /\ g.rows = src[s].rows /\ g.found = src[s].found
  BY <1>1 DEF Goroutine, Stages, SourceStatuses, Executed
<1> HIDE DEF g
<1>3. Accurate(src[s], s) /\ Thorough(src[s], s)
  BY DEF ListInvariant
<1>4. Accurate(g, s)
  BY <1>1, <1>2, <1>3 DEF Accurate, AccurateOn, HasFetched
<1>5. Thorough(g, s)
  BY <1>1, <1>2, <1>3 DEF Thorough, FoundAll, Matched, Hydrated
<1> QED
  BY <1>1, <1>2, <1>4, <1>5, OthersHold

LEMMA SourceStepHolds ==
    ASSUME Known, ListInvariant, NEW s \in Sources, SourceStep(s)
    PROVE  ListInvariant'
<1>1. /\ src[s] \in Goroutine /\ Accurate(src[s], s) /\ Thorough(src[s], s)
      /\ src[s].found \subseteq NodeIds
  BY KnownTypes DEF ListInvariant
<1>2. {"OK", "EMPTY_BUT_EXECUTED", "DEGRADED"} \subseteq SourceStatuses
      /\ "DEGRADED" \notin Executed
  BY DEF SourceStatuses, Executed
<1>3. {"hydrate", "chunks", "send", "gone"} \subseteq Stages \ {"off"}
  BY DEF Stages, Holding
<1>4. CASE AnswerUnqueried(s)
  <2>1. /\ src[s].at = "query" /\ UNCHANGED <<indexVars, serverVars, callVars>>
        /\ \/ Answer(s, "DEGRADED", {})
           \/ ~HasTerms(s) /\ Answer(s, "EMPTY_BUT_EXECUTED", {})
    BY <1>4 DEF AnswerUnqueried
  <2>2. ~HasTerms(s) => NodesIn(MatchRows(db, s)) = {}
    BY MatchRowsAre DEF NodesIn
  <2> QED
    BY <1>2, <2>1, <2>2, AnswerHolds
<1>5. CASE Match(s)
  BY <1>5, MatchHolds
<1>6. CASE EndMatch(s)
  <2>1. /\ src[s].at = "rows" /\ UNCHANGED <<indexVars, serverVars, callVars>>
        /\ \/ src[s].found = {} /\ Answer(s, "EMPTY_BUT_EXECUTED", {})
           \/ src' = Moved(s, "hydrate")
    BY <1>6 DEF EndMatch
  <2>2. CASE src[s].found = {} /\ Answer(s, "EMPTY_BUT_EXECUTED", {})
    <3>1. touched = {} /\ Unlimited(s) => NodesIn(MatchRows(db, s)) = {}
      BY <1>1, <2>1, <2>2 DEF Thorough, FoundAll, Matched
    <3> QED
      BY <1>2, <2>1, <2>2, <3>1, AnswerHolds
  <2>3. CASE src' = Moved(s, "hydrate")
    BY <1>3, <2>1, <2>3, MovedHolds DEF Matched, Hydrated
  <2> QED
    BY <2>1, <2>2, <2>3
<1>7. CASE Hydrate(s)
  BY <1>7, HydrateHolds
<1>8. CASE EndHydrate(s)
  BY <1>8, EndHydrateHolds
<1>9. CASE FetchChunks(s)
  BY <1>9, FetchHolds
<1>10. CASE EndFetch(s)
  BY <1>3, <1>10, MovedHolds DEF EndFetch, Matched, Hydrated
<1>11. CASE AnswerHydrated(s)
  BY <1>11, AnswerHydratedHolds
<1>12. CASE FailQuery(s)
  <2>1. PICK part \in SUBSET src[s].found : Answer(s, "DEGRADED", part)
    BY <1>12 DEF FailQuery
  <2>2. src[s].at # "off" /\ UNCHANGED <<indexVars, serverVars, callVars>>
    BY <1>12 DEF FailQuery, Querying, Holding
  <2>3. part \in SUBSET NodeIds /\ \A n \in part \ touched : n \in NodesIn(MatchRows(db, s))
    BY <1>1, <2>1 DEF Accurate, AccurateOn
  <2> QED
    BY <1>2, <2>1, <2>2, <2>3, AnswerHolds
<1>13. CASE Send(s)
  BY <1>3, <1>13, MovedHolds DEF Send, Matched, Hydrated
<1> QED
  BY <1>4, <1>5, <1>6, <1>7, <1>8, <1>9, <1>10, <1>11, <1>12, <1>13 DEF SourceStep

-----------------------------------------------------------------------------
(* Steps of the handler.                                                   *)

LEMMA HandlerHolds ==
    ASSUME ListInvariant, UNCHANGED <<db, touched, query, src>>,
           HitsComeLast', UntouchedHitsAreExact', CompleteWhenQuiet'
    PROVE  ListInvariant'
<1>1. \A s \in Sources : src'[s] = src[s] /\ Accurate(src[s], s) /\ Thorough(src[s], s)
  BY DEF ListInvariant
<1>2. \A s \in Sources : Accurate(src[s], s)' /\ Thorough(src[s], s)'
  BY <1>1, JudgedAsBefore
<1> QED
  BY <1>2 DEF ListInvariant

\* While the handler collects, there is nothing to judge.
LEMMA CollectingHolds ==
    ASSUME Known, ListInvariant, Expire \/ Collect \/ CollectDeadline
    PROVE  ListInvariant'
<1>1. /\ UNCHANGED <<db, touched, query, src, pc>> /\ pc = "collecting" /\ resp \in Response
  BY KnownTypes
  DEF Expire, Collect, CollectDeadline, Collecting, indexVars
<1>2. resp'.hits = resp.hits /\ (resp'.status = "ok" => resp'.completeness = "full")
  <2>1. CASE Expire
    BY <2>1 DEF Expire, ListInvariant, HitsComeLast
  <2>2. CASE Collect
    BY <1>1, <2>2 DEF Collect, ListInvariant, HitsComeLast, Response
  <2>3. CASE CollectDeadline
    BY <1>1, <2>3 DEF CollectDeadline, Response
  <2> QED
    BY <2>1, <2>2, <2>3
<1>3. HitsComeLast'
  BY <1>1, <1>2 DEF ListInvariant, HitsComeLast
<1>4. UntouchedHitsAreExact' /\ CompleteWhenQuiet'
  BY <1>1 DEF UntouchedHitsAreExact, CompleteWhenQuiet, Returned
<1> QED
  BY <1>1, <1>3, <1>4, HandlerHolds

LEMMA EnforceHolds ==
    ASSUME Known, ListInvariant, Enforce
    PROVE  ListInvariant'
<1>1. /\ UNCHANGED <<db, touched, query, src>> /\ pc = "collecting" /\ pc' = "answered"
      /\ resp \in Response /\ resp' = [resp EXCEPT !.status = "error"]
  BY KnownTypes DEF Enforce, Collected, indexVars
<1>2. resp'.hits = resp.hits /\ resp'.status = "error"
  BY <1>1 DEF Response
<1>3. HitsComeLast'
  BY <1>1, <1>2 DEF HitsComeLast
<1>4. UntouchedHitsAreExact'
  BY <1>1, <1>2 DEF ListInvariant, HitsComeLast, UntouchedHitsAreExact
<1>5. CompleteWhenQuiet'
  BY <1>2 DEF CompleteWhenQuiet
<1> QED
  BY <1>1, <1>3, <1>4, <1>5, HandlerHolds

LEMMA AnnotateHolds ==
    ASSUME Known, ListInvariant, AnnotateCompleteness
    PROVE  ListInvariant'
<1>1. /\ UNCHANGED <<db, touched, query, src>> /\ pc = "answered" /\ pc' = "delivered"
      /\ resp \in Response /\ resp' = [resp EXCEPT !.warned = @ \/ resp.completeness = "partial"]
  BY KnownTypes DEF AnnotateCompleteness, indexVars
<1>2. /\ resp'.hits = resp.hits /\ resp'.status = resp.status
      /\ resp'.completeness = resp.completeness
  BY <1>1 DEF Response
<1>3. HitsComeLast'
  BY <1>1, <1>2 DEF ListInvariant, HitsComeLast
<1>4. \A s : MatchRows(db, s)' = MatchRows(db, s)
  BY <1>1, SameQuery
<1>5. UntouchedHitsAreExact'
  BY <1>1, <1>2, <1>4 DEF ListInvariant, UntouchedHitsAreExact, Returned
<1>6. CompleteWhenQuiet'
  <2>1. Started' = Started
    BY <1>1 DEF Started
  <2>2. AllMatches' = AllMatches
    BY <1>4, <2>1 DEF AllMatches
  <2>3. \A t : Unlimited(t)' <=> Unlimited(t)
    BY <1>4 DEF Unlimited
  <2> QED
    BY <1>1, <1>2, <2>1, <2>2, <2>3 DEF ListInvariant, CompleteWhenQuiet, Returned
<1> QED
  BY <1>1, <1>3, <1>5, <1>6, HandlerHolds

\* What the fusion lists comes from goroutines that have answered.
LEMMA ListedBy ==
    ASSUME Known, NEW n, NEW s \in ListedIn(n)
    PROVE  s \in Sources /\ s \in resp.answered /\ n \in src[s].found /\ src[s].at = "gone"
  BY DEF Known, CallInvariant, Shape, AnswersTravelOnce, ListedIn

\* A fused hit is what one of the goroutines read of a node that all of them found.
LEMMA FusedHitIsExact ==
    ASSUME Known, ListInvariant, NEW n \in NodeIds \ touched, NEW s \in Donors(n)
    PROVE  LET hit == HitFrom(n, s)
           IN  /\ \A t \in hit.sources : n \in NodesIn(MatchRows(db, t))
               /\ hit.row # Null => hit.row = db.nodes[n] /\ TextsAreOf(hit.texts, n)
<1>1. s \in ListedIn(n)
  BY DEF Donors
<1>2. HitFrom(n, s).sources = ListedIn(n) /\ HitFrom(n, s).row = src[s].rows[n]
      /\ HitFrom(n, s).texts = src[s].texts[n]
  BY DEF HitFrom
<1>3. \A t \in ListedIn(n) : AccurateOn(src[t], t, n)
  BY ListedBy DEF ListInvariant, Accurate
<1>4. \A t \in ListedIn(n) : n \in NodesIn(MatchRows(db, t))
  BY <1>3, ListedBy DEF AccurateOn
<1>5. src[s].rows[n] # Null => src[s].rows[n] = db.nodes[n] /\ TextsAreOf(src[s].texts[n], n)
  BY <1>1, <1>3, ListedBy DEF AccurateOn, HasFetched
<1> QED
  BY <1>2, <1>4, <1>5

\* Without a commit in the call, a full set of executed answers lists exactly
\* what the queries find, and has read all of it.
LEMMA ListedIsMatched ==
    ASSUME Known, ListInvariant, touched = {}, \A s \in Started : ExecutedOK(s) /\ Unlimited(s)
    PROVE  /\ {n \in NodeIds : ListedIn(n) # {}} = AllMatches
           /\ \A n \in NodeIds : \A s \in ListedIn(n) : src[s].rows[n] # Null
<1>1. ASSUME NEW s \in Started
      PROVE  /\ s \in Sources /\ s \in resp.answered
             /\ NodesIn(MatchRows(db, s)) \subseteq src[s].found
             /\ \A n \in src[s].found : src[s].rows[n] # Null
  <2>1. s \in Sources /\ s \in resp.answered /\ src[s].at = "gone" /\ src[s].status \in Executed
    BY DEF Known, CallInvariant, AnswersTravelOnce, Started, ExecutedOK
  <2>2. FoundAll(src[s], s)
    BY <2>1 DEF ListInvariant, Thorough
  <2> QED
    BY <2>1, <2>2 DEF FoundAll, Answering
<1>2. \A n : \A s \in ListedIn(n) : s \in Started
  BY ListedBy DEF Started
<1>3. ASSUME NEW n \in NodeIds, NEW s \in ListedIn(n)
      PROVE  n \in AllMatches /\ src[s].rows[n] # Null
  <2>1. s \in Started /\ s \in Sources /\ n \in src[s].found
    BY <1>2, ListedBy
  <2>2. n \in NodesIn(MatchRows(db, s))
    BY <2>1 DEF ListInvariant, Accurate, AccurateOn
  <2> QED
    BY <1>1, <2>1, <2>2 DEF AllMatches
<1>4. ASSUME NEW n \in AllMatches
      PROVE  n \in NodeIds /\ ListedIn(n) # {}
  <2>1. PICK s \in Started : n \in NodesIn(MatchRows(db, s))
    BY DEF AllMatches
  <2>2. n \in src[s].found /\ s \in resp.answered /\ s \in Sources
    BY <1>1, <2>1
  <2> QED
    BY <2>2, KnownTypes DEF ListedIn
<1> QED
  BY <1>3, <1>4

LEMMA FuseHolds ==
    ASSUME Known, ListInvariant, HonestCompleteness', Fuse
    PROVE  ListInvariant'
<1> DEFINE listed == {n \in NodeIds : ListedIn(n) # {}}
           fused(keep, donor) == [n \in NodeIds |->
                                    IF n \in keep THEN HitFrom(n, donor[n]) ELSE Null]
<1>1. /\ UNCHANGED <<db, touched, query, src>> /\ pc = "collecting" /\ pc' = "answered"
      /\ resp \in Response
  BY KnownTypes DEF Fuse, Collected, indexVars
<1>2. PICK keep \in Top(listed, MaxResults) :
          \E donor \in [keep -> Sources] :
             /\ \A n \in keep : donor[n] \in Donors(n)
             /\ resp' = Graded([resp EXCEPT !.hits = fused(keep, donor)])
  BY DEF Fuse
<1>3. PICK donor \in [keep -> Sources] :
             /\ \A n \in keep : donor[n] \in Donors(n)
             /\ resp' = Graded([resp EXCEPT !.hits = fused(keep, donor)])
  BY <1>2
<1> DEFINE hits == fused(keep, donor)
<1>4. /\ \A n \in NodeIds : hits[n] = IF n \in keep THEN HitFrom(n, donor[n]) ELSE Null
      /\ resp' = Graded([resp EXCEPT !.hits = hits])
  BY <1>3
<1> HIDE DEF hits, fused
<1>5. /\ resp'.hits = hits
      /\ resp'.answered = resp.answered
      /\ resp'.status = "ok" =>
            resp.status = "ok" /\ resp.failed = {} /\ resp'.completeness = resp.completeness
  BY <1>1, <1>4 DEF Graded, Response
<1>6. keep \subseteq listed
  BY DEF Top
<1>7. HitsComeLast'
  BY <1>1, <1>5 DEF ListInvariant, HitsComeLast
<1>8. \A s : MatchRows(db, s)' = MatchRows(db, s)
  BY <1>1, SameQuery
<1>9. UntouchedHitsAreExact'
  <2> SUFFICES ASSUME NEW n \in NodeIds \ touched, hits[n] # Null
               PROVE  LET hit == hits[n]
                      IN  /\ \A s \in hit.sources : n \in NodesIn(MatchRows(db, s))
                          /\ hit.row # Null => hit.row = db.nodes[n] /\ TextsAreOf(hit.texts, n)
    BY <1>1, <1>5, <1>8 DEF UntouchedHitsAreExact, TextsAreOf, TextsOf
  <2>1. hits[n] = HitFrom(n, donor[n]) /\ donor[n] \in Donors(n)
    BY <1>3, <1>4
  <2> QED
    BY <2>1, FusedHitIsExact
<1>10. CompleteWhenQuiet'
  <2>1. Started' = Started
    BY <1>1 DEF Started
  <2>2. AllMatches' = AllMatches
    BY <1>8, <2>1 DEF AllMatches
  <2>3. \A s : Unlimited(s)' <=> Unlimited(s)
    BY <1>8 DEF Unlimited
  <2> SUFFICES ASSUME resp'.status = "ok", touched = {}, Cardinality(AllMatches) <= MaxResults,
                      \A s \in Started : Unlimited(s), NEW n \in AllMatches
               PROVE  hits[n] # Null /\ hits[n].row # Null
    BY <1>1, <1>5, <2>1, <2>2, <2>3 DEF CompleteWhenQuiet
  <2>4. \A s \in Started : ExecutedOK(s)
    <3>1. resp'.completeness = "full"
      BY <1>7 DEF HitsComeLast
    <3>2. \A s \in Started' : ExecutedOK(s)'
      BY <1>1, <3>1 DEF HonestCompleteness, Returned
    <3> QED
      BY <1>1, <1>5, <2>1, <3>2 DEF ExecutedOK
  <2>5. listed = AllMatches /\ \A s \in ListedIn(n) : src[s].rows[n] # Null
    BY <2>4, ListedIsMatched
  <2>6. keep = listed
    <3>1. IsFiniteSet(listed)
      BY SearchAssumption, FS_Subset
    <3> HIDE DEF listed
    <3> QED
      BY <2>5, <3>1, LimitsAreNumbers, TopIsAll
  <2>7. /\ n \in NodeIds /\ n \in keep /\ hits[n] = HitFrom(n, donor[n])
        /\ donor[n] \in ListedIn(n)
    BY <1>3, <1>4, <2>5, <2>6 DEF Donors
  <2>8. HitFrom(n, donor[n]) \in Hit
    BY <2>7, KnownTypes, ListedBy DEF HitFrom, Hit, ListedIn, Response
  <2> QED
    BY <2>5, <2>7, <2>8, HitAssumption DEF HitFrom
<1> QED
  BY <1>1, <1>7, <1>9, <1>10, HandlerHolds

-----------------------------------------------------------------------------
(* The call begins; the server and the indexer.                            *)

\* A goroutine that has not asked anything yet.
Fresh(g) ==
    /\ g.at \in {"off", "embed", "query"}
    /\ g.at = "off" => g = Idle
    /\ g.found = {}
    /\ \A n \in NodeIds : g.rows[n] = Null

LEMMA FreshHolds ==
    ASSUME \A s \in Sources : Fresh(src'[s])
    PROVE  \A s \in Sources : Accurate(src[s], s)' /\ Thorough(src[s], s)'
  BY DEF Fresh, Accurate, AccurateOn, Thorough, FoundAll, Matched, Hydrated, Answering

LEMMA StartHolds ==
    ASSUME Known, ListInvariant, NEW q \in Queries, StartSearch(q) \/ RefuseSemantic(q)
    PROVE  ListInvariant'
<1>1. pc = "idle" /\ Fresh(Idle) /\ \A stage \in {"embed", "query"} : Fresh([Idle EXCEPT !.at = stage])
  BY DEF StartSearch, RefuseSemantic, Fresh, Idle, NoRows
<1>2. CASE StartSearch(q)
  <2>1. /\ pc' = "collecting" /\ resp' = resp
        /\ \A s \in Sources : src'[s] \in {Idle, [Idle EXCEPT !.at = "embed"], [Idle EXCEPT !.at = "query"]}
    BY <1>2 DEF StartSearch
  <2>2. \A s \in Sources : Fresh(src'[s])
    BY <1>1, <2>1
  <2>3. HitsComeLast' /\ UntouchedHitsAreExact' /\ CompleteWhenQuiet'
    BY <1>1, <2>1
    DEF ListInvariant, HitsComeLast, UntouchedHitsAreExact, CompleteWhenQuiet, Returned
  <2> QED
    BY <2>2, <2>3, FreshHolds DEF ListInvariant
<1>3. CASE RefuseSemantic(q)
  <2>1. /\ pc' = "answered" /\ src' = src /\ resp'.status = "error"
        /\ \A n \in NodeIds : resp'.hits[n] = Null
    BY <1>3 DEF RefuseSemantic, EmptyResponse
  <2>2. \A s \in Sources : Fresh(src'[s])
    BY <1>1, <2>1 DEF Known, CallInvariant, NothingStarted, ListInvariant, Accurate
  <2>3. HitsComeLast' /\ UntouchedHitsAreExact' /\ CompleteWhenQuiet'
    BY <2>1 DEF HitsComeLast, UntouchedHitsAreExact, CompleteWhenQuiet
  <2> QED
    BY <2>2, <2>3, FreshHolds DEF ListInvariant
<1> QED
  BY <1>2, <1>3

LEMMA StutterHolds ==
    ASSUME ListInvariant, UNCHANGED <<db, touched, query, src, resp, pc>>
    PROVE  ListInvariant'
<1>1. \A s : MatchRows(db, s)' = MatchRows(db, s)
  BY SameQuery
<1>2. HitsComeLast'
  BY DEF ListInvariant, HitsComeLast
<1>3. UntouchedHitsAreExact'
  BY <1>1 DEF ListInvariant, UntouchedHitsAreExact, Returned
<1>4. CompleteWhenQuiet'
  <2>1. Started' = Started
    BY DEF Started
  <2>2. AllMatches' = AllMatches
    BY <1>1, <2>1 DEF AllMatches
  <2>3. \A t : Unlimited(t)' <=> Unlimited(t)
    BY <1>1 DEF Unlimited
  <2> QED
    BY <2>1, <2>2, <2>3 DEF ListInvariant, CompleteWhenQuiet, Returned
<1> QED
  BY <1>2, <1>3, <1>4, HandlerHolds

\* A commit touches whatever it changes the picture of; what it does not touch
\* is matched as before.
LEMMA CommitHolds ==
    ASSUME Known, ListInvariant, Known', IndexerCommit
    PROVE  ListInvariant'
<1>1. /\ UNCHANGED <<query, src, resp, pc>>
      /\ touched' = touched \cup {n \in NodeIds : Picture(db, n) # Picture(db', n)}
  BY DEF IndexerCommit, callVars
<1>2. db \in Database /\ Sound(db) /\ db' \in Database /\ Sound(db')
  BY DEF Known, GateInvariant, SoundIndex
<1>3. \A s : MatchRows(db, s)' = MatchRows(db', s)
  BY <1>1 DEF MatchRows, HasTerms, IsLive
<1>4. \A n \in NodeIds \ touched' : n \notin touched /\ Picture(db, n) = Picture(db', n)
  BY <1>1
<1>5. ASSUME NEW n \in NodeIds \ touched'
      PROVE  /\ db'.nodes[n] = db.nodes[n]
             /\ ChunkTexts(db', n) = ChunkTexts(db, n)
             /\ \A s \in Sources :
                   n \in NodesIn(MatchRows(db, s)) => n \in NodesIn(MatchRows(db', s))
  <2>1. n \in NodeIds /\ Picture(db, n) = Picture(db', n)
    BY <1>4
  <2> QED
    BY <1>2, <2>1, SamePicture, SameChunkTexts, SameNodesMatch
<1>6. touched' = {} => touched = {} /\ \A s \in Sources : MatchRows(db', s) = MatchRows(db, s)
  BY <1>1, <1>2, <1>4, SameRowsMatch
<1>7. ASSUME NEW s \in Sources PROVE Accurate(src[s], s)' /\ Thorough(src[s], s)'
  <2>1. Accurate(src[s], s) /\ Thorough(src[s], s)
    BY DEF ListInvariant
  <2>2. ASSUME NEW n \in NodeIds \ touched' PROVE AccurateOn(src[s], s, n)'
    <3>1. AccurateOn(src[s], s, n)
      BY <1>4, <2>1 DEF Accurate
    <3> QED
      BY <1>1, <1>3, <1>5, <3>1 DEF AccurateOn, HasFetched, TextsAreOf, TextsOf
  <2>3. Accurate(src[s], s)'
    BY <1>1, <2>1, <2>2 DEF Accurate
  <2>4. Thorough(src[s], s)'
    BY <1>1, <1>3, <1>6, <2>1 DEF Thorough, FoundAll, Unlimited
  <2> QED
    BY <2>3, <2>4
<1>8. HitsComeLast'
  BY <1>1 DEF ListInvariant, HitsComeLast
<1>9. UntouchedHitsAreExact'
  <2>1. \A n \in NodeIds : resp.hits[n] # Null => resp.hits[n].sources \subseteq Sources
    BY KnownTypes DEF Response, Hit
  <2> QED
    BY <1>1, <1>3, <1>4, <1>5, <2>1 DEF ListInvariant, UntouchedHitsAreExact, Returned
<1>10. CompleteWhenQuiet'
  <2> SUFFICES ASSUME touched' = {} PROVE CompleteWhenQuiet'
    BY DEF CompleteWhenQuiet
  <2>1. Started' = Started /\ Started \subseteq Sources
    BY <1>1 DEF Started
  <2>2. \A s \in Sources : MatchRows(db, s)' = MatchRows(db, s)
    BY <1>3, <1>6
  <2>3. AllMatches' = AllMatches
    BY <2>1, <2>2 DEF AllMatches
  <2>4. \A t \in Sources : Unlimited(t)' <=> Unlimited(t)
    BY <2>2 DEF Unlimited
  <2> QED
    BY <1>1, <1>6, <2>1, <2>3, <2>4 DEF ListInvariant, CompleteWhenQuiet, Returned
<1> QED
  BY <1>7, <1>8, <1>9, <1>10 DEF ListInvariant

LEMMA ListInit == Init => ListInvariant
<1> SUFFICES ASSUME Init PROVE ListInvariant
  OBVIOUS
<1>1. \A s \in Sources : src[s] = Idle
  BY DEF Init
<1>2. \A s \in Sources : Accurate(src[s], s) /\ Thorough(src[s], s)
  BY <1>1 DEF Idle, NoRows, Accurate, AccurateOn, Thorough, FoundAll, Matched, Hydrated, Answering
<1>3. HitsComeLast /\ UntouchedHitsAreExact /\ CompleteWhenQuiet
  BY DEF Init, EmptyResponse, HitsComeLast, UntouchedHitsAreExact, CompleteWhenQuiet, Returned
<1> QED
  BY <1>2, <1>3 DEF ListInvariant

LEMMA ListNext == Known /\ Known' /\ ListInvariant /\ [Next]_vars => ListInvariant'
<1> SUFFICES ASSUME Known, Known', ListInvariant, [Next]_vars PROVE ListInvariant'
  OBVIOUS
<1>1. CASE OpenServer \/ NewServer
  BY <1>1, StutterHolds DEF OpenServer, NewServer, indexVars, callVars
<1>2. ASSUME NEW q \in Queries, StartSearch(q) \/ RefuseSemantic(q)
      PROVE  ListInvariant'
  BY <1>2, StartHolds
<1>3. CASE Expire
  BY <1>3, CollectingHolds
<1>4. CASE EmbedQuery
  <2>1. /\ "vector" \in Sources /\ src["vector"].at = "embed"
        /\ UNCHANGED <<indexVars, serverVars, callVars>>
    BY <1>4 DEF EmbedQuery, Sources
  <2>2. CASE src' = Moved("vector", "query")
    BY <2>1, <2>2, MovedHolds DEF Stages, Matched, Hydrated, Holding
  <2>3. CASE Answer("vector", "DEGRADED", {})
    <3>1. "DEGRADED" \in SourceStatuses \ Executed
      BY DEF SourceStatuses, Executed
    <3> QED
      BY <2>1, <2>3, <3>1, AnswerHolds
  <2> QED
    BY <1>4, <2>2, <2>3 DEF EmbedQuery
<1>5. ASSUME NEW s \in Sources, SourceStep(s)
      PROVE  ListInvariant'
  BY <1>5, SourceStepHolds
<1>6. CASE HandlerStep
  <2>1. HonestCompleteness'
    BY DEF Known, CallInvariant
  <2> QED
    BY <1>6, <2>1, CollectingHolds, EnforceHolds, FuseHolds, AnnotateHolds DEF HandlerStep
<1>7. CASE IndexerBegin \/ IndexerRollback
  BY <1>7, StutterHolds DEF IndexerBegin, IndexerRollback, indexVars, callVars
<1>8. CASE IndexerCommit
  BY <1>8, CommitHolds
<1>9. CASE UNCHANGED vars
  BY <1>9, StutterHolds DEF vars
<1> QED
  BY <1>1, <1>2, <1>3, <1>4, <1>5, <1>6, <1>7, <1>8, <1>9 DEF Next

LEMMA ListInvariantHolds == Spec => []ListInvariant
<1>1. Init => GateInvariant /\ Typed /\ ListInvariant
  BY GateInit, TypedInit, ListInit
<1>2. GateInvariant /\ Typed /\ CallInvariant /\ CallInvariant' /\ ListInvariant /\ [Next]_vars
          => (GateInvariant /\ Typed /\ ListInvariant)'
  <2>1. GateInvariant => SoundIndex
    BY DEF GateInvariant
  <2>2. GateInvariant /\ Typed /\ CallInvariant /\ [Next]_vars => (GateInvariant /\ Typed)'
    BY <2>1, GateNext, TypedNext
  <2> QED
    BY <2>2, ListNext DEF Known
<1> QED
  BY <1>1, <1>2, CallInvariantHolds, PTL DEF Spec

\* However the indexer commits between the statements of a search, and whatever
\* fails or times out: a hit on a node that no commit changed during the call
\* says what the index says of it (hydrate.go, rrfFuse in search_broadly.go).
THEOREM HitsAreOfTheIndex == Spec => []UntouchedHitsAreExact
<1>1. ListInvariant => UntouchedHitsAreExact
  BY DEF ListInvariant
<1> QED
  BY <1>1, ListInvariantHolds, PTL

\* If no commit fell into the call, an answer that is "ok" has a hydrated hit for
\* every match of every source that ran, as far as the limits allow
\* (search_broadly.go: the loop over the sources, the grading and the fusion).
THEOREM QuietSearchesFindAll == Spec => []QuietAnswersAreComplete
<1>1. ListInvariant => QuietAnswersAreComplete
  BY DEF ListInvariant, CompleteWhenQuiet, QuietAnswersAreComplete, AllMatches
<1> QED
  BY <1>1, ListInvariantHolds, PTL

-----------------------------------------------------------------------------
(* A call is bounded: what its liveness rests on, short of the fairness.   *)

\* How many steps a goroutine may still take, at most: through its stages, and
\* two for each node whose chunks it has not fetched.
Ahead(g) ==
    CASE g.at = "embed"     -> 2 * Cardinality(NodeIds) + 8
      [] g.at = "query"     -> 2 * Cardinality(NodeIds) + 7
      [] g.at = "rows"      -> 2 * Cardinality(NodeIds) + 6
      [] g.at = "hydrate"   -> 2 * Cardinality(NodeIds) + 5
      [] g.at = "hydrating" -> 2 * Cardinality(NodeIds) + 4
      [] g.at = "fetching"  -> 2 * Cardinality(g.left) + 3
      [] g.at = "chunks"    -> 2 * Cardinality(g.left) + 2
      [] g.at = "send"      -> 1
      [] OTHER              -> 0

\* How many turns, and what follows them, the handler and its timer have before them.
HandlerAhead ==
    CASE pc = "collecting" -> (Cardinality(Sources) - turns) + (IF expired THEN 2 ELSE 3)
      [] pc = "answered"   -> 1
      [] OTHER             -> 0

CallAhead == Ahead(src["fts"]) + Ahead(src["filename"]) + Ahead(src["vector"]) + HandlerAhead

\* What a call does by itself.
CallStep == EmbedQuery \/ Expire \/ HandlerStep \/ \E s \in Sources : SourceStep(s)

\* Every such step brings the call nearer to its end, and a commit does not set it back
\* (search_broadly.go:50-143, hydrate.go:37-84).
CallAdvances ==
    /\ CallAhead \in 0 .. 6 * Cardinality(NodeIds) + 30
    /\ pc # "idle" => CallAhead' <= CallAhead
    /\ CallStep => CallAhead' < CallAhead

\* An answer finds room in the channel, although nobody may collect it any more.
AnswersFindRoom == \A s \in Sources : src[s].at = "send" => Len(ch) < ChannelCapacity

\* What Ahead is where.
LEMMA AheadIs ==
    ASSUME NEW g \in Goroutine
    PROVE  /\ Cardinality(NodeIds) \in Nat
           /\ Cardinality(g.left) \in 0 .. Cardinality(NodeIds)
           /\ Ahead(g) \in 0 .. 2 * Cardinality(NodeIds) + 8
           /\ g.at \in {"embed", "query", "rows", "hydrate", "hydrating"} =>
                 Ahead(g) > 2 * Cardinality(NodeIds) + 3
           /\ g.at \in Stages \ {"off", "gone", "send"} => Ahead(g) > 1
<1>1. g.left \subseteq NodeIds /\ g.at \in Stages
  BY DEF Goroutine
<1>2. Cardinality(NodeIds) \in Nat /\ Cardinality(g.left) \in 0 .. Cardinality(NodeIds)
  BY <1>1, SearchAssumption, FS_CardinalityType, FS_Subset
<1> QED
  BY <1>1, <1>2 DEF Ahead, Stages, Holding

\* A step of a goroutine is its own.
LEMMA SourceStaysApart ==
    ASSUME Typed, NEW s \in Sources, SourceStep(s)
    PROVE  UNCHANGED callVars /\ \A t \in Sources \ {s} : src'[t] = src[t]
<1>1. UNCHANGED callVars
  <2>1. CASE AnswerUnqueried(s)
    BY <2>1 DEF AnswerUnqueried
  <2>5. CASE FailQuery(s)
    BY <2>5 DEF FailQuery
  <2>6. CASE Send(s)
    BY <2>6 DEF Send
  <2>7. CASE FetchChunks(s)
    BY <2>7, Zenon DEF FetchChunks
  <2>2. CASE Match(s) \/ EndMatch(s)
    BY <2>2 DEF Match, EndMatch
  <2>3. CASE Hydrate(s) \/ EndHydrate(s)
    BY <2>3 DEF Hydrate, EndHydrate
  <2>4. CASE EndFetch(s) \/ AnswerHydrated(s)
    BY <2>4 DEF EndFetch, AnswerHydrated
  <2> QED
    BY <2>1, <2>2, <2>3, <2>4, <2>5, <2>6, <2>7 DEF SourceStep
<1>2. src \in [Sources -> Goroutine]
  BY DEF Typed, TypeOK
<1>3. ASSUME NEW t \in Sources, t # s PROVE src'[t] = src[t]
  <2>1. \A status, nodes : Answer(s, status, nodes) => src'[t] = src[t]
    BY <1>2, <1>3 DEF Answer
  <2>2. \A stage : src' = Moved(s, stage) => src'[t] = src[t]
    BY <1>2, <1>3 DEF Moved
  <2>3. CASE AnswerUnqueried(s) \/ EndMatch(s) \/ EndFetch(s) \/ FailQuery(s) \/ Send(s)
    BY <2>1, <2>2, <2>3 DEF AnswerUnqueried, EndMatch, EndFetch, FailQuery, Send
  <2>4. CASE Match(s)
    BY <1>2, <1>3, <2>4 DEF Match
  <2>5. CASE Hydrate(s)
    BY <1>2, <1>3, <2>5 DEF Hydrate
  <2>6. CASE EndHydrate(s)
    BY <1>2, <1>3, <2>6 DEF EndHydrate
  <2>7. CASE FetchChunks(s)
    BY <1>2, <1>3, <2>7 DEF FetchChunks
  <2>8. CASE AnswerHydrated(s)
    BY <1>2, <1>3, <2>8 DEF AnswerHydrated
  <2> QED
    BY <2>3, <2>4, <2>5, <2>6, <2>7, <2>8 DEF SourceStep
<1> QED
  BY <1>1, <1>3

\* Each fetch is of one node that is left.
LEMMA FetchTakesOne ==
    ASSUME Typed, NEW s \in Sources, FetchChunks(s)
    PROVE  \E m \in src[s].left : /\ src'[s].left = src[s].left \ {m}
                                  /\ src[s].at = "chunks" /\ src'[s].at = "fetching"
<1> DEFINE Updated(m, T) == [src EXCEPT ![s].at = "fetching",
                                        ![s].left = @ \ {m},
                                        ![s].texts[m] = {t[1] : t \in T}]
<1>1. PICK m \in src[s].left : \E T \in Top(ChunkTexts(db, m), ChunksPerNode) :
          src' = Updated(m, T)
  BY Zenon DEF FetchChunks
<1>2. PICK T \in Top(ChunkTexts(db, m), ChunksPerNode) : src' = Updated(m, T)
  BY <1>1
<1>3. src \in [Sources -> Goroutine] /\ src[s] \in Goroutine
  BY DEF Typed, TypeOK
<1>4. src'[s].left = src[s].left \ {m} /\ src'[s].at = "fetching"
  BY <1>2, <1>3 DEF Goroutine
<1>5. src[s].at = "chunks"
  BY DEF FetchChunks
<1> QED
  BY <1>1, <1>4, <1>5

\* A goroutine only goes forward.
LEMMA SourceAdvances ==
    ASSUME Typed, NEW s \in Sources, SourceStep(s)
    PROVE  Ahead(src'[s]) < Ahead(src[s])
<1>1. src \in [Sources -> Goroutine] /\ src[s] \in Goroutine
  BY DEF Typed, TypeOK
<1>2. src' \in [Sources -> Goroutine] /\ src'[s] \in Goroutine
  BY SourceStepTyped DEF Typed, TypeOK
<1> DEFINE n == Cardinality(NodeIds)
           old == src[s]
           new == src'[s]
<1>3. /\ n \in Nat
      /\ Cardinality(old.left) \in 0 .. n /\ Cardinality(new.left) \in 0 .. n
  BY <1>1, <1>2, AheadIs
<1>4. /\ old.at \in {"query", "rows", "hydrate", "hydrating"} => Ahead(old) > 2 * n + 3
      /\ old.at \in Stages \ {"off", "gone", "send"} => Ahead(old) > 1
  BY <1>1, AheadIs
<1>5. new.at = "send" => Ahead(new) = 1
  BY DEF Ahead
<1>6. ASSUME old.at \in Stages \ {"off", "gone", "send"}, NEW status, NEW nodes,
             Answer(s, status, nodes)
      PROVE  Ahead(new) < Ahead(old)
  <2>1. new.at = "send"
    BY <1>1, <1>6 DEF Answer, Idle
  <2> QED
    BY <1>4, <1>5, <1>6, <2>1
<1>7. CASE AnswerUnqueried(s)
  <2>1. old.at \in Stages \ {"off", "gone", "send"}
    BY <1>7 DEF AnswerUnqueried, Stages
  <2>2. \/ Answer(s, "DEGRADED", {}) \/ Answer(s, "EMPTY_BUT_EXECUTED", {})
    BY <1>7 DEF AnswerUnqueried
  <2> QED
    BY <1>6, <2>1, <2>2
<1>8. CASE Match(s)
  <2>1. old.at = "query" /\ new.at = "rows"
    BY <1>1, <1>8 DEF Match
  <2> QED
    BY <1>3, <2>1 DEF Ahead
<1>9. CASE EndMatch(s)
  <2>1. CASE src' = Moved(s, "hydrate")
    <3>1. old.at = "rows" /\ new.at = "hydrate"
      BY <1>1, <1>9, <2>1 DEF EndMatch, Moved
    <3> QED
      BY <1>3, <3>1 DEF Ahead
  <2>2. CASE Answer(s, "EMPTY_BUT_EXECUTED", {})
    <3>1. old.at \in Stages \ {"off", "gone", "send"}
      BY <1>9 DEF EndMatch, Stages, Holding
    <3> QED
      BY <1>6, <2>2, <3>1
  <2> QED
    BY <1>9, <2>1, <2>2 DEF EndMatch
<1>10. CASE Hydrate(s)
  <2>1. old.at = "hydrate" /\ new.at = "hydrating"
    BY <1>1, <1>10 DEF Hydrate
  <2> QED
    BY <1>3, <2>1 DEF Ahead
<1>11. CASE EndHydrate(s)
  <2>1. old.at = "hydrating" /\ new.at = "chunks"
    BY <1>1, <1>11 DEF EndHydrate
  <2> QED
    BY <1>3, <2>1 DEF Ahead
<1>12. CASE FetchChunks(s)
  <2>1. PICK m \in old.left :
          new.left = old.left \ {m} /\ old.at = "chunks" /\ new.at = "fetching"
    BY <1>12, FetchTakesOne
  <2>2. IsFiniteSet(old.left)
    BY <1>1, SearchAssumption, FS_Subset DEF Goroutine
  <2>3. Cardinality(new.left) = Cardinality(old.left) - 1
    <3> DEFINE T == old.left
    <3>1. m \in T /\ IsFiniteSet(T) /\ new.left = T \ {m}
      BY <2>1, <2>2
    <3> HIDE DEF T
    <3>2. Cardinality(T \ {m}) = Cardinality(T) - 1
      BY <3>1, FS_RemoveElement
    <3> QED
      BY <3>1, <3>2 DEF T
  <2>4. Ahead(old) = 2 * Cardinality(old.left) + 2 /\ Ahead(new) = 2 * Cardinality(new.left) + 3
    BY <2>1 DEF Ahead
  <2>5. Cardinality(old.left) \in Nat
    BY <1>3
  <2>6. Ahead(new) < Ahead(old)
    <3> HIDE DEF old, new
    <3> QED
      BY <2>3, <2>4, <2>5
  <2> QED
    BY <2>6
<1>13. CASE EndFetch(s)
  <2>1. old.at = "fetching" /\ new.at = "chunks" /\ new.left = old.left
    BY <1>1, <1>13 DEF EndFetch, Moved, Goroutine
  <2>2. Ahead(old) = 2 * Cardinality(old.left) + 3 /\ Ahead(new) = 2 * Cardinality(new.left) + 2
    BY <2>1 DEF Ahead
  <2>3. Cardinality(old.left) \in Nat
    BY <1>3
  <2>4. Ahead(new) < Ahead(old)
    <3> HIDE DEF old, new
    <3> QED
      BY <2>1, <2>2, <2>3
  <2> QED
    BY <2>4
<1>14. CASE AnswerHydrated(s)
  <2>1. old.at = "chunks" /\ new.at = "send"
    BY <1>1, <1>14 DEF AnswerHydrated
  <2> QED
    BY <1>4, <1>5, <2>1 DEF Stages
<1>15. CASE FailQuery(s)
  <2>1. old.at \in Stages \ {"off", "gone", "send"}
    BY <1>15 DEF FailQuery, Querying, Stages, Holding
  <2>2. PICK part : Answer(s, "DEGRADED", part)
    BY <1>15 DEF FailQuery
  <2> QED
    BY <1>6, <2>1, <2>2
<1>16. CASE Send(s)
  <2>1. old.at = "send" /\ new.at = "gone"
    BY <1>1, <1>16 DEF Send, Moved
  <2> QED
    BY <2>1 DEF Ahead
<1> QED
  BY <1>7, <1>8, <1>9, <1>10, <1>11, <1>12, <1>13, <1>14, <1>15, <1>16 DEF SourceStep

LEMMA EmbedAdvances ==
    ASSUME Typed, EmbedQuery
    PROVE  /\ Ahead(src'["vector"]) < Ahead(src["vector"])
           /\ \A t \in Sources \ {"vector"} : src'[t] = src[t]
           /\ UNCHANGED callVars
<1>1. src \in [Sources -> Goroutine] /\ "vector" \in Sources /\ src["vector"].at = "embed"
  BY DEF Typed, TypeOK, Sources, EmbedQuery
<1>2. ASSUME Answer("vector", "DEGRADED", {})
      PROVE  /\ src'["vector"].at = "send"
             /\ \A t \in Sources \ {"vector"} : src'[t] = src[t]
  BY <1>1, <1>2 DEF Answer, Idle
<1>3. ASSUME src' = Moved("vector", "query")
      PROVE  /\ src'["vector"].at = "query"
             /\ \A t \in Sources \ {"vector"} : src'[t] = src[t]
  BY <1>1, <1>3 DEF Moved, Goroutine
<1>4. /\ src'["vector"].at \in {"query", "send"}
      /\ \A t \in Sources \ {"vector"} : src'[t] = src[t]
  BY <1>2, <1>3 DEF EmbedQuery
<1>5. Cardinality(NodeIds) \in Nat
  BY SearchAssumption, FS_CardinalityType
<1>6. Ahead(src'["vector"]) < Ahead(src["vector"])
  BY <1>1, <1>4, <1>5 DEF Ahead
<1>7. UNCHANGED callVars
  BY DEF EmbedQuery
<1> QED
  BY <1>4, <1>6, <1>7

\* The handler does not wait for more answers than there are sources.
LEMMA HandlerAdvances ==
    ASSUME Typed, Typed', HandlerStep \/ Expire
    PROVE  HandlerAhead' < HandlerAhead /\ src' = src
<1>1. /\ Cardinality(Sources) = 3 /\ turns \in 0 .. 3 /\ turns' \in 0 .. 3
      /\ expired \in BOOLEAN
  BY SourcesFinite DEF Typed, TypeOK
<1>2. CASE Collect
  BY <1>1, <1>2 DEF Collect, Collecting, HandlerAhead
<1>3. CASE CollectDeadline
  BY <1>1, <1>3 DEF CollectDeadline, Collecting, HandlerAhead
<1>4. CASE Enforce
  BY <1>1, <1>4 DEF Enforce, Collected, HandlerAhead
<1>5. CASE Fuse
  BY <1>1, <1>5 DEF Fuse, Collected, HandlerAhead
<1>6. CASE AnnotateCompleteness
  BY <1>1, <1>6 DEF AnnotateCompleteness, HandlerAhead
<1>7. CASE Expire
  BY <1>1, <1>7 DEF Expire, HandlerAhead
<1> QED
  BY <1>2, <1>3, <1>4, <1>5, <1>6, <1>7 DEF HandlerStep

\* Each step that a call takes brings it nearer to its end and no commit sets it
\* back, so it takes no more than six for each node and thirty: all that liveness asks
\* besides is that the steps are taken (search_broadly.go:50-143, hydrate.go:37-84).
THEOREM CallsAreBounded == Spec => [][CallAdvances]_vars
<1>1. ASSUME Typed, Typed', [Next]_vars PROVE [CallAdvances]_vars
  <2> DEFINE Of(s) == Ahead(src[s])
             Rest == HandlerAhead
             n == Cardinality(NodeIds)
  <2>1. /\ src \in [Sources -> Goroutine] /\ src' \in [Sources -> Goroutine]
        /\ Sources = {"fts", "filename", "vector"}
    BY <1>1 DEF Typed, TypeOK, Sources
  <2>2. /\ n \in Nat
        /\ \A s \in Sources : Of(s) \in 0 .. 2 * n + 8 /\ Ahead(src'[s]) \in Nat
    BY <2>1, AheadIs
  <2>3. Rest \in 0 .. 6 /\ Rest' \in Nat
    BY <1>1, SourcesFinite DEF Typed, TypeOK, HandlerAhead
  <2>4. CallAhead = Of("fts") + Of("filename") + Of("vector") + Rest
    BY DEF CallAhead
  <2>5. CallAhead' = Ahead(src'["fts"]) + Ahead(src'["filename"]) + Ahead(src'["vector"]) + Rest'
    BY DEF CallAhead
  <2>6. CallAhead \in 0 .. 6 * n + 30
    BY <2>1, <2>2, <2>3, <2>4
  <2>7. ASSUME NEW s \in Sources, Ahead(src'[s]) < Ahead(src[s]),
               \A t \in Sources \ {s} : src'[t] = src[t], UNCHANGED callVars
        PROVE  CallAhead' < CallAhead
    <3>1. Rest' = Rest
      BY <2>7 DEF callVars, HandlerAhead
    <3>2. \A t \in Sources \ {s} : Ahead(src'[t]) = Of(t)
      BY <2>7
    <3> HIDE DEF Of, Rest, n
    <3> QED
      BY <2>1, <2>2, <2>3, <2>4, <2>5, <2>7, <3>1, <3>2 DEF Of
  <2>8. ASSUME UNCHANGED <<src, callVars>> PROVE CallAhead' = CallAhead
    BY <2>8 DEF CallAhead, HandlerAhead, callVars
  <2>9. ASSUME CallStep PROVE CallAhead' < CallAhead
    <3>1. CASE EmbedQuery
      BY <1>1, <2>1, <2>7, <3>1, EmbedAdvances
    <3>2. CASE HandlerStep \/ Expire
      <4>1. Rest' < Rest /\ src' = src
        BY <1>1, <3>2, HandlerAdvances
      <4> HIDE DEF Rest, n
      <4> QED
        BY <2>1, <2>2, <2>3, <2>4, <2>5, <4>1
    <3>3. CASE \E s \in Sources : SourceStep(s)
      BY <1>1, <2>7, <3>3, SourceAdvances, SourceStaysApart
    <3> QED
      BY <2>9, <3>1, <3>2, <3>3 DEF CallStep
  <2>10. ASSUME pc # "idle", ~CallStep PROVE CallAhead' = CallAhead
    <3>1. \/ OpenServer \/ NewServer \/ IndexerBegin \/ IndexerCommit \/ IndexerRollback
          \/ UNCHANGED vars
      <4>1. \A q : ~StartSearch(q) /\ ~RefuseSemantic(q)
        BY <2>10 DEF StartSearch, RefuseSemantic
      <4> QED
        BY <1>1, <2>10, <4>1, Zenon DEF Next, CallStep
    <3>2. CASE UNCHANGED vars
      BY <2>8, <3>2 DEF vars, callVars
    <3>3. CASE OpenServer
      BY <2>8, <3>3, Zenon DEF OpenServer
    <3>4. CASE NewServer
      BY <2>8, <3>4, Zenon DEF NewServer
    <3>5. CASE IndexerBegin \/ IndexerRollback
      BY <2>8, <3>5 DEF IndexerBegin, IndexerRollback
    <3>6. CASE IndexerCommit
      BY <2>8, <3>6, Zenon DEF IndexerCommit
    <3> QED
      BY <3>1, <3>2, <3>3, <3>4, <3>5, <3>6
  <2> HIDE DEF n
  <2>11. pc # "idle" => CallAhead' <= CallAhead
    <3>1. CallAhead' \in Int /\ CallAhead \in Int
      BY <2>1, <2>2, <2>3, <2>4, <2>5
    <3> QED
      BY <2>9, <2>10, <3>1
  <2> QED
    BY <2>6, <2>9, <2>11 DEF CallAdvances, n
<1>2. Init => GateInvariant /\ Typed
  BY GateInit, TypedInit
<1>3. GateInvariant /\ Typed /\ CallInvariant /\ [Next]_vars => (GateInvariant /\ Typed)'
  <2>1. GateInvariant => SoundIndex
    BY DEF GateInvariant
  <2> QED
    BY <2>1, GateNext, TypedNext
<1> QED
  BY <1>1, <1>2, <1>3, CallInvariantHolds, PTL DEF Spec

\* The answers in the channel are of different goroutines, none of which has one to
\* send: so the third finds room, and none waits for a handler that has returned
\* (search_broadly.go:56).
THEOREM NobodyWaitsToAnswer == Spec => []AnswersFindRoom
<1>1. ASSUME CallInvariant, NEW s \in Sources, src[s].at = "send"
      PROVE  Len(ch) < ChannelCapacity
  <2>1. /\ ch \in Seq(Sources) /\ Len(ch) \in Nat
        /\ \A i \in 1 .. Len(ch) : ch[i] \in Sources \ {s}
        /\ \A i, j \in 1 .. Len(ch) : ch[i] = ch[j] => i = j
    BY <1>1 DEF CallInvariant, Shape, AnswersTravelOnce
  <2>2. IsFiniteSet(Sources \ {s}) /\ Cardinality(Sources \ {s}) = 2
    BY SourcesFinite, FS_RemoveElement
  <2> DEFINE sent == [i \in 1 .. Len(ch) |-> ch[i]]
  <2>3. sent \in Injection(1 .. Len(ch), Sources \ {s})
    BY <2>1 DEF Injection, IsInjective
  <2>4. Cardinality(1 .. Len(ch)) <= 2
    BY <2>2, <2>3, FS_Injection
  <2>5. Cardinality(1 .. Len(ch)) = Len(ch)
    <3>1. 1 \in Int /\ Len(ch) \in Int /\ (1 > Len(ch) => Len(ch) = 0)
      BY <2>1
    <3>2. Cardinality(1 .. Len(ch)) = IF 1 > Len(ch) THEN 0 ELSE Len(ch) - 1 + 1
      BY <3>1, FS_Interval
    <3> QED
      BY <2>1, <3>2
  <2> QED
    BY <2>4, <2>5 DEF ChannelCapacity
<1>2. CallInvariant => AnswersFindRoom
  BY <1>1 DEF AnswersFindRoom
<1> QED
  BY <1>2, CallInvariantHolds, PTL
=============================================================================
