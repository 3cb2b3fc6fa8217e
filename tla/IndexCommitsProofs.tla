------------------------- MODULE IndexCommitsProofs -------------------------
(***************************************************************************)
(* What IndexRun commits: every file whole or not at all, and nothing that *)
(* IndexWriter and IndexContract do not allow; what a run attempts and     *)
(* reports; that a quiet run leaves the index accurate, and that every run *)
(* is bounded.                                                             *)
(***************************************************************************)
EXTENDS IndexRunProofs

-----------------------------------------------------------------------------
(* What the statements do to a file, and to the others.                    *)

NamesOf(d, f) == {d.nodes[n].name : n \in NodesOf(d, {f})}

\* What d and e have of f is the same.
SameFile(d, e, f) ==
    /\ NodesOf(e, {f}) = NodesOf(d, {f})
    /\ NamesOf(e, f) = NamesOf(d, f)
    /\ Served(e, f) = Served(d, f)

LEMMA SameRows ==
    ASSUME NEW d \in Database, NEW e \in Database, NEW f \in Files,
           NodesOf(e, {f}) = NodesOf(d, {f}), ChunksOf(e, {f}) = ChunksOf(d, {f}),
           \A n \in NodesOf(d, {f}) : e.nodes[n] = d.nodes[n],
           \A c \in ChunksOf(d, {f}) : /\ e.chunks[c] = d.chunks[c] /\ e.fts[c] = d.fts[c]
                                       /\ e.emb[c] # Null <=> d.emb[c] # Null
    PROVE  SameFile(d, e, f)
<1>1. NamesOf(e, f) = NamesOf(d, f)
  BY DEF NamesOf
<1>2. \A c \in ChunksOf(d, {f}) :
          d.chunks[c].node \in NodesOf(d, {f}) /\ Piece(e, c) = Piece(d, c)
  BY DEF ChunksOf, Piece
<1>3. Served(e, f) = Served(d, f)
  <2>1. {k \in ChunksOf(e, {f}) : e.emb[k] # Null /\ e.fts[k] # Null}
          = {k \in ChunksOf(d, {f}) : d.emb[k] # Null /\ d.fts[k] # Null}
    OBVIOUS
  <2> DEFINE shown == {k \in ChunksOf(d, {f}) : d.emb[k] # Null /\ d.fts[k] # Null}
  <2>2. \A c \in shown : Piece(e, c) = Piece(d, c)
    BY <1>2
  <2>3. Served(e, f) = {Piece(e, c) : c \in shown}
    BY <2>1 DEF Served
  <2>4. Served(d, f) = {Piece(d, c) : c \in shown}
    BY DEF Served
  <2> HIDE DEF shown
  <2>5. QED
    BY <2>2, <2>3, <2>4
<1>4. QED
  BY <1>1, <1>3 DEF SameFile

LEMMA SameTables ==
    ASSUME NEW d \in Database, NEW e \in Database, NEW f \in Files,
           e.nodes = d.nodes, e.chunks = d.chunks, e.fts = d.fts, e.emb = d.emb
    PROVE  SameFile(d, e, f)
<1>1. NodesOf(e, {f}) = NodesOf(d, {f}) /\ ChunksOf(e, {f}) = ChunksOf(d, {f})
  BY DEF NodesOf, ChunksOf
<1>2. QED
  BY <1>1, SameRows

LEMMA ClearFilesStatus ==
    ASSUME NEW d \in Database, NEW F \in SUBSET Files, NEW f \in Files
    PROVE  ClearFiles(d, F).pstate[f] = IF f \in F THEN [p \in Passes |-> "none"] ELSE d.pstate[f]
<1> DEFINE table == [g \in Files |-> IF g \in F THEN [p \in Passes |-> "none"] ELSE d.pstate[g]]
<1>1. /\ DeleteVectors(d, F).pstate = d.pstate
      /\ DOMAIN DeleteVectors(d, F) =
            {"files", "nodes", "chunks", "fts", "emb", "pstate", "fp"}
  BY DEF Database, DeleteVectors
<1>2. DeleteStatus(DeleteVectors(d, F), F).pstate = table
  BY <1>1 DEF DeleteStatus
<1>3. \A e : DeleteNodes(e, F).pstate = e.pstate
  BY DEF DeleteNodes
<1>4. QED
  BY <1>2, <1>3 DEF ClearFiles

\* Files outside F keep what they have, the others have nothing left.
LEMMA ClearedFiles ==
    ASSUME NEW d \in Database, NEW F \in SUBSET Files, NEW f \in Files
    PROVE  /\ f \notin F => SameFile(d, ClearFiles(d, F), f)
           /\ f \in F => NodesOf(ClearFiles(d, F), {f}) = {}
<1> PICK e \in Database : e = ClearFiles(d, F)
  BY ClearFilesEffect
<1>1. /\ e.nodes = Without(d.nodes, NodesOf(d, F)) /\ e.chunks = Without(d.chunks, ChunksOf(d, F))
      /\ e.fts = Without(d.fts, ChunksOf(d, F)) /\ e.emb = Without(d.emb, ChunksOf(d, F))
  BY ClearFilesEffect
<1>2. /\ DOMAIN d.nodes = NodeIds /\ DOMAIN d.chunks = ChunkIds /\ DOMAIN d.fts = ChunkIds
      /\ DOMAIN d.emb = ChunkIds
  BY DEF Database
<1>3. \A n \in NodeIds : e.nodes[n] = IF n \in NodesOf(d, F) THEN Null ELSE d.nodes[n]
  BY <1>1, <1>2 DEF Without
<1>4. \A c \in ChunkIds :
          IF c \in ChunksOf(d, F) THEN e.chunks[c] = Null
          ELSE e.chunks[c] = d.chunks[c] /\ e.fts[c] = d.fts[c] /\ e.emb[c] = d.emb[c]
  BY <1>1, <1>2 DEF Without
<1>5. f \in F => NodesOf(e, {f}) = {}
  BY <1>3 DEF NodesOf
<1>6. ASSUME f \notin F PROVE SameFile(d, e, f)
  <2>1. \A n \in NodesOf(d, {f}) : n \notin NodesOf(d, F)
    BY <1>6 DEF NodesOf
  <2>2. NodesOf(e, {f}) = NodesOf(d, {f})
    BY <1>3, <2>1 DEF NodesOf
  <2>3. \A c \in ChunksOf(d, {f}) : c \notin ChunksOf(d, F)
    BY <2>1 DEF ChunksOf
  <2>4. ChunksOf(e, {f}) = ChunksOf(d, {f})
    BY <1>4, <2>2, <2>3 DEF ChunksOf
  <2>5. \A n \in NodesOf(d, {f}) : e.nodes[n] = d.nodes[n]
    BY <1>3, <2>1 DEF NodesOf
  <2>6. \A c \in ChunksOf(d, {f}) :
            e.chunks[c] = d.chunks[c] /\ e.fts[c] = d.fts[c] /\ e.emb[c] = d.emb[c]
    BY <1>4, <2>3 DEF ChunksOf
  <2>7. QED
    BY <2>2, <2>4, <2>5, <2>6, SameRows
<1>7. QED
  BY <1>5, <1>6

-----------------------------------------------------------------------------
(* What the open transaction has made so far of the database it began with. *)

Seconds == 0 .. MaxClock
Cleared == ClearFiles(db, {cur})

NodeRows(name) == [n \in DOMAIN name |-> [file |-> cur, name |-> name[n]]]
RowsOf(name) == {r \in [node : DOMAIN name, text : Texts] : <<name[r.node], r.text>> \in Pieces[body]}

\* name: the new nodes, row: the new chunks.
NodesWritten(name) ==
    /\ body \in Contents \ Binary
    /\ \E new \in SUBSET FreeIds(Cleared.nodes) : name \in Bijection(new, NodeNames[body])
    /\ tx.nodes = With(Cleared.nodes, NodeRows(name))

ChunksWritten(name, row) ==
    /\ \E fresh \in SUBSET FreeIds(Cleared.chunks) : row \in Bijection(fresh, RowsOf(name))
    /\ tx.chunks = With(Cleared.chunks, row)
    /\ tx.fts = With(Cleared.fts, [c \in DOMAIN row |-> row[c].text])

VectorsWritten(row, embedded) ==
    tx.emb = [c \in ChunkIds |-> IF c \in embedded THEN [text |-> row[c].text, scheme |-> db.fp]
                                 ELSE Cleared.emb[c]]

StatusWritten(done) ==
    /\ tx.pstate \in [Files -> [Passes -> Statuses]]
    /\ \A f \in Files \ {cur} : tx.pstate[f] = Cleared.pstate[f]
    /\ \A p \in done : tx.pstate[cur][p] = "done"

AtChunker == \E name : /\ NodesWritten(name)
                       /\ tx.chunks = Cleared.chunks /\ tx.fts = Cleared.fts
                       /\ tx.emb = Cleared.emb

AtEmbed(waiting) ==
    \E name, row :
        /\ NodesWritten(name)
        /\ ChunksWritten(name, row)
        /\ waiting \subseteq DOMAIN row
        /\ VectorsWritten(row, DOMAIN row \ waiting)
        /\ \A c \in Buffered : embedBuf[c] = row[c].text

Transaction ==
    pc \in FilePcs =>
        /\ IsPending(db, cur)
        /\ tx.files = db.files /\ tx.fp = db.fp
        /\ pc \in {"dispatch", "structural"} => tx = Cleared
        /\ pc = "structural" => body \in Contents \ Binary
        /\ pc = "chunker" => AtChunker /\ StatusWritten({"structural"})
        /\ pc = "embed" => /\ todo \cap Buffered = {}
                           /\ AtEmbed(Waiting)
                           /\ StatusWritten({"structural", "chunker"})
        /\ pc = "commit" => \/ tx = MarkSkipped(Cleared, cur)
                            \/ AtEmbed({}) /\ StatusWritten(Passes)

PendingIds ==
    /\ pc \in {"loop"} \cup FilePcs => \A f \in ids \ attempted : IsPending(db, f)
    /\ pc \in FilePcs => cur \in attempted
    /\ pc \notin {"loop", "summary"} \cup FilePcs => ids = {}

Clocks == clock \in Seconds /\ startTime \in Seconds

CommitInvariant == IndexInvariant /\ Transaction /\ PendingIds /\ Clocks

LEMMA CommitInvariantInit == Init => CommitInvariant
  BY InvariantInit, SizesAssumption
     DEF CommitInvariant, Init, Transaction, PendingIds, Clocks, Seconds, FilePcs

-----------------------------------------------------------------------------
(* The invariant, action by action.                                        *)

LEMMA ClockSteps ==
    ASSUME [Next]_vars
    PROVE  (clock' = clock \/ Tick) /\ startTime' \in {startTime, clock, 0}
<1>1. clock' = clock \/ Tick
  BY DEF Next, RunnerStep, EnvironmentStep, HashFile, SkipUnhashed, SkipUnclassified, PassOver,
         BeginFile, ClassifyFile, FinishWalk, ReconcileDeletions, EnsureFingerprint,
         RefuseFingerprint, FetchPending, SkipOther, ReadFile, RunStructural, RunChunker,
         BufferChunk, FlushEmbedBatch, FinishEmbeddings, CommitFile, FailFile,
         FailFileUnrecorded, FinishRun, StartRun, Interrupt, Edit, DeleteIndex, vars, envVars
<1>2. startTime' \in {startTime, clock, 0}
  BY DEF Next, RunnerStep, EnvironmentStep, HashFile, SkipUnhashed, SkipUnclassified, PassOver,
         BeginFile, ClassifyFile, FinishWalk, ReconcileDeletions, EnsureFingerprint,
         RefuseFingerprint, FetchPending, SkipOther, ReadFile, RunStructural, RunChunker,
         BufferChunk, FlushEmbedBatch, FinishEmbeddings, CommitFile, FailFile,
         FailFileUnrecorded, FinishRun, StartRun, Interrupt, Edit, Tick, DeleteIndex, ForgetRun,
         vars, runVars
<1>3. QED
  BY <1>1, <1>2

LEMMA ClocksNext ==
    ASSUME Clocks, [Next]_vars
    PROVE  Clocks'
<1>1. clock' \in Seconds
  BY ClockSteps, SizesAssumption DEF Clocks, Seconds, Tick
<1>2. QED
  BY <1>1, ClockSteps, SizesAssumption DEF Clocks, Seconds

\* Steps before and after the file transactions.
LEMMA OutsideSteps ==
    ASSUME PendingIds, pc' \notin FilePcs, ids' = {} \/ FetchPending
    PROVE  Transaction' /\ PendingIds'
<1>1. Transaction'
  BY DEF Transaction
<1>2. CASE ids' = {}
  BY <1>1, <1>2 DEF PendingIds
<1>3. CASE FetchPending
  <2>1. /\ pc' \in {"loop", "summary"} /\ db' = db
        /\ \A f \in ids' : IsPending(db, f)
    BY <1>3 DEF FetchPending, PendingFiles, storeVars
  <2>2. QED
    BY <1>1, <2>1 DEF PendingIds
<1>4. QED
  BY <1>2, <1>3

LEMMA BeforeAndAfter ==
    ASSUME PendingIds, IndexInvariant,
           \/ \E v \in Schemes : StartRun(v)
           \/ \E f \in Files : HashFile(f) \/ SkipUnhashed(f)
           \/ SkipUnclassified \/ ClassifyFile \/ FinishWalk \/ ReconcileDeletions
           \/ EnsureFingerprint \/ RefuseFingerprint \/ FetchPending
           \/ FinishRun \/ Interrupt \/ DeleteIndex
    PROVE  Transaction' /\ PendingIds'
<1>1. pc' \notin FilePcs
  BY DEF HashFile, SkipUnhashed, SkipUnclassified, PassOver,
         ClassifyFile, FinishWalk, ReconcileDeletions, EnsureFingerprint, RefuseFingerprint,
         FetchPending, FinishRun, StartRun, Interrupt, DeleteIndex, ForgetRun, FilePcs
<1>2. ids' = {} \/ FetchPending
  <2>1. FetchPending \/ ids' = {} \/ (ids' = ids /\ pc \notin {"loop", "summary"} \cup FilePcs)
    BY DEF HashFile, SkipUnhashed, SkipUnclassified, PassOver,
           ClassifyFile, FinishWalk, ReconcileDeletions, EnsureFingerprint, RefuseFingerprint,
           FinishRun, StartRun, Interrupt, DeleteIndex, ForgetRun, FilePcs, loopVars
  <2>2. QED
    BY <2>1 DEF PendingIds
<1>3. QED
  BY <1>1, <1>2, OutsideSteps

\* Steps that touch nothing of a file transaction.
LEMMA QuietSteps ==
    ASSUME Transaction, PendingIds,
           UNCHANGED <<db, tx, pc, cur, body, todo, embedBuf, ids, attempted>>
    PROVE  Transaction' /\ PendingIds'
<1>1. Waiting' = Waiting
  BY DEF Waiting, Buffered
<1>2. Cleared' = Cleared
  BY DEF Cleared
<1>3. \A name : NodesWritten(name)' <=> NodesWritten(name)
  BY <1>2 DEF NodesWritten, NodeRows
<1>4. \A name, row : ChunksWritten(name, row)' <=> ChunksWritten(name, row)
  BY <1>2 DEF ChunksWritten, RowsOf
<1>5. \A row, embedded : VectorsWritten(row, embedded)' <=> VectorsWritten(row, embedded)
  BY <1>2 DEF VectorsWritten
<1>6. \A done : StatusWritten(done)' <=> StatusWritten(done)
  BY <1>2 DEF StatusWritten
<1>7. AtChunker' <=> AtChunker
  BY <1>2, <1>3 DEF AtChunker
<1>8. AtEmbed({})' <=> AtEmbed({})
  BY <1>3, <1>4, <1>5 DEF AtEmbed, Buffered
<1>9. AtEmbed(Waiting)' <=> AtEmbed(Waiting)
  BY <1>1, <1>3, <1>4, <1>5 DEF AtEmbed, Buffered
<1>10. Transaction'
  BY <1>2, <1>6, <1>7, <1>8, <1>9 DEF Transaction, Buffered
<1>11. QED
  BY <1>10 DEF PendingIds

LEMMA EditsAndTicks ==
    ASSUME Transaction, PendingIds,
           Tick \/ \E f \in Files, c \in Contents \cup {Absent} : Edit(f, c)
    PROVE  Transaction' /\ PendingIds'
<1>1. UNCHANGED <<db, tx, pc, cur, body, todo, embedBuf, ids, attempted>>
  BY DEF Tick, Edit, storeVars, fileVars, loopVars
<1>2. QED
  BY <1>1, QuietSteps

\* Steps of a file transaction.
LEMMA BeginFileCommits ==
    ASSUME CommitInvariant, NEW f \in Files, BeginFile(f)
    PROVE  Transaction' /\ PendingIds'
<1>1. /\ pc = "loop" /\ pc' = "dispatch" /\ f \in ids \ attempted /\ cur' = f
      /\ attempted' = attempted \cup {f} /\ db' = db /\ ids' = ids
      /\ tx' = ClearFiles(db, {f}) /\ db \in Database
  BY DEF BeginFile, CommitInvariant, IndexInvariant, TypeOK
<1>2. IsPending(db, f) /\ \A g \in ids \ attempted : IsPending(db, g)
  BY <1>1 DEF CommitInvariant, PendingIds
<1>3. tx'.files = db.files /\ tx'.fp = db.fp
  BY <1>1, ClearFilesEffect
<1>4. Transaction'
  BY <1>1, <1>2, <1>3 DEF Transaction, Cleared
<1>5. PendingIds'
  BY <1>1, <1>2 DEF PendingIds, FilePcs
<1>6. QED
  BY <1>4, <1>5

\* What the other steps of a file transaction leave alone.
LEMMA SamePendingIds ==
    ASSUME PendingIds, pc \in FilePcs, pc' \in FilePcs, UNCHANGED <<db, cur, loopVars>>
    PROVE  PendingIds'
  BY DEF PendingIds, FilePcs, loopVars

LEMMA SkipCommits ==
    ASSUME CommitInvariant, pc = "dispatch", pc' = "commit", tx' = MarkSkipped(tx, cur),
           UNCHANGED <<db, cur>>
    PROVE  Transaction'
<1>1. /\ tx = Cleared /\ IsPending(db, cur) /\ tx.files = db.files /\ tx.fp = db.fp
      /\ tx \in Database /\ cur \in Files
  BY DEF CommitInvariant, Transaction, IndexInvariant, TypeOK, InHand, FilePcs
<1>2. tx'.files = db.files /\ tx'.fp = db.fp
  BY <1>1, MarkSkippedEffect
<1>3. tx' = MarkSkipped(Cleared', cur')
  BY <1>1 DEF Cleared
<1>4. QED
  BY <1>1, <1>2, <1>3 DEF Transaction

LEMMA SkipOtherCommits ==
    ASSUME CommitInvariant, SkipOther
    PROVE  Transaction' /\ PendingIds'
<1>1. /\ pc = "dispatch" /\ pc' = "commit" /\ tx' = MarkSkipped(tx, cur)
      /\ UNCHANGED <<db, cur, loopVars>>
  BY DEF SkipOther, fileVars
<1>2. QED
  BY <1>1, SkipCommits, SamePendingIds DEF CommitInvariant, FilePcs

LEMMA ReadFileCommits ==
    ASSUME CommitInvariant, ReadFile
    PROVE  Transaction' /\ PendingIds'
<1>1. /\ pc = "dispatch" /\ body' = disk[cur] /\ disk[cur] # Absent /\ cur \in Files
      /\ UNCHANGED <<db, cur, loopVars>>
      /\ \/ tx' = MarkSkipped(tx, cur) /\ pc' = "commit"
         \/ tx' = tx /\ pc' = "structural" /\ disk[cur] \notin Binary
  BY DEF ReadFile, CommitInvariant, IndexInvariant, InHand, FilePcs
<1>2. PendingIds'
  BY <1>1, SamePendingIds DEF CommitInvariant, FilePcs
<1>3. CASE pc' = "commit"
  BY <1>1, <1>2, <1>3, SkipCommits
<1>4. CASE pc' = "structural"
  <2>1. body' \in Contents \ Binary
    BY <1>1, <1>4 DEF CommitInvariant, IndexInvariant, TypeOK
  <2>2. tx' = Cleared'
    BY <1>1, <1>4 DEF CommitInvariant, Transaction, Cleared, FilePcs
  <2>3. QED
    BY <1>1, <1>2, <1>4, <2>1, <2>2 DEF CommitInvariant, Transaction, FilePcs
<1>5. QED
  BY <1>1, <1>3, <1>4

\* Marks of pipeline_state, and the other tables.
LEMMA MarkStatusFields ==
    ASSUME NEW d \in Database, NEW f \in Files, NEW p \in Passes, NEW s \in Statuses
    PROVE  LET e == MarkStatus(d, f, p, s)
           IN  /\ e \in Database
               /\ e.chunks = d.chunks /\ e.fts = d.fts /\ e.nodes = d.nodes
               /\ e.emb = d.emb /\ e.files = d.files /\ e.fp = d.fp
               /\ e.pstate = [d.pstate EXCEPT ![f] = [d.pstate[f] EXCEPT ![p] = s]]
<1>1. MarkStatus(d, f, p, s).pstate = [d.pstate EXCEPT ![f] = [d.pstate[f] EXCEPT ![p] = s]]
  BY DEF MarkStatus, Database
<1>2. QED
  BY <1>1, MarkStatusEffect

LEMMA RunStructuralCommits ==
    ASSUME CommitInvariant, RunStructural
    PROVE  Transaction' /\ PendingIds'
<1>1. /\ pc = "structural" /\ pc' = "chunker" /\ UNCHANGED <<db, cur, body, loopVars>>
  BY DEF RunStructural
<1>2. /\ tx = Cleared /\ IsPending(db, cur) /\ tx.files = db.files /\ tx.fp = db.fp
      /\ tx \in Database /\ cur \in Files /\ body \in Contents \ Binary
  BY <1>1 DEF CommitInvariant, Transaction, IndexInvariant, TypeOK, InHand, FilePcs
<1>3. PICK new \in SUBSET FreeIds(tx.nodes) : \E name \in Bijection(new, NodeNames[body]) :
          tx' = MarkStatus(
                  InsertNodes(tx, [n \in new |-> [file |-> cur, name |-> name[n]]]),
                  cur, "structural", "done")
  BY DEF RunStructural
<1>4. PICK name \in Bijection(new, NodeNames[body]) :
          tx' = MarkStatus(
                  InsertNodes(tx, [n \in new |-> [file |-> cur, name |-> name[n]]]),
                  cur, "structural", "done")
  BY <1>3
<1>5. name \in [new -> NodeNames[body]] /\ DOMAIN name = new /\ NodeNames[body] \subseteq Names
  BY <1>2, ContentAssumption DEF Bijection, Injection
<1> DEFINE mid == InsertNodes(tx, NodeRows(name))
<1>6. tx' = MarkStatus(mid, cur, "structural", "done")
  BY <1>4, <1>5 DEF NodeRows
<1>7. NodeRows(name) \in [new -> NodeRow]
  BY <1>2, <1>5 DEF NodeRows, NodeRow
<1>8. /\ mid \in Database
      /\ mid.nodes = With(tx.nodes, NodeRows(name)) /\ mid.chunks = tx.chunks
      /\ mid.fts = tx.fts /\ mid.emb = tx.emb /\ mid.pstate = tx.pstate
      /\ mid.files = tx.files /\ mid.fp = tx.fp
  <2>1. mid \in Database
    BY <1>2, <1>7, InsertNodesSound DEF CommitInvariant, IndexInvariant
  <2>2. QED
    BY <1>2, <2>1 DEF InsertNodes, Database
<1> HIDE DEF mid
<1>9. /\ tx'.files = db.files /\ tx'.fp = db.fp /\ tx' \in Database
      /\ tx'.nodes = With(tx.nodes, NodeRows(name)) /\ tx'.chunks = tx.chunks
      /\ tx'.fts = tx.fts /\ tx'.emb = tx.emb
      /\ tx'.pstate = [tx.pstate EXCEPT ![cur] = [tx.pstate[cur] EXCEPT !["structural"] = "done"]]
  <2>1. "structural" \in Passes /\ "done" \in Statuses
    BY DEF Passes, Statuses
  <2>2. QED
    BY <1>2, <1>6, <1>8, <2>1, MarkStatusFields
<1>10. Cleared' = tx
  BY <1>1, <1>2 DEF Cleared
<1>11. NodesWritten(name)'
  <2>1. NodeRows(name)' = NodeRows(name)
    BY <1>1 DEF NodeRows
  <2>2. QED
    BY <1>1, <1>2, <1>9, <1>10, <2>1 DEF NodesWritten
<1>12. AtChunker'
  BY <1>9, <1>10, <1>11 DEF AtChunker
<1>13. StatusWritten({"structural"})'
  <2>1. tx.pstate \in [Files -> [Passes -> Statuses]] /\ tx'.pstate \in [Files -> [Passes -> Statuses]]
    BY <1>2, <1>9 DEF Database
  <2>2. QED
    BY <1>1, <1>2, <1>9, <1>10, <2>1 DEF StatusWritten, Passes
<1>14. Transaction'
  BY <1>1, <1>2, <1>9, <1>12, <1>13 DEF Transaction
<1>15. QED
  BY <1>1, <1>14, SamePendingIds DEF CommitInvariant, FilePcs

LEMMA NewNodes ==
    ASSUME db \in Database, cur \in Files, NEW name, NodesWritten(name)
    PROVE  /\ name \in [DOMAIN name -> NodeNames[body]]
           /\ DOMAIN name \subseteq FreeIds(Cleared.nodes) /\ DOMAIN name \subseteq NodeIds
           /\ \A n \in DOMAIN name : tx.nodes[n] = [file |-> cur, name |-> name[n]]
           /\ \A n \in NodeIds \ DOMAIN name : tx.nodes[n] = Cleared.nodes[n]
           /\ NodesOf(tx, {cur}) = DOMAIN name
<1>1. PICK new \in SUBSET FreeIds(Cleared.nodes) : name \in Bijection(new, NodeNames[body])
  BY DEF NodesWritten
<1>2. name \in [new -> NodeNames[body]] /\ DOMAIN name = new
  BY <1>1 DEF Bijection, Injection
<1>3. Cleared \in Database /\ NodesOf(Cleared, {cur}) = {}
  BY ClearFilesEffect, ClearedFiles DEF Cleared
<1>4. new \subseteq NodeIds /\ DOMAIN Cleared.nodes = NodeIds
  BY <1>3 DEF FreeIds, Database
<1>5. \A n \in NodeIds :
          tx.nodes[n] = IF n \in new THEN [file |-> cur, name |-> name[n]] ELSE Cleared.nodes[n]
  BY <1>2, <1>4 DEF NodesWritten, NodeRows, With
<1>6. NodesOf(tx, {cur}) = new
  <2>1. ASSUME NEW n \in new PROVE tx.nodes[n] # Null /\ tx.nodes[n].file = cur
    <3>1. tx.nodes[n] = [file |-> cur, name |-> name[n]]
      BY <1>4, <1>5
    <3>2. [file |-> cur, name |-> name[n]] \in NodeRow
      BY <1>2, ContentAssumption DEF NodeRow, NodesWritten
    <3>3. QED
      BY <3>1, <3>2, NullAssumption
  <2>2. \A n \in NodeIds \ new : tx.nodes[n] = Null \/ tx.nodes[n].file # cur
    BY <1>3, <1>5 DEF NodesOf
  <2>3. QED
    BY <1>4, <2>1, <2>2 DEF NodesOf
<1>7. QED
  BY <1>1, <1>2, <1>4, <1>5, <1>6

LEMMA NewChunks ==
    ASSUME db \in Database, cur \in Files, NEW name, NEW row, ChunksWritten(name, row)
    PROVE  /\ row \in [DOMAIN row -> RowsOf(name)]
           /\ \A r \in RowsOf(name) : \E c \in DOMAIN row : row[c] = r
           /\ DOMAIN row \subseteq FreeIds(Cleared.chunks) /\ DOMAIN row \subseteq ChunkIds
           /\ \A c \in DOMAIN row : tx.chunks[c] = row[c] /\ tx.fts[c] = row[c].text
           /\ \A c \in ChunkIds \ DOMAIN row :
                  tx.chunks[c] = Cleared.chunks[c] /\ tx.fts[c] = Cleared.fts[c]
<1>1. PICK fresh \in SUBSET FreeIds(Cleared.chunks) : row \in Bijection(fresh, RowsOf(name))
  BY DEF ChunksWritten
<1>2. /\ row \in [fresh -> RowsOf(name)] /\ DOMAIN row = fresh
      /\ \A r \in RowsOf(name) : \E c \in fresh : row[c] = r
  BY <1>1 DEF Bijection, Injection, Surjection
<1>3. Cleared \in Database
  BY ClearFilesEffect DEF Cleared
<1>4. fresh \subseteq ChunkIds /\ DOMAIN Cleared.chunks = ChunkIds /\ DOMAIN Cleared.fts = ChunkIds
  BY <1>3 DEF FreeIds, Database
<1>5. \A c \in ChunkIds : tx.chunks[c] = IF c \in fresh THEN row[c] ELSE Cleared.chunks[c]
  BY <1>2, <1>4 DEF ChunksWritten, With
<1>6. \A c \in ChunkIds : tx.fts[c] = IF c \in fresh THEN row[c].text ELSE Cleared.fts[c]
  BY <1>2, <1>4 DEF ChunksWritten, With
<1>7. QED
  BY <1>1, <1>2, <1>4, <1>5, <1>6

LEMMA RunChunkerCommits ==
    ASSUME CommitInvariant, RunChunker
    PROVE  Transaction' /\ PendingIds'
<1>1. /\ pc = "chunker" /\ pc' = "embed" /\ UNCHANGED <<db, cur, body, loopVars, embedBuf>>
  BY DEF RunChunker
<1>2. /\ AtChunker /\ StatusWritten({"structural"})
      /\ IsPending(db, cur) /\ tx.files = db.files /\ tx.fp = db.fp
      /\ tx \in Database /\ db \in Database /\ cur \in Files /\ embedBuf = NothingBuffered
      /\ Sound(tx) /\ VectorsMissingOnly(tx, {})
  BY <1>1 DEF CommitInvariant, Transaction, IndexInvariant, TypeOK, InHand, FilePcs,
              BufferMatchesChunks, Waiting
<1>3. PICK name : /\ NodesWritten(name)
                  /\ tx.chunks = Cleared.chunks /\ tx.fts = Cleared.fts
                  /\ tx.emb = Cleared.emb
  BY <1>2 DEF AtChunker
<1>4. PICK new \in SUBSET FreeIds(tx.chunks) : \E row \in Bijection(new, ChunkRows) :
          /\ tx' = MarkStatus(
                     MarkStatus(InsertChunks(tx, row), cur, "chunker", "done"),
                     cur, "embeddings", "running")
          /\ todo' = new
  BY DEF RunChunker
<1>5. PICK row \in Bijection(new, ChunkRows) :
          /\ tx' = MarkStatus(
                     MarkStatus(InsertChunks(tx, row), cur, "chunker", "done"),
                     cur, "embeddings", "running")
          /\ todo' = new
  BY <1>4
<1>6. /\ row \in [new -> ChunkRow] /\ DOMAIN row = new
      /\ \A c \in new : tx.nodes[row[c].node] # Null
  <2>1. row \in [new -> ChunkRows]
    BY DEF Bijection, Injection
  <2>2. \A r \in ChunkRows : r \in ChunkRow /\ tx.nodes[r.node] # Null
    BY DEF ChunkRows, ChunkRow, NodesOf
  <2>3. QED
    BY <2>1, <2>2
<1>7. ChunkRows = RowsOf(name)
  <2>1. /\ NodesOf(tx, {cur}) = DOMAIN name
        /\ \A n \in DOMAIN name : tx.nodes[n] = [file |-> cur, name |-> name[n]]
    BY <1>2, <1>3, NewNodes
  <2>2. ASSUME NEW n \in DOMAIN name PROVE tx.nodes[n].name = name[n]
    <3>1. tx.nodes[n] = [file |-> cur, name |-> name[n]]
      BY <2>1
    <3>2. QED
      BY <3>1
  <2>3. QED
    BY <2>1, <2>2 DEF ChunkRows, RowsOf
<1> DEFINE mid == InsertChunks(tx, row)
           late == MarkStatus(mid, cur, "chunker", "done")
           last == MarkStatus(late, cur, "embeddings", "running")
<1>8. tx' = last /\ todo' = new
  BY <1>5
<1>9. /\ mid \in Database
      /\ mid.chunks = With(tx.chunks, row)
      /\ mid.fts = With(tx.fts, [c \in DOMAIN row |-> row[c].text])
      /\ mid.nodes = tx.nodes /\ mid.emb = tx.emb /\ mid.pstate = tx.pstate
      /\ mid.files = tx.files /\ mid.fp = tx.fp
  <2>1. mid \in Database
    BY <1>2, <1>6, InsertChunksSound
  <2>2. QED
    BY <1>2, <2>1 DEF InsertChunks, Database
<1> HIDE DEF mid
<1>10. /\ late \in Database
       /\ late.chunks = mid.chunks /\ late.fts = mid.fts /\ late.nodes = mid.nodes
       /\ late.emb = mid.emb /\ late.files = mid.files /\ late.fp = mid.fp
       /\ late.pstate = [mid.pstate EXCEPT ![cur] = [mid.pstate[cur] EXCEPT !["chunker"] = "done"]]
  <2>1. "chunker" \in Passes /\ "done" \in Statuses
    BY DEF Passes, Statuses
  <2>2. mid \in Database /\ cur \in Files
    BY <1>2, <1>9
  <2> HIDE DEF mid
  <2>3. QED
    BY <2>1, <2>2, MarkStatusFields
<1> HIDE DEF late
<1>11. /\ last \in Database
       /\ last.chunks = late.chunks /\ last.fts = late.fts /\ last.nodes = late.nodes
       /\ last.emb = late.emb /\ last.files = late.files /\ last.fp = late.fp
       /\ last.pstate = [late.pstate EXCEPT ![cur] = [late.pstate[cur] EXCEPT !["embeddings"] = "running"]]
  <2>1. "embeddings" \in Passes /\ "running" \in Statuses
    BY DEF Passes, Statuses
  <2>2. QED
    BY <1>2, <1>10, <2>1, MarkStatusFields
<1> HIDE DEF last
<1>12. /\ tx'.files = db.files /\ tx'.fp = db.fp /\ tx'.nodes = tx.nodes
       /\ tx'.chunks = With(tx.chunks, row) /\ tx'.emb = tx.emb
       /\ tx'.fts = With(tx.fts, [c \in DOMAIN row |-> row[c].text])
  BY <1>2, <1>8, <1>9, <1>10, <1>11
<1>13. Cleared' = Cleared /\ Cleared \in Database
  BY <1>1, <1>2, ClearFilesEffect DEF Cleared
<1>14. NodesWritten(name)'
  <2>1. NodeRows(name)' = NodeRows(name)
    BY <1>1 DEF NodeRows
  <2>2. QED
    BY <1>1, <1>3, <1>12, <1>13, <2>1 DEF NodesWritten
<1>15. ChunksWritten(name, row)'
  <2>1. RowsOf(name)' = RowsOf(name)
    BY <1>1 DEF RowsOf
  <2>2. QED
    BY <1>3, <1>7, <1>12, <1>13, <2>1 DEF ChunksWritten
<1>16. Buffered' = {} /\ Waiting' = new
  BY <1>1, <1>2, <1>8 DEF Buffered, Waiting, NothingBuffered
<1>17. VectorsWritten(row, DOMAIN row \ Waiting)'
  <2>1. tx'.emb = [c \in ChunkIds |-> Cleared'.emb[c]]
    BY <1>3, <1>12, <1>13 DEF Database
  <2>2. DOMAIN row \ Waiting' = {}
    BY <1>6, <1>16
  <2>3. QED
    BY <2>1, <2>2 DEF VectorsWritten
<1>18. AtEmbed(Waiting)'
  BY <1>6, <1>14, <1>15, <1>16, <1>17 DEF AtEmbed
<1>19. StatusWritten({"structural", "chunker"})'
  <2>1. tx'.pstate \in [Files -> [Passes -> Statuses]]
    BY <1>8, <1>11 DEF Database
  <2>2. \A f \in Files \ {cur} : tx'.pstate[f] = tx.pstate[f]
    BY <1>2, <1>8, <1>9, <1>10, <1>11 DEF Database
  <2>3. tx'.pstate[cur]["structural"] = tx.pstate[cur]["structural"] /\ tx'.pstate[cur]["chunker"] = "done"
    BY <1>2, <1>8, <1>9, <1>10, <1>11 DEF Database, Passes
  <2>4. QED
    BY <1>1, <1>2, <1>13, <2>1, <2>2, <2>3 DEF StatusWritten
<1>20. Transaction'
  BY <1>1, <1>2, <1>12, <1>16, <1>18, <1>19 DEF Transaction
<1>21. QED
  BY <1>1, <1>20, SamePendingIds DEF CommitInvariant, FilePcs

LEMMA BufferChunkCommits ==
    ASSUME CommitInvariant, NEW c \in ChunkIds, BufferChunk(c)
    PROVE  Transaction' /\ PendingIds'
<1>1. /\ pc = "embed" /\ pc' = "embed" /\ c \in todo /\ todo' = todo \ {c}
      /\ embedBuf' = [embedBuf EXCEPT ![c] = tx.chunks[c].text]
      /\ UNCHANGED <<db, tx, cur, body, loopVars>>
  BY DEF BufferChunk, storeVars
<1>2. /\ AtEmbed(Waiting) /\ StatusWritten({"structural", "chunker"}) /\ todo \cap Buffered = {}
      /\ IsPending(db, cur) /\ tx.files = db.files /\ tx.fp = db.fp
      /\ tx \in Database /\ db \in Database /\ cur \in Files
      /\ embedBuf \in [ChunkIds -> Texts \cup {Null}] /\ todo \subseteq ChunkIds
  BY <1>1 DEF CommitInvariant, Transaction, IndexInvariant, TypeOK, InHand, FilePcs
<1>3. PICK name, row :
        /\ NodesWritten(name)
        /\ ChunksWritten(name, row)
        /\ Waiting \subseteq DOMAIN row
        /\ VectorsWritten(row, DOMAIN row \ Waiting)
        /\ \A k \in Buffered : embedBuf[k] = row[k].text
  BY <1>2 DEF AtEmbed
<1>4. c \in DOMAIN row /\ tx.chunks[c] = row[c] /\ row[c].text \in Texts /\ row[c].text # Null
  <2>1. c \in DOMAIN row
    BY <1>1, <1>3 DEF Waiting
  <2>2. tx.chunks[c] = row[c] /\ row[c] \in RowsOf(name)
    BY <1>2, <1>3, <2>1, NewChunks
  <2>3. row[c].text \in Texts
    BY <2>2 DEF RowsOf
  <2>4. QED
    BY <2>1, <2>2, <2>3, NullAssumption
<1>5. Buffered' = Buffered \cup {c} /\ Waiting' = Waiting
  <2>1. Buffered' = Buffered \cup {c}
    BY <1>1, <1>2, <1>4 DEF Buffered
  <2>2. QED
    BY <1>1, <2>1 DEF Waiting
<1>6. \A k \in Buffered' : embedBuf'[k] = row[k].text
  BY <1>1, <1>2, <1>3, <1>4, <1>5
<1>7. Cleared' = Cleared
  BY <1>1 DEF Cleared
<1>8. NodesWritten(name)' /\ ChunksWritten(name, row)'
  <2>1. NodesWritten(name)'
    BY <1>1, <1>3, <1>7 DEF NodesWritten, NodeRows
  <2>2. ChunksWritten(name, row)'
    BY <1>1, <1>3, <1>7 DEF ChunksWritten, RowsOf
  <2>3. QED
    BY <2>1, <2>2
<1>9. VectorsWritten(row, DOMAIN row \ Waiting)'
  BY <1>1, <1>3, <1>5, <1>7 DEF VectorsWritten
<1>10. AtEmbed(Waiting)'
  BY <1>3, <1>5, <1>6, <1>8, <1>9 DEF AtEmbed
<1>11. StatusWritten({"structural", "chunker"})'
  BY <1>1, <1>2, <1>7 DEF StatusWritten
<1>12. (todo \cap Buffered)' = {}
  BY <1>1, <1>2, <1>5
<1>13. Transaction'
  BY <1>1, <1>2, <1>10, <1>11, <1>12 DEF Transaction
<1>14. QED
  BY <1>1, <1>13, SamePendingIds DEF CommitInvariant, FilePcs

LEMMA FlushEmbedBatchCommits ==
    ASSUME CommitInvariant, FlushEmbedBatch
    PROVE  Transaction' /\ PendingIds'
<1>1. /\ pc = "embed" /\ pc' = "embed" /\ todo' = todo
      /\ tx' = WriteBatch(tx, embedBuf, scheme) /\ embedBuf' = NothingBuffered
      /\ UNCHANGED <<db, cur, body, loopVars>>
  BY DEF FlushEmbedBatch
<1>2. /\ AtEmbed(Waiting) /\ StatusWritten({"structural", "chunker"}) /\ todo \cap Buffered = {}
      /\ IsPending(db, cur) /\ tx.files = db.files /\ tx.fp = db.fp
      /\ tx \in Database /\ db \in Database /\ cur \in Files
      /\ embedBuf \in [ChunkIds -> Texts \cup {Null}] /\ todo \subseteq ChunkIds
      /\ scheme = db.fp
  BY <1>1 DEF CommitInvariant, Transaction, IndexInvariant, TypeOK, InHand, FilePcs, GatePassed
<1>3. PICK name, row :
        /\ NodesWritten(name)
        /\ ChunksWritten(name, row)
        /\ Waiting \subseteq DOMAIN row
        /\ VectorsWritten(row, DOMAIN row \ Waiting)
        /\ \A k \in Buffered : embedBuf[k] = row[k].text
  BY <1>2 DEF AtEmbed
<1>4. /\ tx'.files = tx.files /\ tx'.nodes = tx.nodes /\ tx'.chunks = tx.chunks
      /\ tx'.fts = tx.fts /\ tx'.pstate = tx.pstate /\ tx'.fp = tx.fp
      /\ tx'.emb = [c \in ChunkIds |->
                       IF embedBuf[c] # Null THEN [text |-> embedBuf[c], scheme |-> scheme]
                       ELSE tx.emb[c]]
  BY <1>1, <1>2 DEF WriteBatch, Database
<1>5. Buffered' = {} /\ Waiting' = todo /\ Waiting = todo \cup Buffered
  BY <1>1 DEF Buffered, Waiting, NothingBuffered
<1>6. Cleared' = Cleared
  BY <1>1 DEF Cleared
<1>7. NodesWritten(name)'
  BY <1>1, <1>3, <1>4, <1>6 DEF NodesWritten, NodeRows
<1>8. ChunksWritten(name, row)'
  BY <1>1, <1>3, <1>4, <1>6 DEF ChunksWritten, RowsOf
<1>9. VectorsWritten(row, DOMAIN row \ Waiting)'
  <2>1. ASSUME NEW c \in ChunkIds
        PROVE  (IF embedBuf[c] # Null THEN [text |-> embedBuf[c], scheme |-> scheme] ELSE tx.emb[c])
             = (IF c \in DOMAIN row \ todo THEN [text |-> row[c].text, scheme |-> db.fp]
                ELSE Cleared.emb[c])
    <3>1. CASE c \in Buffered
      BY <1>2, <1>3, <1>5, <3>1 DEF Buffered
    <3>2. CASE c \notin Buffered
      <4>1. embedBuf[c] = Null
        BY <3>2 DEF Buffered
      <4>2. c \in DOMAIN row \ Waiting <=> c \in DOMAIN row \ todo
        BY <1>5, <3>2
      <4>3. QED
        BY <1>3, <4>1, <4>2 DEF VectorsWritten
    <3>3. QED
      BY <3>1, <3>2
  <2>2. tx'.emb = [c \in ChunkIds |-> IF c \in DOMAIN row \ todo
                                      THEN [text |-> row[c].text, scheme |-> db.fp]
                                      ELSE Cleared.emb[c]]
    BY <1>4, <2>1
  <2>3. QED
    BY <1>1, <1>5, <1>6, <2>2 DEF VectorsWritten
<1>10. AtEmbed(Waiting)'
  BY <1>3, <1>5, <1>7, <1>8, <1>9 DEF AtEmbed
<1>11. StatusWritten({"structural", "chunker"})'
  BY <1>1, <1>2, <1>4, <1>6 DEF StatusWritten
<1>12. Transaction'
  BY <1>1, <1>2, <1>4, <1>5, <1>10, <1>11 DEF Transaction
<1>13. QED
  BY <1>1, <1>12, SamePendingIds DEF CommitInvariant, FilePcs

LEMMA FinishEmbeddingsCommits ==
    ASSUME CommitInvariant, FinishEmbeddings
    PROVE  Transaction' /\ PendingIds'
<1>1. /\ pc = "embed" /\ pc' = "commit" /\ todo = {} /\ Buffered = {}
      /\ tx' = MarkStatus(tx, cur, "embeddings", "done")
      /\ UNCHANGED <<db, cur, body, todo, embedBuf, loopVars>>
  BY DEF FinishEmbeddings, fileVars
<1>2. /\ AtEmbed(Waiting) /\ StatusWritten({"structural", "chunker"})
      /\ IsPending(db, cur) /\ tx.files = db.files /\ tx.fp = db.fp
      /\ tx \in Database /\ db \in Database /\ cur \in Files
  BY <1>1 DEF CommitInvariant, Transaction, IndexInvariant, TypeOK, InHand, FilePcs
<1>3. PICK name, row :
        /\ NodesWritten(name)
        /\ ChunksWritten(name, row)
        /\ Waiting \subseteq DOMAIN row
        /\ VectorsWritten(row, DOMAIN row \ Waiting)
  BY <1>2 DEF AtEmbed
<1>4. Waiting = {} /\ Buffered' = {}
  BY <1>1 DEF Waiting, Buffered
<1>5. /\ tx' \in Database
      /\ tx'.chunks = tx.chunks /\ tx'.fts = tx.fts /\ tx'.nodes = tx.nodes
      /\ tx'.emb = tx.emb /\ tx'.files = tx.files /\ tx'.fp = tx.fp
      /\ tx'.pstate = [tx.pstate EXCEPT ![cur] = [tx.pstate[cur] EXCEPT !["embeddings"] = "done"]]
  <2>1. "embeddings" \in Passes /\ "done" \in Statuses
    BY DEF Passes, Statuses
  <2>2. QED
    BY <1>1, <1>2, <2>1, MarkStatusFields
<1>6. Cleared' = Cleared
  BY <1>1 DEF Cleared
<1>7. NodesWritten(name)'
  BY <1>1, <1>3, <1>5, <1>6 DEF NodesWritten, NodeRows
<1>8. ChunksWritten(name, row)'
  BY <1>1, <1>3, <1>5, <1>6 DEF ChunksWritten, RowsOf
<1>9. VectorsWritten(row, DOMAIN row \ {})'
  BY <1>1, <1>3, <1>4, <1>5, <1>6 DEF VectorsWritten
<1>10. AtEmbed({})'
  BY <1>4, <1>7, <1>8, <1>9 DEF AtEmbed
<1>11. StatusWritten(Passes)'
  <2>1. tx'.pstate \in [Files -> [Passes -> Statuses]]
    BY <1>5 DEF Database
  <2>2. \A f \in Files \ {cur} : tx'.pstate[f] = tx.pstate[f]
    BY <1>2, <1>5 DEF Database
  <2>3. /\ tx'.pstate[cur]["structural"] = tx.pstate[cur]["structural"]
        /\ tx'.pstate[cur]["chunker"] = tx.pstate[cur]["chunker"]
        /\ tx'.pstate[cur]["embeddings"] = "done"
    BY <1>2, <1>5 DEF Database, Passes
  <2>4. QED
    BY <1>1, <1>2, <1>6, <2>1, <2>2, <2>3 DEF StatusWritten, Passes
<1>12. Transaction'
  BY <1>1, <1>2, <1>5, <1>10, <1>11 DEF Transaction
<1>13. QED
  BY <1>1, <1>12, SamePendingIds DEF CommitInvariant, FilePcs

\* Steps that end the file transaction: the other files stay as pending.
LEMMA EndOfFile ==
    ASSUME CommitInvariant, pc \in FilePcs, NextFile, UNCHANGED loopVars, db' \in Database,
           db'.files = db.files, \A f \in Files \ {cur} : db'.pstate[f] = db.pstate[f]
    PROVE  Transaction' /\ PendingIds'
<1>1. /\ \A f \in ids \ attempted : IsPending(db, f)
      /\ cur \in attempted /\ ids \subseteq Files
  BY DEF CommitInvariant, PendingIds, IndexInvariant, TypeOK, FilePcs
<1>2. pc' = "loop" /\ ids' = ids /\ attempted' = attempted
  BY DEF NextFile, loopVars
<1>3. \A f \in ids \ attempted : IsPending(db', f)
  BY <1>1 DEF IsPending, IsLive
<1>4. QED
  BY <1>2, <1>3 DEF Transaction, PendingIds, FilePcs

LEMMA CommittedStatus ==
    ASSUME CommitInvariant, pc = "commit"
    PROVE  \A f \in Files \ {cur} : tx.pstate[f] = db.pstate[f]
<1>1. /\ db \in Database /\ cur \in Files
      /\ tx = MarkSkipped(Cleared, cur) \/ StatusWritten(Passes)
  BY DEF CommitInvariant, Transaction, IndexInvariant, TypeOK, InHand, FilePcs
<1>2. Cleared \in Database /\ \A f \in Files \ {cur} : Cleared.pstate[f] = db.pstate[f]
  BY <1>1, ClearFilesEffect, ClearFilesStatus DEF Cleared
<1>3. CASE tx = MarkSkipped(Cleared, cur)
  BY <1>1, <1>2, <1>3 DEF MarkSkipped, Database
<1>4. CASE StatusWritten(Passes)
  BY <1>2, <1>4 DEF StatusWritten
<1>5. QED
  BY <1>1, <1>3, <1>4

LEMMA CommitFileCommits ==
    ASSUME CommitInvariant, CommitFile
    PROVE  Transaction' /\ PendingIds'
<1>1. pc = "commit" /\ db' = tx /\ NextFile /\ UNCHANGED loopVars
  BY DEF CommitFile, Store
<1>2. tx \in Database /\ tx.files = db.files
  BY <1>1 DEF CommitInvariant, Transaction, IndexInvariant, TypeOK, FilePcs
<1>3. QED
  BY <1>1, <1>2, CommittedStatus, EndOfFile DEF FilePcs

LEMMA FailureFields ==
    ASSUME CommitInvariant, FailFile \/ FailFileUnrecorded
    PROVE  /\ pc \in FilePcs /\ NextFile /\ UNCHANGED loopVars
           /\ db' = db \/ db' = RecordFailure(db, cur, pass)
           /\ db \in Database /\ cur \in Files /\ pass \in Passes /\ IsPending(db, cur)
           /\ db' \in Database
           /\ db'.chunks = db.chunks /\ db'.fts = db.fts /\ db'.nodes = db.nodes
           /\ db'.emb = db.emb /\ db'.files = db.files /\ db'.fp = db.fp
           /\ \A f \in Files \ {cur} : db'.pstate[f] = db.pstate[f]
<1>1. /\ pc \in FilePcs /\ NextFile /\ UNCHANGED loopVars
      /\ db' = db \/ db' = RecordFailure(db, cur, pass)
  BY DEF FailFile, FailFileUnrecorded, Store
<1>2. db \in Database /\ cur \in Files /\ pass \in Passes /\ IsPending(db, cur)
  BY <1>1 DEF CommitInvariant, Transaction, IndexInvariant, TypeOK, InHand
<1>3. CASE db' = RecordFailure(db, cur, pass)
  <2>1. "failed" \in Statuses
    BY DEF Statuses
  <2>2. /\ db' \in Database
        /\ db'.chunks = db.chunks /\ db'.fts = db.fts /\ db'.nodes = db.nodes
        /\ db'.emb = db.emb /\ db'.files = db.files /\ db'.fp = db.fp
        /\ db'.pstate = [db.pstate EXCEPT ![cur] = [db.pstate[cur] EXCEPT ![pass] = "failed"]]
    BY <1>2, <1>3, <2>1, MarkStatusFields DEF RecordFailure
  <2>3. QED
    BY <1>1, <1>2, <2>2 DEF Database
<1>4. QED
  BY <1>1, <1>2, <1>3

LEMMA TransactionNext ==
    ASSUME CommitInvariant, [Next]_vars
    PROVE  Transaction' /\ PendingIds'
<1>1. CASE RunnerStep
  <2>1. CASE FailFile \/ FailFileUnrecorded
    BY <2>1, FailureFields, EndOfFile
  <2>2. CASE \/ \E f \in Files : HashFile(f) \/ SkipUnhashed(f)
             \/ SkipUnclassified \/ ClassifyFile \/ FinishWalk \/ ReconcileDeletions
             \/ EnsureFingerprint \/ RefuseFingerprint \/ FetchPending \/ FinishRun
    BY <2>2, BeforeAndAfter DEF CommitInvariant
  <2>3. QED
    BY <1>1, <2>1, <2>2, BeginFileCommits, SkipOtherCommits, ReadFileCommits,
       RunStructuralCommits, RunChunkerCommits, BufferChunkCommits, FlushEmbedBatchCommits,
       FinishEmbeddingsCommits, CommitFileCommits DEF RunnerStep
<1>2. CASE EnvironmentStep
  BY <1>2, BeforeAndAfter, EditsAndTicks DEF EnvironmentStep, CommitInvariant
<1>3. CASE UNCHANGED vars
  <2>1. UNCHANGED <<db, tx, pc, cur, body, todo, embedBuf, ids, attempted>>
    BY <1>3 DEF vars, storeVars, fileVars, loopVars
  <2>2. QED
    BY <2>1, QuietSteps DEF CommitInvariant
<1>4. QED
  BY <1>1, <1>2, <1>3 DEF Next

LEMMA CommitInvariantNext ==
    ASSUME CommitInvariant, [Next]_vars
    PROVE  CommitInvariant'
  BY InvariantNext, ClocksNext, TransactionNext DEF CommitInvariant

\* What IndexInvariant says of the tables, and what the open transaction has made so far.
THEOREM CommitInvariantHolds == Spec => []CommitInvariant
  BY CommitInvariantInit, CommitInvariantNext, PTL DEF Spec

-----------------------------------------------------------------------------
(* What one step does to the committed database.                           *)

StatementStep ==
    \/ db' = db
    \/ \E rows \in [Files -> WalkRow \cup {Null}] : db' = UpsertFiles(db, rows, clock)
    \/ db' = MarkUnseenDeleted(db, startTime)
    \/ \E v \in Schemes : FingerprintAccepts(db, v) /\ db' = [db EXCEPT !.fp = v]
    \/ cur \in Files /\ pass \in Passes /\ IsPending(db, cur) /\ db' = RecordFailure(db, cur, pass)

DatabaseStep == CommitFile \/ DeleteIndex \/ (StatementStep /\ torn' = torn)

LEMMA ClassifiedRows ==
    ASSUME IndexInvariant, ClassifyFile
    PROVE  \/ db' = db
           \/ \E rows \in [Files -> WalkRow \cup {Null}] : db' = UpsertFiles(db, rows, clock)
<1> DEFINE rows == [batch EXCEPT ![cur] = [sha |-> hash, class |-> ClassOf(disk[cur])]]
<1>1. rows \in [Files -> WalkRow \cup {Null}]
  BY DEF ClassifyFile, IndexInvariant, InHand, TypeOK, WalkRow, ClassOf, Classes
<1>2. db' = db \/ db' = UpsertFiles(db, rows, clock)
  BY DEF ClassifyFile, Store, storeVars
<1> HIDE DEF rows
<1>3. QED
  BY <1>1, <1>2

LEMMA StepsOfTheDatabase ==
    ASSUME CommitInvariant, [Next]_vars
    PROVE  DatabaseStep
<1>1. IndexInvariant
  BY DEF CommitInvariant
<1>2. CASE ClassifyFile
  <2>1. StatementStep
    BY <1>1, <1>2, ClassifiedRows DEF StatementStep
  <2>2. QED
    BY <1>2, <2>1 DEF ClassifyFile, DatabaseStep, obsVars
<1>3. CASE FinishWalk
  BY <1>1, <1>3
     DEF FinishWalk, Store, IndexInvariant, TypeOK, StatementStep, DatabaseStep, obsVars
<1>4. CASE ReconcileDeletions
  BY <1>1, <1>4 DEF ReconcileDeletions, Store, StatementStep, DatabaseStep, obsVars
<1>5. CASE EnsureFingerprint
  BY <1>1, <1>5 DEF EnsureFingerprint, Store, IndexInvariant, TypeOK, InHand, StatementStep,
                    DatabaseStep, obsVars
<1>6. CASE CommitFile \/ DeleteIndex
  BY <1>6 DEF DatabaseStep
<1>7. CASE FailFile \/ FailFileUnrecorded
  <2>1. torn' = torn
    BY <1>7 DEF FailFile, FailFileUnrecorded
  <2>2. QED
    BY <1>7, <2>1, FailureFields DEF StatementStep, DatabaseStep
<1>8. CASE \/ \E f \in Files : HashFile(f) \/ SkipUnhashed(f) \/ BeginFile(f)
           \/ SkipUnclassified \/ RefuseFingerprint
           \/ FetchPending \/ SkipOther \/ ReadFile \/ RunStructural \/ RunChunker
           \/ \E c \in ChunkIds : BufferChunk(c)
           \/ FlushEmbedBatch \/ FinishEmbeddings \/ FinishRun
           \/ \E v \in Schemes : StartRun(v)
           \/ Interrupt \/ Tick
           \/ \E f \in Files, c \in Contents \cup {Absent} : Edit(f, c)
           \/ UNCHANGED vars
  <2>1. db' = db /\ torn' = torn
    BY <1>8 DEF HashFile, SkipUnhashed, SkipUnclassified, PassOver, BeginFile,
                RefuseFingerprint, FetchPending, SkipOther, ReadFile, RunStructural, RunChunker,
                BufferChunk, FlushEmbedBatch, FinishEmbeddings, FinishRun, StartRun, Interrupt,
                Edit, Tick, vars, storeVars, obsVars
  <2>2. QED
    BY <2>1 DEF StatementStep, DatabaseStep
<1>9. QED
  BY <1>2, <1>3, <1>4, <1>5, <1>6, <1>7, <1>8 DEF Next, RunnerStep, EnvironmentStep

Changed(d, rows) ==
    {f \in {g \in Files : rows[g] # Null} : d.files[f] # Null /\ d.files[f].sha # rows[f].sha}

\* A flush clears the changed files, and writes no table but files besides.
LEMMA UpsertFilesFields ==
    ASSUME NEW d \in Database, NEW rows \in [Files -> WalkRow \cup {Null}], NEW now
    PROVE  LET base == ClearFiles(d, Changed(d, rows))
               e == UpsertFiles(d, rows, now)
           IN  /\ Changed(d, rows) \in SUBSET Files
               /\ e.nodes = base.nodes /\ e.chunks = base.chunks /\ e.fts = base.fts
               /\ e.emb = base.emb /\ e.pstate = base.pstate /\ e.fp = base.fp
               /\ \A f \in Files :
                     e.files[f] = IF rows[f] # Null
                                  THEN [sha |-> rows[f].sha, class |-> rows[f].class,
                                        seen |-> now, deleted |-> FALSE]
                                  ELSE d.files[f]
<1> DEFINE base == ClearFiles(d, Changed(d, rows))
           table == [f \in Files |->
                        IF f \in {g \in Files : rows[g] # Null}
                        THEN [sha |-> rows[f].sha, class |-> rows[f].class,
                              seen |-> now, deleted |-> FALSE]
                        ELSE base.files[f]]
<1>1. Changed(d, rows) \in SUBSET Files
  BY DEF Changed
<1>2. base \in Database /\ base.files = d.files
  BY <1>1, ClearFilesEffect
<1>3. UpsertFiles(d, rows, now) = [base EXCEPT !.files = table]
  BY DEF UpsertFiles, Changed
<1>4. \A f \in Files : table[f] = IF rows[f] # Null
                                  THEN [sha |-> rows[f].sha, class |-> rows[f].class,
                                        seen |-> now, deleted |-> FALSE]
                                  ELSE d.files[f]
  BY <1>2
<1>5. \A e : e = [base EXCEPT !.files = table] =>
          /\ e.nodes = base.nodes /\ e.chunks = base.chunks /\ e.fts = base.fts
          /\ e.emb = base.emb /\ e.pstate = base.pstate /\ e.fp = base.fp
          /\ e.files = table
  <2> HIDE DEF base, table
  <2>1. QED
    BY <1>2 DEF Database
<1> HIDE DEF table
<1>6. QED
  BY <1>1, <1>3, <1>4, <1>5

-----------------------------------------------------------------------------
(* Files are all or nothing.                                               *)

WholeFile(d, f) ==
    /\ \A p \in Passes : d.pstate[f][p] # "running"
    /\ IF IsIndexed(d, f)
       THEN /\ \A p \in Passes : d.pstate[f][p] = "done"
            /\ \E c \in Contents \ Binary : NamesOf(d, f) = NodeNames[c] /\ Served(d, f) = Pieces[c]
       ELSE NodesOf(d, {f}) = {}

LEMMA AllOrNothingIsWhole == FilesAreAllOrNothing <=> \A f \in Files : WholeFile(db, f)
  BY DEF FilesAreAllOrNothing, WholeFile, IndexedWith, NamesOf

LEMMA StillWhole ==
    ASSUME NEW d, NEW e, NEW f \in Files, SameFile(d, e, f), e.pstate[f] = d.pstate[f],
           WholeFile(d, f)
    PROVE  WholeFile(e, f)
  BY DEF WholeFile, SameFile, IsIndexed

LEMMA ClearedWhole ==
    ASSUME NEW d \in Database, NEW F \in SUBSET Files, NEW f \in Files, WholeFile(d, f)
    PROVE  WholeFile(ClearFiles(d, F), f)
<1>1. CASE f \in F
  <2>1. NodesOf(ClearFiles(d, F), {f}) = {}
    BY <1>1, ClearedFiles
  <2>2. ClearFiles(d, F).pstate[f] = [p \in Passes |-> "none"]
    BY <1>1, ClearFilesStatus
  <2>3. QED
    BY <2>1, <2>2 DEF WholeFile, IsIndexed, Passes
<1>2. CASE f \notin F
  <2>1. SameFile(d, ClearFiles(d, F), f)
    BY <1>2, ClearedFiles
  <2>2. ClearFiles(d, F).pstate[f] = d.pstate[f]
    BY <1>2, ClearFilesStatus
  <2>3. QED
    BY <2>1, <2>2, StillWhole
<1>3. QED
  BY <1>1, <1>2

LEMMA UpsertedWhole ==
    ASSUME NEW d \in Database, NEW rows \in [Files -> WalkRow \cup {Null}], NEW now \in Nat,
           Sound(d), VectorsMissingOnly(d, {}), NEW f \in Files, WholeFile(d, f)
    PROVE  WholeFile(UpsertFiles(d, rows, now), f)
<1> DEFINE e == UpsertFiles(d, rows, now)
           base == ClearFiles(d, Changed(d, rows))
<1>1. /\ Changed(d, rows) \in SUBSET Files
      /\ e.nodes = base.nodes /\ e.chunks = base.chunks /\ e.fts = base.fts
      /\ e.emb = base.emb /\ e.pstate = base.pstate
  BY UpsertFilesFields
<1>2. base \in Database /\ e \in Database
  BY <1>1, ClearFilesEffect, UpsertFilesSound
<1>3. WholeFile(base, f)
  BY <1>1, ClearedWhole
<1> HIDE DEF e, base
<1>4. SameFile(base, e, f)
  BY <1>1, <1>2, SameTables
<1>5. WholeFile(e, f)
  BY <1>1, <1>3, <1>4, StillWhole
<1>6. QED
  BY <1>5 DEF e

\* The files table and the fingerprint say nothing of what a file has.
LEMMA FlaggedWhole ==
    ASSUME NEW d \in Database, NEW e \in Database, NEW f \in Files, WholeFile(d, f),
           e.nodes = d.nodes, e.chunks = d.chunks, e.fts = d.fts, e.emb = d.emb,
           e.pstate = d.pstate
    PROVE  WholeFile(e, f)
<1>1. SameFile(d, e, f)
  BY SameTables
<1>2. QED
  BY <1>1, StillWhole

LEMMA MarkUnseenDeletedFields ==
    ASSUME NEW d \in Database, NEW start
    PROVE  LET e == MarkUnseenDeleted(d, start)
           IN  /\ e.nodes = d.nodes /\ e.chunks = d.chunks /\ e.fts = d.fts
               /\ e.emb = d.emb /\ e.pstate = d.pstate
               /\ \A f \in Files :
                     e.files[f] = IF IsLive(d, f) /\ d.files[f].seen < start
                                  THEN [d.files[f] EXCEPT !.deleted = TRUE]
                                  ELSE d.files[f]
<1> DEFINE table == [f \in Files |->
                        IF IsLive(d, f) /\ d.files[f].seen < start
                        THEN [d.files[f] EXCEPT !.deleted = TRUE]
                        ELSE d.files[f]]
<1>1. MarkUnseenDeleted(d, start) = [d EXCEPT !.files = table]
  BY DEF MarkUnseenDeleted
<1>2. \A f \in Files : table[f] = IF IsLive(d, f) /\ d.files[f].seen < start
                                  THEN [d.files[f] EXCEPT !.deleted = TRUE]
                                  ELSE d.files[f]
  OBVIOUS
<1> HIDE DEF table
<1>3. QED
  BY <1>1, <1>2 DEF Database

LEMMA FailedWhole ==
    ASSUME NEW d \in Database, NEW f \in Files, NEW g \in Files, NEW p \in Passes,
           IsPending(d, g), WholeFile(d, f)
    PROVE  WholeFile(RecordFailure(d, g, p), f)
<1> DEFINE e == RecordFailure(d, g, p)
<1>1. "failed" \in Statuses
  BY DEF Statuses
<1>2. /\ e \in Database
      /\ e.chunks = d.chunks /\ e.fts = d.fts /\ e.nodes = d.nodes
      /\ e.emb = d.emb /\ e.files = d.files /\ e.fp = d.fp
      /\ e.pstate = [d.pstate EXCEPT ![g] = [d.pstate[g] EXCEPT ![p] = "failed"]]
  BY <1>1, MarkStatusFields DEF RecordFailure
<1> HIDE DEF e
<1>3. SameFile(d, e, f)
  BY <1>2, SameTables
<1>4. CASE f # g
  <2>1. e.pstate[f] = d.pstate[f]
    BY <1>2, <1>4 DEF Database
  <2>2. QED
    BY <1>3, <2>1, StillWhole DEF e
<1>5. CASE f = g
  <2>1. /\ e.pstate[f][p] = "failed" /\ \A q \in Passes \ {p} : e.pstate[f][q] = d.pstate[f][q]
    BY <1>2, <1>5 DEF Database
  <2>2. ~IsIndexed(d, f)
    BY <1>5 DEF IsPending, IsIndexed
  <2>3. ~IsIndexed(e, f)
    BY <2>1, <2>2 DEF IsIndexed, Passes
  <2>4. NodesOf(e, {f}) = {}
    BY <1>3, <2>2 DEF WholeFile, SameFile
  <2>5. QED
    BY <2>1, <2>3, <2>4 DEF WholeFile, e
<1>6. QED
  BY <1>4, <1>5

LEMMA EmptyWhole ==
    ASSUME NEW f \in Files
    PROVE  WholeFile(EmptyDatabase, f) /\ NodesOf(EmptyDatabase, {f}) = {}
<1>1. EmptyDatabase.pstate[f] = [p \in Passes |-> "none"] /\ NodesOf(EmptyDatabase, {f}) = {}
  BY DEF EmptyDatabase, NodesOf
<1>2. QED
  BY <1>1 DEF WholeFile, IsIndexed, Passes

\* What the transaction of a file commits for the others.
LEMMA OthersCommitted ==
    ASSUME CommitInvariant, pc = "commit", NEW f \in Files \ {cur}
    PROVE  SameFile(db, tx, f) /\ tx.pstate[f] = db.pstate[f]
<1>1. /\ db \in Database /\ tx \in Database /\ cur \in Files
      /\ tx = MarkSkipped(Cleared, cur) \/ AtEmbed({})
  BY DEF CommitInvariant, Transaction, IndexInvariant, TypeOK, InHand, FilePcs
<1>2. Cleared \in Database /\ SameFile(db, Cleared, f)
  <2>1. {cur} \in SUBSET Files /\ f \notin {cur}
    BY <1>1
  <2>2. ClearFiles(db, {cur}) \in Database
    BY <1>1, <2>1, ClearFilesEffect
  <2>3. SameFile(db, ClearFiles(db, {cur}), f)
    BY <1>1, <2>1, ClearedFiles
  <2>4. QED
    BY <2>2, <2>3 DEF Cleared
<1>3. CASE tx = MarkSkipped(Cleared, cur)
  <2>1. tx.nodes = Cleared.nodes /\ tx.chunks = Cleared.chunks /\ tx.fts = Cleared.fts
        /\ tx.emb = Cleared.emb
    BY <1>1, <1>2, <1>3, MarkSkippedEffect
  <2>2. SameFile(Cleared, tx, f)
    BY <1>1, <1>2, <2>1, SameTables
  <2>3. QED
    BY <1>2, <2>2, CommittedStatus DEF SameFile
<1>4. CASE AtEmbed({})
  <2>1. PICK name, row : NodesWritten(name) /\ ChunksWritten(name, row)
                            /\ VectorsWritten(row, DOMAIN row \ {})
    BY <1>4 DEF AtEmbed
  <2>2. /\ NodesOf(tx, {cur}) = DOMAIN name /\ DOMAIN name \subseteq FreeIds(Cleared.nodes)
        /\ \A n \in NodeIds \ DOMAIN name : tx.nodes[n] = Cleared.nodes[n]
    BY <1>1, <2>1, NewNodes
  <2>3. /\ row \in [DOMAIN row -> RowsOf(name)] /\ DOMAIN row \subseteq FreeIds(Cleared.chunks)
        /\ \A c \in DOMAIN row : tx.chunks[c] = row[c]
        /\ \A c \in ChunkIds \ DOMAIN row :
               tx.chunks[c] = Cleared.chunks[c] /\ tx.fts[c] = Cleared.fts[c]
    BY <1>1, <2>1, NewChunks
  <2>4. \A c \in ChunkIds \ DOMAIN row : tx.emb[c] = Cleared.emb[c]
    BY <2>1 DEF VectorsWritten
  <2>5. \A n \in DOMAIN name : n \notin NodesOf(tx, {f}) /\ n \notin NodesOf(Cleared, {f})
    BY <2>2 DEF NodesOf, FreeIds
  <2>6. NodesOf(tx, {f}) = NodesOf(Cleared, {f})
    BY <2>2, <2>5 DEF NodesOf
  <2>7. \A c \in DOMAIN row : row[c].node \in DOMAIN name
    BY <2>3 DEF RowsOf
  <2>8. \A c \in DOMAIN row : c \notin ChunksOf(tx, {f}) /\ c \notin ChunksOf(Cleared, {f})
    BY <2>3, <2>5, <2>7 DEF ChunksOf, FreeIds
  <2>9. ChunksOf(tx, {f}) = ChunksOf(Cleared, {f})
    BY <2>3, <2>6, <2>8 DEF ChunksOf
  <2>10. \A n \in NodesOf(Cleared, {f}) : tx.nodes[n] = Cleared.nodes[n]
    BY <2>2, <2>5 DEF NodesOf
  <2>11. \A c \in ChunksOf(Cleared, {f}) :
            tx.chunks[c] = Cleared.chunks[c] /\ tx.fts[c] = Cleared.fts[c]
              /\ tx.emb[c] = Cleared.emb[c]
    BY <2>3, <2>4, <2>8 DEF ChunksOf
  <2>12. SameFile(Cleared, tx, f)
    BY <1>1, <1>2, <2>6, <2>9, <2>10, <2>11, SameRows
  <2>13. QED
    BY <1>2, <2>12, CommittedStatus DEF SameFile
<1>5. QED
  BY <1>1, <1>3, <1>4

\* What it commits for its own: the whole of the content that was read.
LEMMA IndexedFile ==
    ASSUME CommitInvariant, pc = "commit", AtEmbed({})
    PROVE  body \in Contents \ Binary /\ NamesOf(tx, cur) = NodeNames[body]
              /\ Served(tx, cur) = Pieces[body]
<1>1. /\ db \in Database /\ tx \in Database /\ cur \in Files /\ db.fp \in Schemes
      /\ Sound(db)
  BY DEF CommitInvariant, IndexInvariant, TypeOK, InHand, GatePassed, FilePcs
<1>2. Cleared \in Database /\ Sound(Cleared)
  BY <1>1, ClearFilesEffect, ClearFilesSound DEF Cleared
<1>3. PICK name, row : NodesWritten(name) /\ ChunksWritten(name, row)
                          /\ VectorsWritten(row, DOMAIN row \ {})
  BY DEF AtEmbed
<1>4. body \in Contents \ Binary /\ NodeNames[body] \subseteq Names /\ Pieces[body] \subseteq Names \X Texts
      /\ \A p \in Pieces[body] : p[1] \in NodeNames[body]
  BY <1>3, ContentAssumption DEF NodesWritten
<1>5. /\ name \in [DOMAIN name -> NodeNames[body]]
      /\ DOMAIN name \subseteq FreeIds(Cleared.nodes) /\ DOMAIN name \subseteq NodeIds
      /\ \A n \in DOMAIN name : tx.nodes[n] = [file |-> cur, name |-> name[n]]
      /\ NodesOf(tx, {cur}) = DOMAIN name
  BY <1>1, <1>3, NewNodes
<1>6. \A n \in DOMAIN name : tx.nodes[n].name = name[n]
  <2>1. ASSUME NEW n \in DOMAIN name PROVE tx.nodes[n].name = name[n]
    <3>1. tx.nodes[n] = [file |-> cur, name |-> name[n]]
      BY <1>5
    <3>2. QED
      BY <3>1
  <2>2. QED
    BY <2>1
<1>7. \A s \in NodeNames[body] : \E n \in DOMAIN name : name[n] = s
  <2>1. PICK new \in SUBSET FreeIds(Cleared.nodes) : name \in Bijection(new, NodeNames[body])
    BY <1>3 DEF NodesWritten
  <2>2. QED
    BY <2>1 DEF Bijection, Injection, Surjection
<1>8. NamesOf(tx, cur) = NodeNames[body]
  BY <1>5, <1>6, <1>7 DEF NamesOf
<1>9. /\ row \in [DOMAIN row -> RowsOf(name)]
      /\ \A r \in RowsOf(name) : \E c \in DOMAIN row : row[c] = r
      /\ DOMAIN row \subseteq ChunkIds
      /\ \A c \in DOMAIN row : tx.chunks[c] = row[c] /\ tx.fts[c] = row[c].text
      /\ \A c \in ChunkIds \ DOMAIN row : tx.chunks[c] = Cleared.chunks[c]
  BY <1>1, <1>3, NewChunks
<1>10. \A c \in DOMAIN row : /\ row[c].node \in DOMAIN name /\ row[c].text \in Texts
                             /\ <<name[row[c].node], row[c].text>> \in Pieces[body]
  BY <1>9 DEF RowsOf
<1>11. ChunksOf(tx, {cur}) = DOMAIN row
  <2>1. ASSUME NEW c \in ChunkIds \ DOMAIN row, Cleared.chunks[c] # Null
        PROVE  Cleared.chunks[c].node \notin DOMAIN name
    <3>1. Cleared.nodes[Cleared.chunks[c].node] # Null
      BY <1>2, <2>1 DEF Sound
    <3>2. QED
      BY <1>5, <3>1 DEF FreeIds
  <2>2. \A c \in DOMAIN row : tx.chunks[c] # Null
    <3>1. \A c \in DOMAIN row : row[c] \in ChunkRow
      BY <1>5, <1>9 DEF RowsOf, ChunkRow
    <3>2. QED
      BY <1>9, <3>1, NullAssumption
  <2>3. \A c \in DOMAIN row : c \in ChunksOf(tx, {cur})
    BY <1>5, <1>9, <1>10, <2>2 DEF ChunksOf
  <2>4. \A c \in ChunkIds \ DOMAIN row : c \notin ChunksOf(tx, {cur})
    BY <1>5, <1>9, <2>1 DEF ChunksOf
  <2>5. ChunksOf(tx, {cur}) \subseteq ChunkIds
    BY DEF ChunksOf
  <2>6. QED
    BY <1>9, <2>3, <2>4, <2>5
<1>12. \A c \in DOMAIN row : tx.emb[c] # Null /\ tx.fts[c] # Null
  <2>1. ASSUME NEW c \in DOMAIN row PROVE tx.emb[c] # Null
    <3>1. tx.emb[c] = [text |-> row[c].text, scheme |-> db.fp]
      BY <1>3, <1>9 DEF VectorsWritten
    <3>2. [text |-> row[c].text, scheme |-> db.fp] \in Vector
      BY <1>1, <1>10 DEF Vector
    <3>3. QED
      BY <3>1, <3>2, NullAssumption
  <2>2. \A c \in DOMAIN row : tx.fts[c] # Null
    <3>1. \A c \in DOMAIN row : tx.fts[c] = row[c].text /\ row[c].text \in Texts
      BY <1>9, <1>10
    <3>2. QED
      BY <3>1, NullAssumption
  <2>3. QED
    BY <2>1, <2>2
<1>13. \A c \in DOMAIN row : Piece(tx, c) = <<name[row[c].node], row[c].text>>
  BY <1>6, <1>9, <1>10 DEF Piece
<1>14. ASSUME NEW p \in Pieces[body] PROVE \E c \in DOMAIN row : Piece(tx, c) = p
  <2>1. PICK n \in DOMAIN name : name[n] = p[1]
    BY <1>4, <1>7
  <2>2. p = <<name[n], p[2]>> /\ p[2] \in Texts
    BY <1>4, <2>1
  <2>3. [node |-> n, text |-> p[2]] \in RowsOf(name)
    BY <2>1, <2>2 DEF RowsOf
  <2>4. PICK c \in DOMAIN row : row[c] = [node |-> n, text |-> p[2]]
    BY <1>9, <2>3
  <2>5. QED
    BY <1>13, <2>2, <2>4
<1>15. Served(tx, cur) = {Piece(tx, c) : c \in DOMAIN row}
  BY <1>11, <1>12 DEF Served
<1>16. Served(tx, cur) = Pieces[body]
  BY <1>10, <1>13, <1>14, <1>15
<1>17. QED
  BY <1>4, <1>8, <1>16

LEMMA SkippedFile ==
    ASSUME CommitInvariant, pc = "commit", tx = MarkSkipped(Cleared, cur)
    PROVE  NodesOf(tx, {cur}) = {} /\ tx.pstate[cur] = [p \in Passes |-> "skipped"]
<1>1. db \in Database /\ cur \in Files
  BY DEF CommitInvariant, IndexInvariant, TypeOK, InHand, FilePcs
<1>2. Cleared \in Database /\ NodesOf(Cleared, {cur}) = {}
  BY <1>1, ClearFilesEffect, ClearedFiles DEF Cleared
<1>3. tx.nodes = Cleared.nodes
  BY <1>1, <1>2, MarkSkippedEffect
<1>4. tx.pstate[cur] = [p \in Passes |-> "skipped"]
  BY <1>1, <1>2 DEF MarkSkipped, Database
<1>5. QED
  BY <1>2, <1>3, <1>4 DEF NodesOf

LEMMA CommittedWhole ==
    ASSUME CommitInvariant, pc = "commit", NEW f \in Files, WholeFile(db, f)
    PROVE  WholeFile(tx, f)
<1>1. CASE f # cur
  BY <1>1, OthersCommitted, StillWhole
<1>2. CASE f = cur /\ tx = MarkSkipped(Cleared, cur)
  BY <1>2, SkippedFile DEF WholeFile, IsIndexed, Passes
<1>3. CASE f = cur /\ AtEmbed({}) /\ StatusWritten(Passes)
  <2>1. \A p \in Passes : tx.pstate[f][p] = "done"
    BY <1>3 DEF StatusWritten
  <2>2. QED
    BY <1>3, <2>1, IndexedFile DEF WholeFile, IsIndexed, Passes
<1>4. QED
  BY <1>1, <1>2, <1>3 DEF CommitInvariant, Transaction, FilePcs

LEMMA StaysAllOrNothing ==
    ASSUME CommitInvariant, FilesAreAllOrNothing, [Next]_vars
    PROVE  FilesAreAllOrNothing'
<1>1. DatabaseStep
  BY StepsOfTheDatabase
<1>2. /\ db \in Database /\ db' \in Database /\ Sound(db) /\ VectorsMissingOnly(db, {})
      /\ clock \in Nat
  BY CommitInvariantNext DEF CommitInvariant, IndexInvariant, TypeOK
<1>3. ASSUME NEW f \in Files PROVE WholeFile(db', f)
  <2>1. WholeFile(db, f)
    BY AllOrNothingIsWhole
  <2>2. ASSUME NEW rows \in [Files -> WalkRow \cup {Null}],
               db' = UpsertFiles(db, rows, clock)
        PROVE  WholeFile(db', f)
    BY <1>2, <2>1, <2>2, UpsertedWhole
  <2>3. CASE db' = MarkUnseenDeleted(db, startTime)
    BY <1>2, <2>1, <2>3, MarkUnseenDeletedFields, FlaggedWhole
  <2>4. ASSUME NEW v \in Schemes, db' = [db EXCEPT !.fp = v] PROVE WholeFile(db', f)
    <3>1. /\ db'.nodes = db.nodes /\ db'.chunks = db.chunks /\ db'.fts = db.fts
          /\ db'.emb = db.emb /\ db'.pstate = db.pstate
      BY <1>2, <2>4 DEF Database
    <3>2. QED
      BY <1>2, <2>1, <3>1, FlaggedWhole
  <2>5. CASE CommitFile
    BY <2>1, <2>5, CommittedWhole DEF CommitFile, Store
  <2>6. CASE cur \in Files /\ pass \in Passes /\ IsPending(db, cur)
                /\ db' = RecordFailure(db, cur, pass)
    BY <1>2, <2>1, <2>6, FailedWhole
  <2>7. CASE DeleteIndex
    BY <2>7, EmptyWhole DEF DeleteIndex, Store
  <2>8. QED
    BY <1>1, <2>1, <2>2, <2>3, <2>4, <2>5, <2>6, <2>7 DEF DatabaseStep, StatementStep
<1>4. QED
  BY <1>3 DEF FilesAreAllOrNothing, WholeFile, IndexedWith, NamesOf

\* Every committed file is indexed with the whole of one content, or not at all.
THEOREM FilesStayAllOrNothing == Spec => []FilesAreAllOrNothing
<1>1. Init => FilesAreAllOrNothing
  BY EmptyWhole DEF Init, FilesAreAllOrNothing, WholeFile, IndexedWith, NamesOf
<1>2. CommitInvariant /\ FilesAreAllOrNothing /\ [Next]_vars => FilesAreAllOrNothing'
  BY StaysAllOrNothing
<1>3. QED
  BY <1>1, <1>2, CommitInvariantHolds, PTL DEF Spec

-----------------------------------------------------------------------------
(* Every step of the database is a commit of IndexWriter.                  *)

\* The statements of IndexWriter are those of IndexRun.
LEMMA SameStatements ==
    /\ Writer!Passes = Passes /\ Writer!WalkRow = WalkRow /\ Writer!EmptyDatabase = EmptyDatabase
    /\ \A t, k : Writer!Without(t, k) = Without(t, k)
    /\ \A t, r : Writer!With(t, r) = With(t, r)
    /\ \A t : Writer!FreeIds(t) = FreeIds(t)
    /\ \A s, t : Writer!Bijection(s, t) = Bijection(s, t)
    /\ \A d, F : Writer!NodesOf(d, F) = NodesOf(d, F)
    /\ \A d, f : Writer!IsLive(d, f) = IsLive(d, f)
    /\ \A d, f : Writer!IsPending(d, f) = IsPending(d, f)
    /\ \A d, v : Writer!FingerprintAccepts(d, v) = FingerprintAccepts(d, v)
<1>1. \A s, t : Writer!Injection(s, t) = Injection(s, t) /\ Writer!Surjection(s, t) = Surjection(s, t)
  BY DEF Writer!Injection, Injection, Writer!Surjection, Surjection, Writer!IsInjective, IsInjective
<1>2. \A s, t : Writer!Bijection(s, t) = Bijection(s, t)
  BY <1>1 DEF Writer!Bijection, Bijection
<1>3. Writer!Passes = Passes /\ Writer!WalkRow = WalkRow
  BY DEF Writer!Passes, Passes, Writer!WalkRow, WalkRow, Writer!Classes, Classes
<1>4. Writer!EmptyDatabase = EmptyDatabase
  BY DEF Writer!EmptyDatabase, EmptyDatabase, Writer!Passes, Passes
<1>5. \A d, f : Writer!IsLive(d, f) = IsLive(d, f)
  BY DEF Writer!IsLive, IsLive
<1>6. \A d, f : Writer!IsPending(d, f) = IsPending(d, f)
  BY <1>5 DEF Writer!IsPending, IsPending
<1>7. QED
  BY <1>2, <1>3, <1>4, <1>5, <1>6
     DEF Writer!Without, Without, Writer!With, With, Writer!FreeIds, FreeIds, Writer!NodesOf,
         NodesOf, Writer!FingerprintAccepts, FingerprintAccepts

LEMMA SameDeletes ==
    ASSUME NEW d, NEW F
    PROVE  Writer!ClearFiles(d, F) = ClearFiles(d, F)
<1>1. \A e : Writer!ChunksOf(e, F) = ChunksOf(e, F)
  BY SameStatements DEF Writer!ChunksOf, ChunksOf
<1>2. \A e : Writer!DeleteVectors(e, F) = DeleteVectors(e, F)
  BY <1>1, SameStatements DEF Writer!DeleteVectors, DeleteVectors
<1>3. \A e : Writer!DeleteStatus(e, F) = DeleteStatus(e, F)
  BY SameStatements DEF Writer!DeleteStatus, DeleteStatus
<1>4. \A e : Writer!DeleteNodes(e, F) = DeleteNodes(e, F)
  BY <1>1, SameStatements DEF Writer!DeleteNodes, DeleteNodes
<1>5. QED
  BY <1>2, <1>3, <1>4 DEF Writer!ClearFiles, ClearFiles

LEMMA SameWrites ==
    /\ \A d, rows, now : Writer!UpsertFiles(d, rows, now) = UpsertFiles(d, rows, now)
    /\ \A d, start : Writer!MarkUnseenDeleted(d, start) = MarkUnseenDeleted(d, start)
    /\ \A d, f, p : Writer!RecordFailure(d, f, p) = RecordFailure(d, f, p)
    /\ \A d, f : Writer!MarkSkipped(d, f) = MarkSkipped(d, f)
    /\ \A d, rows : Writer!InsertNodes(d, rows) = InsertNodes(d, rows)
    /\ \A d, rows : Writer!InsertChunks(d, rows) = InsertChunks(d, rows)
    /\ \A d, buffer, v : Writer!WriteBatch(d, buffer, v) = WriteBatch(d, buffer, v)
<1>1. ASSUME NEW d, NEW flushed, NEW now
      PROVE  Writer!UpsertFiles(d, flushed, now) = UpsertFiles(d, flushed, now)
  <2> DEFINE rows == {f \in Files : flushed[f] # Null}
             changed == {f \in rows : d.files[f] # Null /\ d.files[f].sha # flushed[f].sha}
             new(e) == [e EXCEPT !.files = [f \in Files |->
                           IF f \in rows
                           THEN [sha |-> flushed[f].sha, class |-> flushed[f].class,
                                 seen |-> now, deleted |-> FALSE]
                           ELSE @[f]]]
  <2>1. Writer!ClearFiles(d, changed) = ClearFiles(d, changed)
    BY SameDeletes
  <2>2. /\ Writer!UpsertFiles(d, flushed, now) = new(Writer!ClearFiles(d, changed))
        /\ UpsertFiles(d, flushed, now) = new(ClearFiles(d, changed))
    BY DEF Writer!UpsertFiles, UpsertFiles
  <2>3. QED
    BY <2>1, <2>2
<1>2. \A d, start : Writer!MarkUnseenDeleted(d, start) = MarkUnseenDeleted(d, start)
  BY SameStatements DEF Writer!MarkUnseenDeleted, MarkUnseenDeleted
<1>3. \A d, f, p : Writer!RecordFailure(d, f, p) = RecordFailure(d, f, p)
  BY DEF Writer!RecordFailure, RecordFailure, Writer!MarkStatus, MarkStatus
<1>4. \A d, f : Writer!MarkSkipped(d, f) = MarkSkipped(d, f)
  BY SameStatements DEF Writer!MarkSkipped, MarkSkipped
<1>5. \A d, rows : Writer!InsertNodes(d, rows) = InsertNodes(d, rows)
  BY SameStatements DEF Writer!InsertNodes, InsertNodes
<1>6. \A d, rows : Writer!InsertChunks(d, rows) = InsertChunks(d, rows)
  BY SameStatements DEF Writer!InsertChunks, InsertChunks
<1>7. \A d, buffer, v : Writer!WriteBatch(d, buffer, v) = WriteBatch(d, buffer, v)
  BY DEF Writer!WriteBatch, WriteBatch
<1>8. QED
  BY <1>1, <1>2, <1>3, <1>4, <1>5, <1>6, <1>7

\* The statements of a file transaction come to one record.
LEMMA IndexedRecord ==
    ASSUME NEW d \in Database, NEW e \in Database, e.files = d.files, e.fp = d.fp
    PROVE  e = [d EXCEPT !.nodes = e.nodes, !.chunks = e.chunks, !.fts = e.fts,
                         !.emb = e.emb, !.pstate = e.pstate]
<1>1. /\ e = [files |-> e.files, nodes |-> e.nodes, chunks |-> e.chunks,
              fts |-> e.fts, emb |-> e.emb, pstate |-> e.pstate, fp |-> e.fp]
      /\ d = [files |-> d.files, nodes |-> d.nodes, chunks |-> d.chunks,
              fts |-> d.fts, emb |-> d.emb, pstate |-> d.pstate, fp |-> d.fp]
  BY DatabaseFields
<1>2. QED
  BY <1>1

LEMMA CommitsIndexed ==
    ASSUME CommitInvariant, pc = "commit", db' = tx, AtEmbed({}), StatusWritten(Passes)
    PROVE  body \in Contents \ Binary /\ Writer!CommitIndexed(cur, body)
<1>1. /\ db \in Database /\ tx \in Database /\ cur \in Files /\ db.fp \in Schemes
      /\ IsPending(db, cur) /\ tx.files = db.files /\ tx.fp = db.fp /\ db.fp # Null
  BY DEF CommitInvariant, Transaction, IndexInvariant, TypeOK, InHand, GatePassed, FilePcs
<1>2. /\ Cleared \in Database /\ Cleared.files = db.files /\ Cleared.fp = db.fp
      /\ Writer!Cleared(cur) = Cleared
  BY <1>1, ClearFilesEffect, SameDeletes DEF Cleared, Writer!Cleared
<1>3. PICK name, row : NodesWritten(name) /\ ChunksWritten(name, row)
                          /\ VectorsWritten(row, DOMAIN row \ {})
  BY DEF AtEmbed
<1>4. body \in Contents \ Binary
  BY <1>3 DEF NodesWritten
<1>5. PICK new \in SUBSET FreeIds(Cleared.nodes) : name \in Bijection(new, NodeNames[body])
  BY <1>3 DEF NodesWritten
<1>6. DOMAIN name = new
  BY <1>5 DEF Bijection, Injection
<1>7. PICK fresh \in SUBSET FreeIds(Cleared.chunks) : row \in Bijection(fresh, RowsOf(name))
  BY <1>3 DEF ChunksWritten
<1>8. DOMAIN row = fresh /\ row \in [fresh -> RowsOf(name)] /\ fresh \subseteq ChunkIds
  BY <1>2, <1>7 DEF Bijection, Injection, FreeIds, Database
<1> DEFINE rows == {r \in [node : new, text : Texts] : <<name[r.node], r.text>> \in Pieces[body]}
           noded == InsertNodes(Cleared, [n \in new |-> [file |-> cur, name |-> name[n]]])
           chunked == InsertChunks(noded, row)
           buffer == [k \in ChunkIds |-> IF k \in fresh THEN row[k].text ELSE Null]
           filled == WriteBatch(chunked, buffer, db.fp)
           done == [filled EXCEPT !.pstate[cur] = [p \in Passes |-> "done"]]
<1>9. rows = RowsOf(name)
  BY <1>6 DEF RowsOf
<1>10. noded = [Cleared EXCEPT !.nodes = tx.nodes]
  <2>1. tx.nodes = With(Cleared.nodes, [n \in new |-> [file |-> cur, name |-> name[n]]])
    BY <1>3, <1>6 DEF NodesWritten, NodeRows
  <2>2. QED
    BY <1>2, <2>1 DEF InsertNodes
<1>11. chunked = [Cleared EXCEPT !.nodes = tx.nodes, !.chunks = tx.chunks, !.fts = tx.fts]
  BY <1>2, <1>3, <1>10 DEF InsertChunks, ChunksWritten, Database
<1>12. filled = [Cleared EXCEPT !.nodes = tx.nodes, !.chunks = tx.chunks, !.fts = tx.fts,
                                !.emb = tx.emb]
  <2>1. tx.emb = [c \in ChunkIds |-> IF buffer[c] # Null THEN [text |-> buffer[c], scheme |-> db.fp]
                                     ELSE chunked.emb[c]]
    <3>1. chunked.emb = Cleared.emb
      BY <1>2, <1>11 DEF Database
    <3>2. \A c \in fresh : row[c].text # Null
      <4>1. \A r \in RowsOf(name) : r.text \in Texts
        BY DEF RowsOf
      <4>2. \A c \in fresh : row[c] \in RowsOf(name)
        BY <1>8
      <4>3. Null \notin Texts
        BY NullAssumption
      <4>4. QED
        BY <4>1, <4>2, <4>3
    <3>3. \A c \in ChunkIds : buffer[c] # Null <=> c \in fresh
      BY <3>2
    <3>4. \A c \in fresh : buffer[c] = row[c].text
      BY <1>8
    <3>5. \A c \in ChunkIds :
            (IF c \in fresh THEN [text |-> row[c].text, scheme |-> db.fp] ELSE Cleared.emb[c])
              = (IF buffer[c] # Null THEN [text |-> buffer[c], scheme |-> db.fp]
                 ELSE chunked.emb[c])
      <4> HIDE DEF buffer, chunked
      <4>1. QED
        BY <3>1, <3>3, <3>4
    <3>6. tx.emb = [c \in ChunkIds |-> IF c \in fresh THEN [text |-> row[c].text, scheme |-> db.fp]
                                       ELSE Cleared.emb[c]]
      BY <1>3, <1>8 DEF VectorsWritten
    <3> HIDE DEF buffer, chunked
    <3>7. QED
      BY <3>5, <3>6
  <2>2. filled = [chunked EXCEPT !.emb = tx.emb]
    BY <1>2, <1>11, <2>1 DEF WriteBatch, Database
  <2> HIDE DEF chunked
  <2>3. QED
    BY <1>2, <1>11, <2>2 DEF Database
<1>13. tx = done
  <2>1. tx.pstate = [Cleared.pstate EXCEPT ![cur] = [p \in Passes |-> "done"]]
    <3>1. tx.pstate \in [Files -> [Passes -> Statuses]] /\ Cleared.pstate \in [Files -> [Passes -> Statuses]]
      BY <1>1, <1>2 DEF Database
    <3>2. tx.pstate[cur] = [p \in Passes |-> "done"]
      BY <1>1, <3>1 DEF StatusWritten
    <3>3. \A f \in Files \ {cur} : tx.pstate[f] = Cleared.pstate[f]
      BY DEF StatusWritten
    <3>4. QED
      BY <1>1, <3>1, <3>2, <3>3
  <2>2. done = [Cleared EXCEPT !.nodes = tx.nodes, !.chunks = tx.chunks, !.fts = tx.fts,
                               !.emb = tx.emb, !.pstate = tx.pstate]
    <3> HIDE DEF filled
    <3>1. QED
      BY <1>2, <1>12, <2>1 DEF Database
  <2>3. tx = [Cleared EXCEPT !.nodes = tx.nodes, !.chunks = tx.chunks, !.fts = tx.fts,
                             !.emb = tx.emb, !.pstate = tx.pstate]
    <3>1. tx.files = Cleared.files /\ tx.fp = Cleared.fp
      BY <1>1, <1>2
    <3>2. tx \in Database /\ Cleared \in Database
      BY <1>1, <1>2
    <3> HIDE DEF done
    <3>3. QED
      BY <3>1, <3>2, IndexedRecord
  <2> HIDE DEF done
  <2>4. QED
    BY <2>2, <2>3
<1>14. /\ Writer!InsertNodes(Writer!Cleared(cur), [n \in new |-> [file |-> cur, name |-> name[n]]]) = noded
       /\ Writer!InsertChunks(noded, row) = chunked
       /\ Writer!WriteBatch(chunked, buffer, db.fp) = filled
  BY <1>2, SameWrites
<1>15. fresh \in SUBSET Writer!FreeIds(noded.chunks) /\ row \in Writer!Bijection(fresh, rows)
  <2>1. noded.chunks = Cleared.chunks
    BY <1>2, <1>10 DEF Database
  <2> HIDE DEF noded, rows
  <2>2. QED
    BY <1>7, <1>9, <2>1, SameStatements
<1>16. new \in SUBSET Writer!FreeIds(Writer!Cleared(cur).nodes)
          /\ name \in Writer!Bijection(new, NodeNames[body])
  BY <1>2, <1>5, SameStatements
<1>17. Writer!IsPending(db, cur) /\ Writer!Passes = Passes
  BY <1>1, SameStatements
<1>18. db' = [filled EXCEPT !.pstate[cur] = [p \in Writer!Passes |-> "done"]]
  BY <1>13, <1>17
<1> HIDE DEF rows, noded, chunked, buffer, filled
<1> DEFINE start == Writer!InsertNodes(Writer!Cleared(cur), [n \in new |-> [file |-> cur, name |-> name[n]]])
           texts(under, made) == [k \in ChunkIds |-> IF k \in under THEN made[k].text ELSE Null]
           result(under, made) ==
              [Writer!WriteBatch(Writer!InsertChunks(start, made), texts(under, made), db.fp)
                  EXCEPT !.pstate[cur] = [p \in Writer!Passes |-> "done"]]
<1>19. fresh \in SUBSET Writer!FreeIds(start.chunks) /\ db' = result(fresh, row)
  BY <1>14, <1>15, <1>18 DEF buffer
<1> HIDE DEF start, texts, result
<1>20. \E under \in SUBSET Writer!FreeIds(start.chunks) :
       \E made \in Writer!Bijection(under, rows) : db' = result(under, made)
  BY <1>15, <1>19
<1>21. \E under \in SUBSET Writer!FreeIds(start.chunks) :
       \E made \in Writer!Bijection(under, rows) :
          LET buf == [k \in ChunkIds |-> IF k \in under THEN made[k].text ELSE Null]
              full == Writer!WriteBatch(Writer!InsertChunks(start, made), buf, db.fp)
          IN  db' = [full EXCEPT !.pstate[cur] = [p \in Writer!Passes |-> "done"]]
  BY <1>20 DEF texts, result
<1>22. \E n \in SUBSET Writer!FreeIds(Writer!Cleared(cur).nodes) :
       \E called \in Writer!Bijection(n, NodeNames[body]) :
          LET noded1 == Writer!InsertNodes(Writer!Cleared(cur),
                                           [k \in n |-> [file |-> cur, name |-> called[k]]])
              rows1 == {r \in [node : n, text : Texts] : <<called[r.node], r.text>> \in Pieces[body]}
          IN  \E under \in SUBSET Writer!FreeIds(noded1.chunks) :
              \E made \in Writer!Bijection(under, rows1) :
                 LET buf == [k \in ChunkIds |-> IF k \in under THEN made[k].text ELSE Null]
                     full == Writer!WriteBatch(Writer!InsertChunks(noded1, made), buf, db.fp)
                 IN  db' = [full EXCEPT !.pstate[cur] = [p \in Writer!Passes |-> "done"]]
  <2> /\ new \in SUBSET Writer!FreeIds(Writer!Cleared(cur).nodes)
      /\ name \in Writer!Bijection(new, NodeNames[body])
    BY <1>16
  <2> WITNESS new \in SUBSET Writer!FreeIds(Writer!Cleared(cur).nodes)
  <2> WITNESS name \in Writer!Bijection(new, NodeNames[body])
  <2> QED
    BY <1>21 DEF start, rows
<1>23. QED
  BY <1>1, <1>4, <1>17, <1>22 DEF Writer!CommitIndexed

LEMMA EveryStepIsACommit ==
    ASSUME CommitInvariant, [Next]_vars
    PROVE  [Writer!WriterNext]_db
<1>1. DatabaseStep
  BY StepsOfTheDatabase
<1>2. ASSUME NEW rows \in [Files -> WalkRow \cup {Null}], db' = UpsertFiles(db, rows, clock)
      PROVE  Writer!Commit
  BY <1>2, SameStatements, SameWrites
     DEF Writer!Commit, Writer!Upsert, CommitInvariant, Clocks, Seconds
<1>3. ASSUME db' = MarkUnseenDeleted(db, startTime) PROVE Writer!Commit
  BY <1>3, SameWrites DEF Writer!Commit, Writer!Reconcile, CommitInvariant, Clocks, Seconds
<1>4. ASSUME NEW v \in Schemes, FingerprintAccepts(db, v), db' = [db EXCEPT !.fp = v]
      PROVE  Writer!Commit
  BY <1>4, SameStatements DEF Writer!Commit, Writer!WriteFingerprint
<1>5. CASE CommitFile
  <2>1. cur \in Files /\ IsPending(db, cur) /\ pc = "commit" /\ db' = tx
    BY <1>5 DEF CommitFile, Store, CommitInvariant, Transaction, IndexInvariant, InHand, FilePcs
  <2>2. CASE tx = MarkSkipped(Cleared, cur)
    <3>1. Writer!CommitSkipped(cur)
      BY <2>1, <2>2, SameStatements, SameDeletes, SameWrites
         DEF Cleared, Writer!Cleared, Writer!CommitSkipped
    <3>2. QED
      BY <2>1, <3>1 DEF Writer!Commit, Writer!WriterNext
  <2>3. CASE AtEmbed({}) /\ StatusWritten(Passes)
    <3>1. body \in Contents \ Binary /\ Writer!CommitIndexed(cur, body)
      BY <2>1, <2>3, CommitsIndexed
    <3>2. QED
      BY <2>1, <3>1 DEF Writer!Commit, Writer!WriterNext
  <2>4. QED
    BY <2>1, <2>2, <2>3 DEF CommitInvariant, Transaction, FilePcs
<1>6. CASE cur \in Files /\ pass \in Passes /\ IsPending(db, cur)
              /\ db' = RecordFailure(db, cur, pass)
  <2>1. Writer!CommitFailure(cur, pass)
    BY <1>6, SameStatements, SameWrites DEF IsPending, Writer!CommitFailure
  <2>2. QED
    BY <1>6, <2>1, SameStatements DEF Writer!Commit, Writer!WriterNext
<1>7. CASE DeleteIndex
  BY <1>7, SameStatements DEF DeleteIndex, Store, Writer!WriterNext, Writer!Recreate
<1>8. QED
  BY <1>1, <1>2, <1>3, <1>4, <1>5, <1>6, <1>7
     DEF DatabaseStep, StatementStep, Writer!WriterNext

\* The pipeline implements IndexWriter: between one commit and the next a reader sees nothing.
THEOREM CommitsAreAlwaysWhole == Spec => CommitsAreWhole
<1>1. Init => Writer!WriterInit
  BY SameStatements DEF Init, Writer!WriterInit
<1>2. CommitInvariant /\ [Next]_vars => [Writer!WriterNext]_db
  BY EveryStepIsACommit
<1>3. QED
  BY <1>1, <1>2, CommitInvariantHolds, PTL DEF Spec, CommitsAreWhole, Writer!WriterSpec

-----------------------------------------------------------------------------
(* The pipeline implements IndexContract.                                  *)

Shown(d) == [f \in Files |-> PublishedFor(d, f)]

LEMMA SameShown ==
    ASSUME NEW d, NEW e, NEW f \in Files, SameFile(d, e, f)
    PROVE  PublishedFor(e, f) = PublishedFor(d, f)
  BY DEF SameFile, PublishedFor, NamesOf

\* What is taken from some files is withdrawn, the others keep what they show.
LEMMA Withdrawn ==
    ASSUME NEW F \in SUBSET Files,
           \A f \in Files : IF f \in F THEN NodesOf(db', {f}) = {} ELSE SameFile(db, db', f)
    PROVE  Contract!Next
<1>1. Shown(db') = [f \in Files |-> IF f \in F THEN Null ELSE Shown(db)[f]]
  <2>1. ASSUME NEW f \in Files
        PROVE  PublishedFor(db', f) = IF f \in F THEN Null ELSE PublishedFor(db, f)
    <3>1. CASE f \in F
      BY <3>1 DEF PublishedFor
    <3>2. CASE f \notin F
      BY <3>2, SameShown
    <3>3. QED
      BY <3>1, <3>2
  <2>2. QED
    BY <2>1 DEF Shown
<1>2. Contract!Withdraw(F)
  BY <1>1 DEF Contract!Withdraw, Shown
<1>3. QED
  BY <1>2 DEF Contract!Next

LEMMA Kept ==
    ASSUME \A f \in Files : SameFile(db, db', f)
    PROVE  Contract!Next
<1>1. \A f \in Files : IF f \in {} THEN NodesOf(db', {f}) = {} ELSE SameFile(db, db', f)
  OBVIOUS
<1>2. {} \in SUBSET Files
  OBVIOUS
<1>3. QED
  BY <1>1, <1>2, Withdrawn

LEMMA CommitPublishes ==
    ASSUME CommitInvariant, FilesAreAllOrNothing, pc = "commit", db' = tx
    PROVE  Contract!Next
<1>1. /\ cur \in Files /\ IsPending(db, cur)
      /\ tx = MarkSkipped(Cleared, cur) \/ AtEmbed({})
  BY DEF CommitInvariant, Transaction, IndexInvariant, InHand, FilePcs
<1>2. CASE tx = MarkSkipped(Cleared, cur)
  <2>1. \A f \in Files : IF f \in {cur} THEN NodesOf(db', {f}) = {} ELSE SameFile(db, db', f)
    BY <1>1, <1>2, SkippedFile, OthersCommitted
  <2>2. QED
    BY <1>1, <2>1, Withdrawn
<1>3. CASE AtEmbed({})
  <2>1. body \in Contents \ Binary /\ NamesOf(tx, cur) = NodeNames[body]
           /\ Served(tx, cur) = Pieces[body]
    BY <1>3, IndexedFile
  <2>2. NodesOf(tx, {cur}) # {}
    <3>1. NodeNames[body] # {}
      BY <2>1, ContentAssumption
    <3>2. QED
      BY <2>1, <3>1 DEF NamesOf
  <2>3. PublishedFor(tx, cur) = Edition(body)
    BY <2>1, <2>2 DEF PublishedFor, Edition, NamesOf
  <2>4. PublishedFor(db, cur) = Null
    BY <1>1 DEF FilesAreAllOrNothing, IsIndexed, IsPending, PublishedFor
  <2>5. Shown(tx) = [Shown(db) EXCEPT ![cur] = Edition(body)]
    <3>1. \A f \in Files \ {cur} : PublishedFor(tx, f) = PublishedFor(db, f)
      BY OthersCommitted, SameShown
    <3>2. QED
      BY <1>1, <2>3, <3>1 DEF Shown
  <2>6. Contract!Publish(cur, Edition(body))
    BY <1>1, <2>4, <2>5 DEF Contract!Publish, Shown
  <2>7. QED
    BY <1>1, <2>1, <2>6 DEF Contract!Next
<1>4. QED
  BY <1>1, <1>2, <1>3

LEMMA EveryStepPublishes ==
    ASSUME CommitInvariant, FilesAreAllOrNothing, [Next]_vars
    PROVE  Contract!Next
<1>1. DatabaseStep
  BY StepsOfTheDatabase
<1>2. /\ db \in Database /\ db' \in Database /\ Sound(db) /\ VectorsMissingOnly(db, {})
  BY CommitInvariantNext DEF CommitInvariant, IndexInvariant, TypeOK
<1>3. ASSUME NEW rows \in [Files -> WalkRow \cup {Null}], db' = UpsertFiles(db, rows, clock)
      PROVE  Contract!Next
  <2> DEFINE F == Changed(db, rows)
  <2>1. /\ F \in SUBSET Files
        /\ LET base == ClearFiles(db, F)
           IN  /\ db'.nodes = base.nodes /\ db'.chunks = base.chunks /\ db'.fts = base.fts
               /\ db'.emb = base.emb
    BY <1>2, <1>3, UpsertFilesFields
  <2> HIDE DEF F
  <2>2. ClearFiles(db, F) \in Database
    BY <1>2, <2>1, ClearFilesEffect
  <2>3. ASSUME NEW f \in Files
        PROVE  IF f \in F THEN NodesOf(db', {f}) = {} ELSE SameFile(db, db', f)
    <3>1. SameFile(ClearFiles(db, F), db', f)
      BY <1>2, <2>1, <2>2, SameTables
    <3>2. QED
      BY <1>2, <2>1, <3>1, ClearedFiles DEF SameFile
  <2>4. QED
    BY <2>1, <2>3, Withdrawn
<1>4. CASE /\ db'.nodes = db.nodes /\ db'.chunks = db.chunks /\ db'.fts = db.fts
           /\ db'.emb = db.emb
  BY <1>2, <1>4, SameTables, Kept
<1>5. CASE db' = MarkUnseenDeleted(db, startTime)
  BY <1>2, <1>4, <1>5, MarkUnseenDeletedFields
<1>6. ASSUME NEW v \in Schemes, db' = [db EXCEPT !.fp = v] PROVE Contract!Next
  BY <1>2, <1>4, <1>6 DEF Database
<1>7. CASE cur \in Files /\ pass \in Passes /\ db' = RecordFailure(db, cur, pass)
  <2>1. "failed" \in Statuses
    BY DEF Statuses
  <2>2. /\ db'.nodes = db.nodes /\ db'.chunks = db.chunks /\ db'.fts = db.fts
        /\ db'.emb = db.emb
    <3>1. db' = MarkStatus(db, cur, pass, "failed")
      BY <1>7 DEF RecordFailure
    <3>2. db \in Database /\ cur \in Files /\ pass \in Passes
      BY <1>2, <1>7
    <3>3. LET e == MarkStatus(db, cur, pass, "failed")
          IN  e.nodes = db.nodes /\ e.chunks = db.chunks /\ e.fts = db.fts /\ e.emb = db.emb
      BY <2>1, <3>2, MarkStatusEffect
    <3>4. QED
      BY <3>1, <3>3
  <2>3. QED
    BY <1>4, <2>2
<1>8. CASE DeleteIndex
  <2>1. \A f \in Files : IF f \in Files THEN NodesOf(db', {f}) = {} ELSE SameFile(db, db', f)
    BY <1>8, EmptyWhole DEF DeleteIndex, Store
  <2>2. QED
    BY <2>1, Withdrawn
<1>9. CASE CommitFile
  BY <1>9, CommitPublishes DEF CommitFile, Store
<1>10. CASE db' = db
  BY <1>4, <1>10
<1>11. QED
  BY <1>1, <1>3, <1>5, <1>6, <1>7, <1>8, <1>9, <1>10 DEF DatabaseStep, StatementStep

\* The pipeline implements IndexContract: a reader sees an edition appear and disappear whole.
THEOREM PublishesOnlyWholeEditions == Spec => PublishesWholeEditions
<1>1. Init => Contract!Init
  <2>1. ASSUME Init, NEW f \in Files PROVE PublishedFor(db, f) = Null
    BY <2>1, EmptyWhole DEF Init, PublishedFor
  <2>2. QED
    BY <2>1 DEF Contract!Init
<1>2. CommitInvariant /\ FilesAreAllOrNothing /\ [Next]_vars => Contract!Next
  BY EveryStepPublishes
<1>3. QED
  BY <1>1, <1>2, CommitInvariantHolds, FilesStayAllOrNothing, PTL
     DEF Spec, PublishesWholeEditions, Contract!Spec

-----------------------------------------------------------------------------
(* What a run that ends has tried, and what it tells of it.                *)

\* If all that a query returned was attempted, its limit did not bind.
LEMMA LimitNotReached ==
    ASSUME IndexInvariant, NEW S \in PendingFiles(db, Cardinality(attempted) + FetchSize),
           S \subseteq attempted
    PROVE  \A f \in Files : IsPending(db, f) => f \in attempted
<1>1. IsFiniteSet(attempted) /\ Cardinality(attempted) \in Nat
  BY FilesAssumption, FS_Subset, FS_CardinalityType DEF IndexInvariant, TypeOK
<1>2. Cardinality(S) <= Cardinality(attempted) /\ Cardinality(S) \in Nat
  BY <1>1, FS_Subset, FS_CardinalityType
<1>3. Cardinality(S) # Cardinality(attempted) + FetchSize
  BY <1>1, <1>2, SizesAssumption
<1>4. S = {f \in Files : IsPending(db, f)}
  BY <1>3 DEF PendingFiles
<1>5. QED
  BY <1>4

LEMMA StaysAttempted ==
    ASSUME IndexInvariant, EveryPendingFileAttempted, [Next]_vars
    PROVE  EveryPendingFileAttempted'
<1> SUFFICES ASSUME pc' = "summary"
             PROVE  (\A f \in Files : IsPending(db, f) => f \in attempted)'
  BY DEF EveryPendingFileAttempted
<1>1. CASE FetchPending
  <2>1. /\ UNCHANGED <<db, attempted>>
        /\ \E S \in PendingFiles(db, Cardinality(attempted) + FetchSize) : S \subseteq attempted
    BY <1>1 DEF FetchPending, storeVars
  <2>2. QED
    BY <2>1, LimitNotReached
<1>2. CASE ~FetchPending
  <2>1. pc = "summary" /\ UNCHANGED <<db, attempted>>
    BY <1>2 DEF Next, RunnerStep, EnvironmentStep, HashFile, SkipUnhashed, SkipUnclassified,
         PassOver, BeginFile, ClassifyFile, FinishWalk, ReconcileDeletions, EnsureFingerprint,
         RefuseFingerprint, SkipOther, ReadFile, RunStructural, RunChunker,
         BufferChunk, FlushEmbedBatch, FinishEmbeddings, CommitFile, FailFile, NextFile,
         FailFileUnrecorded, FinishRun, StartRun, Interrupt, Edit, Tick, DeleteIndex, ForgetRun,
         Store, vars, storeVars, loopVars
  <2>2. QED
    BY <2>1 DEF EveryPendingFileAttempted
<1>3. QED
  BY <1>1, <1>2

\* The growing limit reaches every pending file, however many fail or are skipped.
THEOREM EveryPendingFileIsAttempted == Spec => []EveryPendingFileAttempted
<1>1. Init => EveryPendingFileAttempted
  BY DEF Init, EveryPendingFileAttempted
<1>2. IndexInvariant /\ EveryPendingFileAttempted /\ [Next]_vars => EveryPendingFileAttempted'
  BY StaysAttempted
<1>3. QED
  BY <1>1, <1>2, IndexInvariantHolds, PTL DEF Spec

\* The run has a row to show for f.
Told(d, f) == IsIndexed(d, f) \/ \E p \in Passes : d.pstate[f][p] \in {"failed", "skipped"}

Reported ==
    /\ pc \in {"loop", "summary"} => \A f \in attempted \ unlogged : Told(db, f)
    /\ pc \in FilePcs => \A f \in (attempted \ unlogged) \ {cur} : Told(db, f)
    /\ pc \notin {"loop", "summary"} \cup FilePcs => attempted = {}

LEMMA TellsOfTheFile ==
    ASSUME CommitInvariant, Reported, CommitFile \/ FailFile \/ FailFileUnrecorded
    PROVE  Reported'
<1>1. /\ pc \in FilePcs /\ pc' = "loop" /\ attempted' = attempted /\ unlogged \subseteq unlogged'
      /\ attempted \subseteq Files /\ cur \in Files /\ db \in Database
  BY DEF CommitFile, FailFile, FailFileUnrecorded, NextFile, loopVars, CommitInvariant,
         IndexInvariant, TypeOK, InHand, FilePcs
<1>2. \A f \in Files \ {cur} : db'.pstate[f] = db.pstate[f]
  <2>1. CASE CommitFile
    BY <2>1, CommittedStatus DEF CommitFile, Store
  <2>2. CASE FailFile \/ FailFileUnrecorded
    BY <2>2, FailureFields
  <2>3. QED
    BY <2>1, <2>2
<1>3. \A f \in (attempted \ unlogged) \ {cur} : Told(db', f)
  BY <1>1, <1>2 DEF Reported, Told, IsIndexed
<1>4. cur \in unlogged' \/ Told(db', cur)
  <2>1. CASE CommitFile
    <3>1. pc = "commit" /\ db' = tx
      BY <2>1 DEF CommitFile, Store
    <3>2. CASE tx = MarkSkipped(Cleared, cur)
      BY <3>1, <3>2, SkippedFile DEF Told, Passes
    <3>3. CASE StatusWritten(Passes)
      BY <3>1, <3>3 DEF StatusWritten, Told, IsIndexed, Passes
    <3>4. QED
      BY <3>1, <3>2, <3>3 DEF CommitInvariant, Transaction, FilePcs
  <2>2. CASE FailFile
    <3>1. db' = MarkStatus(db, cur, pass, "failed") /\ pass \in Passes
      BY <2>2 DEF FailFile, Store, RecordFailure, CommitInvariant, IndexInvariant, TypeOK
    <3>2. MarkStatus(db, cur, pass, "failed").pstate[cur][pass] = "failed"
      BY <1>1, <3>1 DEF MarkStatus, Database
    <3>3. QED
      BY <3>1, <3>2 DEF Told
  <2>3. CASE FailFileUnrecorded
    BY <2>3 DEF FailFileUnrecorded
  <2>4. QED
    BY <2>1, <2>2, <2>3
<1>5. \A f \in attempted \ unlogged' : Told(db', f)
  BY <1>1, <1>3, <1>4
<1>6. QED
  BY <1>1, <1>5 DEF Reported, FilePcs

LEMMA StaysReported ==
    ASSUME CommitInvariant, Reported, [Next]_vars
    PROVE  Reported'
<1>1. CASE CommitFile \/ FailFile \/ FailFileUnrecorded
  BY <1>1, TellsOfTheFile
<1>2. CASE \E f \in Files : BeginFile(f)
  BY <1>2 DEF BeginFile, Reported, FilePcs, obsVars
<1>3. CASE \/ SkipOther \/ ReadFile \/ RunStructural \/ RunChunker
           \/ \E c \in ChunkIds : BufferChunk(c)
           \/ FlushEmbedBatch \/ FinishEmbeddings
  <2>1. pc \in FilePcs /\ pc' \in FilePcs /\ UNCHANGED <<db, cur, attempted, unlogged>>
    BY <1>3 DEF SkipOther, ReadFile, RunStructural, RunChunker, BufferChunk, FlushEmbedBatch,
                FinishEmbeddings, FilePcs, storeVars, loopVars, fileVars, obsVars
  <2>2. QED
    BY <2>1 DEF Reported, FilePcs
<1>4. CASE \/ \E f \in Files : HashFile(f) \/ SkipUnhashed(f)
           \/ SkipUnclassified \/ ClassifyFile \/ FinishWalk \/ ReconcileDeletions
           \/ EnsureFingerprint \/ \E v \in Schemes : StartRun(v)
           \/ DeleteIndex
  <2>1. pc \notin {"loop", "summary"} \cup FilePcs /\ pc' \notin FilePcs /\ attempted' = attempted
    BY <1>4 DEF HashFile, SkipUnhashed, SkipUnclassified, PassOver, ClassifyFile, FinishWalk,
                ReconcileDeletions, EnsureFingerprint, StartRun, DeleteIndex, FilePcs, loopVars
  <2>2. QED
    BY <2>1 DEF Reported
<1>5. CASE RefuseFingerprint \/ FinishRun \/ Interrupt
  BY <1>5 DEF RefuseFingerprint, FinishRun, Interrupt, ForgetRun, Reported, FilePcs
<1>6. CASE FetchPending
  BY <1>6 DEF FetchPending, Reported, FilePcs, storeVars, fileVars, obsVars
<1>7. CASE \/ \E f \in Files, c \in Contents \cup {Absent} : Edit(f, c)
           \/ Tick \/ UNCHANGED vars
  <2>1. UNCHANGED <<pc, db, cur, attempted, unlogged>>
    BY <1>7 DEF Edit, Tick, vars, storeVars, loopVars, fileVars, obsVars
  <2>2. QED
    BY <2>1 DEF Reported
<1>8. QED
  BY <1>1, <1>2, <1>3, <1>4, <1>5, <1>6, <1>7 DEF Next, RunnerStep, EnvironmentStep

\* A file that a completed run tried and did not index has a row saying why.
THEOREM FailuresStayVisible == Spec => []FailuresAreVisible
<1>1. Init => Reported
  BY DEF Init, Reported, FilePcs
<1>2. CommitInvariant /\ Reported /\ [Next]_vars => Reported'
  BY StaysReported
<1>3. Reported => FailuresAreVisible
  BY DEF Reported, FailuresAreVisible, Told
<1>4. QED
  BY <1>1, <1>2, <1>3, CommitInvariantHolds, PTL DEF Spec

-----------------------------------------------------------------------------
(* A quiet run leaves the index accurate.                                  *)

\* No row is newer than the clock, and what is indexed is what was hashed.
Dated ==
    /\ startTime <= clock
    /\ \A f \in Files : db.files[f] # Null => db.files[f].seen <= clock

IndexedAsHashed ==
    \A f \in Files \ torn : IsIndexed(db, f) =>
        /\ db.files[f] # Null
        /\ db.files[f].sha \in Indexable \ Binary
        /\ NamesOf(db, f) = NodeNames[db.files[f].sha]
        /\ Served(db, f) = Pieces[db.files[f].sha]

\* What this run has seen of f, and what it has left of a file it did not find.
FreshRow(f) ==
    /\ disk[f] # Absent
    /\ IsLive(db, f)
    /\ db.files[f].sha = disk[f]
    /\ db.files[f].class = ClassOf(disk[f])
    /\ db.files[f].seen >= startTime

OldRow(f) == db.files[f] # Null => db.files[f].seen <= startTime

GoneRow(f) == disk[f] = Absent /\ (IsLive(db, f) => db.files[f].seen = startTime)

\* A file visited is queued or written, a file not visited or not there is neither.
Walked(f) ==
    IF f \in visited /\ disk[f] # Absent
    THEN IF batch[f] = Null
         THEN FreshRow(f)
         ELSE batch[f] = [sha |-> disk[f], class |-> ClassOf(disk[f])]
    ELSE batch[f] = Null /\ OldRow(f)

WalkSoFar ==
    /\ pc = "idle" => visited = {} /\ batch = NothingQueued
    /\ pc = "classify" => cur \notin visited
    /\ (pc = "classify" /\ quiet) => hash = disk[cur] /\ disk[cur] # Absent
    /\ (pc \in {"walk", "classify"} /\ quiet) => \A f \in Files : Walked(f)

RowsOfTheRun ==
    /\ (pc = "reconcile" /\ quiet) =>
          \A f \in Files : FreshRow(f) \/ (disk[f] = Absent /\ OldRow(f))
    /\ (pc \in {"fingerprint", "loop", "summary"} \cup FilePcs /\ quiet) =>
          \A f \in Files : FreshRow(f) \/ GoneRow(f)

\* The attempt of f has come to what the disk asks for.
Processed(d, f) ==
    IF disk[f] \in Indexable \ Binary
    THEN IsIndexed(d, f) /\ NamesOf(d, f) = NodeNames[disk[f]] /\ Served(d, f) = Pieces[disk[f]]
    ELSE NodesOf(d, {f}) = {} /\ \A p \in Passes : d.pstate[f][p] = "skipped"

FilesOfTheRun ==
    quiet =>
        /\ pc \in {"structural", "chunker", "embed"} => body = disk[cur] /\ body \in Indexable
        /\ pc = "commit" => \/ tx = MarkSkipped(Cleared, cur) /\ disk[cur] \notin Indexable \ Binary
                            \/ /\ body = disk[cur] /\ body \in Indexable
                               /\ tx.pstate[cur]["embeddings"] = "done"
        /\ pc \in {"loop", "summary"} =>
              \A f \in attempted : disk[f] = Absent \/ Processed(db, f)
        /\ pc \in FilePcs =>
              \A f \in attempted \ {cur} : disk[f] = Absent \/ Processed(db, f)

AccurateInvariant ==
    Dated /\ IndexedAsHashed /\ WalkSoFar /\ RowsOfTheRun /\ FilesOfTheRun

\* The rows of the files table after each statement that writes one.
LEMMA UpsertedRow ==
    ASSUME NEW d \in Database, NEW rows \in [Files -> WalkRow \cup {Null}], NEW now,
           NEW f \in Files
    PROVE  UpsertFiles(d, rows, now).files[f] =
              IF rows[f] # Null
              THEN [sha |-> rows[f].sha, class |-> rows[f].class, seen |-> now, deleted |-> FALSE]
              ELSE d.files[f]
<1>1. \A g \in Files : UpsertFiles(d, rows, now).files[g] =
              IF rows[g] # Null
              THEN [sha |-> rows[g].sha, class |-> rows[g].class, seen |-> now, deleted |-> FALSE]
              ELSE d.files[g]
  BY UpsertFilesFields
<1>2. QED
  BY <1>1

LEMMA KeptByUpsert ==
    ASSUME NEW d \in Database, NEW rows \in [Files -> WalkRow \cup {Null}], NEW now,
           NEW f \in Files, rows[f] = Null
    PROVE  UpsertFiles(d, rows, now).files[f] = d.files[f]
<1>1. \A g \in Files : UpsertFiles(d, rows, now).files[g] =
              IF rows[g] # Null
              THEN [sha |-> rows[g].sha, class |-> rows[g].class, seen |-> now, deleted |-> FALSE]
              ELSE d.files[g]
  BY UpsertFilesFields
<1>2. QED
  BY <1>1

LEMMA FailedRows ==
    ASSUME NEW d \in Database, NEW f \in Files, NEW p \in Passes
    PROVE  RecordFailure(d, f, p).files = d.files
  BY DEF RecordFailure, MarkStatus, Database

LEMMA DatedNext ==
    ASSUME CommitInvariant, Dated, [Next]_vars
    PROVE  Dated'
<1>1. /\ db \in Database /\ db' \in Database /\ clock \in Nat /\ clock' \in Nat
      /\ startTime \in Nat /\ clock <= clock'
  <2>1. clock \in Nat /\ clock' \in Nat
    BY CommitInvariantNext DEF CommitInvariant, IndexInvariant, TypeOK
  <2>2. clock <= clock'
    BY <2>1, ClockSteps DEF Tick
  <2>3. QED
    BY <2>1, <2>2, CommitInvariantNext DEF CommitInvariant, IndexInvariant, TypeOK
<1>2. startTime' <= clock'
  BY <1>1, ClockSteps DEF Dated
<1>3. ASSUME NEW f \in Files, db'.files[f] # Null PROVE db'.files[f].seen <= clock'
  <2>1. db.files[f] # Null => db.files[f] \in FileRow /\ db.files[f].seen <= clock
    BY <1>1 DEF Dated, Database
  <2>2. CASE db'.files[f] = db.files[f]
    BY <1>1, <1>3, <2>1, <2>2 DEF FileRow
  <2>3. ASSUME NEW rows \in [Files -> WalkRow \cup {Null}], db' = UpsertFiles(db, rows, clock)
        PROVE  db'.files[f].seen <= clock'
    <3>1. CASE rows[f] = Null
      <4>1. UpsertFiles(db, rows, clock).files[f] = db.files[f]
        BY <1>1, <3>1, KeptByUpsert
      <4>2. QED
        BY <2>2, <2>3, <4>1
    <3>2. CASE rows[f] # Null
      <4>1. db'.files[f] = [sha |-> rows[f].sha, class |-> rows[f].class, seen |-> clock,
                            deleted |-> FALSE]
        BY <1>1, <2>3, <3>2, UpsertedRow
      <4>2. QED
        BY <1>1, <4>1
    <3>3. QED
      BY <3>1, <3>2
  <2>4. CASE db' = MarkUnseenDeleted(db, startTime)
    <3>1. db'.files[f] = db.files[f] \/ db'.files[f] = [db.files[f] EXCEPT !.deleted = TRUE]
      BY <1>1, <2>4, MarkUnseenDeletedFields
    <3>2. CASE db'.files[f] = [db.files[f] EXCEPT !.deleted = TRUE] /\ db.files[f] # Null
      BY <1>1, <2>1, <3>2 DEF FileRow
    <3>3. QED
      BY <1>1, <2>2, <2>4, <3>1, <3>2, MarkUnseenDeletedFields DEF IsLive
  <2>5. ASSUME NEW v \in Schemes, db' = [db EXCEPT !.fp = v] PROVE db'.files = db.files
    BY <1>1, <2>5 DEF Database
  <2>6. CASE cur \in Files /\ pass \in Passes /\ db' = RecordFailure(db, cur, pass)
    <3>1. db'.files = db.files
      BY <1>1, <2>6, FailedRows
    <3>2. QED
      BY <2>2, <3>1
  <2>7. CASE CommitFile
    <3>1. db'.files = db.files
      BY <2>7 DEF CommitFile, Store, CommitInvariant, Transaction, FilePcs
    <3>2. QED
      BY <2>2, <3>1
  <2>8. CASE DeleteIndex
    BY <1>3, <2>8 DEF DeleteIndex, Store, EmptyDatabase
  <2>9. QED
    BY <2>2, <2>3, <2>4, <2>5, <2>6, <2>7, <2>8, StepsOfTheDatabase
       DEF DatabaseStep, StatementStep
<1>4. QED
  BY <1>2, <1>3 DEF Dated

HashedFile(d, f) ==
    IsIndexed(d, f) =>
        /\ d.files[f] # Null
        /\ d.files[f].sha \in Indexable \ Binary
        /\ NamesOf(d, f) = NodeNames[d.files[f].sha]
        /\ Served(d, f) = Pieces[d.files[f].sha]

LEMMA StillHashed ==
    ASSUME NEW d, NEW e, NEW f \in Files, SameFile(d, e, f), e.pstate[f] = d.pstate[f],
           d.files[f] # Null => e.files[f] # Null /\ e.files[f].sha = d.files[f].sha,
           HashedFile(d, f)
    PROVE  HashedFile(e, f)
  BY DEF HashedFile, SameFile, IsIndexed

LEMMA UpsertedHashed ==
    ASSUME NEW rows \in [Files -> WalkRow \cup {Null}], NEW f \in Files,
           CommitInvariant, UpsertFiles(db, rows, clock) \in Database, HashedFile(db, f)
    PROVE  HashedFile(UpsertFiles(db, rows, clock), f)
<1> DEFINE e == UpsertFiles(db, rows, clock)
           base == ClearFiles(db, Changed(db, rows))
<1>1. /\ db \in Database /\ Changed(db, rows) \in SUBSET Files
      /\ e.nodes = base.nodes /\ e.chunks = base.chunks /\ e.fts = base.fts
      /\ e.emb = base.emb /\ e.pstate = base.pstate
      /\ e.files[f] = IF rows[f] # Null
                      THEN [sha |-> rows[f].sha, class |-> rows[f].class,
                            seen |-> clock, deleted |-> FALSE]
                      ELSE db.files[f]
  BY UpsertFilesFields DEF CommitInvariant, IndexInvariant, TypeOK
<1>2. base \in Database
  BY <1>1, ClearFilesEffect
<1>3. CASE f \in Changed(db, rows)
  <2>1. base.pstate[f] = [p \in Passes |-> "none"]
    BY <1>1, <1>3, ClearFilesStatus
  <2>2. QED
    BY <1>1, <2>1 DEF HashedFile, IsIndexed, Passes
<1>4. CASE f \notin Changed(db, rows)
  <2>1. base.pstate[f] = db.pstate[f] /\ SameFile(db, base, f)
    <3>1. base.pstate[f] = db.pstate[f]
      BY <1>1, <1>4, ClearFilesStatus
    <3>2. SameFile(db, base, f)
      BY <1>1, <1>4, ClearedFiles
    <3>3. QED
      BY <3>1, <3>2
  <2>2. SameFile(base, e, f)
    BY <1>1, <1>2, SameTables
  <2>3. CASE rows[f] = Null
    BY <1>1, <2>1, <2>2, <2>3, StillHashed DEF SameFile
  <2>4. CASE rows[f] # Null
    <3>1. e.files[f] = [sha |-> rows[f].sha, class |-> rows[f].class,
                        seen |-> clock, deleted |-> FALSE]
      BY <1>1, <2>4
    <3>2. e.files[f] # Null
      <4>1. rows[f] \in WalkRow /\ clock \in Nat
        BY <2>4 DEF CommitInvariant, IndexInvariant, TypeOK
      <4>2. e.files[f] \in FileRow
        BY <3>1, <4>1 DEF WalkRow, FileRow
      <4>3. QED
        BY <4>2, NullAssumption
    <3>3. db.files[f] # Null => e.files[f].sha = db.files[f].sha
      BY <1>4, <2>4, <3>1 DEF Changed
    <3>4. QED
      BY <1>1, <2>1, <2>2, <3>2, <3>3, StillHashed DEF SameFile
  <2>5. QED
    BY <2>3, <2>4
<1>5. QED
  BY <1>3, <1>4

LEMMA FailedHashed ==
    ASSUME NEW d \in Database, NEW f \in Files, NEW g \in Files, NEW p \in Passes,
           IsPending(d, g), HashedFile(d, f)
    PROVE  HashedFile(RecordFailure(d, g, p), f)
<1> DEFINE e == RecordFailure(d, g, p)
<1>1. "failed" \in Statuses
  BY DEF Statuses
<1>2. /\ e \in Database
      /\ e.chunks = d.chunks /\ e.fts = d.fts /\ e.nodes = d.nodes
      /\ e.emb = d.emb /\ e.files = d.files
      /\ e.pstate = [d.pstate EXCEPT ![g] = [d.pstate[g] EXCEPT ![p] = "failed"]]
  BY <1>1, MarkStatusFields DEF RecordFailure
<1> HIDE DEF e
<1>3. SameFile(d, e, f)
  BY <1>2, SameTables
<1>4. CASE f # g
  <2>1. e.pstate[f] = d.pstate[f]
    BY <1>2, <1>4 DEF Database
  <2>2. QED
    BY <1>2, <1>3, <2>1, StillHashed DEF e
<1>5. CASE f = g
  <2>1. ~IsIndexed(e, f)
    BY <1>2, <1>5 DEF IsPending, IsIndexed, Database, Passes
  <2>2. QED
    BY <2>1 DEF HashedFile, e
<1>6. QED
  BY <1>4, <1>5

LEMMA CommittedHashed ==
    ASSUME CommitInvariant, CommitFile, NEW f \in Files,
           f \notin torn => HashedFile(db, f), f \notin torn'
    PROVE  HashedFile(tx, f)
<1>1. /\ pc = "commit" /\ tx.files = db.files /\ cur \in Files
      /\ IsPending(db, cur) /\ db \in Database
      /\ torn' = IF body = Null \/ body \in {tx.files[cur].sha} \cap Indexable
                 THEN torn \ {cur} ELSE torn \cup {cur}
      /\ tx = MarkSkipped(Cleared, cur) \/ (AtEmbed({}) /\ StatusWritten(Passes))
  <2>1. /\ pc = "commit" /\ pc \in FilePcs
        /\ torn' = IF body = Null \/ body \in {tx.files[cur].sha} \cap Indexable
                   THEN torn \ {cur} ELSE torn \cup {cur}
    BY DEF CommitFile, FilePcs
  <2>2. cur \in Files /\ db \in Database
    BY <2>1 DEF CommitInvariant, IndexInvariant, TypeOK, InHand
  <2>3. /\ tx.files = db.files /\ IsPending(db, cur)
        /\ tx = MarkSkipped(Cleared, cur) \/ (AtEmbed({}) /\ StatusWritten(Passes))
    BY <2>1 DEF CommitInvariant, Transaction
  <2>4. QED
    BY <2>1, <2>2, <2>3
<1>2. CASE f # cur
  <2>1. f \notin torn
    BY <1>1, <1>2
  <2>2. SameFile(db, tx, f) /\ tx.pstate[f] = db.pstate[f]
    BY <1>1, <1>2, OthersCommitted
  <2>3. QED
    BY <1>1, <2>1, <2>2, StillHashed
<1>3. CASE f = cur /\ tx = MarkSkipped(Cleared, cur)
  <2>1. tx.pstate[f]["embeddings"] = "skipped"
    BY <1>1, <1>3, SkippedFile DEF Passes
  <2>2. QED
    BY <2>1 DEF HashedFile, IsIndexed
<1>4. CASE f = cur /\ AtEmbed({})
  <2>1. body \in Contents \ Binary /\ NamesOf(tx, cur) = NodeNames[body]
           /\ Served(tx, cur) = Pieces[body]
    BY <1>1, <1>4, IndexedFile
  <2>2. body = tx.files[cur].sha /\ body \in Indexable
    BY <1>1, <1>4, <2>1, NullAssumption
  <2>3. tx.files[cur] # Null
    BY <1>1 DEF IsPending, IsLive
  <2>4. QED
    BY <1>4, <2>1, <2>2, <2>3 DEF HashedFile
<1>5. QED
  BY <1>1, <1>2, <1>3, <1>4

LEMMA StaysAsHashed ==
    ASSUME CommitInvariant, IndexedAsHashed, [Next]_vars
    PROVE  IndexedAsHashed'
<1>1. DatabaseStep
  BY StepsOfTheDatabase
<1>2. db \in Database /\ db' \in Database
  BY CommitInvariantNext DEF CommitInvariant, IndexInvariant, TypeOK
<1>3. ASSUME NEW f \in Files, f \notin torn' PROVE HashedFile(db', f)
  <2>1. f \notin torn => HashedFile(db, f)
    BY DEF IndexedAsHashed, HashedFile
  <2>2. CASE CommitFile
    BY <1>3, <2>1, <2>2, CommittedHashed DEF CommitFile, Store
  <2>3. CASE DeleteIndex
    <3>1. ~IsIndexed(EmptyDatabase, f)
      BY DEF IsIndexed, EmptyDatabase, Passes
    <3>2. QED
      BY <2>3, <3>1 DEF DeleteIndex, Store, HashedFile
  <2>4. CASE StatementStep /\ torn' = torn
    <3>1. HashedFile(db, f)
      BY <1>3, <2>1, <2>4
    <3>2. ASSUME NEW rows \in [Files -> WalkRow \cup {Null}], db' = UpsertFiles(db, rows, clock)
          PROVE  HashedFile(db', f)
      BY <1>2, <3>1, <3>2, UpsertedHashed
    <3>3. CASE db' = MarkUnseenDeleted(db, startTime)
      <4>1. /\ db'.nodes = db.nodes /\ db'.chunks = db.chunks /\ db'.fts = db.fts
            /\ db'.emb = db.emb /\ db'.pstate = db.pstate
            /\ db'.files[f] = db.files[f] \/ db'.files[f] = [db.files[f] EXCEPT !.deleted = TRUE]
        BY <1>2, <3>3, MarkUnseenDeletedFields
      <4>2. db.files[f] # Null => db'.files[f] # Null /\ db'.files[f].sha = db.files[f].sha
        <5>1. ASSUME db.files[f] # Null, db'.files[f] = [db.files[f] EXCEPT !.deleted = TRUE]
              PROVE  db'.files[f] \in FileRow /\ db'.files[f].sha = db.files[f].sha
          <6>1. db.files[f] \in FileRow
            BY <1>2, <5>1 DEF Database
          <6>2. QED
            BY <5>1, <6>1 DEF FileRow
        <5>2. QED
          BY <4>1, <5>1, NullAssumption
      <4>3. QED
        BY <1>2, <3>1, <4>1, <4>2, SameTables, StillHashed
    <3>4. ASSUME NEW v \in Schemes, db' = [db EXCEPT !.fp = v] PROVE HashedFile(db', f)
      <4>1. /\ db'.nodes = db.nodes /\ db'.chunks = db.chunks /\ db'.fts = db.fts
            /\ db'.emb = db.emb /\ db'.pstate = db.pstate /\ db'.files = db.files
        BY <1>2, <3>4 DEF Database
      <4>2. QED
        BY <1>2, <3>1, <4>1, SameTables, StillHashed
    <3>5. CASE cur \in Files /\ pass \in Passes /\ IsPending(db, cur)
                 /\ db' = RecordFailure(db, cur, pass)
      BY <1>2, <3>1, <3>5, FailedHashed
    <3>6. QED
      BY <2>4, <3>1, <3>2, <3>3, <3>4, <3>5 DEF StatementStep
  <2>5. QED
    BY <1>1, <2>2, <2>3, <2>4 DEF DatabaseStep
<1>4. QED
  BY <1>3 DEF IndexedAsHashed, HashedFile

-----------------------------------------------------------------------------
(* The walk of a quiet run.                                                *)

\* A flush writes what was queued of a file, a row not written stays as it is.
LEMMA FlushedRow ==
    ASSUME CommitInvariant, Dated, NEW rows \in [Files -> WalkRow \cup {Null}], NEW f \in Files,
           rows[f] # Null, rows[f] = [sha |-> disk[f], class |-> ClassOf(disk[f])],
           disk[f] # Absent, db' = UpsertFiles(db, rows, clock),
           disk' = disk, startTime' = startTime
    PROVE  FreshRow(f)'
<1>1. db \in Database /\ clock \in Nat /\ startTime <= clock /\ rows[f] \in WalkRow
  BY DEF CommitInvariant, IndexInvariant, TypeOK, Dated
<1>2. db'.files[f] = [sha |-> disk[f], class |-> ClassOf(disk[f]), seen |-> clock, deleted |-> FALSE]
  <2>1. db'.files[f] = [sha |-> rows[f].sha, class |-> rows[f].class, seen |-> clock,
                        deleted |-> FALSE]
    BY <1>1, UpsertedRow
  <2>2. rows[f].sha = disk[f] /\ rows[f].class = ClassOf(disk[f])
    OBVIOUS
  <2>3. QED
    BY <2>1, <2>2
<1>3. db'.files[f] # Null
  <2>1. [sha |-> disk[f], class |-> ClassOf(disk[f])] \in WalkRow
    BY <1>1
  <2>2. db'.files[f] \in FileRow
    BY <1>1, <1>2, <2>1 DEF WalkRow, FileRow
  <2>3. QED
    BY <2>2, NullAssumption
<1>4. QED
  BY <1>1, <1>2, <1>3 DEF FreshRow, IsLive

LEMMA KeptRow ==
    ASSUME NEW f \in Files, db'.files[f] = db.files[f], disk' = disk, startTime' = startTime
    PROVE  /\ FreshRow(f) => FreshRow(f)'
           /\ OldRow(f) => OldRow(f)'
           /\ GoneRow(f) => GoneRow(f)'
  BY DEF FreshRow, OldRow, GoneRow, IsLive

LEMMA FlushedWalk ==
    ASSUME CommitInvariant, Dated, NEW rows \in [Files -> WalkRow \cup {Null}], NEW f \in Files,
           db' = UpsertFiles(db, rows, clock), disk' = disk, startTime' = startTime,
           rows[f] # Null => /\ disk[f] # Absent
                             /\ rows[f] = [sha |-> disk[f], class |-> ClassOf(disk[f])]
    PROVE  /\ rows[f] # Null => FreshRow(f)'
           /\ rows[f] = Null => (FreshRow(f) => FreshRow(f)') /\ (OldRow(f) => OldRow(f)')
<1>1. CASE rows[f] # Null
  BY <1>1, FlushedRow
<1>2. CASE rows[f] = Null
  <2>1. db \in Database
    BY DEF CommitInvariant, IndexInvariant, TypeOK
  <2>2. UpsertFiles(db, rows, clock).files[f] = db.files[f]
    BY <1>2, <2>1, KeptByUpsert
  <2>3. db'.files[f] = db.files[f]
    BY <2>2
  <2>4. QED
    BY <1>2, <2>3, KeptRow
<1>3. QED
  BY <1>1, <1>2

LEMMA ClassifiedWalk ==
    ASSUME CommitInvariant, Dated, WalkSoFar, ClassifyFile
    PROVE  WalkSoFar'
<1> SUFFICES ASSUME quiet, NEW f \in Files PROVE Walked(f)'
  BY DEF ClassifyFile, WalkSoFar, obsVars
<1> DEFINE rows == [batch EXCEPT ![cur] = [sha |-> hash, class |-> ClassOf(disk[cur])]]
<1>1. /\ cur \in Files /\ hash = disk[cur] /\ disk[cur] # Absent /\ cur \notin visited
      /\ batch \in [Files -> WalkRow \cup {Null}]
      /\ [sha |-> hash, class |-> ClassOf(disk[cur])] \in WalkRow
      /\ Walked(f)
  BY DEF ClassifyFile, WalkSoFar, CommitInvariant, IndexInvariant, InHand, TypeOK, WalkRow,
         ClassOf, Classes
<1>2. /\ disk' = disk /\ startTime' = startTime /\ visited' = visited \cup {cur}
      /\ \/ db' = UpsertFiles(db, rows, clock) /\ batch' = NothingQueued
         \/ db' = db /\ batch' = rows
  BY DEF ClassifyFile, envVars, runVars, storeVars, Store
<1>3. /\ rows \in [Files -> WalkRow \cup {Null}]
      /\ f = cur => rows[f] = [sha |-> disk[f], class |-> ClassOf(disk[f])] /\ rows[f] # Null
      /\ f # cur => rows[f] = batch[f]
  BY <1>1, QueueAssumption
<1> HIDE DEF rows
<1>4. rows[f] # Null => /\ disk[f] # Absent /\ f \in visited \cup {cur}
                        /\ rows[f] = [sha |-> disk[f], class |-> ClassOf(disk[f])]
  BY <1>1, <1>3 DEF Walked
<1>5. rows[f] = Null => f # cur /\ (IF f \in visited /\ disk[f] # Absent THEN FreshRow(f) ELSE OldRow(f))
  BY <1>1, <1>3 DEF Walked
<1>6. CASE db' = UpsertFiles(db, rows, clock) /\ batch' = NothingQueued
  <2>1. batch'[f] = Null
    BY <1>6 DEF NothingQueued
  <2>2. /\ rows[f] # Null => FreshRow(f)'
        /\ rows[f] = Null => (FreshRow(f) => FreshRow(f)') /\ (OldRow(f) => OldRow(f)')
    BY <1>2, <1>3, <1>4, <1>6, FlushedWalk
  <2>3. QED
    BY <1>2, <1>4, <1>5, <2>1, <2>2 DEF Walked
<1>7. CASE db' = db /\ batch' = rows
  BY <1>2, <1>4, <1>5, <1>7, KeptRow DEF Walked
<1>8. QED
  BY <1>2, <1>6, <1>7

LEMMA WalkNext ==
    ASSUME CommitInvariant, Dated, WalkSoFar, [Next]_vars
    PROVE  WalkSoFar'
<1>1. CASE \E v \in Schemes : StartRun(v)
  <2>1. /\ pc = "idle" /\ pc' = "walk" /\ visited = {} /\ batch = NothingQueued
        /\ UNCHANGED <<disk, db, visited, batch>> /\ startTime' = clock
    BY <1>1 DEF StartRun, WalkSoFar, envVars, storeVars, walkVars
  <2>2. ASSUME NEW f \in Files PROVE Walked(f)'
    BY <2>1 DEF Walked, NothingQueued, OldRow, Dated
  <2>3. QED
    BY <2>1, <2>2 DEF WalkSoFar
<1>2. CASE \E f \in Files : HashFile(f)
  <2>1. PICK f \in Files : HashFile(f)
    BY <1>2
  <2>2. /\ pc = "walk" /\ pc' = "classify" /\ cur' = f /\ f \notin visited /\ hash' = disk[f]
        /\ disk[f] # Absent /\ UNCHANGED <<disk, db, visited, batch, startTime, quiet>>
    BY <2>1 DEF HashFile, envVars, storeVars, runVars, obsVars
  <2>3. ASSUME NEW g \in Files, quiet PROVE Walked(g)'
    BY <2>2, <2>3, KeptRow DEF Walked, WalkSoFar
  <2>4. QED
    BY <2>2, <2>3 DEF WalkSoFar
<1>3. CASE (\E f \in Files : SkipUnhashed(f)) \/ SkipUnclassified
  <2>1. PICK f \in Files : /\ PassOver(f) /\ f \notin visited /\ pc \in {"walk", "classify"}
    BY <1>3 DEF SkipUnhashed, SkipUnclassified, WalkSoFar, CommitInvariant, IndexInvariant, InHand
  <2>2. /\ pc' = "walk" /\ visited' = visited \cup {f} /\ UNCHANGED <<disk, db, batch, startTime>>
        /\ quiet' => quiet /\ disk[f] = Absent
    BY <2>1 DEF PassOver, storeVars, runVars
  <2>3. ASSUME NEW g \in Files, quiet' PROVE Walked(g)'
    BY <2>1, <2>2, <2>3, KeptRow DEF Walked, WalkSoFar
  <2>4. QED
    BY <2>2, <2>3 DEF WalkSoFar
<1>4. CASE ClassifyFile
  BY <1>4, ClassifiedWalk
<1>5. CASE RefuseFingerprint \/ FinishRun \/ Interrupt
  BY <1>5 DEF RefuseFingerprint, FinishRun, Interrupt, ForgetRun, WalkSoFar
<1>6. CASE DeleteIndex
  BY <1>6 DEF DeleteIndex, WalkSoFar, walkVars
<1>7. CASE \E f \in Files, c \in Contents \cup {Absent} : Edit(f, c)
  BY <1>7 DEF Edit, WalkSoFar, walkVars, fileVars
<1>8. CASE Tick \/ UNCHANGED vars
  <2>1. UNCHANGED <<pc, quiet, hash, cur, disk, db, visited, batch, startTime>>
    BY <1>8 DEF Tick, vars, envVars, storeVars, runVars, walkVars, fileVars, obsVars
  <2>2. ASSUME NEW g \in Files PROVE Walked(g) => Walked(g)'
    BY <2>1, KeptRow DEF Walked
  <2>3. QED
    BY <2>1, <2>2 DEF WalkSoFar
<1>9. CASE \/ FinishWalk \/ ReconcileDeletions \/ EnsureFingerprint \/ FetchPending
           \/ \E f \in Files : BeginFile(f)
           \/ SkipOther \/ ReadFile \/ RunStructural \/ RunChunker
           \/ \E c \in ChunkIds : BufferChunk(c)
           \/ FlushEmbedBatch \/ FinishEmbeddings \/ CommitFile
           \/ FailFile \/ FailFileUnrecorded
  <2>1. pc' \notin {"idle", "walk", "classify"}
    BY <1>9 DEF FinishWalk, ReconcileDeletions, EnsureFingerprint, FetchPending, BeginFile,
                SkipOther, ReadFile, RunStructural, RunChunker, BufferChunk, FlushEmbedBatch,
                FinishEmbeddings, CommitFile, FailFile, FailFileUnrecorded, NextFile
  <2>2. QED
    BY <2>1 DEF WalkSoFar
<1>10. QED
  BY <1>1, <1>2, <1>3, <1>4, <1>5, <1>6, <1>7, <1>8, <1>9
     DEF Next, RunnerStep, EnvironmentStep

\* After the walk only the reconciliation writes the files table.
LEMMA RowsStay ==
    ASSUME CommitInvariant, [Next]_vars, quiet',
           pc' \in {"fingerprint", "loop", "summary"} \cup FilePcs, pc # "reconcile"
    PROVE  /\ pc \in {"fingerprint", "loop", "summary"} \cup FilePcs /\ quiet
           /\ db'.files = db.files /\ disk' = disk /\ startTime' = startTime
<1>1. CASE FailFile \/ FailFileUnrecorded
  <2>1. pc \in FilePcs /\ (quiet' => quiet) /\ disk' = disk /\ startTime' = startTime
    BY <1>1 DEF FailFile, FailFileUnrecorded, runVars
  <2>2. QED
    BY <1>1, <2>1, FailureFields
<1>2. CASE CommitFile
  <2>1. /\ pc = "commit" /\ db' = tx /\ quiet' = quiet /\ disk' = disk /\ startTime' = startTime
    BY <1>2 DEF CommitFile, Store, envVars, runVars
  <2>2. QED
    BY <2>1 DEF CommitInvariant, Transaction, FilePcs
<1>3. CASE EnsureFingerprint
  <2>1. /\ pc = "fingerprint" /\ db' = [db EXCEPT !.fp = scheme] /\ quiet' = quiet
        /\ disk' = disk /\ startTime' = startTime /\ db \in Database
    BY <1>3 DEF EnsureFingerprint, Store, envVars, runVars, obsVars, CommitInvariant,
                IndexInvariant, TypeOK
  <2>2. QED
    BY <2>1 DEF Database
<1>4. CASE \/ FetchPending \/ \E f \in Files : BeginFile(f)
           \/ SkipOther \/ ReadFile \/ RunStructural \/ RunChunker
           \/ \E c \in ChunkIds : BufferChunk(c)
           \/ FlushEmbedBatch \/ FinishEmbeddings \/ Tick \/ UNCHANGED vars
  <2>1. UNCHANGED <<db, disk, startTime, quiet>>
    BY <1>4 DEF FetchPending, BeginFile, SkipOther, ReadFile, RunStructural, RunChunker,
                BufferChunk, FlushEmbedBatch, FinishEmbeddings, Tick, vars,
                envVars, storeVars, runVars, obsVars
  <2>2. pc \in {"loop"} \cup FilePcs \/ pc' = pc
    BY <1>4 DEF FetchPending, BeginFile, SkipOther, ReadFile, RunStructural, RunChunker,
                BufferChunk, FlushEmbedBatch, FinishEmbeddings, Tick, vars, FilePcs
  <2>3. QED
    BY <2>1, <2>2
<1>5. CASE \/ \E f \in Files : HashFile(f) \/ SkipUnhashed(f)
           \/ SkipUnclassified \/ ClassifyFile \/ FinishWalk
           \/ RefuseFingerprint \/ FinishRun \/ Interrupt \/ DeleteIndex
           \/ \E v \in Schemes : StartRun(v)
  <2>1. pc' \in {"idle", "walk", "classify", "reconcile"}
    BY <1>5 DEF HashFile, SkipUnhashed, SkipUnclassified, PassOver, ClassifyFile, FinishWalk,
                RefuseFingerprint, FinishRun, Interrupt, DeleteIndex, StartRun, ForgetRun
  <2>2. QED
    BY <2>1 DEF FilePcs
<1>6. CASE \E f \in Files, c \in Contents \cup {Absent} : Edit(f, c)
  BY <1>6 DEF Edit, FilePcs
<1>7. CASE ReconcileDeletions
  BY <1>7 DEF ReconcileDeletions
<1>8. QED
  BY <1>1, <1>2, <1>3, <1>4, <1>5, <1>6, <1>7 DEF Next, RunnerStep, EnvironmentStep

LEMMA RowsNext ==
    ASSUME CommitInvariant, Dated, WalkSoFar, RowsOfTheRun, [Next]_vars
    PROVE  RowsOfTheRun'
<1>1. ASSUME pc' = "reconcile", quiet', NEW f \in Files
      PROVE  FreshRow(f)' \/ (disk'[f] = Absent /\ OldRow(f)')
  <2>1. CASE FinishWalk
    <3>1. /\ Walked(f) /\ f \in visited /\ batch \in [Files -> WalkRow \cup {Null}]
          /\ db' = UpsertFiles(db, batch, clock) /\ disk' = disk /\ startTime' = startTime
      BY <1>1, <2>1 DEF FinishWalk, Store, WalkSoFar, envVars, runVars, obsVars, CommitInvariant,
                        IndexInvariant, TypeOK
    <3>2. batch[f] # Null => /\ disk[f] # Absent
                             /\ batch[f] = [sha |-> disk[f], class |-> ClassOf(disk[f])]
      BY <3>1 DEF Walked
    <3>3. /\ batch[f] # Null => FreshRow(f)'
          /\ batch[f] = Null => (FreshRow(f) => FreshRow(f)') /\ (OldRow(f) => OldRow(f)')
      BY <3>1, <3>2, FlushedWalk
    <3>4. QED
      BY <3>1, <3>3 DEF Walked
  <2>2. CASE Tick \/ UNCHANGED vars
    <3>1. UNCHANGED <<pc, quiet, disk, db, startTime>>
      BY <2>2 DEF Tick, vars, envVars, storeVars, runVars, obsVars
    <3>2. QED
      BY <1>1, <3>1, KeptRow DEF RowsOfTheRun
  <2>3. QED
    BY <1>1, <2>1, <2>2 DEF Next, RunnerStep, EnvironmentStep, HashFile, SkipUnhashed, PassOver,
       BeginFile, SkipUnclassified, ClassifyFile, ReconcileDeletions, EnsureFingerprint,
       RefuseFingerprint, FetchPending, SkipOther, ReadFile, RunStructural, RunChunker,
       BufferChunk, FlushEmbedBatch, FinishEmbeddings, CommitFile, FailFile, NextFile,
       FailFileUnrecorded, FinishRun, StartRun, Interrupt, Edit, DeleteIndex, ForgetRun
<1>2. ASSUME pc' \in {"fingerprint", "loop", "summary"} \cup FilePcs, quiet', NEW f \in Files
      PROVE  FreshRow(f)' \/ GoneRow(f)'
  <2>1. CASE pc # "reconcile"
    <3>1. /\ pc \in {"fingerprint", "loop", "summary"} \cup FilePcs /\ quiet
          /\ db'.files = db.files /\ disk' = disk /\ startTime' = startTime
      BY <1>2, <2>1, RowsStay
    <3>2. QED
      BY <3>1, KeptRow DEF RowsOfTheRun
  <2>2. CASE pc = "reconcile"
    <3>1. ReconcileDeletions
      BY <1>2, <2>2 DEF Next, RunnerStep, EnvironmentStep, HashFile, SkipUnhashed, PassOver,
       BeginFile, SkipUnclassified, ClassifyFile, FinishWalk, EnsureFingerprint, FilePcs,
       RefuseFingerprint, FetchPending, SkipOther, ReadFile, RunStructural, RunChunker,
       BufferChunk, FlushEmbedBatch, FinishEmbeddings, CommitFile, FailFile, NextFile,
       FailFileUnrecorded, FinishRun, StartRun, Interrupt, Edit, Tick, DeleteIndex, ForgetRun, vars
    <3>2. /\ FreshRow(f) \/ (disk[f] = Absent /\ OldRow(f))
          /\ db' = MarkUnseenDeleted(db, startTime) /\ disk' = disk /\ startTime' = startTime
          /\ db \in Database /\ startTime \in Nat
      BY <1>2, <3>1 DEF ReconcileDeletions, Store, RowsOfTheRun, envVars, runVars, obsVars,
         CommitInvariant, IndexInvariant, TypeOK
    <3>3. db'.files[f] = IF IsLive(db, f) /\ db.files[f].seen < startTime
                         THEN [db.files[f] EXCEPT !.deleted = TRUE]
                         ELSE db.files[f]
      BY <3>2, MarkUnseenDeletedFields
    <3>4. db.files[f] # Null => db.files[f] \in FileRow
      BY <3>2 DEF Database
    <3>5. CASE IsLive(db, f) /\ db.files[f].seen < startTime
      <4>1. ~FreshRow(f)
        BY <3>2, <3>4, <3>5 DEF FreshRow, IsLive, FileRow
      <4>2. db'.files[f].deleted
        BY <3>3, <3>4, <3>5 DEF IsLive, FileRow
      <4>3. QED
        BY <3>2, <4>1, <4>2 DEF GoneRow, IsLive
    <3>6. CASE ~(IsLive(db, f) /\ db.files[f].seen < startTime)
      <4>1. db'.files[f] = db.files[f]
        BY <3>3, <3>6
      <4>2. FreshRow(f) \/ GoneRow(f)
        BY <3>2, <3>4, <3>6 DEF GoneRow, OldRow, IsLive, FileRow
      <4>3. QED
        BY <3>2, <4>1, <4>2, KeptRow
    <3>7. QED
      BY <3>5, <3>6
  <2>3. QED
    BY <2>1, <2>2
<1>3. QED
  BY <1>1, <1>2 DEF RowsOfTheRun

-----------------------------------------------------------------------------
(* The files of a quiet run.                                               *)

LEMMA StillProcessed ==
    ASSUME NEW f \in Files, SameFile(db, db', f), db'.pstate[f] = db.pstate[f], disk' = disk,
           Processed(db, f)
    PROVE  Processed(db, f)'
  BY DEF Processed, SameFile, IsIndexed

\* What this run knows of the file whose attempt begins.
LEMMA FileInHand ==
    ASSUME CommitInvariant, RowsOfTheRun, quiet, pc = "dispatch"
    PROVE  /\ cur \in Files /\ tx = Cleared /\ db \in Database
           /\ tx.files[cur].class = "indexable" /\ disk[cur] # Absent => disk[cur] \in Indexable
           /\ tx.files[cur].class # "indexable" => disk[cur] \notin Indexable
<1>1. /\ cur \in Files /\ tx = Cleared /\ tx.files = db.files /\ db \in Database
      /\ FreshRow(cur) \/ GoneRow(cur)
  BY DEF CommitInvariant, Transaction, IndexInvariant, TypeOK, InHand, RowsOfTheRun, FilePcs
<1>2. CASE FreshRow(cur)
  BY <1>1, <1>2 DEF FreshRow, ClassOf
<1>3. CASE GoneRow(cur)
  BY <1>1, <1>3, AbsentAssumption, ContentAssumption DEF GoneRow
<1>4. QED
  BY <1>1, <1>2, <1>3

LEMMA StepOfTheFile ==
    ASSUME CommitInvariant, RowsOfTheRun, FilesOfTheRun, quiet',
           \/ SkipOther \/ ReadFile \/ RunStructural \/ RunChunker
           \/ \E c \in ChunkIds : BufferChunk(c)
           \/ FlushEmbedBatch \/ FinishEmbeddings
    PROVE  FilesOfTheRun'
<1>1. /\ pc \in FilePcs /\ pc' \in FilePcs
      /\ UNCHANGED <<disk, db, cur, attempted, quiet>>
  BY DEF SkipOther, ReadFile, RunStructural, RunChunker, BufferChunk, FlushEmbedBatch,
         FinishEmbeddings, FilePcs, envVars, storeVars, loopVars, fileVars, obsVars
<1>2. /\ quiet /\ Cleared' = Cleared
      /\ \A f \in attempted' \ {cur'} : disk'[f] = Absent \/ Processed(db, f)'
  BY <1>1 DEF FilesOfTheRun, Cleared, Processed, FilePcs
<1>3. pc' \in {"structural", "chunker", "embed"} => (body = disk[cur] /\ body \in Indexable)'
  <2>1. CASE ReadFile
    BY <1>1, <1>2, <2>1, FileInHand DEF ReadFile
  <2>2. CASE SkipOther \/ FinishEmbeddings
    BY <2>2 DEF SkipOther, FinishEmbeddings
  <2>3. CASE \/ RunStructural \/ RunChunker
             \/ \E c \in ChunkIds : BufferChunk(c)
             \/ FlushEmbedBatch
    <3>1. pc \in {"structural", "chunker", "embed"} /\ body' = body
      BY <2>3 DEF RunStructural, RunChunker, BufferChunk, FlushEmbedBatch
    <3>2. QED
      BY <1>1, <1>2, <3>1 DEF FilesOfTheRun
  <2>4. QED
    BY <2>1, <2>2, <2>3
<1>4. ASSUME pc' = "commit"
      PROVE  \/ tx' = MarkSkipped(Cleared, cur) /\ disk[cur] \notin Indexable \ Binary
             \/ /\ body' = disk[cur] /\ body' \in Indexable
                /\ tx'.pstate[cur]["embeddings"] = "done"
  <2>1. CASE SkipOther
    BY <1>2, <2>1, FileInHand DEF SkipOther
  <2>2. CASE ReadFile
    BY <1>2, <1>4, <2>2, FileInHand DEF ReadFile
  <2>3. CASE FinishEmbeddings
    <3>1. /\ pc = "embed" /\ tx' = MarkStatus(tx, cur, "embeddings", "done") /\ body' = body
          /\ body = disk[cur] /\ body \in Indexable /\ tx \in Database /\ cur \in Files
      BY <1>1, <1>2, <2>3 DEF FinishEmbeddings, FilesOfTheRun, fileVars, CommitInvariant,
         IndexInvariant, TypeOK, InHand
    <3>2. MarkStatus(tx, cur, "embeddings", "done").pstate[cur]["embeddings"] = "done"
      BY <3>1 DEF MarkStatus, Database, Passes
    <3>3. QED
      BY <3>1, <3>2
  <2>4. QED
    BY <1>4, <2>1, <2>2, <2>3 DEF RunStructural, RunChunker, BufferChunk, FlushEmbedBatch
<1>5. QED
  BY <1>1, <1>2, <1>3, <1>4 DEF FilesOfTheRun, FilePcs

\* The commit settles the file in hand, and nothing that was settled before.
LEMMA CommittedProcessed ==
    ASSUME CommitInvariant, FilesOfTheRun, CommitFile, quiet, NEW f \in attempted
    PROVE  (disk[f] = Absent \/ Processed(db, f))'
<1>1. /\ pc = "commit" /\ pc \in FilePcs /\ db' = tx /\ disk' = disk
  BY DEF CommitFile, Store, envVars, FilePcs
<1>2. /\ cur \in Files /\ f \in Files
      /\ tx = MarkSkipped(Cleared, cur) \/ (AtEmbed({}) /\ StatusWritten(Passes))
  BY <1>1 DEF CommitInvariant, Transaction, IndexInvariant, TypeOK, InHand
<1>3. CASE f # cur
  <2>1. disk[f] = Absent \/ Processed(db, f)
    BY <1>1, <1>3 DEF FilesOfTheRun
  <2>2. SameFile(db, tx, f) /\ tx.pstate[f] = db.pstate[f]
    BY <1>1, <1>2, <1>3, OthersCommitted
  <2>3. QED
    BY <1>1, <1>2, <2>1, <2>2, StillProcessed
<1>4. CASE f = cur /\ tx = MarkSkipped(Cleared, cur)
  <2>1. NodesOf(tx, {cur}) = {} /\ tx.pstate[cur] = [p \in Passes |-> "skipped"]
    BY <1>1, <1>4, SkippedFile
  <2>2. disk[cur] \notin Indexable \ Binary
    BY <1>1, <2>1 DEF FilesOfTheRun, Passes
  <2>3. QED
    BY <1>1, <1>4, <2>1, <2>2 DEF Processed
<1>5. CASE f = cur /\ AtEmbed({}) /\ StatusWritten(Passes)
  <2>1. body \in Contents \ Binary /\ NamesOf(tx, cur) = NodeNames[body]
           /\ Served(tx, cur) = Pieces[body]
    BY <1>1, <1>5, IndexedFile
  <2>2. tx.pstate[cur]["embeddings"] = "done"
    BY <1>5 DEF StatusWritten, Passes
  <2>3. body = disk[cur] /\ body \in Indexable
    <3>1. CASE tx = MarkSkipped(Cleared, cur)
      BY <1>1, <2>2, <3>1, SkippedFile DEF Passes
    <3>2. QED
      BY <1>1, <3>1 DEF FilesOfTheRun
  <2>4. QED
    BY <1>1, <1>5, <2>1, <2>2, <2>3 DEF Processed, IsIndexed
<1>6. QED
  BY <1>2, <1>3, <1>4, <1>5

LEMMA FilesNext ==
    ASSUME CommitInvariant, Reported, RowsOfTheRun, FilesOfTheRun, [Next]_vars
    PROVE  FilesOfTheRun'
<1> SUFFICES ASSUME quiet' PROVE FilesOfTheRun'
  BY DEF FilesOfTheRun
<1>1. CASE \/ SkipOther \/ ReadFile \/ RunStructural \/ RunChunker
           \/ \E c \in ChunkIds : BufferChunk(c)
           \/ FlushEmbedBatch \/ FinishEmbeddings
  BY <1>1, StepOfTheFile
<1>2. CASE CommitFile
  <2>1. quiet /\ pc' = "loop" /\ attempted' = attempted
    BY <1>2 DEF CommitFile, NextFile, loopVars
  <2>2. \A f \in attempted' : (disk[f] = Absent \/ Processed(db, f))'
    BY <1>2, <2>1, CommittedProcessed
  <2>3. QED
    BY <2>1, <2>2 DEF FilesOfTheRun, FilePcs
<1>3. CASE FailFile
  <2>1. /\ quiet /\ pc \in FilePcs /\ disk[cur] = Absent /\ pc' = "loop" /\ attempted' = attempted
        /\ disk' = disk
    BY <1>3 DEF FailFile, NextFile, loopVars, FilePcs
  <2>2. ASSUME NEW f \in attempted \ {cur} PROVE (disk[f] = Absent \/ Processed(db, f))'
    <3>1. f \in Files /\ (disk[f] = Absent \/ Processed(db, f))
      BY <2>1 DEF FilesOfTheRun, CommitInvariant, IndexInvariant, TypeOK
    <3>2. SameFile(db, db', f) /\ db'.pstate[f] = db.pstate[f]
      BY <1>3, <3>1, FailureFields, SameTables
    <3>3. QED
      BY <2>1, <3>1, <3>2, StillProcessed
  <2>3. QED
    BY <2>1, <2>2 DEF FilesOfTheRun, FilePcs
<1>4. CASE FailFileUnrecorded
  BY <1>4 DEF FailFileUnrecorded
<1>5. CASE \E f \in Files : BeginFile(f)
  <2>1. PICK f \in Files : BeginFile(f)
    BY <1>5
  <2>2. /\ pc = "loop" /\ pc' = "dispatch" /\ attempted' = attempted \cup {f} /\ cur' = f
        /\ UNCHANGED <<disk, db, quiet>>
    BY <2>1 DEF BeginFile, envVars, obsVars
  <2>3. \A g \in attempted' \ {cur'} : (disk[g] = Absent \/ Processed(db, g))'
    BY <2>2 DEF FilesOfTheRun, Processed
  <2>4. QED
    BY <2>2, <2>3 DEF FilesOfTheRun
<1>6. CASE FetchPending
  <2>1. /\ pc = "loop" /\ pc' \in {"loop", "summary"}
        /\ UNCHANGED <<disk, db, quiet, attempted>>
    BY <1>6 DEF FetchPending, envVars, storeVars, obsVars
  <2>2. \A g \in attempted' : (disk[g] = Absent \/ Processed(db, g))'
    BY <2>1 DEF FilesOfTheRun, Processed
  <2>3. QED
    BY <2>1, <2>2 DEF FilesOfTheRun, FilePcs
<1>7. CASE \/ \E f \in Files : HashFile(f) \/ SkipUnhashed(f)
           \/ SkipUnclassified \/ ClassifyFile \/ FinishWalk \/ ReconcileDeletions
           \/ EnsureFingerprint \/ RefuseFingerprint \/ FinishRun \/ Interrupt \/ DeleteIndex
           \/ \E v \in Schemes : StartRun(v)
           \/ \E f \in Files, c \in Contents \cup {Absent} : Edit(f, c)
  <2>1. \/ pc' \in {"idle", "walk", "classify", "reconcile", "fingerprint"}
        \/ pc' = "loop" /\ pc = "fingerprint" /\ attempted' = attempted
    BY <1>7 DEF HashFile, SkipUnhashed, SkipUnclassified, PassOver, ClassifyFile, FinishWalk,
                ReconcileDeletions, EnsureFingerprint, RefuseFingerprint, FinishRun, Interrupt,
                DeleteIndex, StartRun, Edit, ForgetRun, loopVars
  <2>2. CASE pc' \in {"idle", "walk", "classify", "reconcile", "fingerprint"}
    BY <2>2 DEF FilesOfTheRun, FilePcs
  <2>3. CASE pc' = "loop" /\ pc = "fingerprint" /\ attempted' = attempted
    BY <2>3 DEF FilesOfTheRun, FilePcs, Reported
  <2>4. QED
    BY <2>1, <2>2, <2>3
<1>8. CASE Tick \/ UNCHANGED vars
  <2>1. UNCHANGED <<pc, quiet, disk, db, tx, cur, body, attempted>>
    BY <1>8 DEF Tick, vars, storeVars, loopVars, fileVars, obsVars, envVars
  <2>2. Cleared' = Cleared /\ \A f : Processed(db, f)' <=> Processed(db, f)
    BY <2>1 DEF Cleared, Processed
  <2>3. QED
    BY <2>1, <2>2 DEF FilesOfTheRun
<1>9. QED
  BY <1>1, <1>2, <1>3, <1>4, <1>5, <1>6, <1>7, <1>8 DEF Next, RunnerStep, EnvironmentStep

LEMMA AccurateAtTheEnd ==
    ASSUME CommitInvariant, EveryPendingFileAttempted, AccurateInvariant
    PROVE  QuietRunIsAccurate
<1> SUFFICES ASSUME pc = "summary", quiet, NEW f \in Files \ torn
             PROVE  Accurate(f) \/ (disk[f] = Absent /\ IsLive(db, f) /\ db.files[f].seen = startTime)
  BY DEF QuietRunIsAccurate
<1>1. FreshRow(f) \/ GoneRow(f)
  BY DEF AccurateInvariant, RowsOfTheRun
<1>2. CASE disk[f] = Absent
  BY <1>1, <1>2 DEF FreshRow, GoneRow, Accurate
<1>3. CASE disk[f] # Absent
  <2>1. IsLive(db, f) /\ db.files[f].sha = disk[f]
    BY <1>1, <1>3 DEF FreshRow, GoneRow
  <2>2. Processed(db, f)
    <3>1. CASE f \in attempted
      BY <1>3, <3>1 DEF AccurateInvariant, FilesOfTheRun
    <3>2. CASE f \notin attempted
      <4>1. IsIndexed(db, f)
        BY <2>1, <3>2 DEF EveryPendingFileAttempted, IsPending, IsIndexed
      <4>2. QED
        BY <2>1, <4>1 DEF AccurateInvariant, IndexedAsHashed, Processed
    <3>3. QED
      BY <3>1, <3>2
  <2>3. QED
    BY <1>3, <2>1, <2>2 DEF Accurate, Processed, IndexedWith, NamesOf
<1>4. QED
  BY <1>2, <1>3

\* A run in which nothing fails and nothing is edited leaves the index in agreement with the disk,
\* whatever earlier runs did, but for what they committed from a content that was not the one
\* hashed, and for files that vanished in the second in which the run began (runner.go:86-160).
THEOREM QuietRunsAreAccurate == Spec => []QuietRunIsAccurate
<1>1. Init => Reported /\ AccurateInvariant
  <2>1. ASSUME Init PROVE Reported
    BY <2>1 DEF Init, Reported, FilePcs
  <2>2. ASSUME Init, NEW f \in Files PROVE EmptyDatabase.files[f] = Null /\ ~IsIndexed(EmptyDatabase, f)
    BY DEF EmptyDatabase, IsIndexed, Passes
  <2>3. ASSUME Init PROVE AccurateInvariant
    BY <2>2, <2>3 DEF Init, AccurateInvariant, Dated, IndexedAsHashed, WalkSoFar, RowsOfTheRun,
                      FilesOfTheRun, FilePcs
  <2>4. QED
    BY <2>1, <2>3
<1>2. CommitInvariant /\ Reported /\ AccurateInvariant /\ [Next]_vars => Reported' /\ AccurateInvariant'
  BY StaysReported, DatedNext, StaysAsHashed, WalkNext, RowsNext, FilesNext DEF AccurateInvariant
<1>3. CommitInvariant /\ EveryPendingFileAttempted /\ AccurateInvariant => QuietRunIsAccurate
  BY AccurateAtTheEnd
<1>4. QED
  BY <1>1, <1>2, <1>3, CommitInvariantHolds, EveryPendingFileIsAttempted, PTL DEF Spec

-----------------------------------------------------------------------------
(* A run is bounded: what its liveness rests on, short of the fairness.    *)

\* What the attempt of one file costs at most: two for each chunk, and the stages.
FileCost == 2 * Cardinality(ChunkIds) + 7

\* How many steps the file in hand may still take, at most.
FileAhead ==
    CASE pc = "dispatch"   -> 2 * Cardinality(ChunkIds) + 5
      [] pc = "structural" -> 2 * Cardinality(ChunkIds) + 4
      [] pc = "chunker"    -> 2 * Cardinality(ChunkIds) + 3
      [] pc = "embed"      -> 2 * Cardinality(todo) + Cardinality(Buffered) + 2
      [] OTHER             -> 1

\* The files the loop may attempt, and those it has not attempted.
AllFiles == Cardinality(Files) * FileCost
FilesLeft == Cardinality(Files \ attempted) * FileCost

\* The paths the walk has not dealt with.
Unseen == Cardinality(Files \ visited)

\* The same for the run: in the walk two for each path, and then the files.
RunAhead ==
    CASE pc = "walk"        -> AllFiles + 2 * Unseen + 6
      [] pc = "classify"    -> AllFiles + 2 * Unseen + 5
      [] pc = "reconcile"   -> AllFiles + 5
      [] pc = "fingerprint" -> AllFiles + 4
      [] pc = "loop"        -> FilesLeft + (IF ids \subseteq attempted THEN 3 ELSE 2)
      [] pc \in FilePcs     -> FilesLeft + 3 + FileAhead
      [] pc = "summary"     -> 1
      [] OTHER              -> 0

\* Every step of the indexer brings the run nearer to its end, and no other step sets it
\* back: a start sets it to what a whole run may cost (runner.go:86-160, 205-229).
RunAdvances ==
    /\ RunAhead \in Nat
    /\ RunAhead' <= IF pc = "idle" THEN Cardinality(Files) * (FileCost + 2) + 6 ELSE RunAhead
    /\ RunnerStep => RunAhead' < RunAhead

\* The path in hand has not been dealt with.
OnePathAtATime == pc = "classify" => cur \in Files \ visited

LEMMA Times ==
    ASSUME NEW m \in Nat, NEW n \in Nat, NEW c \in Nat
    PROVE  /\ m * c \in Nat
           /\ m <= n => m * c <= n * c
           /\ (m + 1) * c = m * c + c
  OBVIOUS

\* Every path and every file is taken once.
LEMMA OneLess ==
    ASSUME NEW S \in SUBSET Files, NEW f \in Files \ S
    PROVE  /\ Cardinality(Files \ S) \in Nat /\ Cardinality(Files \ S) <= Cardinality(Files)
           /\ Cardinality(Files \ (S \cup {f})) \in Nat
           /\ Cardinality(Files \ S) = Cardinality(Files \ (S \cup {f})) + 1
<1>1. IsFiniteSet(Files) /\ IsFiniteSet(Files \ S)
  BY FilesAssumption, FS_Subset
<1>2. /\ Cardinality(Files) \in Nat /\ Cardinality(Files \ S) \in Nat
      /\ Cardinality(Files \ S) <= Cardinality(Files)
  BY <1>1, FS_CardinalityType, FS_Subset
<1> DEFINE left == Files \ S
<1>3. /\ IsFiniteSet(left \ {f}) /\ Cardinality(left \ {f}) = Cardinality(left) - 1
      /\ Cardinality(left \ {f}) \in Nat
  <2>1. f \in left /\ IsFiniteSet(left)
    BY <1>1
  <2> HIDE DEF left
  <2> QED
    BY <2>1, FS_RemoveElement, FS_CardinalityType
<1>4. left \ {f} = Files \ (S \cup {f})
  OBVIOUS
<1> QED
  BY <1>2, <1>3, <1>4

LEMMA Left ==
    ASSUME TypeOK
    PROVE  /\ Cardinality(Files) \in Nat
           /\ Cardinality(Files \ visited) \in 0 .. Cardinality(Files)
           /\ Cardinality(Files \ attempted) \in 0 .. Cardinality(Files)
  BY FilesAssumption, FS_CardinalityType, FS_Subset

LEMMA ChunksLeft ==
    ASSUME IsFiniteSet(ChunkIds), NEW S \in SUBSET ChunkIds
    PROVE  /\ Cardinality(ChunkIds) \in Nat
           /\ IsFiniteSet(S) /\ Cardinality(S) \in 0 .. Cardinality(ChunkIds)
  BY FS_CardinalityType, FS_Subset

\* The stages of a file.
LEMMA FileAdvances ==
    ASSUME IndexInvariant, TypeOK', IsFiniteSet(ChunkIds),
           \/ SkipOther \/ ReadFile \/ RunStructural \/ RunChunker
           \/ \E c \in ChunkIds : BufferChunk(c)
           \/ FlushEmbedBatch \/ FinishEmbeddings
    PROVE  pc \in FilePcs /\ pc' \in FilePcs /\ FileAhead' < FileAhead /\ attempted' = attempted
<1> DEFINE n == Cardinality(ChunkIds)
<1>1. TypeOK
  BY DEF IndexInvariant
<1>2. /\ n \in Nat
      /\ IsFiniteSet(todo) /\ Cardinality(todo) \in 0 .. n
      /\ IsFiniteSet(Buffered) /\ Cardinality(Buffered) \in 0 .. n
  <2>1. todo \in SUBSET ChunkIds /\ Buffered \in SUBSET ChunkIds
    BY <1>1 DEF TypeOK, Buffered
  <2> QED
    BY <2>1, ChunksLeft
<1>3. Cardinality(todo') \in 0 .. n /\ Cardinality(Buffered') \in 0 .. n
  <2>1. todo' \in SUBSET ChunkIds /\ Buffered' \in SUBSET ChunkIds
    BY DEF TypeOK, Buffered
  <2> QED
    BY <2>1, ChunksLeft
<1>4. CASE SkipOther
  <2>1. pc = "dispatch" /\ pc' = "commit" /\ attempted' = attempted
    BY <1>4 DEF SkipOther, loopVars
  <2> QED
    BY <1>2, <2>1 DEF FileAhead, FilePcs
<1>5. CASE ReadFile
  <2>1. pc = "dispatch" /\ pc' \in {"commit", "structural"} /\ attempted' = attempted
    BY <1>5 DEF ReadFile, loopVars
  <2> QED
    BY <1>2, <2>1 DEF FileAhead, FilePcs
<1>6. CASE RunStructural
  <2>1. pc = "structural" /\ pc' = "chunker" /\ attempted' = attempted
    BY <1>6 DEF RunStructural, loopVars
  <2> QED
    BY <1>2, <2>1 DEF FileAhead, FilePcs
<1>7. CASE RunChunker
  <2>1. pc = "chunker" /\ pc' = "embed" /\ attempted' = attempted /\ embedBuf' = embedBuf
    BY <1>7 DEF RunChunker, loopVars
  <2>2. Buffered' = {}
    BY <2>1 DEF IndexInvariant, BufferMatchesChunks, Buffered, NothingBuffered
  <2>3. Cardinality(Buffered') = 0
    BY <2>2, FS_EmptySet
  <2>4. FileAhead = 2 * n + 3 /\ FileAhead' = 2 * Cardinality(todo') + Cardinality(Buffered') + 2
    BY <2>1 DEF FileAhead
  <2> HIDE DEF n
  <2> QED
    BY <1>2, <1>3, <2>1, <2>3, <2>4 DEF FilePcs
<1>8. CASE \E c \in ChunkIds : BufferChunk(c)
  <2>1. PICK c \in ChunkIds : BufferChunk(c)
    BY <1>8
  <2>2. /\ pc = "embed" /\ pc' = "embed" /\ attempted' = attempted
        /\ c \in todo /\ todo' = todo \ {c}
        /\ embedBuf' = [embedBuf EXCEPT ![c] = tx.chunks[c].text]
    BY <2>1 DEF BufferChunk, loopVars
  <2>3. Buffered' \subseteq Buffered \cup {c}
    <3>1. \A k \in ChunkIds \ {c} : embedBuf'[k] = embedBuf[k]
      <4>1. DOMAIN embedBuf = ChunkIds
        BY <1>1 DEF TypeOK
      <4> QED
        BY <2>2, <4>1
    <3> QED
      BY <3>1 DEF Buffered
  <2>4. Cardinality(Buffered') <= Cardinality(Buffered) + 1
    <3>1. /\ IsFiniteSet(Buffered \cup {c})
          /\ Cardinality(Buffered \cup {c}) <= Cardinality(Buffered) + 1
      <4>1. /\ IsFiniteSet(Buffered \cup {c})
            /\ Cardinality(Buffered \cup {c})
                    = IF c \in Buffered THEN Cardinality(Buffered) ELSE Cardinality(Buffered) + 1
        BY <1>2, FS_AddElement, Zenon
      <4> QED
        BY <1>2, <4>1
    <3>2. Cardinality(Buffered') <= Cardinality(Buffered \cup {c})
      BY <2>3, <3>1, FS_Subset
    <3>3. Cardinality(Buffered \cup {c}) \in Nat
      BY <3>1, FS_CardinalityType
    <3> QED
      BY <1>2, <1>3, <3>1, <3>2, <3>3
  <2>5. Cardinality(todo') = Cardinality(todo) - 1
    BY <1>2, <2>2, FS_RemoveElement
  <2>6. /\ FileAhead = 2 * Cardinality(todo) + Cardinality(Buffered) + 2
        /\ FileAhead' = 2 * Cardinality(todo') + Cardinality(Buffered') + 2
    BY <2>2 DEF FileAhead
  <2> QED
    BY <1>2, <1>3, <2>2, <2>4, <2>5, <2>6 DEF FilePcs
<1>9. CASE FlushEmbedBatch
  <2>1. /\ pc = "embed" /\ pc' = "embed" /\ attempted' = attempted /\ todo' = todo
        /\ Buffered # {} /\ embedBuf' = NothingBuffered
    BY <1>9 DEF FlushEmbedBatch, loopVars
  <2>2. Buffered' = {}
    BY <2>1 DEF Buffered, NothingBuffered
  <2>3. Cardinality(Buffered') = 0 /\ Cardinality(Buffered) # 0
    BY <1>2, <2>1, <2>2, FS_EmptySet
  <2>4. /\ FileAhead = 2 * Cardinality(todo) + Cardinality(Buffered) + 2
        /\ FileAhead' = 2 * Cardinality(todo') + Cardinality(Buffered') + 2
    BY <2>1 DEF FileAhead
  <2> QED
    BY <1>2, <2>1, <2>3, <2>4 DEF FilePcs
<1>10. CASE FinishEmbeddings
  <2>1. pc = "embed" /\ pc' = "commit" /\ attempted' = attempted
    BY <1>10 DEF FinishEmbeddings, loopVars
  <2> QED
    BY <1>2, <2>1 DEF FileAhead, FilePcs
<1> QED
  BY <1>4, <1>5, <1>6, <1>7, <1>8, <1>9, <1>10

LEMMA FileAheadIs ==
    ASSUME TypeOK, IsFiniteSet(ChunkIds)
    PROVE  FileAhead \in Nat \ {0}
<1>1. todo \in SUBSET ChunkIds /\ Buffered \in SUBSET ChunkIds
  BY DEF TypeOK, Buffered
<1>2. /\ Cardinality(ChunkIds) \in Nat /\ Cardinality(todo) \in Nat
      /\ Cardinality(Buffered) \in Nat
  BY <1>1, ChunksLeft
<1> QED
  BY <1>2 DEF FileAhead

LEMMA Numbers ==
    /\ \A a \in Nat, x, y \in Nat : x < y => a + 3 + x < a + 3 + y
    /\ \A a \in Nat, x \in Nat : a + 2 * x + 6 < a + 2 * (x + 1) + 5
    /\ \A a \in Nat, x \in Nat : a + 2 * x + 6 < a + 2 * (x + 1) + 6
    /\ \A a, b \in Nat, c \in Nat : c >= 7 => a + 3 + (c - 2) < a + c + 2
  OBVIOUS

\* What is left is a number, and it is no more than at the beginning.
LEMMA RunAheadIs ==
    ASSUME TypeOK, IsFiniteSet(ChunkIds)
    PROVE  /\ FileCost \in Nat /\ FileCost = 2 * Cardinality(ChunkIds) + 7
           /\ Cardinality(ChunkIds) \in Nat
           /\ AllFiles \in Nat /\ FilesLeft \in Nat /\ FilesLeft <= AllFiles
           /\ Unseen \in 0 .. Cardinality(Files)
           /\ RunAhead \in Nat
           /\ pc = "idle" => RunAhead = 0
<1>1. Cardinality(ChunkIds) \in Nat
  BY FS_CardinalityType
<1>2. FileCost \in Nat /\ FileCost = 2 * Cardinality(ChunkIds) + 7
  BY <1>1 DEF FileCost
<1>3. /\ Cardinality(Files) \in Nat
      /\ Cardinality(Files \ visited) \in 0 .. Cardinality(Files)
      /\ Cardinality(Files \ attempted) \in 0 .. Cardinality(Files)
  BY Left
<1>4. AllFiles \in Nat /\ FilesLeft \in Nat /\ FilesLeft <= AllFiles
  BY <1>2, <1>3, Times DEF AllFiles, FilesLeft
<1>5. Unseen \in 0 .. Cardinality(Files)
  BY <1>3 DEF Unseen
<1>6. FileAhead \in Nat
  BY FileAheadIs
<1>7. RunAhead \in Nat
  BY <1>3, <1>4, <1>5, <1>6 DEF RunAhead
<1>8. pc = "idle" => RunAhead = 0
  BY DEF RunAhead, FilePcs
<1> QED
  BY <1>1, <1>2, <1>4, <1>5, <1>7, <1>8

\* Steps 1 to 4 of Run.
LEMMA WalkAdvances ==
    ASSUME IndexInvariant, TypeOK', OnePathAtATime, IsFiniteSet(ChunkIds),
           \/ \E f \in Files : HashFile(f) \/ SkipUnhashed(f)
           \/ SkipUnclassified \/ ClassifyFile \/ FinishWalk \/ ReconcileDeletions
           \/ EnsureFingerprint \/ RefuseFingerprint
    PROVE  RunAhead' < RunAhead
<1>1. TypeOK /\ visited \subseteq Files
  BY DEF IndexInvariant, TypeOK
<1>2. /\ AllFiles \in Nat /\ AllFiles' = AllFiles
      /\ Unseen \in Nat /\ FilesLeft \in Nat /\ FilesLeft <= AllFiles
  <2>1. AllFiles' = AllFiles
    BY DEF AllFiles, FileCost
  <2>2. Cardinality(Files) \in Nat
    BY FilesAssumption, FS_CardinalityType
  <2> QED
    BY <1>1, <2>1, <2>2, RunAheadIs
<1>3. CASE \E f \in Files : HashFile(f)
  <2>1. pc = "walk" /\ pc' = "classify" /\ visited' = visited
    BY <1>3 DEF HashFile
  <2>2. Unseen' = Unseen
    BY <2>1 DEF Unseen
  <2>3. RunAhead = AllFiles + 2 * Unseen + 6 /\ RunAhead' = AllFiles + 2 * Unseen + 5
    BY <1>2, <2>1, <2>2 DEF RunAhead, FilePcs
  <2> QED
    BY <1>2, <2>3
<1>4. ASSUME NEW f \in Files \ visited, pc \in {"walk", "classify"}, pc' = "walk",
             visited' = visited \cup {f}
      PROVE  RunAhead' < RunAhead
  <2>1. Unseen = Unseen' + 1 /\ Unseen' \in Nat
    BY <1>1, <1>4, OneLess DEF Unseen
  <2>2. /\ \/ RunAhead = AllFiles + 2 * Unseen + 6
           \/ RunAhead = AllFiles + 2 * Unseen + 5
        /\ RunAhead' = AllFiles + 2 * Unseen' + 6
    BY <1>2, <1>4 DEF RunAhead, FilePcs
  <2>3. /\ AllFiles + 2 * Unseen' + 6 < AllFiles + 2 * (Unseen' + 1) + 6
        /\ AllFiles + 2 * Unseen' + 6 < AllFiles + 2 * (Unseen' + 1) + 5
    BY <1>2, <2>1, Numbers
  <2> QED
    BY <2>1, <2>2, <2>3, Zenon
<1>5. CASE \E f \in Files : SkipUnhashed(f)
  BY <1>4, <1>5 DEF SkipUnhashed, PassOver
<1>6. CASE SkipUnclassified
  <2>1. cur \in Files \ visited /\ pc = "classify" /\ pc' = "walk" /\ visited' = visited \cup {cur}
    BY <1>6 DEF SkipUnclassified, PassOver, OnePathAtATime
  <2> QED
    BY <1>4, <2>1
<1>7. CASE ClassifyFile
  <2>1. cur \in Files \ visited /\ pc = "classify" /\ pc' = "walk" /\ visited' = visited \cup {cur}
    BY <1>7 DEF ClassifyFile, OnePathAtATime
  <2> QED
    BY <1>4, <2>1
<1>8. CASE FinishWalk
  <2>1. pc = "walk" /\ pc' = "reconcile"
    BY <1>8 DEF FinishWalk
  <2>2. RunAhead = AllFiles + 2 * Unseen + 6 /\ RunAhead' = AllFiles + 5
    BY <1>2, <2>1 DEF RunAhead, FilePcs
  <2> QED
    BY <1>2, <2>2
<1>9. CASE ReconcileDeletions
  <2>1. pc = "reconcile" /\ pc' = "fingerprint"
    BY <1>9 DEF ReconcileDeletions
  <2>2. RunAhead = AllFiles + 5 /\ RunAhead' = AllFiles + 4
    BY <1>2, <2>1 DEF RunAhead, FilePcs
  <2> QED
    BY <1>2, <2>2
<1>10. CASE EnsureFingerprint
  <2>1. pc = "fingerprint" /\ pc' = "loop" /\ attempted' = attempted /\ ids' = ids
    BY <1>10 DEF EnsureFingerprint, loopVars
  <2>2. FilesLeft' = FilesLeft
    BY <2>1 DEF FilesLeft, FileCost
  <2>3. RunAhead = AllFiles + 4 /\ RunAhead' \in {FilesLeft + 3, FilesLeft + 2}
    BY <2>1, <2>2 DEF RunAhead, FilePcs
  <2> QED
    BY <1>2, <2>3
<1>11. CASE RefuseFingerprint
  <2>1. pc = "fingerprint" /\ pc' = "idle"
    BY <1>11 DEF RefuseFingerprint, ForgetRun
  <2>2. RunAhead = AllFiles + 4 /\ RunAhead' = 0
    BY <2>1 DEF RunAhead, FilePcs
  <2> QED
    BY <1>2, <2>2
<1> QED
  BY <1>3, <1>5, <1>6, <1>7, <1>8, <1>9, <1>10, <1>11

\* The loop over the pending files, and the end of the run.
LEMMA LoopAdvances ==
    ASSUME IndexInvariant, TypeOK', IsFiniteSet(ChunkIds),
           \/ FetchPending \/ \E f \in Files : BeginFile(f)
           \/ CommitFile \/ FailFile \/ FailFileUnrecorded \/ FinishRun
    PROVE  RunAhead' < RunAhead
<1>1. TypeOK /\ attempted \subseteq Files
  BY DEF IndexInvariant, TypeOK
<1>2. /\ FilesLeft \in Nat
      /\ FileCost \in Nat /\ FileCost = 2 * Cardinality(ChunkIds) + 7 /\ Cardinality(ChunkIds) \in Nat
  BY <1>1, RunAheadIs
<1>3. attempted' = attempted => FilesLeft' = FilesLeft
  BY DEF FilesLeft, FileCost
<1>4. CASE FetchPending
  <2>1. /\ pc = "loop" /\ ids \subseteq attempted /\ attempted' = attempted
        /\ \/ pc' = "summary"
           \/ pc' = "loop" /\ ~(ids' \subseteq attempted')
    <3>1. PICK S \in PendingFiles(db, Cardinality(attempted) + FetchSize) :
            ids' = S /\ pc' = IF S \subseteq attempted THEN "summary" ELSE "loop"
      BY <1>4 DEF FetchPending
    <3>2. pc = "loop" /\ ids \subseteq attempted /\ attempted' = attempted
      BY <1>4 DEF FetchPending
    <3> QED
      BY <3>1, <3>2
  <2>2. RunAhead = FilesLeft + 3 /\ RunAhead' \in {1, FilesLeft + 2}
    BY <1>3, <2>1 DEF RunAhead, FilePcs
  <2> QED
    BY <1>2, <2>2
<1>5. CASE \E f \in Files : BeginFile(f)
  <2>1. PICK f \in Files : BeginFile(f)
    BY <1>5
  <2>2. /\ pc = "loop" /\ pc' = "dispatch"
        /\ f \in ids /\ f \in Files \ attempted /\ attempted' = attempted \cup {f}
    BY <2>1 DEF BeginFile
  <2>3. /\ Cardinality(Files \ attempted) = Cardinality(Files \ attempted') + 1
        /\ Cardinality(Files \ attempted') \in Nat
    BY <1>1, <2>2, OneLess
  <2>4. FilesLeft = FilesLeft' + FileCost /\ FilesLeft' \in Nat
    <3>1. FileCost' = FileCost
      BY DEF FileCost
    <3>2. /\ (Cardinality(Files \ attempted') + 1) * FileCost
                = Cardinality(Files \ attempted') * FileCost + FileCost
          /\ Cardinality(Files \ attempted') * FileCost \in Nat
      BY <1>2, <2>3, Times
    <3> QED
      BY <2>3, <3>1, <3>2, Zenon DEF FilesLeft
  <2>5. RunAhead = FilesLeft + 2
    BY <2>2 DEF RunAhead, FilePcs
  <2>6. FileAhead' = FileCost - 2
    <3>1. FileAhead' = 2 * Cardinality(ChunkIds) + 5
      BY <2>2 DEF FileAhead
    <3> QED
      BY <1>2, <3>1
  <2>7. RunAhead' = FilesLeft' + 3 + FileAhead'
    BY <2>2 DEF RunAhead, FilePcs
  <2>8. FilesLeft' + 3 + (FileCost - 2) < FilesLeft' + FileCost + 2
    <3>1. FileCost >= 7
      BY <1>2
    <3> QED
      BY <1>2, <2>4, <3>1, Numbers
  <2> QED
    BY <2>4, <2>5, <2>6, <2>7, <2>8, Zenon
<1>6. CASE CommitFile \/ FailFile \/ FailFileUnrecorded
  <2>1. pc \in FilePcs /\ pc' = "loop" /\ attempted' = attempted
    BY <1>6 DEF CommitFile, FailFile, FailFileUnrecorded, NextFile, loopVars, FilePcs
  <2>2. RunAhead = FilesLeft + 3 + FileAhead /\ RunAhead' \in {FilesLeft + 3, FilesLeft + 2}
    BY <1>3, <2>1 DEF RunAhead, FilePcs
  <2>3. FileAhead \in Nat \ {0}
    BY <1>1, FileAheadIs
  <2> QED
    BY <1>2, <2>2, <2>3
<1>7. CASE FinishRun
  <2>1. RunAhead = 1 /\ RunAhead' = 0
    BY <1>7 DEF FinishRun, ForgetRun, RunAhead, FilePcs
  <2> QED
    BY <2>1
<1> QED
  BY <1>4, <1>5, <1>6, <1>7

LEMMA RunnerAdvances ==
    ASSUME IndexInvariant, TypeOK', OnePathAtATime, IsFiniteSet(ChunkIds), RunnerStep
    PROVE  RunAhead' < RunAhead
<1>1. CASE \/ SkipOther \/ ReadFile \/ RunStructural \/ RunChunker
           \/ \E c \in ChunkIds : BufferChunk(c)
           \/ FlushEmbedBatch \/ FinishEmbeddings
  <2>1. pc \in FilePcs /\ pc' \in FilePcs /\ FileAhead' < FileAhead /\ attempted' = attempted
    BY <1>1, FileAdvances
  <2>2. FilesLeft' = FilesLeft
    BY <2>1 DEF FilesLeft, FileCost
  <2>3. RunAhead = FilesLeft + 3 + FileAhead /\ RunAhead' = FilesLeft + 3 + FileAhead'
    BY <2>1, <2>2 DEF RunAhead, FilePcs
  <2>4. FilesLeft \in Nat /\ FileAhead \in Nat
    BY RunAheadIs, FileAheadIs DEF IndexInvariant
  <2>5. FileAhead' \in Nat
    <3>1. todo' \in SUBSET ChunkIds /\ Buffered' \in SUBSET ChunkIds
      BY DEF TypeOK, Buffered
    <3>2. /\ Cardinality(ChunkIds) \in Nat /\ Cardinality(todo') \in Nat
          /\ Cardinality(Buffered') \in Nat
      BY <3>1, ChunksLeft
    <3> QED
      BY <3>2 DEF FileAhead
  <2>6. FilesLeft + 3 + FileAhead' < FilesLeft + 3 + FileAhead
    BY <2>1, <2>4, <2>5, Numbers
  <2> QED
    BY <2>3, <2>6, Zenon
<1> QED
  BY <1>1, WalkAdvances, LoopAdvances DEF RunnerStep

\* The environment sends a run back nowhere: it starts one, ends it, or leaves it alone.
LEMMA OthersDoNotSetBack ==
    ASSUME IndexInvariant, IsFiniteSet(ChunkIds), EnvironmentStep \/ UNCHANGED vars
    PROVE  RunAhead' <= IF pc = "idle" THEN Cardinality(Files) * (FileCost + 2) + 6 ELSE RunAhead
<1>1. TypeOK
  BY DEF IndexInvariant
<1>2. /\ AllFiles \in Nat /\ RunAhead \in Nat /\ FileCost \in Nat /\ Cardinality(Files) \in Nat
      /\ Unseen \in 0 .. Cardinality(Files)
      /\ pc = "idle" => RunAhead = 0
  BY <1>1, RunAheadIs, Left
<1>3. /\ Cardinality(Files) * (FileCost + 2) = AllFiles + 2 * Cardinality(Files)
      /\ Cardinality(Files) * (FileCost + 2) \in Nat
  BY <1>2 DEF AllFiles
<1>4. AllFiles' = AllFiles
  BY DEF AllFiles, FileCost
<1>5. CASE \E v \in Schemes : StartRun(v)
  <2>1. pc = "idle" /\ pc' = "walk" /\ visited' = visited
    BY <1>5 DEF StartRun, walkVars
  <2>2. Unseen' = Unseen
    BY <2>1 DEF Unseen
  <2>3. RunAhead' = AllFiles + 2 * Unseen + 6
    BY <1>4, <2>1, <2>2 DEF RunAhead, FilePcs
  <2> QED
    BY <1>2, <1>3, <2>1, <2>3
<1>6. CASE Interrupt
  <2>1. pc # "idle" /\ RunAhead' = 0
    BY <1>6 DEF Interrupt, ForgetRun, RunAhead, FilePcs
  <2> QED
    BY <1>2, <2>1
<1>7. CASE \/ \E f \in Files, c \in Contents \cup {Absent} : Edit(f, c)
           \/ Tick \/ DeleteIndex \/ UNCHANGED vars
  <2>1. UNCHANGED <<pc, visited, ids, attempted, todo, embedBuf>>
    BY <1>7 DEF Edit, Tick, DeleteIndex, vars, walkVars, loopVars, fileVars
  <2>2. UNCHANGED <<AllFiles, Unseen, FilesLeft, FileAhead>>
    BY <2>1 DEF AllFiles, Unseen, FilesLeft, FileAhead, FileCost, Buffered
  <2>3. RunAhead' = RunAhead
    BY <2>1, <2>2 DEF RunAhead, FilePcs
  <2> QED
    BY <1>2, <1>3, <2>3
<1> QED
  BY <1>5, <1>6, <1>7 DEF EnvironmentStep

LEMMA OnePathNext ==
    ASSUME IndexInvariant, OnePathAtATime, [Next]_vars
    PROVE  OnePathAtATime'
<1>1. CASE \E f \in Files : HashFile(f)
  BY <1>1 DEF HashFile, OnePathAtATime
<1>2. CASE pc' # "classify"
  BY <1>2 DEF OnePathAtATime
<1>3. CASE UNCHANGED <<pc, cur, visited>>
  BY <1>3 DEF OnePathAtATime
<1>4. CASE RunnerStep
  <2>1. CASE \/ \E f \in Files : SkipUnhashed(f) \/ BeginFile(f)
             \/ SkipUnclassified \/ ClassifyFile \/ FinishWalk \/ ReconcileDeletions
             \/ EnsureFingerprint \/ RefuseFingerprint
    BY <1>2, <2>1 DEF SkipUnhashed, SkipUnclassified, PassOver, BeginFile, ClassifyFile, FinishWalk,
                      ReconcileDeletions, EnsureFingerprint, RefuseFingerprint, ForgetRun
  <2>2. CASE FetchPending
    BY <1>2, <2>2 DEF FetchPending
  <2>3. CASE \/ SkipOther \/ ReadFile \/ RunStructural \/ RunChunker \/ FinishEmbeddings
    BY <1>2, <2>3 DEF SkipOther, ReadFile, RunStructural, RunChunker, FinishEmbeddings
  <2>4. CASE (\E c \in ChunkIds : BufferChunk(c)) \/ FlushEmbedBatch
    BY <1>2, <2>4 DEF BufferChunk, FlushEmbedBatch
  <2>5. CASE CommitFile \/ FailFile \/ FailFileUnrecorded \/ FinishRun
    BY <1>2, <2>5 DEF CommitFile, FailFile, FailFileUnrecorded, NextFile, FinishRun, ForgetRun
  <2> QED
    BY <1>1, <1>4, <2>1, <2>2, <2>3, <2>4, <2>5 DEF RunnerStep
<1>5. CASE EnvironmentStep \/ UNCHANGED vars
  <2>1. CASE (\E v \in Schemes : StartRun(v)) \/ Interrupt
    BY <1>2, <2>1 DEF StartRun, Interrupt, ForgetRun
  <2>2. CASE \/ \E f \in Files, c \in Contents \cup {Absent} : Edit(f, c)
             \/ Tick \/ DeleteIndex \/ UNCHANGED vars
    BY <1>3, <2>2 DEF Edit, Tick, DeleteIndex, vars, walkVars, fileVars
  <2> QED
    BY <1>5, <2>1, <2>2 DEF EnvironmentStep
<1> QED
  BY <1>4, <1>5 DEF Next

\* A run takes at most |Files| * (2 * |ChunkIds| + 9) + 6 steps, whatever is edited, fails or is
\* interrupted meanwhile: each takes it closer to its end and nothing sends it back, so the loop
\* over PendingFiles runs out (runner.go:86-160, 205-229).  A file has finitely many chunks.
THEOREM RunsAreBounded == IsFiniteSet(ChunkIds) => (Spec => [][RunAdvances]_vars)
<1> SUFFICES ASSUME IsFiniteSet(ChunkIds) PROVE Spec => [][RunAdvances]_vars
  OBVIOUS
<1>1. Init => OnePathAtATime
  BY DEF Init, OnePathAtATime
<1>2. IndexInvariant /\ OnePathAtATime /\ [Next]_vars => OnePathAtATime'
  BY OnePathNext
<1>3. IndexInvariant => RunAhead \in Nat
  BY RunAheadIs DEF IndexInvariant
<1>4. IndexInvariant /\ IndexInvariant' /\ (RunAhead \in Nat)' /\ OnePathAtATime /\ [Next]_vars
        => RunAdvances
  <2> SUFFICES ASSUME IndexInvariant, IndexInvariant', (RunAhead \in Nat)', OnePathAtATime, [Next]_vars
               PROVE  RunAdvances
    OBVIOUS
  <2>1. TypeOK /\ TypeOK'
    BY DEF IndexInvariant
  <2>2. RunAhead \in Nat /\ (pc = "idle" => RunAhead = 0)
    BY <2>1, RunAheadIs
  <2>3. RunnerStep => RunAhead' < RunAhead
    BY <2>1, RunnerAdvances
  <2>4. RunAhead' <= IF pc = "idle" THEN Cardinality(Files) * (FileCost + 2) + 6 ELSE RunAhead
    <3>1. CASE RunnerStep
      <4>1. \A x, y \in Nat : x < y => x <= y /\ y # 0
        OBVIOUS
      <4> QED
        BY <2>2, <2>3, <3>1, <4>1, Zenon
    <3>2. CASE EnvironmentStep \/ UNCHANGED vars
      BY <3>2, OthersDoNotSetBack
    <3> QED
      BY <3>1, <3>2 DEF Next
  <2> QED
    BY <2>2, <2>3, <2>4 DEF RunAdvances
<1> QED
  BY <1>1, <1>2, <1>3, <1>4, IndexInvariantHolds, PTL DEF Spec

=============================================================================
