---------------------------- MODULE SearchServer ----------------------------
(***************************************************************************)
(* One SearchBroadly call of foldermcp v3, from the start of the server    *)
(* that answers it to the result the router hands to the language model:   *)
(* the read-side gate, three source goroutines that query the index over a *)
(* pool of one connection, the two-second deadline, the enforcement of     *)
(* required sources, and the fusion of the lists.  Meanwhile the indexer   *)
(* commits.  Every query is two steps, so that its connection is seen to   *)
(* be held; what it reads is the snapshot at the first of them.            *)
(***************************************************************************)
EXTENDS IndexWriter, Sequences

CONSTANTS
    QuantMode,         \* fingerprint -> its quantization_mode
    ServerScheme,      \* the fingerprint of the server's own encoder
    Queries,           \* the requests: mode, texts matched, files matched
    MaxResults,        \* after SearchBroadly has clamped it
    SharedPool,        \* all-v3: indexer and server share the connection
    InitialDatabases,  \* what the index may hold when the server starts
    MaxCommits,        \* bound: transactions of the indexer
    MaxFaults          \* bound: failing statements and embeddings

Sources == {"fts", "filename", "vector"}

\* The mode in which a source is the required one.
ModeOf == [fts |-> "lexical", filename |-> "filename", vector |-> "semantic"]

\* No handler checks the mode: another string starts no source at all.
Modes == {"auto", "unknown"} \cup {ModeOf[s] : s \in Sources}

\* texts or files is Null when the query has no usable term for that source.
Query == [mode : Modes, texts : SUBSET Texts \cup {Null}, files : SUBSET Files \cup {Null}]

ASSUME SearchAssumption ==
    /\ ServerScheme \in Schemes
    /\ DOMAIN QuantMode = Schemes
    /\ Queries \subseteq Query
    /\ InitialDatabases \subseteq Database
    /\ \A d \in InitialDatabases : Sound(d) /\ VectorsMissingOnly(d, {})
    /\ MaxResults \in 1 .. 100
    /\ SharedPool \in BOOLEAN
    /\ Seconds \subseteq Nat
    /\ MaxCommits \in Nat
    /\ MaxFaults \in Nat
    /\ IsFiniteSet(NodeIds) /\ IsFiniteSet(ChunkIds)

VARIABLES
    conn,      \* who holds the pool's connection
    commits, faults,
    (* The server process. *)
    server,    \* [phase, embedder, disabled]: embedder is false when nil
    pc,        \* of the SearchBroadly call
    query,
    expired,   \* the deadline has passed
    src,       \* the goroutines, one per source
    ch,        \* the channel on which they answer
    turns,     \* iterations of the collecting loop
    resp,      \* the response under construction
    (* Observers, read by no action. *)
    gate,      \* the fingerprint NewServer found
    compared,  \* schemes of the vectors that some KNN compared
    touched    \* nodes that a commit has changed since the call began

vars == <<db, conn, commits, faults, server, pc, query, expired, src, ch, turns,
          resp, gate, compared, touched>>

-----------------------------------------------------------------------------
(* Goroutines and responses.                                               *)

Holding == {"rows", "hydrating", "fetching"}      \* stages with the connection
Stages == {"off", "embed", "query", "hydrate", "chunks", "send", "gone"} \cup Holding
Executed == {"OK", "EMPTY_BUT_EXECUTED"}

\* CONTRACT_ERROR is treated like DEGRADED wherever a status is read.
SourceStatuses == Executed \cup {"DEGRADED"}

NoRows == [n \in NodeIds |-> Null]
NoTexts == [n \in NodeIds |-> {}]

Goroutine ==
    [at : Stages, found : SUBSET NodeIds, rows : [NodeIds -> NodeRow \cup {Null}],
     left : SUBSET NodeIds, texts : [NodeIds -> SUBSET Texts],
     status : SourceStatuses \cup {Null}]

Idle == [at |-> "off", found |-> {}, rows |-> NoRows, left |-> {}, texts |-> NoTexts,
         status |-> Null]

Hit == [row : NodeRow \cup {Null}, texts : SUBSET Texts, sources : SUBSET Sources]

\* Null stands for a node that is not among the hits.
ASSUME HitAssumption == Null \notin Hit

\* warned: the list of warnings is not empty.
Response ==
    [status : {"ok", "degraded", "error"}, completeness : {"full", "partial"},
     failed : SUBSET Sources, retryable : BOOLEAN, answered : SUBSET Sources,
     warned : BOOLEAN, hits : [NodeIds -> Hit \cup {Null}]]

EmptyResponse ==
    [status |-> "ok", completeness |-> "full", failed |-> {}, retryable |-> FALSE,
     answered |-> {}, warned |-> FALSE, hits |-> [n \in NodeIds |-> Null]]

TypeOK ==
    /\ db \in Database
    /\ conn \in {"free", "indexer"} \cup Sources
    /\ commits \in 0 .. MaxCommits
    /\ faults \in 0 .. MaxFaults
    /\ server \in [phase : {"down", "gated", "up"}, embedder : BOOLEAN, disabled : BOOLEAN]
    /\ pc \in {"idle", "collecting", "answered", "delivered"}
    /\ query \in Queries \cup {Null}
    /\ expired \in BOOLEAN
    /\ src \in [Sources -> Goroutine]
    /\ ch \in Seq(Sources)
    /\ turns \in 0 .. Cardinality(Sources)
    /\ resp \in Response
    /\ gate \in Schemes \cup {Null}
    /\ compared \subseteq Schemes
    /\ touched \subseteq NodeIds

Init ==
    /\ db \in InitialDatabases
    /\ conn = "free"
    /\ commits = MaxCommits
    /\ faults = MaxFaults
    /\ server = [phase |-> "down", embedder |-> FALSE, disabled |-> FALSE]
    /\ pc = "idle"
    /\ query = Null
    /\ expired = FALSE
    /\ src = [s \in Sources |-> Idle]
    /\ ch = << >>
    /\ turns = 0
    /\ resp = EmptyResponse
    /\ gate = Null
    /\ compared = {}
    /\ touched = {}

Started == {s \in Sources : src[s].at # "off"}

\* The context of the call: past its deadline, or cancelled on return.
ContextDone == expired \/ pc \in {"answered", "delivered"}

Fault == faults > 0 /\ faults' = faults - 1

serverVars == <<server, gate>>
callVars == <<pc, query, expired, turns, resp>>
poolVars == <<conn, ch>>
indexVars == <<db, commits, touched>>

-----------------------------------------------------------------------------
(* The server starts.                                                      *)

\* Fault: the reader does not look at the fingerprint.
CompatibleAlways(d) == TRUE

\* SemanticIndexCompatible compares the quantization_mode and nothing else.
Compatible(d) == d.fp = Null \/ QuantMode[d.fp] = QuantMode[ServerScheme]

\* The command looks for the model files and asks the gate whether to keep the
\* embedder; a fingerprint that cannot be read counts as incompatible.
OpenServer ==
    /\ server.phase = "down"
    /\ \/ \E installed \in BOOLEAN :
            server' = [server EXCEPT !.phase = "gated",
                                     !.embedder = installed /\ Compatible(db)]
          /\ UNCHANGED faults
       \/ Fault /\ server' = [server EXCEPT !.phase = "gated"]
    /\ UNCHANGED <<indexVars, poolVars, callVars, src, gate, compared>>

\* NewServer asks the gate again, for the vector handler.
NewServer ==
    /\ server.phase = "gated"
    /\ \/ server' = [server EXCEPT !.phase = "up", !.disabled = ~Compatible(db)]
          /\ UNCHANGED faults
       \/ Fault /\ server' = [server EXCEPT !.phase = "up", !.disabled = TRUE]
    /\ gate' = db.fp
    /\ UNCHANGED <<indexVars, poolVars, callVars, src, compared>>

-----------------------------------------------------------------------------
(* The call begins.                                                        *)

\* The vector source needs an embedder; the mode "semantic" needs it so much
\* that the call fails without.
StartSearch(q) ==
    /\ server.phase = "up"
    /\ pc = "idle"
    /\ q.mode = "semantic" => server.embedder
    /\ query' = q
    /\ pc' = "collecting"
    /\ src' = [s \in Sources |->
          IF /\ q.mode \in {"auto", ModeOf[s]}
             /\ s = "vector" => server.embedder
          THEN [Idle EXCEPT !.at = IF s = "vector" THEN "embed" ELSE "query"]
          ELSE Idle]
    /\ touched' = {}
    /\ UNCHANGED <<db, commits, faults, poolVars, serverVars, expired, turns, resp, compared>>

RefuseSemantic(q) ==
    /\ server.phase = "up"
    /\ pc = "idle"
    /\ q.mode = "semantic" /\ ~server.embedder
    /\ query' = q
    /\ pc' = "answered"
    /\ resp' = [EmptyResponse EXCEPT !.status = "error", !.completeness = "partial",
                                     !.failed = {"vector"}]
    /\ UNCHANGED <<indexVars, faults, poolVars, serverVars, expired, src, turns, compared>>

Expire ==
    /\ pc = "collecting"
    /\ ~expired
    /\ expired' = TRUE
    /\ UNCHANGED <<indexVars, faults, poolVars, serverVars, pc, query, src, turns, resp, compared>>

-----------------------------------------------------------------------------
(* What the queries find.                                                  *)

HasTerms(s) ==
    /\ s = "fts" => query.texts # Null
    /\ s = "filename" => query.files # Null

\* The rows a source's query selects, as <<node, row id>>.  The text and the
\* vector query join the chunks but not the files: they see chunks of files
\* that are marked deleted.
MatchRows(d, s) ==
    CASE ~HasTerms(s) -> {}
      [] s = "fts" /\ HasTerms(s) ->
            {<<d.chunks[c].node, c>> :
                c \in {k \in ChunkIds : d.chunks[k] # Null /\ d.fts[k] \in query.texts}}
      [] s = "vector" ->
            {<<d.chunks[c].node, c>> :
                c \in {k \in ChunkIds : d.chunks[k] # Null /\ d.emb[k] # Null}}
      [] s = "filename" /\ HasTerms(s) ->
            {<<n, n>> : n \in {m \in NodeIds : /\ d.nodes[m] # Null
                                               /\ d.nodes[m].file \in query.files
                                               /\ IsLive(d, d.nodes[m].file)}}

\* LIMIT k after an ORDER BY: which rows come first is left open.
Top(rows, k) ==
    {S \in SUBSET rows : \/ S = rows /\ Cardinality(S) <= k
                         \/ Cardinality(S) = k}

\* clampK takes 0, which is half of 1, for "not given".
RowLimit(s) ==
    IF s # "filename" THEN MaxResults
    ELSE IF MaxResults \div 2 = 0 THEN 20 ELSE MaxResults \div 2

NodesIn(rows) == {r[1] : r \in rows}

ChunksPerNode == 2

ChunkTexts(d, n) == {<<d.chunks[c].text, c>> :
                        c \in {k \in ChunkIds : d.chunks[k] # Null /\ d.chunks[k].node = n}}

-----------------------------------------------------------------------------
(* A source goroutine.                                                     *)

\* QueryContext: waits for the connection unless the context is done.
Acquire(s) ==
    /\ conn = "free"
    /\ ~ContextDone
    /\ conn' = s

\* The last row has been read: database/sql gives the connection back.
Release == conn' = "free"

Moved(s, stage) == [src EXCEPT ![s].at = stage]

\* The goroutine has its answer.  Its list is empty unless the source hands out
\* what it had; nothing of it is hydrated.
Answer(s, status, nodes) ==
    src' = [src EXCEPT ![s] = [Idle EXCEPT !.at = "send", !.status = status, !.found = nodes]]

\* EmbedQuery takes no context: it is not cancelled.
EmbedQuery ==
    /\ src["vector"].at = "embed"
    /\ \/ src' = Moved("vector", "query") /\ UNCHANGED faults
       \/ Fault /\ Answer("vector", "DEGRADED", {})
    /\ UNCHANGED <<indexVars, poolVars, serverVars, callVars, compared>>

\* A disabled vector handler, or a query without a term for this source.
AnswerUnqueried(s) ==
    /\ src[s].at = "query"
    /\ IF s = "vector" THEN server.disabled /\ Answer(s, "DEGRADED", {})
       ELSE ~HasTerms(s) /\ Answer(s, "EMPTY_BUT_EXECUTED", {})
    /\ UNCHANGED <<indexVars, faults, poolVars, serverVars, callVars, compared>>

Match(s) ==
    /\ src[s].at = "query"
    /\ HasTerms(s)
    /\ s = "vector" => ~server.disabled
    /\ Acquire(s)
    /\ \E R \in Top(MatchRows(db, s), RowLimit(s)) :
          src' = [src EXCEPT ![s].at = "rows", ![s].found = NodesIn(R)]
    /\ compared' = IF s = "vector"
                   THEN compared \cup {db.emb[c].scheme : c \in {k \in ChunkIds : db.emb[k] # Null}}
                   ELSE compared
    /\ UNCHANGED <<indexVars, faults, ch, serverVars, callVars>>

\* Fault: the rows are still open when the nodes are hydrated.
EndMatchUnclosed(s) ==
    /\ src[s].at = "rows"
    /\ IF src[s].found = {} THEN Answer(s, "EMPTY_BUT_EXECUTED", {})
                            ELSE src' = Moved(s, "hydrate")
    /\ UNCHANGED <<indexVars, faults, poolVars, serverVars, callVars, compared>>

EndMatch(s) ==
    /\ src[s].at = "rows"
    /\ Release
    /\ IF src[s].found = {} THEN Answer(s, "EMPTY_BUT_EXECUTED", {})
                            ELSE src' = Moved(s, "hydrate")
    /\ UNCHANGED <<indexVars, faults, ch, serverVars, callVars, compared>>

\* hydrateNodes, first query: nodes and their files.
Hydrate(s) ==
    /\ src[s].at = "hydrate"
    /\ Acquire(s)
    /\ src' = [src EXCEPT ![s].at = "hydrating",
                          ![s].rows = [n \in NodeIds |->
                              IF n \in src[s].found THEN db.nodes[n] ELSE Null]]
    /\ UNCHANGED <<indexVars, faults, ch, serverVars, callVars, compared>>

EndHydrate(s) ==
    /\ src[s].at = "hydrating"
    /\ Release
    /\ src' = [src EXCEPT ![s].at = "chunks",
                          ![s].left = {n \in NodeIds : src[s].rows[n] # Null}]
    /\ UNCHANGED <<indexVars, faults, ch, serverVars, callVars, compared>>

\* Fault: the chunks are looked up by the wrong node.
FetchChunksOfAnother(s) ==
    /\ src[s].at = "chunks"
    /\ Acquire(s)
    /\ \E n \in src[s].left, m \in src[s].found :
       \E T \in Top(ChunkTexts(db, m), ChunksPerNode) :
          src' = [src EXCEPT ![s].at = "fetching",
                             ![s].left = @ \ {n},
                             ![s].texts[n] = {t[1] : t \in T}]
    /\ UNCHANGED <<indexVars, faults, ch, serverVars, callVars, compared>>

\* fetchTopChunks, once for every node that was found, in no fixed order.
FetchChunks(s) ==
    /\ src[s].at = "chunks"
    /\ Acquire(s)
    /\ \E n \in src[s].left : \E T \in Top(ChunkTexts(db, n), ChunksPerNode) :
          src' = [src EXCEPT ![s].at = "fetching",
                             ![s].left = @ \ {n},
                             ![s].texts[n] = {t[1] : t \in T}]
    /\ UNCHANGED <<indexVars, faults, ch, serverVars, callVars, compared>>

EndFetch(s) ==
    /\ src[s].at = "fetching"
    /\ Release
    /\ src' = Moved(s, "chunks")
    /\ UNCHANGED <<indexVars, faults, ch, serverVars, callVars, compared>>

AnswerHydrated(s) ==
    /\ src[s].at = "chunks"
    /\ src[s].left = {}
    /\ src' = [src EXCEPT ![s].at = "send", ![s].status = "OK"]
    /\ UNCHANGED <<indexVars, faults, poolVars, serverVars, callVars, compared>>

\* Where a statement is running or about to run.
Querying(s) ==
    \/ src[s].at = "query" /\ HasTerms(s) /\ (s = "vector" => ~server.disabled)
    \/ src[s].at \in {"hydrate"} \cup Holding
    \/ src[s].at = "chunks" /\ src[s].left # {}

GiveBack(s) == conn' = IF conn = s THEN "free" ELSE conn

\* Fault: rows.Err() is not looked at after the loop over the rows.
FailQueryUnnoticed(s) ==
    /\ Querying(s)
    /\ \/ ContextDone /\ UNCHANGED faults
       \/ Fault
    /\ GiveBack(s)
    /\ \/ src[s].at = "rows" /\ \E part \in SUBSET src[s].found :
             src' = [src EXCEPT ![s].at = "hydrate", ![s].found = part]
       \/ src[s].at # "rows" /\ Answer(s, "DEGRADED", {})
    /\ UNCHANGED <<indexVars, ch, serverVars, callVars, compared>>

\* A statement fails, or the context ends it.  When it was the match, fts and
\* vector hand out the rows read so far; any other failure leaves no list.
FailQuery(s) ==
    /\ Querying(s)
    /\ \/ ContextDone /\ UNCHANGED faults
       \/ Fault
    /\ GiveBack(s)
    /\ \E part \in SUBSET src[s].found :
          /\ (src[s].at # "rows" \/ s = "filename") => part = {}
          /\ Answer(s, "DEGRADED", part)
    /\ UNCHANGED <<indexVars, ch, serverVars, callVars, compared>>

\* Fault: room for one answer only.
ChannelCapacityOne == 1

ChannelCapacity == 3

Send(s) ==
    /\ src[s].at = "send"
    /\ Len(ch) < ChannelCapacity
    /\ ch' = Append(ch, s)
    /\ src' = Moved(s, "gone")
    /\ UNCHANGED <<indexVars, faults, conn, serverVars, callVars, compared>>

-----------------------------------------------------------------------------
(* The handler collects, enforces and fuses.                               *)

Collecting == pc = "collecting" /\ turns < Cardinality(Started)

Collect ==
    /\ Collecting
    /\ ch # << >>
    /\ LET s == Head(ch)
       IN  resp' = [resp EXCEPT !.answered = @ \cup {s},
                                !.failed = IF src[s].status \in Executed THEN @ ELSE @ \cup {s}]
    /\ ch' = Tail(ch)
    /\ turns' = turns + 1
    /\ UNCHANGED <<indexVars, faults, conn, serverVars, pc, query, expired, src, compared>>

\* Fault: the deadline is noted as a warning only.
CollectDeadlineQuietly ==
    /\ Collecting
    /\ expired
    /\ resp' = [resp EXCEPT !.warned = TRUE]
    /\ turns' = turns + 1
    /\ UNCHANGED <<indexVars, faults, poolVars, serverVars, pc, query, expired, src, compared>>

\* Fault: the handler waits for the answers alone.
CollectDeadlineNever == FALSE /\ UNCHANGED vars

\* The other case of the select, taken even when an answer is there.
CollectDeadline ==
    /\ Collecting
    /\ expired
    /\ resp' = [resp EXCEPT !.warned = TRUE, !.completeness = "partial",
                            !.status = "degraded"]
    /\ turns' = turns + 1
    /\ UNCHANGED <<indexVars, faults, poolVars, serverVars, pc, query, expired, src, compared>>

Collected == pc = "collecting" /\ turns = Cardinality(Started)

ExecutedOK(s) == s \in resp.answered /\ src[s].status \in Executed

RequiredMissing == \E s \in Sources : query.mode = ModeOf[s] /\ ~ExecutedOK(s)

\* The early return: whatever the completeness was so far, it stays.
Enforce ==
    /\ Collected
    /\ RequiredMissing
    /\ resp' = [resp EXCEPT !.status = "error"]
    /\ pc' = "answered"
    /\ UNCHANGED <<indexVars, faults, poolVars, serverVars, query, expired, src, turns, compared>>

ListedIn(n) == {s \in resp.answered : n \in src[s].found}

\* rrfFuse takes a node's hydration from any list that has one.
HitFrom(n, s) == [row |-> src[s].rows[n], texts |-> src[s].texts[n], sources |-> ListedIn(n)]

Donors(n) ==
    LET hydrated == {s \in ListedIn(n) : src[s].rows[n] # Null}
    IN  IF hydrated = {} THEN ListedIn(n) ELSE hydrated

\* Fault: the grade goes into the wrong field.
GradedSwapped(r) ==
    IF r.failed = {} THEN r ELSE [r EXCEPT !.status = "partial", !.retryable = TRUE]

Graded(r) ==
    IF r.failed = {} THEN r
    ELSE [r EXCEPT !.completeness = "partial",
                   !.status = IF @ = "ok" THEN "degraded" ELSE @,
                   !.retryable = TRUE]

\* The fused list, cut to MaxResults: which hits score best is left open.
Fuse ==
    /\ Collected
    /\ ~RequiredMissing
    /\ \E keep \in Top({n \in NodeIds : ListedIn(n) # {}}, MaxResults) :
       \E donor \in [keep -> Sources] :
          /\ \A n \in keep : donor[n] \in Donors(n)
          /\ resp' = Graded([resp EXCEPT !.hits = [n \in NodeIds |->
                        IF n \in keep THEN HitFrom(n, donor[n]) ELSE Null]])
    /\ pc' = "answered"
    /\ UNCHANGED <<indexVars, faults, poolVars, serverVars, query, expired, src, turns, compared>>

\* The router converts the response and annotates it.
AnnotateCompleteness ==
    /\ pc = "answered"
    /\ resp' = [resp EXCEPT !.warned = @ \/ resp.completeness = "partial"]
    /\ pc' = "delivered"
    /\ UNCHANGED <<indexVars, faults, poolVars, serverVars, query, expired, src, turns, compared>>

-----------------------------------------------------------------------------
(* The indexer, seen from outside.                                         *)

\* What a hit on node n is made from.
Picture(d, n) ==
    [row |-> d.nodes[n],
     live |-> d.nodes[n] # Null /\ IsLive(d, d.nodes[n].file),
     chunks |-> {<<c, d.chunks[c].text, d.emb[c]>> :
                    c \in {k \in ChunkIds : d.chunks[k] # Null /\ d.chunks[k].node = n}}]

\* In all-v3 a transaction of the indexer takes the connection that the
\* searches need, and keeps it while it extracts and embeds.
IndexerBegin ==
    /\ SharedPool
    /\ server.phase = "up"
    /\ conn = "free"
    /\ commits > 0
    /\ conn' = "indexer"
    /\ UNCHANGED <<indexVars, faults, ch, serverVars, callVars, src, compared>>

IndexerCommit ==
    /\ IF SharedPool THEN conn = "indexer" /\ conn' = "free" ELSE UNCHANGED conn
    /\ commits > 0
    /\ commits' = commits - 1
    /\ Commit
    /\ touched' = touched \cup {n \in NodeIds : Picture(db, n) # Picture(db', n)}
    /\ UNCHANGED <<faults, ch, serverVars, callVars, src, compared>>

IndexerRollback ==
    /\ conn = "indexer"
    /\ conn' = "free"
    /\ commits' = commits - 1
    /\ UNCHANGED <<db, touched, faults, ch, serverVars, callVars, src, compared>>

-----------------------------------------------------------------------------
SourceStep(s) ==
    \/ AnswerUnqueried(s) \/ Match(s) \/ EndMatch(s) \/ Hydrate(s) \/ EndHydrate(s)
    \/ FetchChunks(s) \/ EndFetch(s) \/ AnswerHydrated(s) \/ FailQuery(s) \/ Send(s)

HandlerStep == Collect \/ CollectDeadline \/ Enforce \/ Fuse \/ AnnotateCompleteness

Next ==
    \/ OpenServer \/ NewServer
    \/ \E q \in Queries : StartSearch(q) \/ RefuseSemantic(q)
    \/ Expire
    \/ EmbedQuery
    \/ \E s \in Sources : SourceStep(s)
    \/ HandlerStep
    \/ IndexerBegin \/ IndexerCommit \/ IndexerRollback

Spec == Init /\ [][Next]_vars

\* The scheduler runs every goroutine and the timer fires.  Nothing is asked of
\* EmbedQuery, which waits for a lock and for native code, nor of the indexer.
FairSpec ==
    /\ Spec
    /\ WF_vars(HandlerStep)
    /\ WF_vars(Expire)
    /\ \A s \in Sources : WF_vars(SourceStep(s))

-----------------------------------------------------------------------------
(* Safety.                                                                 *)

Returned == pc \in {"answered", "delivered"}

\* A response that does not admit to a gap has none: every source that was
\* started has answered, and its query ran to the end (search_broadly.go:
\* 120-136 and 169-175), whatever answers raced the deadline.
HonestCompleteness ==
    (Returned /\ resp.status # "error" /\ resp.completeness = "full")
        => \A s \in Started : ExecutedOK(s)

\* A hit on a node that no commit touched during the call says exactly what the
\* index says: its file and name, its chunks, and that each listed source
\* matches it.  A partial answer may lack the hydration, never mix it up
\* (hydrate.go:58-71, search_broadly.go:209-236).
UntouchedHitsAreExact ==
    Returned => \A n \in NodeIds \ touched : resp.hits[n] # Null =>
        LET hit == resp.hits[n]
        IN  /\ \A s \in hit.sources : n \in NodesIn(MatchRows(db, s))
            /\ hit.row # Null =>
                  /\ hit.row = db.nodes[n]
                  /\ hit.texts \subseteq {t[1] : t \in ChunkTexts(db, n)}
                  /\ Cardinality(ChunkTexts(db, n)) <= ChunksPerNode =>
                        hit.texts = {t[1] : t \in ChunkTexts(db, n)}

Unlimited(s) == Cardinality(MatchRows(db, s)) <= RowLimit(s)

\* If no commit fell into the call and the response claims to be complete, it
\* has a hydrated hit for every match of every source that was started, as far
\* as the limits allow (search_broadly.go:160-167).
QuietAnswersAreComplete ==
    (Returned /\ resp.status = "ok" /\ touched = {}) =>
        LET matched == UNION {NodesIn(MatchRows(db, s)) : s \in Started}
        IN  (Cardinality(matched) <= MaxResults /\ \A s \in Started : Unlimited(s)) =>
              \A n \in matched : resp.hits[n] # Null /\ resp.hits[n].row # Null

\* "KNN on incomparable int8 codes" never runs against an index that had its
\* fingerprint when the server was built (server.go:62-72).
KNNComparesLikeWithLike ==
    gate # Null => \A v \in compared : QuantMode[v] = QuantMode[ServerScheme]

\* Two sources and an indexer take turns on one connection: whoever waits for
\* it has given it back before, so no statement waits for a row set of its own
\* goroutine (search reads the last row before it hydrates; hydrate.go:44-56).
NobodyWaitsForItself ==
    \A s \in Sources : src[s].at \notin Holding => conn # s

-----------------------------------------------------------------------------
(* Liveness.                                                               *)

\* A call returns although the connection may never come free and an embedding
\* may never end (search_broadly.go:23-24, 130-134).
SearchReturns == pc = "collecting" ~> pc = "delivered"

\* No goroutine outlives the call for good, but one inside EmbedQuery: whoever
\* was not collected can still send, because the channel has room for all
\* (search_broadly.go:56).
GoroutinesEnd == pc = "delivered" ~> \A s \in Sources : src[s].at \in {"off", "gone", "embed"}

-----------------------------------------------------------------------------
(* Claims of the repository that the code does not keep.                   *)

\* "ensuring the LLM always surfaces degraded results to the user"
\* (completeness.go:4): a source that was started and failed leaves a warning.
FailedSourceIsAnnounced == pc = "delivered" => (resp.failed # {} => resp.warned)

\* "A genuinely fresh index, compatible by construction once the indexer writes
\* the fingerprint" (compat.go:33-34): whenever the gate was passed, vectors of
\* another quantisation are never compared with the server's codes.
FreshIndexIsComparable == \A v \in compared : QuantMode[v] = QuantMode[ServerScheme]
=============================================================================
