------------------------------ MODULE IndexTools ------------------------------
(***************************************************************************)
(* The tools of foldermcp v3 other than search, in sessions of a client:   *)
(* paging through a folder, inspecting a node found by a search, and the   *)
(* status of the index.  Each of their SQL statements sees the index as it *)
(* is at that moment, while an indexer (IndexRun, here by its transactions)*)
(* changes it.                                                             *)
(***************************************************************************)
EXTENDS Naturals, Sequences, FiniteSets, FiniteSetsExt

CONSTANTS
    Entries,     \* what one folder may list, as numbers in the order of paths
    Subdirs,     \* those of them that are folders, known by the file below
    Passes,      \* of pipeline_state
    MaxItems,    \* entries of a page
    MaxNodeId,   \* bound on the row ids of nodes
    MaxWrites    \* bound: transactions of the indexer

ASSUME ToolsAssumption ==
    /\ Entries \subseteq Nat \ {0}
    /\ IsFiniteSet(Entries)
    /\ Subdirs \subseteq Entries
    /\ "embeddings" \in Passes
    /\ MaxItems \in Nat \ {0}
    /\ {MaxNodeId, MaxWrites} \subseteq Nat

VARIABLES
    file,      \* entry -> [row, status], of the file it stands for
    nodes,     \* node id -> [file, made, n]; file = 0: no such row
    writes,
    session    \* what the client is doing: see the actions

toolsVars == <<file, nodes, writes, session>>

NoNode == [file |-> 0, made |-> 0, n |-> 0]
NoStatus == [p \in Passes |-> "none"]
Live == {f \in Entries : file[f].row = "live"}
Ids(t) == {i \in DOMAIN t : t[i] # NoNode}
NoSession == [kind |-> "none", at |-> "done"]

ToolsInit ==
    /\ file = [f \in Entries |-> [row |-> "none", status |-> NoStatus]]
    /\ nodes = [i \in 1 .. MaxNodeId |-> NoNode]
    /\ writes = MaxWrites
    /\ session = NoSession

-----------------------------------------------------------------------------
(* The indexer                                                             *)

WithoutNodesOf(f) == [i \in DOMAIN nodes |-> IF nodes[i].file = f THEN NoNode ELSE nodes[i]]

\* node_id is an INTEGER PRIMARY KEY without AUTOINCREMENT: the highest plus one.
NextId(t) == Max({0} \cup Ids(t)) + 1

\* What a session notes of a write, for the properties only.
Observe(touched) ==
    LET live == {f \in Entries : file'[f].row = "live"}
    IN  session' = IF session.at = "done" THEN session
                   ELSE CASE session.kind = "browse" ->
                                 [session EXCEPT !.steady = @ \cap live,
                                                 !.vanished = @ \cup (Live \ live),
                                                 !.appeared = @ \cup (live \ Live)]
                          [] session.kind = "inspect" ->
                                 [session EXCEPT !.touched = @ \cup touched]
                          [] session.kind = "status" -> [session EXCEPT !.quiet = FALSE]

Write == writes > 0 /\ writes' = writes - 1

\* The walker's upsert; the trigger clears what came from another content.
WalkUpsert(f) ==
    /\ Write
    /\ \/ file[f].row # "live" /\ file' = [file EXCEPT ![f].row = "live"]
          /\ UNCHANGED nodes /\ Observe({})
       \/ /\ file[f].row # "none"
          /\ file' = [file EXCEPT ![f] = [row |-> "live", status |-> NoStatus]]
          /\ nodes' = WithoutNodesOf(f)
          /\ Observe({f})

\* PendingFiles: skipped and failed files are tried again.
Pending(f) == f \in Live /\ file[f].status["embeddings"] # "done"

StatusOfAll(f, status) == file' = [file EXCEPT ![f].status = [p \in Passes |-> status]]

\* One transaction: the old nodes go, one or two come, every pass is done.
IndexFile(f) ==
    /\ Write
    /\ Pending(f)
    /\ \E k \in 1 .. 2 :
           LET kept == WithoutNodesOf(f)
               base == NextId(kept) - 1
           IN  /\ base + k <= MaxNodeId
               /\ nodes' = [i \in DOMAIN nodes |->
                      IF i \in base + 1 .. base + k
                      THEN [file |-> f, made |-> writes, n |-> i - base] ELSE kept[i]]
    /\ StatusOfAll(f, "done")
    /\ Observe({f})

SkipFile(f) ==
    /\ Write
    /\ Pending(f)
    /\ nodes' = WithoutNodesOf(f)
    /\ StatusOfAll(f, "skipped")
    /\ Observe({f})

\* recordFailure, with everything else rolled back.
FailFile(f) ==
    /\ Write
    /\ Pending(f)
    /\ \E p \in Passes : file' = [file EXCEPT ![f].status[p] = "failed"]
    /\ UNCHANGED nodes
    /\ Observe({})

\* The end of a run: nodes and statuses stay.
MarkDeleted ==
    /\ Write
    /\ \E S \in SUBSET Live \ {{}} :
           file' = [f \in Entries |-> IF f \in S THEN [file[f] EXCEPT !.row = "deleted"]
                                      ELSE file[f]]
    /\ UNCHANGED nodes
    /\ Observe({})

-----------------------------------------------------------------------------
(* BrowseFolder, page after page until there is no cursor                  *)

Reads(s) == session' = s /\ UNCHANGED <<file, nodes, writes>>

\* A statement that fails is answered with an error, and a client may stop asking.
EndSession ==
    /\ session.kind \in {"browse", "inspect"} /\ session.at # "done"
    /\ Reads(NoSession)

\* steady, vanished, appeared: entries there all along, gone and come meanwhile.
StartBrowse ==
    /\ session.at = "done"
    /\ Reads([kind |-> "browse", at |-> "dirs", offset |-> 0, dirs |-> {}, listed |-> << >>,
              steady |-> Live, vanished |-> {}, appeared |-> {}])

\* Folders first, from the files below them, with a statement of their own ...
ListDirs ==
    /\ session.kind = "browse" /\ session.at = "dirs"
    /\ Reads([session EXCEPT !.dirs = Live \cap Subdirs, !.at = "files"])

\* In the order of paths: the i-th is the one that i - 1 others come before.
InOrder(S) ==
    [i \in 1 .. Cardinality(S) |-> CHOOSE e \in S : Cardinality({d \in S : d < e}) = i - 1]

\* Fault: folders before files.
DirsFirst(dirs, files) == InOrder(dirs) \o InOrder(files)

\* One list, ordered by path.
Listing(dirs, files) == InOrder(dirs \cup files)

\* ... then the files; the cursor is an offset into the merged list.
ListFiles ==
    /\ session.kind = "browse" /\ session.at = "files"
    /\ LET entries == Listing(session.dirs, Live \ Subdirs)
           offset == Min({session.offset, Len(entries)})
           end == Min({offset + MaxItems, Len(entries)})
       IN  Reads([session EXCEPT !.listed = @ \o SubSeq(entries, offset + 1, end),
                                 !.offset = end,
                                 !.at = IF end = Len(entries) THEN "done" ELSE "dirs"])

-----------------------------------------------------------------------------
(* InspectNode of a hit                                                    *)

\* MetadataSearch, one statement: nodes of live files, the newest K of them.
MetadataHit ==
    /\ session.at = "done"
    /\ \E i \in Ids(nodes) :
           /\ nodes[i].file \in Live
           /\ Reads([kind |-> "inspect", at |-> "node", id |-> i, hit |-> nodes[i],
                     node |-> NoNode, text |-> NoNode, touched |-> {}])

\* GetNodes asks for the row of the node alone, deleted file or not ...
GetNode ==
    /\ session.kind = "inspect" /\ session.at = "node"
    /\ Reads([session EXCEPT !.node = nodes[session.id],
                             !.at = IF nodes[session.id] = NoNode THEN "done" ELSE "chunks"])

\* Fault: the first chunks of the file.
ChunksOfFile(id) == nodes[Min({i \in DOMAIN nodes : nodes[i].file = nodes[id].file})]

\* The chunks of a node go with it: its row stands for them.
ChunksOf(id) == nodes[id]

\* ... and, in another statement, for the chunks that have its id.
GetChunks ==
    /\ session.kind = "inspect" /\ session.at = "chunks"
    /\ Reads([session EXCEPT !.text = ChunksOf(session.id), !.at = "done"])

-----------------------------------------------------------------------------
(* Status: five statements                                                 *)

Count(p, status) == Cardinality({f \in Entries : file[f].status[p] = status})
CountOf(status) == [p \in Passes |-> Count(p, status)]

CountFiles ==
    /\ session.at = "done"
    /\ \E total \in {0, Cardinality(Live)} :
           Reads([kind |-> "status", at |-> "indexed", total |-> total, indexed |-> 0,
                  done |-> CountOf("-"), failed |-> CountOf("-"), skipped |-> CountOf("-"),
                  deleted |-> Cardinality({f \in Entries : file[f].row = "deleted"}),
                  quiet |-> total = Cardinality(Live)])

\* Fault: the rows of every pass.
DoneRows == FoldSet(LAMBDA p, n : n + Count(p, "done"), 0, Passes)

\* Files marked deleted keep their rows.
IndexedFiles == Count("embeddings", "done")

CountIndexed ==
    /\ session.kind = "status" /\ session.at = "indexed"
    /\ Reads([session EXCEPT !.indexed = IndexedFiles, !.at = "done rows"])

CountDone ==
    /\ session.kind = "status" /\ session.at = "done rows"
    /\ Reads([session EXCEPT !.done = CountOf("done"), !.at = "failed rows"])

CountFailed ==
    /\ session.kind = "status" /\ session.at = "failed rows"
    /\ Reads([session EXCEPT !.failed = CountOf("failed"), !.at = "skipped rows"])

CountSkipped ==
    /\ session.kind = "status" /\ session.at = "skipped rows"
    /\ Reads([session EXCEPT !.skipped = CountOf("skipped"), !.at = "done"])

\* A statement that fails leaves its number out, and the answer does not say so.
CountNothing ==
    /\ session.kind = "status" /\ session.at # "done"
    /\ Reads([session EXCEPT !.quiet = FALSE,
                             !.at = CASE session.at = "indexed" -> "done rows"
                                      [] session.at = "done rows" -> "failed rows"
                                      [] session.at = "failed rows" -> "skipped rows"
                                      [] session.at = "skipped rows" -> "done"])

ToolsNext ==
    \/ \E f \in Entries : WalkUpsert(f) \/ IndexFile(f) \/ SkipFile(f) \/ FailFile(f)
    \/ MarkDeleted
    \/ StartBrowse \/ ListDirs \/ ListFiles
    \/ MetadataHit \/ GetNode \/ GetChunks
    \/ EndSession
    \/ CountFiles \/ CountIndexed \/ CountDone \/ CountFailed \/ CountSkipped \/ CountNothing

ToolsSpec == ToolsInit /\ [][ToolsNext]_toolsVars

-----------------------------------------------------------------------------
(* Properties.                                                             *)

\* However the index changes between the pages, a client that follows the
\* cursors to the end misses an entry that was there all along only if one that
\* sorts before it went, and meets one twice only if one that sorts before it
\* came: with an index at rest, each entry once (browse_folder.go:151-162).
BrowsePages ==
    session.kind = "browse" /\ session.at = "done" =>
        \A e \in Entries :
            LET times == Cardinality({i \in DOMAIN session.listed : session.listed[i] = e})
            IN  /\ times = 0 /\ e \in session.steady => \E d \in session.vanished : d < e
                /\ times > 1 => \E d \in session.appeared : d < e

\* Row ids are handed out again, and other files come, change and are marked
\* deleted: as long as the file of a hit is not indexed anew, inspecting the hit
\* shows the node that was found and its chunks (inspect_node.go:25-29).
InspectIsOfTheHit ==
    session.kind = "inspect" /\ session.at = "done"
        /\ session.hit.file \notin session.touched =>
            session.node = session.hit /\ session.text = session.hit

\* Without a write or a failed statement meanwhile, the numbers of a status add up
\* for every pass: the files indexed, failed and skipped are different files, hence
\* no more than those that are live and those marked deleted (status.go:22-97).
StatusAddsUp ==
    session.kind = "status" /\ session.at = "done" /\ session.quiet =>
        \A p \in Passes :
            /\ session.done[p] >= session.indexed
            /\ session.indexed + session.failed[p] + session.skipped[p]
                   <= session.total + session.deleted
=============================================================================
