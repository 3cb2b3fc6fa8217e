------------------------------ MODULE ToolStore ------------------------------
(***************************************************************************)
(* foldermcp v0.1: the state store (one row per tool, one state per        *)
(* resource), the life cycle of a tool, foldermcp.yaml, and the scan that  *)
(* finds the tools of a directory.  A name is a tuple: <<"x">> is x, and   *)
(* <<"x", 2>> is x_2, whether a source file spells it or the scan made it. *)
(***************************************************************************)
EXTENDS Naturals, Sequences, FiniteSets, SequencesExt

CONSTANTS
    Listing,     \* every tool name, in the order of ListTools
    ResourceListing,   \* the names of the files that are not code, in ListResources' order
    Walk,        \* the source files in the order in which a scan extracts them
    Contents,    \* what a source file may hold
    Defines,     \* content -> the tools it defines: [name, meta]
    Profile,     \* the names of the profile that is served, or Null
    Null

Names == Range(Listing)
Resources == Range(ResourceListing)
Files == Range(Walk)
Disks == [Files -> Contents \cup {Null}]
Metas == UNION {{t.meta : t \in Range(Defines[c])} : c \in Contents}

ToolStates == {"pending", "enabled", "disabled", "requires_confirmation"}
ResourceStates == {"pending", "enabled", "disabled"}
Served == {"enabled", "requires_confirmation"}

\* validTransitions: any state to any other; a state outside of it is stuck.
ValidTransition(from, to) == {from, to} \subseteq ToolStates /\ from # to

\* The row's input schema, description and risk are its meta; the hash of a
\* content is the content.  A state comes unvalidated from the configuration.
Row == [source : Files, meta : Metas, state : ToolStates \cup {"typo"},
        dep : {"resolved", "resolving", "failed"}, hash : Contents \cup {Null}]

Store == [tools : [Names -> Row \cup {Null}], resources : [Resources -> ResourceStates \cup {Null}]]

EmptyStore == [tools |-> [n \in Names |-> Null], resources |-> [r \in Resources |-> Null]]

\* The elements of seq that are in S, in their order.
Kept(seq, S) ==
    LET kept[i \in 0 .. Len(seq)] ==
            IF i = 0 THEN << >>
            ELSE IF seq[i] \in S THEN Append(kept[i - 1], seq[i]) ELSE kept[i - 1]
    IN  kept[Len(seq)]

ListTools(s) == Kept(Listing, {n \in Names : s.tools[n] # Null})

NewRow(t, state) ==
    [source |-> t.source, meta |-> t.meta, state |-> state, dep |-> "resolved", hash |-> Null]

\* Fault: a row that exists is left alone.
UpsertIgnoring(row, t, state) == IF row = Null THEN NewRow(t, state) ELSE row

\* On conflict the state, the dependency state and the hash are kept.
UpsertTool(row, t, state) ==
    IF row = Null THEN NewRow(t, state) ELSE [row EXCEPT !.source = t.source, !.meta = t.meta]

UpsertResource(s, r) ==
    IF s.resources[r] = Null THEN [s EXCEPT !.resources[r] = "pending"] ELSE s

GetTool(s, n) == IF n \in Names THEN s.tools[n] ELSE Null

\* The check that precedes the UPDATE; a name without a row passes it.
MayUpdateToolState(s, n, to) ==
    /\ to \in ToolStates
    /\ GetTool(s, n) # Null => ValidTransition(s.tools[n].state, to)

SetToolState(s, n, to) == [s EXCEPT !.tools[n].state = to]
UpdateContentHash(s, n, h) == [s EXCEPT !.tools[n].hash = h]
UpdateResourceState(s, r, to) == [s EXCEPT !.resources[r] = to]

-----------------------------------------------------------------------------
(* foldermcp.yaml                                                          *)

Unset == [n \in Names |-> Null]

\* Version 0 is a file that says no version.
Config == [version : {0, 1, 2}, tools : [Names -> ToolStates \cup {"typo", Null}]]

DefaultConfig == [version |-> 1, tools |-> Unset]

\* A file without a byte, and any that Load refuses.
EmptyConfig == [version |-> 0, tools |-> Unset]
Unreadable == [version |-> 2, tools |-> Unset]

\* What Load returns; Null is the error for a version it does not support.
Load(file) ==
    IF file = Null THEN DefaultConfig
    ELSE CASE file.version = 0 -> DefaultConfig
           [] file.version = 1 -> file
           [] OTHER -> Null

-----------------------------------------------------------------------------
(* Scan: duplicates of a name are numbered in the order of the walk.       *)

\* A place is a file's number in the walk and a definition's number in the file.
Places(disk) ==
    UNION {{i} \X DOMAIN Defines[disk[Walk[i]]] : i \in {k \in DOMAIN Walk : disk[Walk[k]] # Null}}

UpTo(p, q) == p[1] < q[1] \/ (p[1] = q[1] /\ p[2] <= q[2])

Extracted(disk, p) == Defines[disk[Walk[p[1]]]][p[2]]

Occurrence(disk, p) ==
    Cardinality({q \in Places(disk) : UpTo(q, p) /\ Extracted(disk, q).name = Extracted(disk, p).name})

Numbered(name, k) == IF k = 1 THEN name ELSE Append(name, k)

\* Every place with the tool that is found there.
ScanDirectory(disk) ==
    [p \in Places(disk) |-> [name |-> Numbered(Extracted(disk, p).name, Occurrence(disk, p)),
                             meta |-> Extracted(disk, p).meta, source |-> Walk[p[1]]]]

\* The state with which init writes what it found.
Discovered(cfg, n) == IF cfg.tools[n] = Null THEN "pending" ELSE cfg.tools[n]

PlacesOf(found, n) == {p \in DOMAIN found : found[p].name = n}

LastOf(places) == CHOOSE p \in places : \A q \in places : UpTo(q, p)

\* One transaction: of several tools with one name, the last one is left.
UpsertToolsBatch(s, found, cfg) ==
    [s EXCEPT !.tools = [n \in Names |->
        IF PlacesOf(found, n) = {} THEN s.tools[n]
        ELSE UpsertTool(s.tools[n], found[LastOf(PlacesOf(found, n))], Discovered(cfg, n))]]

\* Walk and the listings are sequences, and every name that a scan can give is
\* listed.
ASSUME StoreAssumption ==
    /\ Listing \in Seq(Names) /\ ResourceListing \in Seq(Resources) /\ Walk \in Seq(Files)
    /\ \A c \in Contents : Defines[c] \in Seq(Range(Defines[c]))
    /\ \A disk \in Disks : \A p \in Places(disk) : ScanDirectory(disk)[p].name \in Names
    /\ Null \notin Names /\ Null \notin Files /\ Null \notin Contents /\ Null \notin ToolStates
    /\ Null \notin Row /\ Null \notin Config /\ Null \notin Disks

\* What diff prints: + added, ~ modified, - removed.  It also compares the hashes
\* of the shared approvals, but no command writes that file.
Diff(s, found) ==
    LET tools == Range(found)
    IN  [added |-> {t.name : t \in {u \in tools : s.tools[u.name] = Null}},
         modified |-> {t.name : t \in {u \in tools : /\ s.tools[u.name] # Null
                                                     /\ s.tools[u.name].meta # u.meta}},
         removed |-> {n \in Names : s.tools[n] # Null /\ \A t \in tools : t.name # n}]

=============================================================================
