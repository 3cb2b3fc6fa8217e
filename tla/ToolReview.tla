----------------------------- MODULE ToolReview -----------------------------
(***************************************************************************)
(* The commands of foldermcp v0.1 that write: init scans the directory     *)
(* into the store, review decides which tools are served.  Each command is *)
(* a process of its own and none locks anything, so every read and write   *)
(* of a file or a row is a step.  A command may be killed between steps.   *)
(***************************************************************************)
EXTENDS ToolStore

CONSTANTS
    Operators,     \* people, each running one command at a time
    Reviews,       \* the review commands: see Review
    Templates,     \* what init --template writes: file -> content or Null
    Edits,         \* what people do to source files: <<file, content or Null>>
    Workspaces,    \* what the files and the store hold at the start: see Workspace
    Budgets        \* bounds: commands, calls of the server, and disturbances of a
                   \* behaviour: edits, killed commands, and calls that fail

\* A batch names its tools and resources; the other modes go through a listing.
Review == [mode : {"approve-all", "dev", "production"}]
          \cup [mode : {"batch"}, approve : Seq(Names \cup Resources),
                disable : Seq(Names \cup Resources), confirm : Seq(Names \cup Resources)]

\* The conflict check of runReview.
NoConflict(r) ==
    /\ Range(r.approve) \cap Range(r.disable) = {}
    /\ Range(r.confirm) \cap (Range(r.approve) \cup Range(r.disable)) = {}

\* A directory as earlier commands left it; sealed: contents hashed by a review.
Workspace == [disk : Disks, store : Store, config : Config \cup {Null},
              sealed : [Names -> SUBSET Contents]]

\* No earlier command was killed, and no configuration enabled a tool unseen.
Settled(w) ==
    /\ Load(w.config) # Null =>
         \A n \in Names : w.store.tools[n] # Null /\ Load(w.config).tools[n] # Null =>
             w.store.tools[n].state = Load(w.config).tools[n]
    /\ \A n \in Names : w.store.tools[n] # Null =>
         /\ w.store.tools[n].state \in Served => w.store.tools[n].hash # Null
         /\ w.store.tools[n].hash \in w.sealed[n] \cup {Null}

ASSUME ReviewAssumption ==
    /\ Reviews \subseteq Review
    /\ \A r \in Reviews : r.mode = "batch" => NoConflict(r)
    /\ Templates \subseteq Disks
    /\ Edits \subseteq Files \X (Contents \cup {Null})
    /\ Workspaces \subseteq Workspace
    /\ \A w \in Workspaces : Settled(w)
    /\ Budgets \subseteq [commands : Nat, calls : Nat, disturbances : Nat]

VARIABLES
    disk,      \* source file -> content, or Null
    store,
    config,    \* foldermcp.yaml, or Null
    cmd,       \* operator -> the command running
    left,      \* what is left of the budget
    (* Observers, read by no action. *)
    quiet,     \* no two commands overlapped, none failed or was killed
    approved,  \* tool -> contents that a review hashed for it
    excused,   \* tools that may be served without a hash
    synced     \* what the files held when the last init that wrote scanned them

reviewVars == <<disk, store, config, cmd, left, quiet, approved, excused, synced>>

\* saw: what the files held in the scan, so far.
Rest == [at |-> "idle", cfg |-> DefaultConfig, todo |-> << >>, saw |-> Null, hash |-> Null,
         changed |-> FALSE]

\* One decision of a review.  listed: the source in the listing, or Null if it is
\* looked up after the update; strict: a refused transition ends the review; to is
\* Null until it is answered.
Decision(n, to, resource, listed, strict) ==
    [name |-> n, to |-> to, resource |-> resource, listed |-> listed, strict |-> strict]

ReviewInit ==
    /\ \E w \in Workspaces :
           disk = w.disk /\ store = w.store /\ config = w.config /\ approved = w.sealed
    /\ cmd = [p \in Operators |-> Rest]
    /\ left \in Budgets
    /\ quiet = TRUE
    /\ excused = {}
    /\ synced = Null

\* The command of p goes on as c; it ends when c.at is idle.
Continue(p, c) == cmd' = [cmd EXCEPT ![p] = c]
End(p) == Continue(p, Rest)

Disturb ==
    /\ left.disturbances > 0
    /\ left' = [left EXCEPT !.disturbances = @ - 1]

Start(p, c) ==
    /\ cmd[p].at = "idle"
    /\ left.commands > 0
    /\ Load(config) # Null
    /\ Continue(p, [c EXCEPT !.cfg = Load(config)])
    /\ left' = [left EXCEPT !.commands = @ - 1]
    /\ quiet' = (quiet /\ \A o \in Operators : cmd[o].at = "idle")

-----------------------------------------------------------------------------
(* foldermcp init                                                          *)

StartInit(p) ==
    /\ Start(p, [Rest EXCEPT !.at = "stat"])
    /\ UNCHANGED <<disk, store, config, approved, excused, synced>>

\* init --template overwrites the files of the example before it scans.
Scaffold(p) ==
    /\ Start(p, [Rest EXCEPT !.at = "stat"])
    /\ \E t \in Templates : disk' = [f \in Files |-> IF t[f] = Null THEN disk[f] ELSE t[f]]
    /\ disk' # disk
    /\ UNCHANGED <<store, config, approved, excused, synced>>

Scanning(c) == [c EXCEPT !.at = "scan", !.todo = Walk, !.saw = [f \in Files |-> Null]]

\* The configuration has been loaded; only now init looks if there is a file.
StatConfig(p) ==
    /\ cmd[p].at = "stat"
    /\ Continue(p, IF config = Null THEN [cmd[p] EXCEPT !.at = "create"] ELSE Scanning(cmd[p]))
    /\ UNCHANGED <<disk, store, config, left, quiet, approved, excused, synced>>

\* config.Save: os.WriteFile truncates the file ...
CreateConfig(p) ==
    /\ cmd[p].at = "create"
    /\ config' = EmptyConfig
    /\ Continue(p, [cmd[p] EXCEPT !.at = "fill"])
    /\ UNCHANGED <<disk, store, left, quiet, approved, excused, synced>>

\* ... and then writes it.  Over what another wrote since, the end of a longer
\* text may be left behind.
Written(cfg) == {cfg} \cup IF config \in {EmptyConfig, cfg} THEN {} ELSE {Unreadable}

FillConfig(p) ==
    /\ cmd[p].at = "fill"
    /\ config' \in Written(cmd[p].cfg)
    /\ Continue(p, Scanning(cmd[p]))
    /\ UNCHANGED <<disk, store, left, quiet, approved, excused, synced>>

\* One file after the other; one whose extraction fails is only warned of.
Scan(p) ==
    /\ cmd[p].at = "scan"
    /\ cmd[p].todo # << >>
    /\ LET f == Head(cmd[p].todo)
           rest == [cmd[p] EXCEPT !.todo = Tail(@)]
       IN  \/ Continue(p, [rest EXCEPT !.saw[f] = disk[f]]) /\ UNCHANGED left
           \/ disk[f] # Null /\ Disturb /\ Continue(p, rest)
    /\ UNCHANGED <<disk, store, config, quiet, approved, excused, synced>>

\* One transaction for the tools; then the resources, one by one.
UpsertTools(p) ==
    /\ cmd[p].at = "scan"
    /\ cmd[p].todo = << >>
    /\ store' = UpsertToolsBatch(store, ScanDirectory(cmd[p].saw), cmd[p].cfg)
    /\ excused' = excused \cup {n \in Names : /\ store.tools[n] = Null /\ store'.tools[n] # Null
                                             /\ store'.tools[n].state \in Served}
    /\ Continue(p, [cmd[p] EXCEPT !.at = "resources", !.todo = ResourceListing])
    /\ synced' = cmd[p].saw
    /\ UNCHANGED <<disk, config, left, quiet, approved>>

UpsertNextResource(p) ==
    /\ cmd[p].at = "resources"
    /\ IF cmd[p].todo = << >>
       THEN End(p) /\ UNCHANGED store
       ELSE /\ store' = UpsertResource(store, Head(cmd[p].todo))
            /\ Continue(p, [cmd[p] EXCEPT !.todo = Tail(@)])
    /\ UNCHANGED <<disk, config, left, quiet, approved, excused, synced>>

-----------------------------------------------------------------------------
(* foldermcp review: what it will decide.                                  *)

Pending ==
    Kept(ListTools(store), {n \in Names : store.tools[n] # Null /\ store.tools[n].state = "pending"})
PendingResources == Kept(ResourceListing, {r \in Resources : store.resources[r] = "pending"})

\* to for everything pending; the rows are those of the listing.
ForPending(to) ==
    [i \in DOMAIN Pending |->
        Decision(Pending[i], to, FALSE, store.tools[Pending[i]].source, TRUE)]
    \o [i \in DOMAIN PendingResources |-> Decision(PendingResources[i], to, TRUE, Null, TRUE)]

ApproveAllPlan == ForPending("enabled")

\* After the prompt, dev mode approves what was pending before it.
DevPlan == ForPending("enabled")

\* Every pending tool, then every pending resource, is asked about.
ProductionPlan == ForPending(Null)

IsResource(n) == n \in Resources /\ store.resources[n] # Null

\* The named tools are looked up again for their hash; --confirm skips
\* resources and only warns of errors.
BatchPlan(r) ==
    LET Each(names, to, strict) ==
            [i \in DOMAIN names |-> Decision(names[i], to, IsResource(names[i]), Null, strict)]
    IN  Each(r.approve, "enabled", TRUE) \o Each(r.disable, "disabled", TRUE)
        \o Each(Kept(r.confirm, {n \in Names \cup Resources : ~IsResource(n)}),
                "requires_confirmation", FALSE)

Plan(r) ==
    CASE r.mode = "approve-all" -> ApproveAllPlan
      [] r.mode = "dev" -> DevPlan
      [] r.mode = "production" -> ProductionPlan
      [] r.mode = "batch" -> BatchPlan(r)

\* A review with nothing to do ends; only production saves on change alone.
StartReview(p, r) ==
    /\ ListTools(store) # << >> \/ \E x \in Resources : store.resources[x] # Null
    /\ Plan(r) # << >>
    /\ Start(p, [Rest EXCEPT !.at = "next", !.todo = Plan(r), !.changed = r.mode # "production"])
    /\ UNCHANGED <<disk, store, config, approved, excused, synced>>

-----------------------------------------------------------------------------
(* foldermcp review: one decision after the other.                         *)

Item(p) == Head(cmd[p].todo)
Next1(c) == [c EXCEPT !.at = "next", !.todo = Tail(@), !.hash = Null]

Fail(p) == End(p) /\ quiet' = FALSE

Answers(item) ==
    {"enabled", "disabled"} \cup IF item.resource THEN {} ELSE {"requires_confirmation"}

\* The prompt of production mode: an answer, or skip.
Ask(p) ==
    /\ cmd[p].at = "next"
    /\ cmd[p].todo # << >>
    /\ Item(p).to = Null
    /\ \/ \E to \in Answers(Item(p)) : Continue(p, [cmd[p] EXCEPT !.todo[1].to = to])
       \/ Continue(p, Next1(cmd[p]))
    /\ UNCHANGED <<disk, store, config, left, quiet, approved, excused, synced>>

Decided(p, resource) ==
    /\ cmd[p].at = "next"
    /\ cmd[p].todo # << >>
    /\ Item(p).to # Null
    /\ Item(p).resource = resource

DecideResource(p) ==
    /\ Decided(p, TRUE)
    /\ store' = UpdateResourceState(store, Item(p).name, Item(p).to)
    /\ Continue(p, [Next1(cmd[p]) EXCEPT !.changed = TRUE])
    /\ UNCHANGED <<disk, config, left, quiet, approved, excused, synced>>

\* UpdateToolState reads the row to check the transition ...
CheckTransition(p) ==
    /\ Decided(p, FALSE)
    /\ MayUpdateToolState(store, Item(p).name, Item(p).to)
    /\ Continue(p, [cmd[p] EXCEPT !.at = "update"])
    /\ UNCHANGED <<disk, store, config, left, quiet, approved, excused, synced>>

RefuseTransition(p) ==
    /\ Decided(p, FALSE)
    /\ ~MayUpdateToolState(store, Item(p).name, Item(p).to)
    /\ IF Item(p).strict THEN Fail(p) ELSE Continue(p, Next1(cmd[p])) /\ UNCHANGED quiet
    /\ UNCHANGED <<disk, store, config, left, approved, excused, synced>>

\* Fault: the configuration only learns of approvals.
RecordApproval(c, n, to) ==
    [c EXCEPT !.cfg.tools[n] = IF to = "disabled" THEN @ ELSE to, !.changed = TRUE]

\* The configuration in memory.
Record(c, n, to) == [c EXCEPT !.cfg.tools[n] = to, !.changed = TRUE]

\* Fault: the hash is only stored for enabled tools.
NeedsHashIfEnabled(to) == to = "enabled"

NeedsHash(to) == to \in Served

\* ... and then updates it.
UpdateToolState(p) ==
    LET n == Item(p).name
        to == Item(p).to
        decided == Record(cmd[p], n, to)
    IN  /\ cmd[p].at = "update"
        /\ GetTool(store, n) # Null
        /\ store' = SetToolState(store, n, to)
        /\ Continue(p, IF NeedsHash(to)
                       THEN [decided EXCEPT !.at = IF Item(p).listed = Null THEN "lookup" ELSE "hash"]
                       ELSE Next1(decided))
        /\ UNCHANGED <<disk, config, left, quiet, approved, excused, synced>>

\* The UPDATE of a name that has no row affects nothing.
ToolNotFound(p) ==
    /\ cmd[p].at = "update"
    /\ GetTool(store, Item(p).name) = Null
    /\ IF Item(p).strict THEN Fail(p) ELSE Continue(p, Next1(cmd[p])) /\ UNCHANGED quiet
    /\ UNCHANGED <<disk, store, config, left, approved, excused, synced>>

\* A check or an update that fails ends the review (Kill), but for --confirm.
WarnOfFailure(p) ==
    /\ Decided(p, FALSE) \/ cmd[p].at = "update"
    /\ ~Item(p).strict
    /\ Disturb
    /\ Continue(p, Next1(cmd[p]))
    /\ UNCHANGED <<disk, store, config, quiet, approved, excused, synced>>

\* A batch gets the tool again, to know its source.
LookUpTool(p) ==
    /\ cmd[p].at = "lookup"
    /\ Continue(p, [cmd[p] EXCEPT !.at = "hash", !.todo[1].listed = store.tools[Item(p).name].source])
    /\ UNCHANGED <<disk, store, config, left, quiet, approved, excused, synced>>

GoOnUnhashed(p) ==
    /\ Continue(p, Next1(cmd[p]))
    /\ excused' = excused \cup {Item(p).name}

\* storeToolHash: a source that cannot be read is only a warning.
HashSource(p) ==
    LET content == disk[Item(p).listed]
    IN  /\ cmd[p].at = "hash"
        /\ IF content = Null THEN GoOnUnhashed(p)
           ELSE /\ Continue(p, [cmd[p] EXCEPT !.at = "seal", !.hash = content])
                /\ UNCHANGED excused
        /\ UNCHANGED <<disk, store, config, left, quiet, approved, synced>>

StoreHash(p) ==
    LET n == Item(p).name
    IN  /\ cmd[p].at = "seal"
        /\ store' = UpdateContentHash(store, n, cmd[p].hash)
        /\ approved' = [approved EXCEPT ![n] = @ \cup {cmd[p].hash}]
        /\ Continue(p, Next1(cmd[p]))
        /\ UNCHANGED <<disk, config, left, quiet, excused, synced>>

Sealing == {"lookup", "hash", "seal"}

\* The tool cannot be looked up, its source not be read or its hash not be
\* stored: a warning at most, and the review goes on.
LoseHash(p) ==
    /\ cmd[p].at \in Sealing
    /\ Disturb
    /\ GoOnUnhashed(p)
    /\ UNCHANGED <<disk, store, config, quiet, approved, synced>>

\* The whole configuration is written back, in the two steps of init.
TruncateConfig(p) ==
    /\ cmd[p].at = "next"
    /\ cmd[p].todo = << >>
    /\ IF cmd[p].changed
       THEN config' = EmptyConfig /\ Continue(p, [cmd[p] EXCEPT !.at = "save"])
       ELSE End(p) /\ UNCHANGED config
    /\ UNCHANGED <<disk, store, left, quiet, approved, excused, synced>>

SaveConfig(p) ==
    /\ cmd[p].at = "save"
    /\ config' \in Written(cmd[p].cfg)
    /\ End(p)
    /\ UNCHANGED <<disk, store, left, quiet, approved, excused, synced>>

Writing == {"fill", "save"}

\* A command that is killed, or that ends as the call it is at fails.
Kill(p) ==
    /\ cmd[p].at # "idle"
    /\ Disturb
    /\ Fail(p)
    /\ excused' = IF cmd[p].at \in Sealing THEN excused \cup {Item(p).name} ELSE excused
    /\ config' \in {config} \cup IF cmd[p].at \in Writing THEN {Unreadable} ELSE {}
    /\ UNCHANGED <<disk, store, approved, synced>>

Edit ==
    /\ Disturb
    /\ \E e \in Edits : disk' = [disk EXCEPT ![e[1]] = e[2]]
    /\ disk' # disk
    /\ UNCHANGED <<store, config, cmd, quiet, approved, excused, synced>>

InitStep(p) ==
    StartInit(p) \/ Scaffold(p) \/ StatConfig(p) \/ CreateConfig(p) \/ FillConfig(p) \/ Scan(p)
    \/ UpsertTools(p) \/ UpsertNextResource(p)

ReviewStep(p) ==
    \/ \E r \in Reviews : StartReview(p, r)
    \/ Ask(p) \/ DecideResource(p) \/ CheckTransition(p) \/ RefuseTransition(p)
    \/ UpdateToolState(p) \/ ToolNotFound(p) \/ WarnOfFailure(p) \/ LookUpTool(p) \/ HashSource(p)
    \/ StoreHash(p) \/ LoseHash(p) \/ TruncateConfig(p) \/ SaveConfig(p)

Command == \E p \in Operators : InitStep(p) \/ ReviewStep(p) \/ Kill(p)

-----------------------------------------------------------------------------
(* Properties.                                                             *)

\* As long as commands ran one at a time and none failed or was killed,
\* foldermcp.yaml tells of every tool that it mentions, and that was ever
\* found, the state that the store holds (review.go:154-168, store.go:122).
ConfigMirrorsStore ==
    quiet /\ (\A p \in Operators : cmd[p].at = "idle") /\ Load(config) # Null =>
        \A n \in Names : store.tools[n] # Null /\ Load(config).tools[n] # Null =>
            store.tools[n].state = Load(config).tools[n]

\* However reviews overlap, a tool that is served without a hash is being hashed,
\* unless the configuration enabled it, or a review was killed or warned while
\* it was at the tool's hash: the tool could not be looked up, its source not be
\* read or its hash not be stored (review.go:203-215, and the three callers).
ApprovedToolsAreSealed ==
    \A n \in Names \ excused :
        store.tools[n] # Null /\ store.tools[n].state \in Served /\ store.tools[n].hash = Null =>
            \E p \in Operators : cmd[p].at \in Sealing /\ Item(p).name = n

\* Once init has seen the files as they are, diff reports nothing new and no
\* change, but for names that a scan finds twice after numbering: the name
\* that a file spells may be the number of another's duplicate.
DiffSettles ==
    LET found == ScanDirectory(disk)
        diff == Diff(store, found)
        twice == {n \in Names : \E p, q \in PlacesOf(found, n) : p # q}
    IN  synced = disk => diff.added = {} /\ diff.modified \subseteq twice
=============================================================================
