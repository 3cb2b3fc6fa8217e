----------------------------- MODULE ToolServer -----------------------------
(***************************************************************************)
(* foldermcp serve: the MCP server of v0.1 beside the commands of          *)
(* ToolReview.  Calls of a tool run concurrently and share one variable,   *)
(* t in the code, that every call overwrites with the row it read: a data  *)
(* race, here a copy in two halves in the order of the fields.             *)
(***************************************************************************)
EXTENDS ToolReview

CONSTANTS
    Calls,      \* tool calls in progress at once
    MaxStarts   \* bound: starts of the server

ASSUME ServerAssumption == MaxStarts \in Nat

VARIABLES
    server,   \* [up, tools]: running, and the names of the tools it registered
    t,        \* the captured variable of each tool; its first value is never read
    call,     \* the calls
    starts,   \* of the server, that may still happen
    (* Observers. *)
    lone,     \* the call has met no other call of its tool
    barred    \* what has spoken against the call ever since it began

serverVars == <<server, t, call, starts, lone, barred>>
vars == <<reviewVars, serverVars>>

NoCall == [at |-> "idle", name |-> Null, row |-> Null, hash |-> Null]

\* hash: what the source hashed to.  A call that is refused is over.
Call ==
    [at : {"idle", "read", "bind", "rebind", "check", "hash", "compare", "run", "ran"},
     name : Names \cup {Null}, row : Row \cup {Null}, hash : Contents \cup {Null}]

Init ==
    /\ ReviewInit
    /\ server = [up |-> FALSE, tools |-> {}]
    /\ t = [n \in Names |-> Null]
    /\ call = [c \in Calls |-> NoCall]
    /\ starts = MaxStarts
    /\ lone = [c \in Calls |-> FALSE]
    /\ barred = [c \in Calls |-> {}]

-----------------------------------------------------------------------------

InProfile(n) == Profile = Null \/ n \in Profile

\* The tools and resources that are enabled now; there must be one.
StartServer ==
    LET tools == {n \in Names : store.tools[n] # Null /\ InProfile(n)
                                /\ store.tools[n].state \in Served}
        resources == {r \in Resources : store.resources[r] = "enabled"}
    IN  /\ ~server.up
        /\ starts > 0
        /\ Load(config) # Null
        /\ tools \cup resources # {}
        /\ server' = [up |-> TRUE, tools |-> tools]
        /\ starts' = starts - 1
        /\ UNCHANGED <<reviewVars, t, call>>

StopServer ==
    /\ server.up
    /\ server' = [up |-> FALSE, tools |-> {}]
    /\ t' = [n \in Names |-> Null]
    /\ call' = [c \in Calls |-> NoCall]
    /\ UNCHANGED <<reviewVars, starts>>

\* Only a registered tool can be called.
BeginCall(c, n) ==
    /\ call[c].at = "idle"
    /\ n \in server.tools
    /\ left.calls > 0
    /\ left' = [left EXCEPT !.calls = @ - 1]
    /\ call' = [call EXCEPT ![c].at = "read", ![c].name = n]
    /\ UNCHANGED <<disk, store, config, cmd, quiet, approved, excused, synced, server, t, starts>>

At(c, stage) == call[c].at = stage

\* The call goes on at a stage with what it has read, or ends.
Go(c, stage, row, hash) ==
    call' = [call EXCEPT ![c] = [@ EXCEPT !.at = stage, !.row = row, !.hash = hash]]
Finish(c) == call' = [call EXCEPT ![c] = NoCall]

\* Fault: the row is read for the first call only.
ReadRowOnce(c) ==
    /\ At(c, "read")
    /\ Go(c, "bind", IF t[call[c].name] = Null THEN GetTool(store, call[c].name)
                     ELSE t[call[c].name], Null)
    /\ UNCHANGED <<reviewVars, server, t, starts>>

ReadRow(c) ==
    /\ At(c, "read")
    /\ Go(c, "bind", GetTool(store, call[c].name), Null)
    /\ UNCHANGED <<reviewVars, server, t, starts>>

\* t = *fresh: the source file and the metadata first ...
BindSource(c) ==
    LET row == call[c].row
    IN  /\ At(c, "bind")
        /\ t' = [t EXCEPT ![call[c].name] =
                    IF @ = Null THEN row ELSE [@ EXCEPT !.source = row.source, !.meta = row.meta]]
        /\ Go(c, "rebind", row, Null)
        /\ UNCHANGED <<reviewVars, server, starts>>

\* ... then the states and the hash.
BindState(c) ==
    LET row == call[c].row
    IN  /\ At(c, "rebind")
        /\ t' = [t EXCEPT ![call[c].name] = [row EXCEPT !.source = t[call[c].name].source,
                                                        !.meta = t[call[c].name].meta]]
        /\ Go(c, "check", Null, Null)
        /\ UNCHANGED <<reviewVars, server, starts>>

Tool(c) == t[call[c].name]

Denied(c) == Tool(c).state = "disabled" \/ Tool(c).dep # "resolved"

CheckTool(c) ==
    /\ At(c, "check")
    /\ IF Denied(c) THEN Finish(c)
       ELSE Go(c, IF Tool(c).hash = Null THEN "run" ELSE "hash", Null, Null)
    /\ UNCHANGED <<reviewVars, server, t, starts>>

HashTool(c) ==
    LET content == disk[Tool(c).source]
    IN  /\ At(c, "hash")
        /\ IF content = Null THEN Finish(c) ELSE Go(c, "compare", Null, content)
        /\ UNCHANGED <<reviewVars, server, t, starts>>

\* Fault: any hash will do.
CompareNothing(c) ==
    /\ At(c, "compare")
    /\ Go(c, "run", Null, call[c].hash)
    /\ UNCHANGED <<reviewVars, server, t, starts>>

CompareHash(c) ==
    /\ At(c, "compare")
    /\ IF call[c].hash = Tool(c).hash THEN Go(c, "run", Null, call[c].hash) ELSE Finish(c)
    /\ UNCHANGED <<reviewVars, server, t, starts>>

\* The executor reads the file itself; the result is logged either way.
Execute(c) ==
    /\ At(c, "run")
    /\ IF disk[Tool(c).source] = Null THEN Finish(c) ELSE Go(c, "ran", Null, call[c].hash)
    /\ UNCHANGED <<reviewVars, server, t, starts>>

Reply(c) ==
    /\ At(c, "ran")
    /\ Finish(c)
    /\ UNCHANGED <<reviewVars, server, t, starts>>

CallStep(c) ==
    \/ \E n \in Names : BeginCall(c, n)
    \/ ReadRow(c) \/ BindSource(c) \/ BindState(c) \/ CheckTool(c) \/ HashTool(c)
    \/ CompareHash(c) \/ Execute(c) \/ Reply(c)

Serve == StartServer \/ StopServer \/ \E c \in Calls : CallStep(c)

\* What speaks against running a tool: it is disabled, or it has a hash and no
\* source file holds anything approved for it.
Objections(n) ==
    {why \in {"disabled", "unapproved"} :
        /\ store.tools[n] # Null
        /\ why = "disabled" => store.tools[n].state = "disabled"
        /\ why = "unapproved" => /\ store.tools[n].hash # Null
                                /\ \A f \in Files : disk[f] \notin approved[n]}

Began(c) == call[c].at = "idle" /\ call'[c].at # "idle"

Observe ==
    /\ lone' = [c \in Calls |->
                  /\ call'[c].at # "idle"
                  /\ Began(c) \/ lone[c]
                  /\ \A d \in Calls \ {c} : call'[d].name # call'[c].name]
    /\ barred' = [c \in Calls |->
                    {why \in UNION {Objections(n)' : n \in Names \cap {call'[c].name}} :
                        Began(c) \/ why \in barred[c]}]

Next ==
    /\ \/ (Command \/ Edit) /\ UNCHANGED <<server, t, call, starts>>
       \/ Serve
    /\ Observe

Spec == Init /\ [][Next]_vars

-----------------------------------------------------------------------------
(* Properties.                                                             *)

\* A call that met no other call of its tool does not run it if all the while,
\* from before the call until it ran, the tool was disabled; nor if all the
\* while no source file held what a review approved (mcp.go:202, mcp.go:241).
BarredCallsNeverRun ==
    \A c \in Calls : call[c].at = "ran" /\ lone[c] => barred[c] = {}

\* Whatever calls and commands overlap, a call that compared hashes has seen
\* a source that some review approved for the tool it names (mcp.go:241).
VerifiedContentWasApproved ==
    \A c \in Calls : call[c].at \in {"run", "ran"} /\ call[c].hash # Null =>
        call[c].hash \in approved[call[c].name]
=============================================================================
