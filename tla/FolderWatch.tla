----------------------------- MODULE FolderWatch -----------------------------
(***************************************************************************)
(* The polling watcher of foldermcp v0.1 and the goroutine of serve        *)
(* --watch that reads its events, beside people who change the folder.     *)
(***************************************************************************)
EXTENDS Naturals, Sequences, FiniteSets

CONSTANTS
    Paths,         \* regular files that pass the filters, or may appear
    Filtered,      \* those of them that the include and exclude globs keep
    ChannelSize,   \* 64 in the code
    MaxChanges,    \* bound: changes of the folder
    MaxFailures    \* bound: walks that fail

ASSUME WatchAssumption ==
    Filtered \subseteq Paths /\ {ChannelSize, MaxChanges, MaxFailures} \subseteq Nat

VARIABLES
    folder,     \* path -> modification time and size, as one number; 0: no file
    watch,      \* the watcher: see Watch
    events,     \* the channel
    changes, failures,
    (* Observers. *)
    known,      \* the paths that the events read so far, and the start, tell of
    dropped     \* paths of events that found the channel full

watchVars == <<folder, watch, events, changes, failures, known, dropped>>

\* walked: the paths a walk has passed; seen: what it noted; news: the events a
\* poll has still to emit.
Watch == [at : {"start", "walk", "tick", "emit", "stopped"}, first : BOOLEAN,
          walked : SUBSET Paths, seen : [Paths -> Nat], snapshot : [Paths -> Nat],
          consecutiveFailures : Nat]

Nothing == [p \in Paths |-> 0]
Existing(snap) == {p \in Paths : snap[p] # 0}

WatchInit ==
    /\ folder \in [Paths -> {0, 1}]
    /\ watch = [at |-> "start", first |-> TRUE, walked |-> {}, seen |-> Nothing,
                snapshot |-> Nothing, consecutiveFailures |-> 0]
    /\ events = << >>
    /\ changes = 0
    /\ failures = 0
    /\ known = {}
    /\ dropped = {}

\* A write gives a file a time and a size it did not have; a file may go.
ChangeFolder ==
    /\ changes < MaxChanges
    /\ changes' = changes + 1
    /\ \E p \in Paths : \/ folder' = [folder EXCEPT ![p] = changes + 2]
                        \/ folder[p] # 0 /\ folder' = [folder EXCEPT ![p] = 0]
    /\ UNCHANGED <<watch, events, failures, known, dropped>>

\* takeSnapshot, on Start and on every tick.
BeginWalk ==
    /\ watch.at \in {"start", "tick"}
    /\ watch' = [watch EXCEPT !.at = "walk", !.walked = {}, !.seen = Nothing]
    /\ UNCHANGED <<folder, events, changes, failures, known, dropped>>

\* A file that is gone, or that the globs leave out, is not noted.
WalkFile ==
    /\ watch.at = "walk"
    /\ \E p \in Paths \ watch.walked :
           watch' = [watch EXCEPT !.walked = @ \cup {p},
                                  !.seen[p] = IF p \in Filtered THEN folder[p] ELSE 0]
    /\ UNCHANGED <<folder, events, changes, failures, known, dropped>>

\* The first snapshot is silent and may be missing.
WalkFails ==
    /\ watch.at = "walk"
    /\ failures < MaxFailures
    /\ failures' = failures + 1
    /\ watch' = [watch EXCEPT !.at = "tick", !.first = FALSE,
                     !.consecutiveFailures = IF watch.first THEN @ ELSE @ + 1]
    /\ UNCHANGED <<folder, events, changes, known, dropped>>

FirstSnapshot ==
    /\ watch.at = "walk" /\ watch.first /\ watch.walked = Paths
    /\ watch' = [watch EXCEPT !.at = "tick", !.first = FALSE, !.snapshot = watch.seen]
    /\ known' = Existing(watch.seen)
    /\ UNCHANGED <<folder, events, changes, failures, dropped>>

Compare ==
    /\ watch.at = "walk" /\ ~watch.first /\ watch.walked = Paths
    /\ watch' = [watch EXCEPT !.at = "emit", !.walked = {}, !.consecutiveFailures = 0]
    /\ UNCHANGED <<folder, events, changes, failures, known, dropped>>

\* Fault: a file that is gone is not told of.
NewsOfFiles(old, new, p) ==
    IF new[p] # 0 /\ old[p] = 0 THEN "created"
    ELSE IF new[p] \notin {0, old[p]} THEN "modified" ELSE "none"

News(old, new, p) ==
    IF new[p] # 0 /\ old[p] = 0 THEN "created"
    ELSE IF new[p] \notin {0, old[p]} THEN "modified"
    ELSE IF new[p] = 0 /\ old[p] # 0 THEN "deleted" ELSE "none"

\* Created and modified files first, in the order of a map; emit never waits.
Emit ==
    /\ watch.at = "emit"
    /\ \E p \in Paths \ watch.walked :
           LET type == News(watch.snapshot, watch.seen, p)
           IN  /\ watch.seen[p] = 0 =>
                      \A q \in Paths \ watch.walked : watch.seen[q] = 0
               /\ watch' = [watch EXCEPT !.walked = @ \cup {p}]
               /\ IF type = "none" THEN UNCHANGED <<events, dropped>>
                  ELSE IF Len(events) < ChannelSize
                  THEN events' = Append(events, [path |-> p, type |-> type]) /\ UNCHANGED dropped
                  ELSE dropped' = dropped \cup {p} /\ UNCHANGED events
    /\ UNCHANGED <<folder, changes, failures, known>>

EndPoll ==
    /\ watch.at = "emit" /\ watch.walked = Paths
    /\ watch' = [watch EXCEPT !.at = "tick", !.walked = {}, !.snapshot = watch.seen]
    /\ UNCHANGED <<folder, events, changes, failures, known, dropped>>

\* The reader reports the event; unless the file is deleted it scans the folder
\* too, only to count its tools.
ReadEvent ==
    /\ events # << >>
    /\ events' = Tail(events)
    /\ known' = IF Head(events).type = "deleted" THEN known \ {Head(events).path}
                ELSE known \cup {Head(events).path}
    /\ UNCHANGED <<folder, watch, changes, failures, dropped>>

\* Stop waits for the poll that runs; what is queued can still be read.
StopWatch ==
    /\ watch.at = "tick"
    /\ watch' = [watch EXCEPT !.at = "stopped"]
    /\ UNCHANGED <<folder, events, changes, failures, known, dropped>>

WatchNext ==
    \/ ChangeFolder \/ BeginWalk \/ WalkFile \/ WalkFails \/ FirstSnapshot \/ Compare
    \/ Emit \/ EndPoll \/ ReadEvent \/ StopWatch

WatchSpec == WatchInit /\ [][WatchNext]_watchVars

-----------------------------------------------------------------------------
(* Property.                                                               *)

\* Whatever changes during walks that may fail, between polls a reader who has
\* read all events knows which files the last snapshot holds, except for paths
\* of which the full channel dropped an event (watcher.go:128-154).
EventsTellTheSnapshot ==
    watch.at \in {"tick", "stopped"} /\ events = << >> =>
        \A p \in Paths \ dropped : p \in known <=> watch.snapshot[p] # 0
=============================================================================
