----------------------------- MODULE ToolRuntime -----------------------------
(***************************************************************************)
(* How foldermcp v0.1 runs tools and records it: the executor of a serve   *)
(* process, whose calls are goroutines, the executor of a test command     *)
(* beside it, and the audit log file that both processes append to and     *)
(* rotate.                                                                 *)
(***************************************************************************)
EXTENDS Naturals, Sequences, FiniteSets

CONSTANTS
    Runs,            \* goroutines
    MaxConcurrent,   \* slots of an executor
    RotateAt,        \* writes that fill 10 MB
    MaxInvocations,  \* bound
    MaxFaults        \* bound: calls of the file system that fail

ASSUME RuntimeAssumption ==
    /\ IsFiniteSet(Runs)
    /\ {MaxConcurrent, RotateAt, MaxInvocations, MaxFaults} \subseteq Nat \ {0}

VARIABLES
    host,         \* process -> [up, env, slots, fd, busy]
    run,          \* goroutine -> [at, host, kind, expired]
    names,        \* audit.log and audit.log.1, as places in files; 0: no file
    files,        \* every audit file ever made, as what was written to it: the
                  \* number of an entry, and whether its line is whole
    invocations, faults,
    (* Observers. *)
    acked,        \* entries for which Log returned no error
    silenced,     \* a file could not be opened again
    shared        \* two processes were up at once

runtimeVars == <<host, run, names, files, invocations, faults, acked, silenced, shared>>

Hosts == {"serve", "test"}

\* env: what loadDotEnvCached has done; busy: the mutex of the logger.
Down == [up |-> FALSE, env |-> "unread", slots |-> 0, fd |-> 0, busy |-> FALSE]
Idle == [at |-> "idle", host |-> "serve", kind |-> "call", expired |-> FALSE]

RuntimeInit ==
    /\ host = [h \in Hosts |-> Down]
    /\ run = [r \in Runs |-> Idle]
    /\ names = [log |-> 0, backup |-> 0]
    /\ files = << >>
    /\ invocations = MaxInvocations
    /\ faults = MaxFaults
    /\ acked = 0
    /\ silenced = FALSE
    /\ shared = FALSE

Fails == faults > 0 /\ faults' = faults - 1

Becomes(r, at) == run' = [run EXCEPT ![r].at = at]
Done(r) == run' = [run EXCEPT ![r] = Idle]

\* os.OpenFile with O_CREATE and O_APPEND, by process h.
OpenLog(h) ==
    /\ files' = IF names.log = 0 THEN Append(files, << >>) ELSE files
    /\ names' = IF names.log = 0 THEN [names EXCEPT !.log = Len(files) + 1] ELSE names
    /\ host' = [host EXCEPT ![h].up = TRUE, ![h].fd = names'.log]

\* serve ends if it cannot open its log, test goes on without one.
LaunchHost(h) ==
    /\ ~host[h].up
    /\ invocations > 0
    /\ \/ OpenLog(h) /\ UNCHANGED faults
       \/ /\ h = "test"
          /\ Fails
          /\ host' = [host EXCEPT ![h].up = TRUE]
          /\ UNCHANGED <<names, files>>
    /\ shared' = (shared \/ \E o \in Hosts \ {h} : host[o].up)
    /\ UNCHANGED <<run, invocations, acked, silenced>>

\* Closed or killed, whatever its goroutines do.
HostEnds(h) ==
    /\ host[h].up
    /\ host' = [host EXCEPT ![h] = Down]
    /\ run' = [r \in Runs |-> IF run[r].host = h THEN Idle ELSE run[r]]
    /\ UNCHANGED <<names, files, invocations, faults, acked, silenced, shared>>

-----------------------------------------------------------------------------
(* The executor                                                            *)

\* A call of a client; test <tool>; one tool of test --all, which runs them in
\* turn and logs none.
Invoke(r) ==
    /\ run[r].at = "idle"
    /\ invocations > 0
    /\ invocations' = invocations - 1
    /\ \E h \in Hosts, k \in {"call", "test", "smoke"} :
           /\ host[h].up
           /\ h = "serve" <=> k = "call"
           /\ h = "test" => \A o \in Runs : run[o].at # "idle" => run[o].host # h
           /\ run' = [run EXCEPT ![r] = [Idle EXCEPT !.at = "path", !.host = h, !.kind = k]]
    /\ UNCHANGED <<host, names, files, faults, acked, silenced, shared>>

\* Where a run goes that ended: serve logs every outcome, test what has an exit code.
Ended(r, outcome) ==
    \/ /\ \/ run[r].kind = "call"
          \/ run[r].kind = "test" /\ outcome = "exit" /\ host[run[r].host].fd # 0
       /\ Becomes(r, "log")
    \/ /\ \/ run[r].kind = "smoke"
          \/ run[r].kind = "test" /\ (outcome = "error" \/ host[run[r].host].fd = 0)
       /\ Done(r)

\* The file of a tool may be gone, or lie outside the workspace.
ValidatePath(r) ==
    /\ run[r].at = "path"
    /\ Becomes(r, "env") \/ Ended(r, "error")
    /\ UNCHANGED <<host, names, files, invocations, faults, acked, silenced, shared>>

\* sync.Once: a .env that cannot be read fails the first run, and no other; there
\* may be no Python to go on with.
LoadDotEnv(r) ==
    /\ run[r].at = "env"
    /\ \/ (Becomes(r, "wait") \/ Ended(r, "error")) /\ UNCHANGED faults
       \/ host[run[r].host].env = "unread" /\ Fails /\ Ended(r, "error")
    /\ host' = [host EXCEPT ![run[r].host].env = "read"]
    /\ UNCHANGED <<names, files, invocations, acked, silenced, shared>>

\* The time of a run starts before it waits; a client may also give up.
Expire(r) ==
    /\ run[r].at \in {"wait", "run"}
    /\ ~run[r].expired
    /\ run' = [run EXCEPT ![r].expired = TRUE]
    /\ UNCHANGED <<host, names, files, invocations, faults, acked, silenced, shared>>

\* With time over and a slot free, select takes either.
TakeSlot(r) ==
    /\ run[r].at = "wait"
    /\ host[run[r].host].slots < MaxConcurrent
    /\ host' = [host EXCEPT ![run[r].host].slots = @ + 1]
    /\ Becomes(r, "run")
    /\ UNCHANGED <<names, files, invocations, faults, acked, silenced, shared>>

\* Fault: a run that waited in vain gives back a slot it never had.
ReleaseInVain(r) ==
    /\ run[r].at = "wait" /\ run[r].expired
    /\ host' = [host EXCEPT ![run[r].host].slots = IF @ > 0 THEN @ - 1 ELSE 0]
    /\ Ended(r, "error")
    /\ UNCHANGED <<names, files, invocations, faults, acked, silenced, shared>>

TimeOutWaiting(r) ==
    /\ run[r].at = "wait" /\ run[r].expired
    /\ Ended(r, "error")
    /\ UNCHANGED <<host, names, files, invocations, faults, acked, silenced, shared>>

\* The subprocess exits or is killed; the slot is free before the time is checked.
ReleaseSlot(r) ==
    /\ run[r].at = "run"
    /\ host' = [host EXCEPT ![run[r].host].slots = @ - 1]
    /\ Becomes(r, "check")
    /\ UNCHANGED <<names, files, invocations, faults, acked, silenced, shared>>

\* The time is over, or the subprocess never ran, or it has an exit code.
CheckTimeout(r) ==
    /\ run[r].at = "check"
    /\ Ended(r, "error") \/ (~run[r].expired /\ Ended(r, "exit"))
    /\ UNCHANGED <<host, names, files, invocations, faults, acked, silenced, shared>>

-----------------------------------------------------------------------------
(* Logger.Log and rotateLocked, one goroutine of a process at a time       *)

Logs(r, at, fd) ==
    /\ Becomes(r, at)
    /\ host' = [host EXCEPT ![run[r].host].busy = TRUE, ![run[r].host].fd = fd]

\* The size of the open file decides, if it can be told; a full file is closed and
\* the backup removed.
BeginLog(r) ==
    /\ run[r].at = "log"
    /\ ~host[run[r].host].busy
    /\ LET fd == host[run[r].host].fd
           full == fd # 0 /\ Len(files[fd]) >= RotateAt
       IN  \/ /\ full
              /\ Logs(r, "rename", 0)
              /\ \/ names' = [names EXCEPT !.backup = 0] /\ UNCHANGED faults
                 \/ Fails /\ UNCHANGED names
           \/ /\ IF full THEN Fails ELSE UNCHANGED faults
              /\ Logs(r, "write", fd) /\ UNCHANGED names
    /\ UNCHANGED <<files, invocations, acked, silenced, shared>>

\* Fault: without a rename there is no file to go on with.
RenameOrDrop(r) ==
    /\ run[r].at = "rename"
    /\ \/ /\ names.log # 0
          /\ names' = [log |-> 0, backup |-> names.log]
          /\ Becomes(r, "reopen")
          /\ UNCHANGED faults
       \/ (IF names.log = 0 THEN UNCHANGED faults ELSE Fails) /\ UNCHANGED names /\ Becomes(r, "write")
    /\ UNCHANGED <<host, files, invocations, acked, silenced, shared>>

\* If it fails, the original is opened again.
RenameLog(r) ==
    /\ run[r].at = "rename"
    /\ \/ /\ names.log # 0
          /\ names' = [log |-> 0, backup |-> names.log]
          /\ UNCHANGED faults
       \/ (IF names.log = 0 THEN UNCHANGED faults ELSE Fails) /\ UNCHANGED names
    /\ Becomes(r, "reopen")
    /\ UNCHANGED <<host, files, invocations, acked, silenced, shared>>

ReopenLog(r) ==
    /\ run[r].at = "reopen"
    /\ OpenLog(run[r].host)
    /\ Becomes(r, "write")
    /\ UNCHANGED <<invocations, faults, acked, silenced, shared>>

\* Log reports an error this once and is silent from then on.
ReopenFails(r) ==
    /\ run[r].at = "reopen"
    /\ Fails
    /\ silenced' = TRUE
    /\ host' = [host EXCEPT ![run[r].host].busy = FALSE]
    /\ Done(r)
    /\ UNCHANGED <<names, files, invocations, acked, shared>>

Line(whole) == [entry |-> acked + 1, whole |-> whole]

\* A write may fail, with nothing or a part of the line written.  Without a file
\* there is none, and no error.
WriteEntry(r) ==
    /\ run[r].at = "write"
    /\ LET fd == host[run[r].host].fd
       IN  \/ /\ files' = IF fd = 0 THEN files
                          ELSE [files EXCEPT ![fd] = Append(@, Line(TRUE))]
              /\ acked' = acked + 1
              /\ UNCHANGED faults
           \/ /\ fd # 0
              /\ Fails
              /\ files' \in {files, [files EXCEPT ![fd] = Append(@, Line(FALSE))]}
              /\ UNCHANGED acked
    /\ host' = [host EXCEPT ![run[r].host].busy = FALSE]
    /\ Done(r)
    /\ UNCHANGED <<names, invocations, silenced, shared>>

RuntimeNext ==
    \/ \E h \in Hosts : LaunchHost(h) \/ HostEnds(h)
    \/ \E r \in Runs :
           \/ Invoke(r) \/ ValidatePath(r) \/ LoadDotEnv(r) \/ Expire(r) \/ TakeSlot(r)
           \/ TimeOutWaiting(r) \/ ReleaseSlot(r) \/ CheckTimeout(r) \/ BeginLog(r)
           \/ RenameLog(r) \/ ReopenLog(r) \/ ReopenFails(r) \/ WriteEntry(r)

RuntimeSpec == RuntimeInit /\ [][RuntimeNext]_runtimeVars

-----------------------------------------------------------------------------
(* Properties.                                                             *)

\* Runs that wait, run out of time, give up or are killed hold one slot each
\* exactly while their subprocess may run, and never more than there are
\* (executor.go:117-131).
SlotsAreOfRuns ==
    \A h \in Hosts :
        /\ host[h].slots = Cardinality({r \in Runs : run[r].at = "run" /\ run[r].host = h})
        /\ host[h].slots <= MaxConcurrent

Content(name) == IF names[name] = 0 THEN << >> ELSE files[names[name]]

\* The entry of a line, or the one to follow n that were acknowledged.
EntryAt(lines, n, i) == IF i > Len(lines) THEN n + 1 ELSE lines[i].entry

\* While one process logs at a time and no file failed to open again, the two
\* files hold the latest entries that Log acknowledged, in order and without a
\* gap, with nothing else among them but parts of lines whose write failed, and
\* a whole file of that if there was as much: through writes and rotations that
\* fail or that a crash cuts short (logger.go:63-108).
AuditKeepsTheLatest ==
    ~silenced /\ ~shared =>
        LET kept == Content("backup") \o Content("log")
        IN  /\ \A i \in DOMAIN kept :
                   EntryAt(kept, acked, i + 1) = kept[i].entry + (IF kept[i].whole THEN 1 ELSE 0)
            /\ Len(kept) >= RotateAt \/ EntryAt(kept, acked, 1) = 1
=============================================================================
