--------------------------- MODULE SharedApprovals ---------------------------
(***************************************************************************)
(* approvals.yaml on a shared folder: SaveApprovals of several machines,   *)
(* with a lock file that is removed by its path, by its owner or by whoever *)
(* finds it old, and one name for the temporary file.                      *)
(***************************************************************************)
EXTENDS Naturals, FiniteSets

CONSTANTS
    Savers,
    MaxTries,   \* 50 in the code
    MaxSaves,   \* bound
    Nobody

ASSUME ApprovalsAssumption == {MaxTries, MaxSaves} \subseteq Nat /\ Nobody \notin Savers

VARIABLES
    lock,       \* [by, old]: who made the lock file, and if it is older than 10 s
    tmp,        \* approvals.yaml.tmp: [by, whole], by Nobody if it is not there
    approvals,  \* approvals.yaml, likewise
    saver,      \* [at, tries, stale]
    saves,
    robbed      \* observer: the lock of a saver at work was removed by another

approvalsVars == <<lock, tmp, approvals, saver, saves, robbed>>

NoLock == [by |-> Nobody, old |-> FALSE]
NoFile == [by |-> Nobody, whole |-> TRUE]
Resting == [at |-> "idle", tries |-> 0]
Working == {"truncate", "write", "rename", "release"}

ApprovalsInit ==
    /\ lock \in {NoLock} \cup [by : Savers, old : BOOLEAN]
    /\ tmp = NoFile
    /\ approvals = NoFile
    /\ saver = [s \in Savers |-> Resting]
    /\ saves = MaxSaves
    /\ robbed = FALSE

To(s, at) == saver' = [saver EXCEPT ![s].at = at]
StopSaving(s) == saver' = [saver EXCEPT ![s] = Resting]

BeginSave(s) ==
    /\ saver[s].at = "idle"
    /\ saves > 0
    /\ saves' = saves - 1
    /\ saver' = [saver EXCEPT ![s] = [at |-> "acquire", tries |-> MaxTries]]
    /\ UNCHANGED <<lock, tmp, approvals, robbed>>

\* O_CREATE and O_EXCL.
Acquire(s) ==
    /\ saver[s].at = "acquire"
    /\ saver[s].tries > 0
    /\ IF lock = NoLock
       THEN lock' = [by |-> s, old |-> FALSE] /\ To(s, "truncate")
       ELSE To(s, "stat") /\ UNCHANGED lock
    /\ UNCHANGED <<tmp, approvals, saves, robbed>>

Retry(s, at) == saver' = [saver EXCEPT ![s].at = at, ![s].tries = @ - 1]

\* A lock that is not old, or gone, is waited for.
StatLock(s) ==
    /\ saver[s].at = "stat"
    /\ IF lock.old THEN To(s, "break") ELSE Retry(s, "acquire")
    /\ UNCHANGED <<lock, tmp, approvals, saves, robbed>>

\* The lock at this path may be another one by now.
BreakLock(s) ==
    /\ saver[s].at = "break"
    /\ lock' = NoLock
    /\ robbed' = (robbed \/ \E o \in Savers \ {s} : lock.by = o /\ saver[o].at \in Working)
    /\ Retry(s, "acquire")
    /\ UNCHANGED <<tmp, approvals, saves>>

GiveUp(s) ==
    /\ saver[s].at = "acquire"
    /\ saver[s].tries = 0
    /\ StopSaving(s)
    /\ UNCHANGED <<lock, tmp, approvals, saves, robbed>>

\* Fault: the approvals are written in place.
TruncateApprovals(s) ==
    /\ saver[s].at = "truncate"
    /\ approvals' = [by |-> s, whole |-> FALSE]
    /\ To(s, "write")
    /\ UNCHANGED <<lock, tmp, saves, robbed>>

\* os.WriteFile truncates, then writes.
TruncateTmp(s) ==
    /\ saver[s].at = "truncate"
    /\ tmp' = [by |-> s, whole |-> FALSE]
    /\ To(s, "write")
    /\ UNCHANGED <<lock, approvals, saves, robbed>>

\* The bytes go to the file that was opened, wherever it is called by now.
WriteTmp(s) ==
    /\ saver[s].at = "write"
    /\ tmp' = IF tmp.by = s THEN [tmp EXCEPT !.whole = TRUE] ELSE tmp
    /\ approvals' = IF approvals.by = s THEN [approvals EXCEPT !.whole = TRUE] ELSE approvals
    /\ To(s, "rename")
    /\ UNCHANGED <<lock, saves, robbed>>

\* os.WriteFile cannot open the file, or writes a part of it: what is there stays.
FailToWrite(s) ==
    /\ saver[s].at \in {"truncate", "write"}
    /\ To(s, "release")
    /\ UNCHANGED <<lock, tmp, approvals, saves, robbed>>

RenameTmp(s) ==
    /\ saver[s].at = "rename"
    /\ IF tmp = NoFile THEN UNCHANGED <<tmp, approvals>>
       ELSE approvals' = tmp /\ tmp' = NoFile
    /\ To(s, "release")
    /\ UNCHANGED <<lock, saves, robbed>>

\* The temporary file is removed, if it can be.
FailToRename(s) ==
    /\ saver[s].at = "rename"
    /\ tmp' \in {tmp, NoFile}
    /\ To(s, "release")
    /\ UNCHANGED <<lock, approvals, saves, robbed>>

ReleaseLock(s) ==
    /\ saver[s].at = "release"
    /\ lock' = NoLock
    /\ robbed' = (robbed \/ \E o \in Savers \ {s} : lock.by = o /\ saver[o].at \in Working)
    /\ StopSaving(s)
    /\ UNCHANGED <<tmp, approvals, saves>>

\* A machine that goes down leaves its lock and its temporary file, as does one
\* that fails to make its lock, or to remove it.
CrashSaver(s) ==
    /\ saver[s].at # "idle"
    /\ StopSaving(s)
    /\ UNCHANGED <<lock, tmp, approvals, saves, robbed>>

LockAges ==
    /\ lock # NoLock /\ ~lock.old
    /\ lock' = [lock EXCEPT !.old = TRUE]
    /\ UNCHANGED <<tmp, approvals, saver, saves, robbed>>

ApprovalsNext ==
    \/ \E s \in Savers :
           \/ BeginSave(s) \/ Acquire(s) \/ StatLock(s) \/ BreakLock(s) \/ GiveUp(s)
           \/ TruncateTmp(s) \/ WriteTmp(s) \/ FailToWrite(s) \/ RenameTmp(s) \/ FailToRename(s)
           \/ ReleaseLock(s) \/ CrashSaver(s)
    \/ LockAges

ApprovalsSpec == ApprovalsInit /\ [][ApprovalsNext]_approvalsVars

-----------------------------------------------------------------------------
(* Property.                                                               *)

\* However savers wait, give up, fail, crash and take over old locks: until the lock
\* of a saver that is still at work has been removed by another, the file
\* that readers parse is whole and one saver is at work (approvals.go:116-128).
ApprovalsAreWhole ==
    ~robbed => approvals.whole /\ Cardinality({s \in Savers : saver[s].at \in Working}) <= 1
=============================================================================
