----------------------------- MODULE IndexDaemon -----------------------------
(***************************************************************************)
(* foldermcp v3: index-v3, all-v3 and serve-v3 as processes on one store   *)
(* directory.  Opening the database, its migrations with their backup, the *)
(* endpoint clients dial, the fingerprint of the vectors, and the gates    *)
(* that compare it.  Nothing keeps two processes apart but SQLite, whose   *)
(* statements and transactions are the steps here.                         *)
(***************************************************************************)
EXTENDS Naturals, FiniteSets

CONSTANTS
    Processes,
    Builds,        \* quantization schemes of the binaries about
    Migrations,    \* the numbers of the migration files
    Stores,        \* what the store directory may hold at the start
    MaxLaunches,   \* bound: processes launched in a behaviour
    NoBuild, NoProcess

ASSUME DaemonAssumption ==
    /\ Migrations \subseteq Nat \ {0}
    /\ IsFiniteSet(Migrations)
    /\ 1 \in Migrations
    /\ MaxLaunches \in Nat
    /\ NoBuild \notin Builds
    /\ NoProcess \notin Processes

VARIABLES
    platform,   \* "unix": a socket file; "windows": a file that names a pipe
    db,         \* index.db
    backup,     \* pre-migration.db
    endpoint,   \* the process whose socket or pipe the endpoint file leads to
    proc,       \* process -> where it is
    launches,
    (* Observers, read by no action. *)
    alone,      \* processes that met no other since they were launched
    mixed       \* two builds were at work at once on this database

daemonVars == <<platform, db, backup, endpoint, proc, launches, alone, mixed>>

Versions == Migrations \cup {0}

\* made: the migrations whose tables and triggers exist; vectors: their schemes.
Database == [version : Versions, made : SUBSET Migrations, fp : Builds \cup {NoBuild},
             vectors : SUBSET Builds]

\* A database file that is missing or that nobody migrated yet.
Blank == [version |-> 0, made |-> {}, fp |-> NoBuild, vectors |-> {}]

\* by: who writes it; whole: written to the end; version: what it was taken of.
Backup == [by : Processes \cup {NoProcess}, whole : BOOLEAN, version : Versions]
NoBackup == [by |-> NoProcess, whole |-> FALSE, version |-> 0]

\* What earlier binaries left: no table is missing, vectors are as the fingerprint says.
ASSUME StoresAssumption ==
    \A s \in Stores :
        /\ s.db \in Database /\ s.backup \in Backup
        /\ \A m \in Migrations : m <= s.db.version => m \in s.db.made
        /\ s.db.vectors \subseteq {s.db.fp} \ {NoBuild}

Process ==
    [at : {"off", "open", "version", "clear", "vacuum", "copying", "apply", "model", "index",
           "unlink", "bind", "secure", "gate", "assemble", "up"},
     kind : {"index", "all", "serve"}, build : Builds \cup {NoBuild},
     found : Versions,            \* the schema_version it read
     todo : SUBSET Migrations,    \* the migrations it has still to apply
     model : BOOLEAN,             \* the model files were there
     semantic : BOOLEAN,          \* query texts are embedded
     vector : BOOLEAN,            \* the vector handler is not disabled
     runner : {"none", "check", "read", "write", "embed"}]

Off == [at |-> "off", kind |-> "index", build |-> NoBuild, found |-> 0, todo |-> {},
        model |-> FALSE, semantic |-> FALSE, vector |-> FALSE, runner |-> "none"]

DaemonTypeOK ==
    /\ platform \in {"unix", "windows"}
    /\ db \in Database
    /\ backup \in Backup
    /\ endpoint \in Processes \cup {NoProcess}
    /\ proc \in [Processes -> Process]

DaemonInit ==
    /\ platform \in {"unix", "windows"}
    /\ \E s \in Stores : db = s.db /\ backup = s.backup
    /\ endpoint = NoProcess
    /\ proc = [p \in Processes |-> Off]
    /\ launches = MaxLaunches
    /\ alone = {}
    /\ mixed = FALSE

Move(p, at) == proc' = [proc EXCEPT ![p].at = at]
Exit(p) == proc' = [proc EXCEPT ![p] = Off]

Launch(p) ==
    /\ proc[p].at = "off"
    /\ launches > 0
    /\ launches' = launches - 1
    /\ \E k \in {"index", "all", "serve"}, b \in Builds :
           proc' = [proc EXCEPT ![p] = [Off EXCEPT !.at = "open", !.kind = k, !.build = b]]
    /\ UNCHANGED <<platform, db, backup, endpoint>>

-----------------------------------------------------------------------------
(* store.Open and store.Migrate                                            *)

\* serve-v3 asks for a read-only database: one that is missing is refused or,
\* where the driver ignores the mode, found blank.  It migrates nothing.
OpenStore(p) ==
    /\ proc[p].at = "open"
    /\ \/ proc[p].kind = "serve" /\ db = Blank /\ Exit(p)
       \/ proc[p].kind = "serve" /\ Move(p, "unlink")
       \/ proc[p].kind # "serve" /\ Move(p, "version")
    /\ UNCHANGED <<platform, db, backup, endpoint, launches>>

\* Where a command goes with the schema in place.
Migrated(kind) == IF kind = "index" THEN "model" ELSE "unlink"

\* Fault: off by one.
PendingAfter(version) == {m \in Migrations : m > version + 1}

PendingMigrations(version) == {m \in Migrations : m > version}

ReadSchemaVersion(p) ==
    /\ proc[p].at = "version"
    /\ LET pending == PendingMigrations(db.version)
       IN  proc' = [proc EXCEPT
               ![p].found = db.version,
               ![p].todo = pending,
               ![p].at = IF pending = {} THEN Migrated(proc[p].kind)
                         ELSE IF db.version > 0 THEN "clear" ELSE "apply"]
    /\ UNCHANGED <<platform, db, backup, endpoint, launches>>

\* Fault: a backup that is there will do.
KeepBackup(p) ==
    /\ proc[p].at = "clear"
    /\ Move(p, IF backup = NoBackup THEN "vacuum" ELSE "apply")
    /\ UNCHANGED <<platform, db, backup, endpoint, launches>>

\* Snapshot removes the previous backup ...
ClearBackup(p) ==
    /\ proc[p].at = "clear"
    /\ backup' = NoBackup
    /\ Move(p, "vacuum")
    /\ UNCHANGED <<platform, db, endpoint, launches>>

\* ... and writes a new one, which must not exist: VACUUM INTO.
BeginVacuum(p) ==
    /\ proc[p].at = "vacuum"
    /\ IF backup = NoBackup
       THEN /\ backup' = [by |-> p, whole |-> FALSE, version |-> db.version]
            /\ Move(p, "copying")
       ELSE Exit(p) /\ UNCHANGED backup
    /\ UNCHANGED <<platform, db, endpoint, launches>>

\* Another process may have removed the file meanwhile.
EndVacuum(p) ==
    /\ proc[p].at = "copying"
    /\ backup' = IF backup.by = p THEN [backup EXCEPT !.whole = TRUE] ELSE backup
    /\ Move(p, "apply")
    /\ UNCHANGED <<platform, db, endpoint, launches>>

\* 0001 creates tables that must not exist; the others tolerate a replay.
Applies(m) == m = 1 => 1 \notin db.made

\* One transaction: the statements of the file and the schema_version.
ApplyMigration(p) ==
    /\ proc[p].at = "apply"
    /\ \E m \in proc[p].todo :
           /\ \A n \in proc[p].todo : m <= n
           /\ IF Applies(m)
              THEN /\ db' = [db EXCEPT !.version = m, !.made = @ \cup {m}]
                   /\ proc' = [proc EXCEPT ![p].todo = @ \ {m},
                                           ![p].at = IF proc[p].todo = {m}
                                                     THEN Migrated(proc[p].kind) ELSE "apply"]
              ELSE Exit(p) /\ UNCHANGED db
    /\ UNCHANGED <<platform, backup, endpoint, launches>>

-----------------------------------------------------------------------------
(* transport.Listen and the servers                                        *)

\* Fault: the socket of a crashed daemon is left in place.
LeaveSocket(p) ==
    /\ proc[p].at = "unlink"
    /\ Move(p, "bind")
    /\ UNCHANGED <<platform, db, backup, endpoint, launches>>

RemoveSocket(p) ==
    /\ proc[p].at = "unlink"
    /\ endpoint' = IF platform = "unix" THEN NoProcess ELSE endpoint
    /\ Move(p, "bind")
    /\ UNCHANGED <<platform, db, backup, launches>>

\* A socket cannot be bound where a file is; the name of a new pipe overwrites
\* the one in the endpoint file.
Bind(p) ==
    /\ proc[p].at = "bind"
    /\ IF platform = "unix" /\ endpoint # NoProcess
       THEN Exit(p) /\ UNCHANGED endpoint
       ELSE Move(p, IF platform = "unix" THEN "secure" ELSE "gate") /\ endpoint' = p
    /\ UNCHANGED <<platform, db, backup, launches>>

\* chmod and stat fail when the file is gone; closing removes what is there.
SecureSocket(p) ==
    /\ proc[p].at = "secure"
    /\ IF endpoint = NoProcess THEN Exit(p) ELSE Move(p, "gate")
    /\ UNCHANGED <<platform, db, backup, endpoint, launches>>

\* SemanticIndexCompatible: no fingerprint is compatible, no table is not.
Compatible(b) == 1 \in db.made /\ db.fp \in {NoBuild, b}

\* Without model files a daemon serves, but neither embeds nor indexes.
ResolveModel(p) ==
    /\ proc[p].at = "gate"
    /\ \E found \in BOOLEAN :
           proc' = [proc EXCEPT ![p].model = found,
                                ![p].semantic = found /\ Compatible(proc[p].build),
                                ![p].at = "assemble"]
    /\ UNCHANGED <<platform, db, backup, endpoint, launches>>

\* NewServer has a gate of its own; all-v3 then starts its indexer.
NewServer(p) ==
    /\ proc[p].at = "assemble"
    /\ proc' = [proc EXCEPT
           ![p].vector = Compatible(proc[p].build),
           ![p].runner = IF proc[p].kind = "all" /\ proc[p].model THEN "check" ELSE "none",
           ![p].at = "up"]
    /\ UNCHANGED <<platform, db, backup, endpoint, launches>>

\* Closing a listener removes its endpoint file, whoever made it.
Shutdown(p) ==
    /\ proc[p].at = "up"
    /\ endpoint' = NoProcess
    /\ Exit(p)
    /\ UNCHANGED <<platform, db, backup, launches>>

-----------------------------------------------------------------------------
(* The indexer: on its own in index-v3, a goroutine of all-v3              *)

IndexModel(p) ==
    /\ proc[p].at = "model"
    /\ \/ proc' = [proc EXCEPT ![p].at = "index", ![p].runner = "check"]
       \/ Exit(p)
    /\ UNCHANGED <<platform, db, backup, endpoint, launches>>

Runner(p, stage) == proc' = [proc EXCEPT ![p].runner = stage]

\* index-v3 ends with its runner, all-v3 goes on serving.
RunnerEnds(p) == IF proc[p].kind = "index" THEN Exit(p) ELSE Runner(p, "none")

\* Fault: any fingerprint will do.
TrustFingerprint(p) ==
    /\ proc[p].runner = "check"
    /\ Runner(p, "read")
    /\ UNCHANGED <<platform, db, backup, endpoint, launches>>

\* EnsureFingerprint checks, reads and writes in three statements.
CheckFingerprint(p) ==
    /\ proc[p].runner = "check"
    /\ IF db.fp \in {NoBuild, proc[p].build} THEN Runner(p, "read") ELSE RunnerEnds(p)
    /\ UNCHANGED <<platform, db, backup, endpoint, launches>>

ReadFingerprint(p) ==
    /\ proc[p].runner = "read"
    /\ Runner(p, IF db.fp = NoBuild THEN "write" ELSE "embed")
    /\ UNCHANGED <<platform, db, backup, endpoint, launches>>

WriteFingerprint(p) ==
    /\ proc[p].runner = "write"
    /\ db' = [db EXCEPT !.fp = proc[p].build]
    /\ Runner(p, "embed")
    /\ UNCHANGED <<platform, backup, endpoint, launches>>

WriteBatch(p) ==
    /\ proc[p].runner = "embed"
    /\ db' = [db EXCEPT !.vectors = @ \cup {proc[p].build}]
    /\ UNCHANGED <<platform, backup, endpoint, proc, launches>>

FinishRun(p) ==
    /\ proc[p].runner = "embed"
    /\ RunnerEnds(p)
    /\ UNCHANGED <<platform, db, backup, endpoint, launches>>

-----------------------------------------------------------------------------

\* A crash, a full disk or a database that stays locked: nothing is cleaned up.
KillProcess(p) ==
    /\ proc[p].at # "off"
    /\ Exit(p)
    /\ UNCHANGED <<platform, db, backup, endpoint, launches>>

\* What ErrFingerprintMismatch advises.
DeleteIndex ==
    /\ \A p \in Processes : proc[p].at = "off"
    /\ db' = Blank
    /\ UNCHANGED <<platform, backup, endpoint, proc, launches>>

DaemonStep(p) ==
    \/ Launch(p) \/ OpenStore(p) \/ ReadSchemaVersion(p) \/ ClearBackup(p) \/ BeginVacuum(p)
    \/ EndVacuum(p) \/ ApplyMigration(p) \/ RemoveSocket(p) \/ Bind(p) \/ SecureSocket(p)
    \/ ResolveModel(p) \/ NewServer(p) \/ Shutdown(p) \/ IndexModel(p) \/ CheckFingerprint(p)
    \/ ReadFingerprint(p) \/ WriteFingerprint(p) \/ WriteBatch(p) \/ FinishRun(p)
    \/ KillProcess(p)

AliveNext == {p \in Processes : proc'[p].at # "off"}

ObserveDaemons ==
    /\ alone' = {p \in AliveNext : AliveNext = {p} /\ (proc[p].at = "off" \/ p \in alone)}
    /\ mixed' = \/ mixed /\ db' # Blank
                \/ \E p, q \in AliveNext : proc'[p].build # proc'[q].build

DaemonNext == ((\E p \in Processes : DaemonStep(p)) \/ DeleteIndex) /\ ObserveDaemons

DaemonSpec == DaemonInit /\ [][DaemonNext]_daemonVars

-----------------------------------------------------------------------------
(* Properties.                                                             *)

\* However openers overlap, crash and come back, the schema that the database
\* says it has is all there (migrate.go:49-71, 0002_invalidate_on_sha256.sql:21).
SchemaIsComplete == \A m \in Migrations : m <= db.version => m \in db.made

\* An opener that met no other changes a database that held data only under a
\* whole backup of what it found, after whatever crashes (migrate.go:43).
UpgradesAreBackedUp ==
    [][\A p \in alone : proc[p].at = "apply" /\ proc[p].found > 0 /\ db' # db =>
           backup.whole /\ backup.version = proc[p].found]_daemonVars

\* A daemon that met no other finds the endpoint free however its predecessor
\* ended, and is reached by it (transport_unix.go:21, transport_windows.go:72).
LoneDaemonIsReached ==
    \A p \in alone :
        /\ proc[p].at = "bind" /\ platform = "unix" => endpoint = NoProcess
        /\ proc[p].at \in {"secure", "gate", "assemble", "up"} => endpoint = p

\* Unless two builds were at work at once, the vectors are of the scheme the
\* fingerprint names, and no server compares others (writer.go:52, compat.go:30).
VectorsAreComparable ==
    ~mixed => /\ db.vectors \subseteq {db.fp}
              /\ \A p \in Processes : proc[p].at = "up" /\ proc[p].vector =>
                     db.vectors \subseteq {proc[p].build}
=============================================================================
