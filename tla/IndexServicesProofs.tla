------------------------- MODULE IndexServicesProofs -------------------------
(***************************************************************************)
(* Proofs about two parts of foldermcp v3 that share no state with one     *)
(* another: the daemon with its store (IndexDaemon), and the tools that    *)
(* page, inspect and count (IndexTools).                                   *)
(***************************************************************************)
EXTENDS IndexDaemon, IndexTools, FiniteSetTheorems, SequenceTheorems, TLAPS

-----------------------------------------------------------------------------
(* IndexDaemon: type correctness.                                          *)

Stages == {"off", "open", "version", "clear", "vacuum", "copying", "apply", "model", "index",
           "unlink", "bind", "secure", "gate", "assemble", "up"}

LEMMA VersionsAreNumbers == Versions \subseteq Nat /\ Migrations \subseteq Nat \ {0}
<1>1. Migrations \subseteq Nat \ {0}
  BY DaemonAssumption
<1>2. QED
  BY <1>1 DEF Versions

LEMMA OffTyped == Off \in Process
  BY DEF Off, Process, Versions

LEMMA BlankTyped == Blank \in Database /\ NoBackup \in Backup
  BY DEF Blank, Database, NoBackup, Backup, Versions

\* What the steps do to a process gives a process.
LEMMA UpdatesTyped ==
    ASSUME NEW r \in Process, NEW at \in Stages
    PROVE  /\ [r EXCEPT !.at = at] \in Process
           /\ \A k \in {"index", "all", "serve"}, b \in Builds :
                  [r EXCEPT !.at = at, !.kind = k, !.build = b] \in Process
           /\ \A v \in Versions, todo \in SUBSET Migrations :
                  [r EXCEPT !.found = v, !.todo = todo, !.at = at] \in Process
           /\ \A todo \in SUBSET Migrations : [r EXCEPT !.todo = todo, !.at = at] \in Process
           /\ \A m, s \in BOOLEAN : [r EXCEPT !.model = m, !.semantic = s, !.at = at] \in Process
<1> USE DEF Process, Stages
<1>1. [r EXCEPT !.at = at] \in Process
  OBVIOUS
<1>2. ASSUME NEW k \in {"index", "all", "serve"}, NEW b \in Builds
      PROVE  [r EXCEPT !.at = at, !.kind = k, !.build = b] \in Process
  OBVIOUS
<1>3. ASSUME NEW v \in Versions, NEW todo \in SUBSET Migrations
      PROVE  [r EXCEPT !.found = v, !.todo = todo, !.at = at] \in Process
  OBVIOUS
<1>4. ASSUME NEW todo \in SUBSET Migrations
      PROVE  [r EXCEPT !.todo = todo, !.at = at] \in Process
  OBVIOUS
<1>5. ASSUME NEW m \in BOOLEAN, NEW s \in BOOLEAN
      PROVE  [r EXCEPT !.model = m, !.semantic = s, !.at = at] \in Process
  OBVIOUS
<1> HIDE DEF Process, Stages
<1>6. QED
  BY <1>1, <1>2, <1>3, <1>4, <1>5

LEMMA RunnersTyped ==
    ASSUME NEW r \in Process, NEW runner \in {"none", "check", "read", "write", "embed"},
           NEW at \in Stages
    PROVE  /\ [r EXCEPT !.runner = runner] \in Process
           /\ [r EXCEPT !.at = at, !.runner = runner] \in Process
           /\ \A v \in BOOLEAN :
                  [r EXCEPT !.vector = v, !.runner = runner, !.at = at] \in Process
<1> USE DEF Process, Stages
<1>1. [r EXCEPT !.runner = runner] \in Process
  OBVIOUS
<1>2. [r EXCEPT !.at = at, !.runner = runner] \in Process
  OBVIOUS
<1>3. ASSUME NEW v \in BOOLEAN
      PROVE  [r EXCEPT !.vector = v, !.runner = runner, !.at = at] \in Process
  OBVIOUS
<1> HIDE DEF Process, Stages
<1>4. QED
  BY <1>1, <1>2, <1>3

\* A step puts a process in the place of its own.
Steps(p) == \E r \in Process : proc' = [proc EXCEPT ![p] = r]

LEMMA MovesStep ==
    ASSUME DaemonTypeOK, NEW p \in Processes
    PROVE  /\ Exit(p) => Steps(p)
           /\ \A at \in Stages : Move(p, at) => Steps(p)
           /\ \A r \in {"none", "check", "read", "write", "embed"} : Runner(p, r) => Steps(p)
           /\ RunnerEnds(p) => Steps(p)
<1>1. proc[p] \in Process
  BY DEF DaemonTypeOK
<1>2. Exit(p) => Steps(p)
  BY OffTyped DEF Exit, Steps
<1>3. \A at \in Stages : Move(p, at) => Steps(p)
  BY <1>1, UpdatesTyped DEF Move, Steps
<1>4. \A r \in {"none", "check", "read", "write", "embed"} : Runner(p, r) => Steps(p)
  BY <1>1, RunnersTyped DEF Runner, Steps, Stages
<1>5. QED
  BY <1>2, <1>3, <1>4 DEF RunnerEnds

LEMMA StepsTyped ==
    ASSUME DaemonTypeOK, NEW p \in Processes, Steps(p)
    PROVE  /\ proc' \in [Processes -> Process]
           /\ \A q \in Processes \ {p} : proc'[q] = proc[q]
  BY DEF DaemonTypeOK, Steps

LEMMA EveryStepSteps ==
    ASSUME DaemonTypeOK, NEW p \in Processes, DaemonStep(p)
    PROVE  Steps(p)
<1> USE DEF DaemonTypeOK
<1>0. proc[p] \in Process
  OBVIOUS
<1>1. CASE Launch(p)
  <2>1. PICK k \in {"index", "all", "serve"}, b \in Builds :
            proc' = [proc EXCEPT ![p] = [Off EXCEPT !.at = "open", !.kind = k, !.build = b]]
    BY <1>1 DEF Launch
  <2>2. QED
    BY <2>1, OffTyped, UpdatesTyped DEF Steps, Stages
<1>2. CASE OpenStore(p) \/ KillProcess(p) \/ ClearBackup(p) \/ EndVacuum(p) \/ RemoveSocket(p)
           \/ Bind(p) \/ SecureSocket(p) \/ Shutdown(p) \/ FinishRun(p) \/ BeginVacuum(p)
           \/ CheckFingerprint(p) \/ ReadFingerprint(p) \/ WriteFingerprint(p)
  BY <1>2, MovesStep
  DEF OpenStore, KillProcess, ClearBackup, EndVacuum, RemoveSocket, Bind, SecureSocket, Shutdown,
      FinishRun, BeginVacuum, CheckFingerprint, ReadFingerprint, WriteFingerprint, Stages
<1>3. CASE ReadSchemaVersion(p)
  <2> DEFINE todo == PendingMigrations(db.version)
             at == IF todo = {} THEN Migrated(proc[p].kind)
                   ELSE IF db.version > 0 THEN "clear" ELSE "apply"
  <2>1. proc' = [proc EXCEPT ![p] = [proc[p] EXCEPT !.found = db.version, !.todo = todo,
                                                    !.at = at]]
    BY <1>3 DEF ReadSchemaVersion
  <2>2. db.version \in Versions /\ todo \in SUBSET Migrations /\ at \in Stages
    BY DEF Database, PendingMigrations, Migrated, Stages
  <2> HIDE DEF todo, at
  <2>3. QED
    BY <1>0, <2>1, <2>2, UpdatesTyped DEF Steps
<1>4. CASE ApplyMigration(p)
  <2>1. PICK m \in proc[p].todo :
            IF Applies(m)
            THEN /\ db' = [db EXCEPT !.version = m, !.made = @ \cup {m}]
                 /\ proc' = [proc EXCEPT ![p].todo = @ \ {m},
                                         ![p].at = IF proc[p].todo = {m}
                                                   THEN Migrated(proc[p].kind) ELSE "apply"]
            ELSE Exit(p) /\ UNCHANGED db
    BY <1>4 DEF ApplyMigration
  <2> DEFINE todo == proc[p].todo \ {m}
             at == IF proc[p].todo = {m} THEN Migrated(proc[p].kind) ELSE "apply"
  <2>2. CASE Applies(m)
    <3>1. proc' = [proc EXCEPT ![p] = [proc[p] EXCEPT !.todo = todo, !.at = at]]
      BY <2>1, <2>2
    <3>2. todo \in SUBSET Migrations /\ at \in Stages
      BY <1>0 DEF Process, Migrated, Stages
    <3> HIDE DEF todo, at
    <3>3. QED
      BY <1>0, <3>1, <3>2, UpdatesTyped DEF Steps
  <2>3. QED
    BY <2>1, <2>2, MovesStep
<1>5. CASE ResolveModel(p)
  <2>1. PICK found, semantic \in BOOLEAN :
            proc' = [proc EXCEPT ![p] = [proc[p] EXCEPT !.model = found, !.semantic = semantic,
                                                        !.at = "assemble"]]
    BY <1>5 DEF ResolveModel, Compatible
  <2>2. QED
    BY <1>0, <2>1, UpdatesTyped DEF Steps, Stages
<1>6. CASE NewServer(p)
  <2>1. PICK vector \in BOOLEAN, runner \in {"none", "check"} :
            proc' = [proc EXCEPT ![p] = [proc[p] EXCEPT !.vector = vector, !.runner = runner,
                                                        !.at = "up"]]
    BY <1>6 DEF NewServer, Compatible
  <2>2. QED
    BY <1>0, <2>1, RunnersTyped DEF Steps, Stages
<1>7. CASE IndexModel(p)
  <2>1. CASE Exit(p)
    BY <2>1, MovesStep
  <2>2. CASE proc' = [proc EXCEPT ![p] = [proc[p] EXCEPT !.at = "index", !.runner = "check"]]
    BY <1>0, <2>2, RunnersTyped DEF Steps, Stages
  <2>3. QED
    BY <1>7, <2>1, <2>2 DEF IndexModel
<1>8. CASE WriteBatch(p)
  <2>1. proc' = [proc EXCEPT ![p] = proc[p]]
    BY <1>8 DEF WriteBatch
  <2>2. QED
    BY <1>0, <2>1 DEF Steps
<1>9. QED
  BY <1>1, <1>2, <1>3, <1>4, <1>5, <1>6, <1>7, <1>8 DEF DaemonStep

\* A process that runs was built: every step but Launch keeps its build.
Launched == \A q \in Processes : proc[q] = Off \/ (proc[q].at # "off" /\ proc[q].build \in Builds)

LEMMA StepLaunched ==
    ASSUME DaemonTypeOK, Launched, NEW p \in Processes, DaemonStep(p)
    PROVE  Launched'
<1>0. proc[p] \in Process
  BY DEF DaemonTypeOK
<1>1. \A q \in Processes \ {p} : proc'[q] = proc[q]
  BY EveryStepSteps, StepsTyped
<1>2. proc'[p] = Off \/ (proc'[p].at # "off" /\ proc'[p].build \in Builds)
  <2> USE DEF DaemonTypeOK, Launched
  <2>1. CASE Launch(p)
    <3>1. PICK k \in {"index", "all", "serve"}, b \in Builds :
            proc' = [proc EXCEPT ![p] = [Off EXCEPT !.at = "open", !.kind = k, !.build = b]]
      BY <2>1 DEF Launch
    <3>2. QED
      BY <3>1 DEF Off
  <2>2. CASE OpenStore(p) \/ KillProcess(p) \/ ClearBackup(p) \/ EndVacuum(p) \/ RemoveSocket(p)
             \/ Bind(p) \/ SecureSocket(p) \/ Shutdown(p) \/ BeginVacuum(p)
    <3>1. proc[p].at # "off" /\ (Exit(p) \/ \E at \in Stages \ {"off"} : Move(p, at))
      BY <2>2
      DEF OpenStore, KillProcess, ClearBackup, EndVacuum, RemoveSocket, Bind, SecureSocket,
          Shutdown, BeginVacuum, Stages
    <3>2. proc[p].build \in Builds
      BY <3>1 DEF Off
    <3>3. CASE Exit(p)
      BY <3>3 DEF Exit
    <3>4. ASSUME NEW at \in Stages \ {"off"}, Move(p, at)
          PROVE  proc'[p].at # "off" /\ proc'[p].build \in Builds
      BY <1>0, <3>2, <3>4 DEF Move, Process
    <3>5. QED
      BY <3>1, <3>3, <3>4
  <2>3. CASE ReadSchemaVersion(p)
    BY <1>0, <2>3 DEF ReadSchemaVersion, Migrated, Off, Process
  <2>4. CASE ResolveModel(p)
    BY <1>0, <2>4 DEF ResolveModel, Off, Process
  <2>5. CASE NewServer(p)
    BY <1>0, <2>5 DEF NewServer, Off, Process
  <2>6. Exit(p) => proc'[p] = Off
    BY DEF Exit
  <2>7. CASE IndexModel(p)
    BY <1>0, <2>7, <2>6 DEF IndexModel, Off, Process
  <2>8. CASE ApplyMigration(p)
    BY <1>0, <2>8, <2>6 DEF ApplyMigration, Migrated, Off, Process
  <2>9. CASE CheckFingerprint(p) \/ ReadFingerprint(p) \/ WriteFingerprint(p) \/ WriteBatch(p)
             \/ FinishRun(p)
    BY <1>0, <2>9, <2>6
    DEF CheckFingerprint, ReadFingerprint, WriteFingerprint, WriteBatch, FinishRun, Runner,
        RunnerEnds, Off, Process
  <2>10. QED
    BY <2>1, <2>2, <2>3, <2>4, <2>5, <2>7, <2>8, <2>9 DEF DaemonStep
<1>3. QED
  BY <1>1, <1>2 DEF Launched

LEMMA StepTyped ==
    ASSUME DaemonTypeOK, Launched, NEW p \in Processes, DaemonStep(p)
    PROVE  DaemonTypeOK'
<1>1. proc' \in [Processes -> Process]
  BY EveryStepSteps, StepsTyped
<1>2. db' \in Database
  <2>1. CASE ApplyMigration(p)
    <3>1. proc[p].todo \subseteq Migrations
      BY DEF DaemonTypeOK, Process
    <3>2. db' = db \/ \E m \in Migrations : db' = [db EXCEPT !.version = m, !.made = @ \cup {m}]
      BY <2>1, <3>1 DEF ApplyMigration
    <3>3. ASSUME NEW m \in Migrations, db' = [db EXCEPT !.version = m, !.made = @ \cup {m}]
          PROVE  db' \in Database
      BY <3>3 DEF DaemonTypeOK, Database, Versions
    <3>4. QED
      BY <3>2, <3>3 DEF DaemonTypeOK
  <2>2. CASE WriteFingerprint(p)
    BY <2>2 DEF DaemonTypeOK, WriteFingerprint, Process, Database
  <2>3. CASE WriteBatch(p)
    BY <2>3 DEF DaemonTypeOK, Launched, WriteBatch, Off, Process, Database
  <2>4. CASE UNCHANGED db
    BY <2>4 DEF DaemonTypeOK
  <2>5. QED
    BY <2>1, <2>2, <2>3, <2>4
    DEF DaemonStep, Launch, OpenStore, ReadSchemaVersion, ClearBackup, BeginVacuum, EndVacuum,
        RemoveSocket, Bind, SecureSocket, ResolveModel, NewServer, Shutdown, IndexModel,
        CheckFingerprint, ReadFingerprint, FinishRun, KillProcess
<1>3. backup' \in Backup
  <2>1. CASE BeginVacuum(p)
    <3>1. backup' = backup \/ backup' = [by |-> p, whole |-> FALSE, version |-> db.version]
      BY <2>1 DEF BeginVacuum
    <3>2. db.version \in Versions
      BY DEF DaemonTypeOK, Database
    <3>3. [by |-> p, whole |-> FALSE, version |-> db.version] \in Backup
      BY <3>2 DEF Backup
    <3>4. QED
      BY <3>1, <3>3 DEF DaemonTypeOK
  <2>2. CASE ClearBackup(p)
    BY <2>2, BlankTyped DEF ClearBackup
  <2>3. CASE EndVacuum(p)
    BY <2>3 DEF DaemonTypeOK, EndVacuum, Backup
  <2>4. CASE UNCHANGED backup
    BY <2>4 DEF DaemonTypeOK
  <2>5. QED
    BY <2>1, <2>2, <2>3, <2>4
    DEF DaemonStep, Launch, OpenStore, ReadSchemaVersion, ApplyMigration, RemoveSocket, Bind,
        SecureSocket, ResolveModel, NewServer, Shutdown, IndexModel, CheckFingerprint,
        ReadFingerprint, WriteFingerprint, WriteBatch, FinishRun, KillProcess
<1>4. platform' = platform /\ endpoint' \in Processes \cup {NoProcess}
  BY DEF DaemonTypeOK, DaemonStep, Launch, OpenStore, ReadSchemaVersion, ClearBackup,
         BeginVacuum, EndVacuum, ApplyMigration, RemoveSocket, Bind, SecureSocket,
         ResolveModel, NewServer, Shutdown, IndexModel, CheckFingerprint, ReadFingerprint,
         WriteFingerprint, WriteBatch, FinishRun, KillProcess
<1>5. QED
  BY <1>1, <1>2, <1>3, <1>4 DEF DaemonTypeOK

-----------------------------------------------------------------------------
(* What a step does to the process that takes it.                          *)

LEMMA OffFields == Off.at = "off" /\ Off.runner = "none" /\ Off.vector = FALSE
  BY DEF Off

LEMMA ExitIsOff ==
    ASSUME DaemonTypeOK, NEW p \in Processes, Exit(p)
    PROVE  proc'[p] = Off
  BY DEF DaemonTypeOK, Exit

LEMMA MoveFields ==
    ASSUME DaemonTypeOK, NEW p \in Processes, NEW at, Move(p, at)
    PROVE  /\ proc'[p].at = at
           /\ proc'[p].build = proc[p].build /\ proc'[p].found = proc[p].found
           /\ proc'[p].todo = proc[p].todo /\ proc'[p].runner = proc[p].runner
           /\ proc'[p].vector = proc[p].vector
<1>1. proc[p] \in Process
  BY DEF DaemonTypeOK
<1>2. QED
  BY <1>1 DEF DaemonTypeOK, Move, Process

LEMMA RunnerFields ==
    ASSUME DaemonTypeOK, NEW p \in Processes, NEW stage, Runner(p, stage)
    PROVE  /\ proc'[p].runner = stage
           /\ proc'[p].at = proc[p].at
           /\ proc'[p].build = proc[p].build /\ proc'[p].found = proc[p].found
           /\ proc'[p].todo = proc[p].todo /\ proc'[p].vector = proc[p].vector
<1>1. proc[p] \in Process
  BY DEF DaemonTypeOK
<1>2. QED
  BY <1>1 DEF DaemonTypeOK, Runner, Process

\* The steps that only move a process on, or end it, and leave the database alone.
Movers(p) ==
    \/ OpenStore(p) \/ ClearBackup(p) \/ BeginVacuum(p) \/ EndVacuum(p) \/ RemoveSocket(p)
    \/ Bind(p) \/ SecureSocket(p) \/ Shutdown(p) \/ KillProcess(p)

\* The steps of the indexer: they change its stage, or end it.
Indexers(p) ==
    \/ CheckFingerprint(p) \/ ReadFingerprint(p) \/ WriteFingerprint(p) \/ WriteBatch(p)
    \/ FinishRun(p)

LEMMA StepKinds ==
    ASSUME NEW p \in Processes, DaemonStep(p)
    PROVE  \/ Launch(p) \/ ReadSchemaVersion(p) \/ ApplyMigration(p) \/ ResolveModel(p)
           \/ NewServer(p) \/ IndexModel(p) \/ Movers(p) \/ Indexers(p)
  BY DEF DaemonStep, Movers, Indexers

LEMMA MoversMove ==
    ASSUME NEW p \in Processes, Movers(p)
    PROVE  UNCHANGED db /\ (Exit(p) \/ \E at : Move(p, at))
  BY DEF Movers, OpenStore, ClearBackup, BeginVacuum, EndVacuum, RemoveSocket, Bind, SecureSocket,
         Shutdown, KillProcess

LEMMA IndexersMove ==
    ASSUME NEW p \in Processes, Indexers(p)
    PROVE  UNCHANGED proc \/ Exit(p) \/ \E stage : Runner(p, stage)
  BY DEF Indexers, CheckFingerprint, ReadFingerprint, WriteFingerprint, WriteBatch, FinishRun,
         RunnerEnds

-----------------------------------------------------------------------------
(* The schema.                                                             *)

Upgrading == {"clear", "vacuum", "copying", "apply"}

\* What an opener will not apply any more has been applied, by whomever.
UpgradesKnow ==
    \A q \in Processes : proc[q].at \in Upgrading => Migrations \ proc[q].todo \subseteq db.made

SchemaInvariant == SchemaIsComplete /\ UpgradesKnow

LEMMA SchemaStep ==
    ASSUME DaemonTypeOK, Launched, SchemaInvariant, NEW p \in Processes, DaemonStep(p)
    PROVE  SchemaInvariant'
<1>1. /\ proc[p] \in Process
      /\ \A q \in Processes \ {p} : proc'[q] = proc[q]
  BY EveryStepSteps, StepsTyped DEF DaemonTypeOK
<1>2. ASSUME db'.made = db.made, db'.version = db.version,
             proc'[p].at \in Upgrading =>
                 proc[p].at \in Upgrading /\ proc'[p].todo = proc[p].todo
      PROVE  SchemaInvariant'
  BY <1>1, <1>2 DEF SchemaInvariant, SchemaIsComplete, UpgradesKnow
<1>3. CASE Launch(p)
  <2>1. proc'[p].at = "open" /\ UNCHANGED db
    BY <1>3 DEF Launch, DaemonTypeOK, Off
  <2>2. QED
    BY <1>2, <2>1 DEF Upgrading
<1>4. CASE Movers(p)
  <2>1. CASE Exit(p)
    BY <1>2, <1>4, <2>1, ExitIsOff, OffFields, MoversMove DEF Upgrading
  <2>2. ASSUME NEW at, Move(p, at)
        PROVE  SchemaInvariant'
    <3>1. at \in Upgrading => proc[p].at \in Upgrading \/ Exit(p)
      BY <1>4, <2>2, <1>1, MoveFields
      DEF Movers, OpenStore, ClearBackup, BeginVacuum, EndVacuum, RemoveSocket, Bind,
          SecureSocket, Shutdown, KillProcess, Upgrading
    <3>2. QED
      BY <1>2, <1>4, <2>1, <2>2, <3>1, MoveFields, MoversMove
  <2>3. QED
    BY <1>4, <2>1, <2>2, MoversMove
<1>5. CASE Indexers(p)
  <2>1. db'.made = db.made /\ db'.version = db.version
    BY <1>5
    DEF Indexers, CheckFingerprint, ReadFingerprint, WriteFingerprint, WriteBatch, FinishRun,
        DaemonTypeOK, Database
  <2>2. CASE UNCHANGED proc
    BY <1>2, <2>1, <2>2
  <2>3. CASE Exit(p)
    BY <1>2, <2>1, <2>3, ExitIsOff, OffFields DEF Upgrading
  <2>4. CASE \E stage : Runner(p, stage)
    BY <1>2, <2>1, <2>4, RunnerFields
  <2>5. QED
    BY <1>5, <2>2, <2>3, <2>4, IndexersMove
<1>6. CASE ResolveModel(p) \/ NewServer(p)
  <2>1. ResolveModel(p) => proc'[p].at = "assemble" /\ UNCHANGED db
    BY <1>1 DEF ResolveModel, DaemonTypeOK, Process
  <2>2. NewServer(p) => proc'[p].at = "up" /\ UNCHANGED db
    BY <1>1 DEF NewServer, DaemonTypeOK, Process
  <2>3. QED
    BY <1>2, <1>6, <2>1, <2>2 DEF Upgrading
<1>7. CASE IndexModel(p)
  <2>1. proc'[p].at \notin Upgrading /\ UNCHANGED db
    BY <1>1, <1>7, ExitIsOff, OffFields DEF IndexModel, DaemonTypeOK, Process, Upgrading
  <2>2. QED
    BY <1>2, <2>1
<1>8. CASE ReadSchemaVersion(p)
  <2>1. UNCHANGED db /\ proc'[p].todo = {m \in Migrations : m > db.version}
    BY <1>1, <1>8 DEF ReadSchemaVersion, PendingMigrations, DaemonTypeOK, Process
  <2>2. db.version \in Nat /\ Migrations \subseteq Nat
    BY VersionsAreNumbers DEF DaemonTypeOK, Database
  <2>3. \A m \in Migrations \ proc'[p].todo : m <= db.version
    BY <2>1, <2>2
  <2>4. QED
    BY <1>1, <2>1, <2>3 DEF SchemaInvariant, SchemaIsComplete, UpgradesKnow
<1>9. CASE ApplyMigration(p)
  <2>1. PICK m \in proc[p].todo :
            /\ \A n \in proc[p].todo : m <= n
            /\ IF Applies(m)
               THEN /\ db' = [db EXCEPT !.version = m, !.made = @ \cup {m}]
                    /\ proc' = [proc EXCEPT ![p].todo = @ \ {m},
                                            ![p].at = IF proc[p].todo = {m}
                                                      THEN Migrated(proc[p].kind) ELSE "apply"]
               ELSE Exit(p) /\ UNCHANGED db
    BY <1>9 DEF ApplyMigration
  <2>2. CASE Exit(p) /\ UNCHANGED db
    BY <1>2, <2>2, ExitIsOff, OffFields DEF Upgrading
  <2>3. CASE Applies(m)
    <3>1. db'.version = m /\ db'.made = db.made \cup {m}
      BY <2>1, <2>3 DEF DaemonTypeOK, Database
    <3>2. proc'[p].todo = proc[p].todo \ {m}
      BY <1>1, <2>1, <2>3 DEF DaemonTypeOK, Process
    <3>3. Migrations \ proc[p].todo \subseteq db.made
      BY <1>9 DEF ApplyMigration, SchemaInvariant, UpgradesKnow, Upgrading
    <3>4. m \in Nat /\ \A n \in Migrations : n <= m => n = m \/ n \notin proc[p].todo
      BY <1>1, <2>1, DaemonAssumption DEF Process
    <3>5. QED
      BY <1>1, <3>1, <3>2, <3>3, <3>4 DEF SchemaInvariant, SchemaIsComplete, UpgradesKnow
  <2>4. QED
    BY <2>1, <2>2, <2>3
<1>10. QED
  BY <1>3, <1>4, <1>5, <1>6, <1>7, <1>8, <1>9, StepKinds

-----------------------------------------------------------------------------
(* The theorems that hold whatever the processes do to each other.         *)

DaemonInvariant == DaemonTypeOK /\ Launched /\ SchemaInvariant

LEMMA InitInvariant == DaemonInit => DaemonInvariant
<1> SUFFICES ASSUME DaemonInit PROVE DaemonInvariant
  OBVIOUS
<1>1. PICK s \in Stores : db = s.db /\ backup = s.backup
  BY DEF DaemonInit
<1>2. db \in Database /\ backup \in Backup /\ SchemaIsComplete
  BY <1>1, StoresAssumption DEF SchemaIsComplete
<1>3. proc \in [Processes -> Process] /\ \A q \in Processes : proc[q] = Off
  BY OffTyped DEF DaemonInit
<1>4. DaemonTypeOK
  BY <1>2, <1>3 DEF DaemonInit, DaemonTypeOK
<1>5. Launched /\ UpgradesKnow
  BY <1>3, OffFields DEF Launched, UpgradesKnow, Upgrading
<1>6. QED
  BY <1>2, <1>4, <1>5 DEF DaemonInvariant, SchemaInvariant

\* The database is deleted when nothing runs, so nobody remembers what it was.
LEMMA DeleteStep ==
    ASSUME DaemonInvariant, DeleteIndex
    PROVE  DaemonInvariant'
<1>1. db' = Blank /\ proc' = proc /\ backup' = backup /\ endpoint' = endpoint
      /\ platform' = platform
  BY DEF DeleteIndex
<1>2. \A q \in Processes : proc'[q].at \notin Upgrading
  BY <1>1 DEF DeleteIndex, Upgrading
<1>3. \A m \in Migrations : ~ (m <= 0)
  BY VersionsAreNumbers
<1>4. SchemaInvariant'
  BY <1>1, <1>2, <1>3 DEF SchemaInvariant, SchemaIsComplete, UpgradesKnow, Blank
<1>5. DaemonTypeOK' /\ Launched'
  BY <1>1, BlankTyped DEF DaemonInvariant, DaemonTypeOK, Launched
<1>6. QED
  BY <1>4, <1>5 DEF DaemonInvariant

LEMMA InvariantStep == DaemonInvariant /\ [DaemonNext]_daemonVars => DaemonInvariant'
<1> SUFFICES ASSUME DaemonInvariant, [DaemonNext]_daemonVars PROVE DaemonInvariant'
  OBVIOUS
<1>1. ASSUME NEW p \in Processes, DaemonStep(p)
      PROVE  DaemonInvariant'
  BY <1>1, StepTyped, StepLaunched, SchemaStep DEF DaemonInvariant
<1>2. CASE DeleteIndex
  BY <1>2, DeleteStep
<1>3. CASE UNCHANGED daemonVars
  BY <1>3 DEF daemonVars, DaemonInvariant, DaemonTypeOK, Launched, SchemaInvariant,
              SchemaIsComplete, UpgradesKnow
<1>4. QED
  BY <1>1, <1>2, <1>3 DEF DaemonNext

LEMMA InvariantHolds == DaemonSpec => []DaemonInvariant
  BY InitInvariant, InvariantStep, PTL DEF DaemonSpec

\* Whatever the processes do and whenever they die, the database, its backup, the endpoint
\* and every process stay within their types (migrate.go, transport_unix.go, writer.go).
THEOREM DaemonTypeCorrect == DaemonSpec => []DaemonTypeOK
<1>1. DaemonInvariant => DaemonTypeOK
  BY DEF DaemonInvariant
<1>2. QED
  BY <1>1, InvariantHolds, PTL

\* For every set of migrations and however many openers overlap, a schema_version names
\* migrations that were all applied (migrate.go:49-71).
THEOREM SchemaStaysComplete == DaemonSpec => []SchemaIsComplete
<1>1. DaemonInvariant => SchemaIsComplete
  BY DEF DaemonInvariant, SchemaInvariant
<1>2. QED
  BY <1>1, InvariantHolds, PTL

-----------------------------------------------------------------------------
(* The vectors: who trusts the fingerprint is of its build.                *)

\* A process that has compared its build with the fingerprint and found them alike.
Trusts(r) == r.runner \in {"read", "write", "embed"} \/ r.vector

LEMMA TrustIsEarned ==
    ASSUME DaemonTypeOK, Launched, NEW p \in Processes, DaemonStep(p)
    PROVE  /\ Trusts(proc'[p]) =>
                  /\ proc'[p].build = proc[p].build
                  /\ Trusts(proc[p]) \/ db.fp \in {NoBuild, proc[p].build}
           /\ proc'[p].runner = "embed" => proc[p].runner = "embed" \/ db'.fp # NoBuild
<1>0. proc[p] \in Process /\ proc[p].build \in Builds \cup {NoBuild}
  BY DEF DaemonTypeOK, Process
<1> DEFINE Earned ==
       /\ Trusts(proc'[p]) => /\ proc'[p].build = proc[p].build
                              /\ Trusts(proc[p]) \/ db.fp \in {NoBuild, proc[p].build}
       /\ proc'[p].runner = "embed" => proc[p].runner = "embed" \/ db'.fp # NoBuild
<1>1. Exit(p) => Earned
  BY ExitIsOff, OffFields DEF Trusts
<1>2. ASSUME proc'[p].runner = proc[p].runner, proc'[p].vector = proc[p].vector,
             proc'[p].build = proc[p].build
      PROVE  Earned
  BY <1>2 DEF Trusts
<1>3. CASE Launch(p)
  <2>1. proc'[p].runner = "none" /\ proc'[p].vector = FALSE
    BY <1>3 DEF Launch, DaemonTypeOK, Off
  <2>2. QED
    BY <2>1 DEF Trusts
<1>4. CASE Movers(p)
  <2>1. ASSUME NEW at, Move(p, at)
        PROVE  Earned
    BY <1>2, <2>1, MoveFields
  <2>2. QED
    BY <1>1, <1>4, <2>1, MoversMove
<1>5. CASE ReadSchemaVersion(p)
  <2>1. /\ proc'[p].runner = proc[p].runner /\ proc'[p].vector = proc[p].vector
        /\ proc'[p].build = proc[p].build
    BY <1>0, <1>5 DEF ReadSchemaVersion, DaemonTypeOK, Process
  <2>2. QED
    BY <1>2, <2>1
<1>6. CASE ApplyMigration(p)
  <2>1. \/ Exit(p)
        \/ /\ proc'[p].runner = proc[p].runner /\ proc'[p].vector = proc[p].vector
           /\ proc'[p].build = proc[p].build
    BY <1>0, <1>6 DEF ApplyMigration, DaemonTypeOK, Process
  <2>2. QED
    BY <1>1, <1>2, <2>1
<1>7. CASE ResolveModel(p)
  <2>1. /\ proc'[p].runner = proc[p].runner /\ proc'[p].vector = proc[p].vector
        /\ proc'[p].build = proc[p].build
    BY <1>0, <1>7 DEF ResolveModel, DaemonTypeOK, Process
  <2>2. QED
    BY <1>2, <2>1
<1>8. CASE NewServer(p)
  <2>1. /\ proc'[p].runner \in {"none", "check"} /\ proc'[p].vector = Compatible(proc[p].build)
        /\ proc'[p].build = proc[p].build
    BY <1>0, <1>8 DEF NewServer, DaemonTypeOK, Process
  <2>2. QED
    BY <2>1 DEF Trusts, Compatible
<1>9. CASE IndexModel(p)
  <2>1. \/ Exit(p)
        \/ /\ proc'[p].runner = "check" /\ proc'[p].vector = proc[p].vector
           /\ proc'[p].build = proc[p].build
    BY <1>0, <1>9 DEF IndexModel, DaemonTypeOK, Process
  <2>2. QED
    BY <1>1, <2>1 DEF Trusts
<1>10. CASE Indexers(p)
  <2>1. CASE CheckFingerprint(p)
    BY <1>1, <2>1, RunnerFields DEF CheckFingerprint, RunnerEnds, Trusts
  <2>2. CASE ReadFingerprint(p)
    BY <2>2, RunnerFields DEF ReadFingerprint, Trusts
  <2>3. CASE WriteFingerprint(p)
    <3>1. proc[p].build \in Builds
      BY <2>3, OffFields DEF WriteFingerprint, Launched
    <3>2. db'.fp = proc[p].build
      BY <2>3 DEF WriteFingerprint, DaemonTypeOK, Database
    <3>3. db'.fp # NoBuild
      BY <3>1, <3>2, DaemonAssumption
    <3>4. QED
      BY <2>3, <3>3, RunnerFields DEF WriteFingerprint, Trusts
  <2>4. CASE WriteBatch(p)
    BY <1>2, <2>4 DEF WriteBatch
  <2>5. CASE FinishRun(p)
    BY <1>1, <2>5, RunnerFields DEF FinishRun, RunnerEnds, Trusts
  <2>6. QED
    BY <1>10, <2>1, <2>2, <2>3, <2>4, <2>5 DEF Indexers
<1>11. QED
  BY <1>3, <1>4, <1>5, <1>6, <1>7, <1>8, <1>9, <1>10, StepKinds

\* What happens to the fingerprint and the vectors.
LEMMA FingerprintSteps ==
    ASSUME DaemonTypeOK, NEW p \in Processes, DaemonStep(p)
    PROVE  \/ db'.fp = db.fp /\ db'.vectors = db.vectors
           \/ /\ proc[p].runner = "write"
              /\ db'.fp = proc[p].build /\ db'.vectors = db.vectors
              /\ proc'[p].build = proc[p].build /\ proc'[p].at = proc[p].at
           \/ /\ proc[p].runner = "embed" /\ proc' = proc
              /\ db'.fp = db.fp /\ db'.vectors = db.vectors \cup {proc[p].build}
<1>1. CASE WriteFingerprint(p)
  BY <1>1, RunnerFields DEF WriteFingerprint, DaemonTypeOK, Database
<1>2. CASE WriteBatch(p)
  BY <1>2 DEF WriteBatch, DaemonTypeOK, Database
<1>3. CASE ApplyMigration(p)
  <2>1. UNCHANGED db \/ \E m : db' = [db EXCEPT !.version = m, !.made = @ \cup {m}]
    BY <1>3 DEF ApplyMigration
  <2>2. QED
    BY <2>1 DEF DaemonTypeOK, Database
<1>4. QED
  BY <1>1, <1>2, <1>3
  DEF DaemonStep, Launch, OpenStore, ReadSchemaVersion, ClearBackup, BeginVacuum, EndVacuum,
      RemoveSocket, Bind, SecureSocket, ResolveModel, NewServer, Shutdown, IndexModel,
      CheckFingerprint, ReadFingerprint, FinishRun, KillProcess

OneBuild ==
    \A p, q \in Processes :
        proc[p].at # "off" /\ proc[q].at # "off" => proc[p].build = proc[q].build

VectorsInvariant ==
    /\ \A p \in Processes : proc[p].runner = "embed" => db.fp # NoBuild
    /\ ~ mixed => /\ OneBuild
                  /\ db.vectors \subseteq {db.fp}
                  /\ \A p \in Processes : Trusts(proc[p]) => db.fp \in {NoBuild, proc[p].build}

LEMMA InitVectors == DaemonInit => VectorsInvariant
<1> SUFFICES ASSUME DaemonInit PROVE VectorsInvariant
  OBVIOUS
<1>1. db.vectors \subseteq {db.fp}
  BY StoresAssumption DEF DaemonInit
<1>2. \A p \in Processes : proc[p].at = "off" /\ proc[p].runner = "none" /\ ~ proc[p].vector
  BY OffFields DEF DaemonInit
<1>3. QED
  BY <1>1, <1>2 DEF VectorsInvariant, OneBuild, Trusts

\* mixed ends with a database that is blank, and then there is nothing to compare.
LEMMA WatchedBuilds ==
    ASSUME ObserveDaemons, ~ mixed'
    PROVE  (~ mixed \/ db' = Blank) /\ OneBuild'
  BY DEF ObserveDaemons, AliveNext, OneBuild

LEMMA BlankVectors ==
    ASSUME db' = Blank
    PROVE  db'.vectors = {} /\ db'.fp = NoBuild
  BY DEF Blank

LEMMA VectorsStep ==
    ASSUME DaemonInvariant, VectorsInvariant, ObserveDaemons,
           NEW p \in Processes, DaemonStep(p)
    PROVE  VectorsInvariant'
<1> USE DEF DaemonInvariant
<1>1. /\ \A q \in Processes \ {p} : proc'[q] = proc[q]
      /\ \A q \in Processes : Trusts(proc[q]) => proc[q].at # "off" /\ proc[q].build \in Builds
  BY EveryStepSteps, StepsTyped, OffFields DEF Launched, Trusts
<1>2. db.fp # NoBuild => db'.fp # NoBuild
  BY <1>1, FingerprintSteps, DaemonAssumption DEF Trusts
<1>3. \A q \in Processes : proc'[q].runner = "embed" => db'.fp # NoBuild
  BY <1>1, <1>2, TrustIsEarned DEF VectorsInvariant
<1>4. ASSUME ~ mixed', db' = Blank
      PROVE  VectorsInvariant'
  BY <1>3, <1>4, WatchedBuilds, BlankVectors DEF VectorsInvariant
<1>5. ASSUME ~ mixed', ~ mixed
      PROVE  VectorsInvariant'
  <2>1. /\ OneBuild /\ db.vectors \subseteq {db.fp}
        /\ \A q \in Processes : Trusts(proc[q]) => db.fp \in {NoBuild, proc[q].build}
        /\ \A q \in Processes : proc[q].runner = "embed" => db.fp # NoBuild
    BY <1>5 DEF VectorsInvariant
  <2>2. db.fp = NoBuild => db.vectors = {}
    BY <2>1, DaemonAssumption DEF DaemonTypeOK, Database
  <2>3. db'.vectors \subseteq {db'.fp}
    <3>1. CASE proc[p].runner = "write"
      BY <1>1, <2>1, <2>2, <3>1, FingerprintSteps DEF Trusts
    <3>2. CASE proc[p].runner = "embed"
      BY <1>1, <2>1, <3>2, FingerprintSteps DEF Trusts
    <3>3. QED
      BY <2>1, <3>1, <3>2, FingerprintSteps
  <2>4. ASSUME NEW q \in Processes, Trusts(proc'[q])
        PROVE  db'.fp \in {NoBuild, proc'[q].build}
    <3>1. db.fp \in {NoBuild, proc'[q].build} /\ proc'[q].build = proc[q].build
      BY <1>1, <2>1, <2>4, TrustIsEarned
    <3>2. CASE proc[p].runner = "write" /\ db'.fp = proc[p].build
               /\ proc'[p].build = proc[p].build /\ proc'[p].at = proc[p].at
      <4>1. proc[p].at # "off"
        BY <1>1, <3>2 DEF Trusts
      <4>2. q # p => proc[q].at # "off"
        BY <1>1, <2>4
      <4>3. QED
        BY <2>1, <3>1, <3>2, <4>1, <4>2 DEF OneBuild
    <3>3. QED
      BY <3>1, <3>2, FingerprintSteps
  <2>5. QED
    BY <1>3, <1>5, <2>3, <2>4, WatchedBuilds DEF VectorsInvariant
<1>6. QED
  BY <1>3, <1>4, <1>5, WatchedBuilds DEF VectorsInvariant

LEMMA VectorsHold == DaemonSpec => []VectorsInvariant
<1>1. VectorsInvariant /\ DaemonInvariant /\ [DaemonNext]_daemonVars => VectorsInvariant'
  <2> SUFFICES ASSUME VectorsInvariant, DaemonInvariant, [DaemonNext]_daemonVars
               PROVE  VectorsInvariant'
    OBVIOUS
  <2>1. ASSUME NEW p \in Processes, DaemonStep(p), ObserveDaemons
        PROVE  VectorsInvariant'
    BY <2>1, VectorsStep
  <2>2. CASE DeleteIndex /\ ObserveDaemons
    <3>1. \A q \in Processes : proc'[q].at = "off"
      BY <2>2 DEF DeleteIndex
    <3>2. \A q \in Processes : proc'[q].runner = "none" /\ ~ proc'[q].vector
      BY <2>2, <3>1, OffFields DEF DeleteIndex, DaemonInvariant, Launched
    <3>3. db'.vectors = {} /\ db'.fp = NoBuild
      BY <2>2, BlankVectors DEF DeleteIndex
    <3>4. QED
      BY <3>1, <3>2, <3>3 DEF VectorsInvariant, Trusts, OneBuild
  <2>3. CASE UNCHANGED daemonVars
    BY <2>3 DEF daemonVars, VectorsInvariant, OneBuild, Trusts
  <2>4. QED
    BY <2>1, <2>2, <2>3 DEF DaemonNext
<1>2. QED
  BY <1>1, InitVectors, InvariantHolds, PTL DEF DaemonSpec

\* For any number of builds and processes: as long as no two builds were at work at once,
\* every stored vector is of the scheme the fingerprint names and of that of every server
\* that compares with it (writer.go:52, compat.go:30).
THEOREM VectorsStayComparable == DaemonSpec => []VectorsAreComparable
<1>1. VectorsInvariant /\ DaemonInvariant => VectorsAreComparable
  <2> SUFFICES ASSUME VectorsInvariant, DaemonInvariant, ~ mixed
               PROVE  /\ db.vectors \subseteq {db.fp}
                      /\ \A p \in Processes : proc[p].at = "up" /\ proc[p].vector =>
                             db.vectors \subseteq {proc[p].build}
    BY DEF VectorsAreComparable
  <2>1. db.vectors \subseteq {db.fp}
    BY DEF VectorsInvariant
  <2>2. db.fp = NoBuild => db.vectors = {}
    BY <2>1, DaemonAssumption DEF DaemonInvariant, DaemonTypeOK, Database
  <2>3. \A p \in Processes : proc[p].vector => db.fp \in {NoBuild, proc[p].build}
    BY DEF VectorsInvariant, Trusts
  <2>4. QED
    BY <2>1, <2>2, <2>3
<1>2. QED
  BY <1>1, VectorsHold, InvariantHolds, PTL

-----------------------------------------------------------------------------
(* A process that met no other.                                            *)

EndpointIsKept(p) ==
    /\ proc[p].at = "bind" /\ platform = "unix" => endpoint = NoProcess
    /\ proc[p].at \in {"secure", "gate", "assemble", "up"} => endpoint = p

\* From the version it read to the backup of that version.
BackupIsUnderWay(p) ==
    /\ proc[p].at \in {"clear", "vacuum", "copying"} => db.version = proc[p].found
    /\ proc[p].at = "vacuum" => backup = NoBackup
    /\ proc[p].at = "copying" => backup.by = p /\ backup.version = proc[p].found
    /\ proc[p].at = "apply" /\ proc[p].found > 0 =>
           backup.whole /\ backup.version = proc[p].found

LoneInvariant ==
    \A p \in alone :
        /\ p \in Processes
        /\ proc[p].at # "off" /\ \A q \in Processes \ {p} : proc[q].at = "off"
        /\ EndpointIsKept(p) /\ BackupIsUnderWay(p)

\* An indexer at work leaves the place of its process, its endpoint and the backup alone.
LEMMA IndexersKeep ==
    ASSUME DaemonTypeOK, NEW p \in Processes, Indexers(p), proc'[p].at # "off"
    PROVE  /\ proc'[p].at = proc[p].at /\ proc'[p].found = proc[p].found
           /\ UNCHANGED <<platform, endpoint, backup>> /\ db'.version = db.version
<1>1. UNCHANGED <<platform, endpoint, backup>> /\ db'.version = db.version
  BY DEF Indexers, CheckFingerprint, ReadFingerprint, WriteFingerprint, WriteBatch, FinishRun,
         DaemonTypeOK, Database
<1>2. QED
  BY <1>1, IndexersMove, ExitIsOff, OffFields, RunnerFields

\* Where the steps that are not an indexer's take a process.
LEMMA WhereTo ==
    ASSUME DaemonTypeOK, NEW p \in Processes
    PROVE  /\ Launch(p) => proc'[p].at = "open"
           /\ OpenStore(p) => proc'[p].at \in {"off", "unlink", "version"}
           /\ ReadSchemaVersion(p) =>
                  /\ proc'[p].at \in {"model", "unlink", "clear", "apply"}
                  /\ proc'[p].at = "apply" => ~ (db.version > 0)
                  /\ proc'[p].found = db.version /\ UNCHANGED db
           /\ ApplyMigration(p) =>
                  /\ proc'[p].at \in {"off", "model", "unlink", "apply"}
                  /\ proc'[p].at # "off" => proc'[p].found = proc[p].found
           /\ Shutdown(p) \/ KillProcess(p) => proc'[p].at = "off"
           /\ ResolveModel(p) => proc'[p].at = "assemble"
           /\ NewServer(p) => proc'[p].at = "up"
           /\ IndexModel(p) => proc'[p].at \in {"off", "index"}
<1>0. proc[p] \in Process /\ proc \in [Processes -> Process]
  BY DEF DaemonTypeOK
<1>1. Launch(p) => proc'[p].at = "open"
  BY <1>0 DEF Launch, Off
<1>2. OpenStore(p) => proc'[p].at \in {"off", "unlink", "version"}
  BY ExitIsOff, OffFields, MoveFields DEF OpenStore
<1>3. ASSUME ReadSchemaVersion(p)
      PROVE  /\ proc'[p].at \in {"model", "unlink", "clear", "apply"}
             /\ proc'[p].at = "apply" => ~ (db.version > 0)
             /\ proc'[p].found = db.version /\ UNCHANGED db
  BY <1>0, <1>3 DEF ReadSchemaVersion, Migrated, Process
<1>4. ASSUME ApplyMigration(p)
      PROVE  /\ proc'[p].at \in {"off", "model", "unlink", "apply"}
             /\ proc'[p].at # "off" => proc'[p].found = proc[p].found
  <2>1. CASE Exit(p)
    BY <2>1, ExitIsOff, OffFields
  <2>2. CASE \E m : proc' = [proc EXCEPT ![p].todo = @ \ {m},
                                         ![p].at = IF proc[p].todo = {m}
                                                   THEN Migrated(proc[p].kind) ELSE "apply"]
    BY <1>0, <2>2 DEF Migrated, Process
  <2>3. QED
    BY <1>4, <2>1, <2>2 DEF ApplyMigration
<1>5. Shutdown(p) \/ KillProcess(p) => proc'[p].at = "off"
  BY ExitIsOff, OffFields DEF Shutdown, KillProcess
<1>6. ResolveModel(p) => proc'[p].at = "assemble"
  BY <1>0 DEF ResolveModel, Process
<1>7. NewServer(p) => proc'[p].at = "up"
  BY <1>0 DEF NewServer, Process
<1>8. IndexModel(p) => proc'[p].at \in {"off", "index"}
  <2>1. Exit(p) => proc'[p].at = "off"
    BY ExitIsOff, OffFields
  <2>2. proc' = [proc EXCEPT ![p].at = "index", ![p].runner = "check"]
            => proc'[p].at = "index"
    BY <1>0 DEF Process
  <2>3. QED
    BY <2>1, <2>2 DEF IndexModel
<1>9. QED
  BY <1>1, <1>2, <1>3, <1>4, <1>5, <1>6, <1>7, <1>8

LEMMA EndpointStep ==
    ASSUME DaemonTypeOK, NEW p \in Processes, EndpointIsKept(p), DaemonStep(p)
    PROVE  EndpointIsKept(p)'
<1> USE DEF EndpointIsKept
<1>1. CASE RemoveSocket(p)
  BY <1>1, MoveFields DEF RemoveSocket
<1>2. CASE Bind(p)
  <2>1. CASE Exit(p)
    BY <2>1, ExitIsOff, OffFields
  <2>2. CASE endpoint' = p /\ \E at \in {"secure", "gate"} : Move(p, at)
    BY <2>2, MoveFields
  <2>3. QED
    BY <1>2, <2>1, <2>2 DEF Bind
<1>3. CASE SecureSocket(p)
  <2>1. CASE Exit(p)
    BY <2>1, ExitIsOff, OffFields
  <2>2. CASE endpoint' = endpoint /\ Move(p, "gate")
    BY <1>3, <2>2, MoveFields DEF SecureSocket
  <2>3. QED
    BY <1>3, <2>1, <2>2 DEF SecureSocket
<1>4. CASE ClearBackup(p) \/ BeginVacuum(p) \/ EndVacuum(p)
  <2>1. proc'[p].at \in {"off", "vacuum", "copying", "apply"}
    BY <1>4, MoveFields, ExitIsOff, OffFields DEF ClearBackup, BeginVacuum, EndVacuum
  <2>2. QED
    BY <2>1
<1>5. CASE ResolveModel(p) \/ NewServer(p)
  <2>1. UNCHANGED endpoint /\ proc[p].at \in {"gate", "assemble"}
    BY <1>5 DEF ResolveModel, NewServer
  <2>2. proc'[p].at \in {"assemble", "up"}
    BY <1>5, WhereTo
  <2>3. QED
    BY <2>1, <2>2
<1>6. CASE Indexers(p)
  BY <1>6, IndexersKeep
<1>7. CASE Launch(p) \/ OpenStore(p) \/ ReadSchemaVersion(p) \/ ApplyMigration(p) \/ Shutdown(p)
           \/ KillProcess(p) \/ IndexModel(p)
  <2>1. proc'[p].at \in {"off", "open", "unlink", "version", "model", "clear", "apply", "index"}
    BY <1>7, WhereTo
  <2>2. QED
    BY <2>1
<1>8. QED
  BY <1>1, <1>2, <1>3, <1>4, <1>5, <1>6, <1>7, StepKinds DEF Movers

LEMMA BackupStep ==
    ASSUME DaemonTypeOK, NEW p \in Processes, BackupIsUnderWay(p), DaemonStep(p)
    PROVE  BackupIsUnderWay(p)'
<1> USE DEF BackupIsUnderWay
<1>0. backup \in Backup /\ db.version \in Versions
  BY DEF DaemonTypeOK, Database
<1>1. CASE ReadSchemaVersion(p)
  BY <1>1, WhereTo
<1>2. CASE ClearBackup(p)
  BY <1>2, MoveFields DEF ClearBackup
<1>3. CASE BeginVacuum(p)
  <2>1. CASE Exit(p)
    BY <2>1, ExitIsOff, OffFields
  <2>2. CASE Move(p, "copying") /\ backup' = [by |-> p, whole |-> FALSE, version |-> db.version]
    BY <1>3, <2>2, MoveFields DEF BeginVacuum
  <2>3. QED
    BY <1>3, <2>1, <2>2 DEF BeginVacuum
<1>4. CASE EndVacuum(p)
  <2>1. backup.by = p /\ backup.version = proc[p].found
    BY <1>4 DEF EndVacuum
  <2>2. backup'.whole /\ backup'.version = proc[p].found
    BY <1>0, <1>4, <2>1 DEF EndVacuum, Backup
  <2>3. proc'[p].at = "apply" /\ proc'[p].found = proc[p].found
    BY <1>4, MoveFields DEF EndVacuum
  <2>4. QED
    BY <2>2, <2>3
<1>5. CASE ApplyMigration(p)
  <2>1. UNCHANGED backup /\ proc[p].at = "apply"
    BY <1>5 DEF ApplyMigration
  <2>2. QED
    BY <1>5, <2>1, WhereTo
<1>6. CASE RemoveSocket(p) \/ Bind(p) \/ SecureSocket(p)
  <2>1. proc'[p].at \in {"off", "bind", "secure", "gate"}
    BY <1>6, MoveFields, ExitIsOff, OffFields DEF RemoveSocket, Bind, SecureSocket
  <2>2. QED
    BY <2>1
<1>7. CASE Indexers(p)
  BY <1>7, IndexersKeep
<1>8. CASE Launch(p) \/ OpenStore(p) \/ Shutdown(p) \/ KillProcess(p) \/ IndexModel(p)
           \/ ResolveModel(p) \/ NewServer(p)
  <2>1. proc'[p].at \in {"off", "open", "unlink", "version", "index", "assemble", "up"}
    BY <1>8, WhereTo
  <2>2. QED
    BY <2>1
<1>9. QED
  BY <1>1, <1>2, <1>3, <1>4, <1>5, <1>6, <1>7, <1>8, StepKinds DEF Movers

\* Who is alone after a step took it, and was alone before or is just launched.
LEMMA LoneStep ==
    ASSUME DaemonInvariant, LoneInvariant, ObserveDaemons, NEW p \in Processes, DaemonStep(p)
    PROVE  LoneInvariant'
<1> USE DEF DaemonInvariant
<1>1. ASSUME NEW q \in alone'
      PROVE  /\ q \in Processes /\ proc'[q].at # "off"
             /\ \A r \in Processes \ {q} : proc'[r].at = "off"
             /\ proc[q].at = "off" \/ q \in alone
  BY <1>1 DEF ObserveDaemons, AliveNext
<1>2. \A r \in Processes \ {p} : proc'[r] = proc[r]
  BY EveryStepSteps, StepsTyped
<1>3. alone' \subseteq {p}
  <2> SUFFICES ASSUME NEW q \in alone', q # p PROVE FALSE
    OBVIOUS
  <2>1. q \in alone
    BY <1>1, <1>2
  <2>2. proc[p].at = "off"
    BY <2>1 DEF LoneInvariant
  <2>3. Launch(p)
    BY <2>2, OffFields
    DEF Launched, DaemonStep, OpenStore, ReadSchemaVersion, ClearBackup, BeginVacuum, EndVacuum,
        ApplyMigration, RemoveSocket, Bind, SecureSocket, ResolveModel, NewServer, Shutdown,
        IndexModel, CheckFingerprint, ReadFingerprint, WriteFingerprint, WriteBatch, FinishRun,
        KillProcess
  <2>4. QED
    BY <1>1, <2>3, WhereTo
<1>4. ASSUME p \in alone', proc[p].at = "off"
      PROVE  EndpointIsKept(p) /\ BackupIsUnderWay(p)
  BY <1>4 DEF EndpointIsKept, BackupIsUnderWay
<1>5. p \in alone' => EndpointIsKept(p)' /\ BackupIsUnderWay(p)'
  BY <1>1, <1>4, EndpointStep, BackupStep DEF LoneInvariant
<1>6. QED
  BY <1>1, <1>3, <1>5 DEF LoneInvariant

LEMMA LoneHolds == DaemonSpec => []LoneInvariant
<1>1. DaemonInit => LoneInvariant
  BY DEF DaemonInit, LoneInvariant
<1>2. LoneInvariant /\ DaemonInvariant /\ [DaemonNext]_daemonVars => LoneInvariant'
  <2> SUFFICES ASSUME LoneInvariant, DaemonInvariant, [DaemonNext]_daemonVars
               PROVE  LoneInvariant'
    OBVIOUS
  <2>1. ASSUME NEW p \in Processes, DaemonStep(p), ObserveDaemons
        PROVE  LoneInvariant'
    BY <2>1, LoneStep
  <2>2. CASE DeleteIndex /\ ObserveDaemons
    BY <2>2 DEF DeleteIndex, ObserveDaemons, AliveNext, LoneInvariant
  <2>3. CASE UNCHANGED daemonVars
    BY <2>3 DEF daemonVars, LoneInvariant, EndpointIsKept, BackupIsUnderWay
  <2>4. QED
    BY <2>1, <2>2, <2>3 DEF DaemonNext
<1>3. QED
  BY <1>1, <1>2, InvariantHolds, PTL DEF DaemonSpec

\* However its predecessors ended, a daemon that met no other binds the endpoint and is
\* what the endpoint leads to as long as it serves (transport_unix.go:21).
THEOREM LoneDaemonsAreReached == DaemonSpec => []LoneDaemonIsReached
<1>1. LoneInvariant => LoneDaemonIsReached
  BY DEF LoneInvariant, EndpointIsKept, LoneDaemonIsReached
<1>2. QED
  BY <1>1, LoneHolds, PTL

\* However many migrations and crashes there were, a lone opener changes a database that
\* held data only under a whole backup of the version it found (migrate.go:43).
THEOREM LoneUpgradesAreBackedUp == DaemonSpec => UpgradesAreBackedUp
<1>1. LoneInvariant =>
          [\A p \in alone : proc[p].at = "apply" /\ proc[p].found > 0 /\ db' # db =>
               backup.whole /\ backup.version = proc[p].found]_daemonVars
  BY DEF LoneInvariant, BackupIsUnderWay
<1>2. QED
  BY <1>1, LoneHolds, PTL DEF UpgradesAreBackedUp

-----------------------------------------------------------------------------
(* IndexTools: numbers in order, and the highest of a set of them.         *)

\* The entries that come before e.
Before(S, e) == {d \in S : d < e}
Rank(S, e) == Cardinality(Before(S, e))

LEMMA RankType ==
    ASSUME NEW S \in SUBSET Nat, IsFiniteSet(S), NEW e \in Nat
    PROVE  /\ IsFiniteSet(Before(S, e))
           /\ Rank(S, e) \in Nat
           /\ Rank(S, e) <= Cardinality(S)
           /\ e \in S => Rank(S, e) < Cardinality(S)
<1>1. Before(S, e) \in SUBSET S
  BY DEF Before
<1>2. /\ IsFiniteSet(Before(S, e)) /\ Rank(S, e) <= Cardinality(S)
      /\ Cardinality(S) = Rank(S, e) => S = Before(S, e)
  BY <1>1, FS_Subset DEF Rank
<1>3. Rank(S, e) \in Nat /\ Cardinality(S) \in Nat
  BY <1>2, FS_CardinalityType DEF Rank
<1>4. e \notin Before(S, e)
  BY DEF Before
<1> QED
  BY <1>2, <1>3, <1>4

\* With more before an entry, it comes later.
LEMMA RankGrows ==
    ASSUME NEW S \in SUBSET Nat, IsFiniteSet(S), NEW T \in SUBSET Nat, IsFiniteSet(T),
           NEW e \in Nat, Before(S, e) \subseteq T
    PROVE  Rank(S, e) <= Rank(T, e)
<1>1. Before(S, e) \in SUBSET Before(T, e)
  BY DEF Before
<1>2. IsFiniteSet(Before(T, e))
  BY RankType
<1> QED
  BY <1>1, <1>2, FS_Subset DEF Rank

LEMMA RankRises ==
    ASSUME NEW S \in SUBSET Nat, IsFiniteSet(S), NEW d \in S, NEW e \in Nat, d < e
    PROVE  Rank(S, d) < Rank(S, e)
<1>1. Before(S, d) \in SUBSET Before(S, e) /\ d \in Before(S, e) /\ d \notin Before(S, d)
  <2>1. d \in Nat /\ \A x \in S : x \in Nat
    OBVIOUS
  <2>2. \A x \in Nat : x < d => x < e
    BY <2>1
  <2>3. ASSUME NEW x \in Before(S, d) PROVE x \in Before(S, e)
    <3>1. x \in S /\ x < d
      BY DEF Before
    <3>2. x < e
      BY <2>1, <2>2, <3>1
    <3> QED
      BY <3>1, <3>2 DEF Before
  <2>4. d \in Before(S, e) /\ d \notin Before(S, d)
    BY <2>1 DEF Before
  <2> QED
    BY <2>3, <2>4
<1>2. /\ IsFiniteSet(Before(S, e)) /\ Rank(S, e) \in Nat
      /\ Rank(S, d) \in Nat
  BY RankType
<1>3. /\ Rank(S, d) <= Rank(S, e)
      /\ Rank(S, e) = Rank(S, d) => Before(S, e) = Before(S, d)
  BY <1>1, <1>2, FS_Subset DEF Rank
<1> QED
  BY <1>1, <1>2, <1>3

LEMMA RankInjective ==
    ASSUME NEW S \in SUBSET Nat, IsFiniteSet(S), NEW d \in S, NEW e \in S,
           Rank(S, d) = Rank(S, e)
    PROVE  d = e
<1>1. Rank(S, d) \in Nat /\ Rank(S, e) \in Nat
  BY RankType
<1>2. ~(d < e) /\ ~(e < d)
  BY <1>1, RankRises
<1> QED
  BY <1>2

\* Each position is some entry's.
LEMMA RankReaches ==
    ASSUME NEW S \in SUBSET Nat, IsFiniteSet(S), NEW i \in 1 .. Cardinality(S)
    PROVE  \E e \in S : Rank(S, e) = i - 1
<1> DEFINE n == Cardinality(S)
           rank == [e \in S |-> Rank(S, e)]
<1>1. n \in Nat
  BY FS_CardinalityType
<1>2. rank \in [S -> 0 .. n - 1]
  <2>1. ASSUME NEW e \in S PROVE Rank(S, e) \in 0 .. n - 1
    BY <1>1, RankType
  <2> QED
    BY <2>1
<1>3. rank \in Injection(S, 0 .. n - 1)
  <2>1. \A d, e \in S : rank[d] = rank[e] => d = e
    BY RankInjective
  <2> HIDE DEF rank, n
  <2> QED
    BY <1>2, <2>1 DEF Injection, IsInjective
<1>4. IsFiniteSet(0 .. n - 1) /\ Cardinality(0 .. n - 1) = n
  <2>1. 0 \in Int /\ n - 1 \in Int
    BY <1>1
  <2>2. /\ IsFiniteSet(0 .. n - 1)
        /\ Cardinality(0 .. n - 1) = IF 0 > n - 1 THEN 0 ELSE (n - 1) - 0 + 1
    <3> HIDE DEF n
    <3> QED BY <2>1, FS_Interval
  <2> HIDE DEF n
  <2> QED BY <1>1, <2>2
<1>5. rank \in Surjection(S, 0 .. n - 1)
  <2> HIDE DEF rank
  <2>1. Cardinality(S) = Cardinality(0 .. n - 1)
    BY <1>4
  <2> QED
    BY <1>3, <1>4, <2>1, FS_Injection
<1>6. \A t \in 0 .. n - 1 : \E e \in S : rank[e] = t
  <2> HIDE DEF rank, n
  <2> QED
    BY <1>5 DEF Surjection
<1>7. i - 1 \in 0 .. n - 1
  BY <1>1
<1> QED
  BY <1>6, <1>7

\* The list of a set in order: every entry where its rank puts it, and nowhere else.
LEMMA InOrderIs ==
    ASSUME NEW S \in SUBSET Nat, IsFiniteSet(S)
    PROVE  /\ Cardinality(S) \in Nat
           /\ InOrder(S) \in [1 .. Cardinality(S) -> S]
           /\ \A i \in 1 .. Cardinality(S) : Rank(S, InOrder(S)[i]) = i - 1
<1>1. Cardinality(S) \in Nat
  BY FS_CardinalityType
<1> DEFINE Item(i) == CHOOSE e \in S : Cardinality({d \in S : d < e}) = i - 1
<1>2. ASSUME NEW i \in 1 .. Cardinality(S)
      PROVE  Item(i) \in S /\ Rank(S, Item(i)) = i - 1
  <2>1. \E e \in S : Rank(S, e) = i - 1
    BY RankReaches
  <2>2. Item(i) = CHOOSE e \in S : Rank(S, e) = i - 1
    BY DEF Rank, Before
  <2> HIDE DEF Item
  <2> QED
    BY <2>1, <2>2
<1>3. InOrder(S) = [i \in 1 .. Cardinality(S) |-> Item(i)]
  BY DEF InOrder
<1> HIDE DEF Item
<1> QED
  BY <1>1, <1>2, <1>3

LEMMA InOrderFinds ==
    ASSUME NEW S \in SUBSET Nat, IsFiniteSet(S), NEW e \in S
    PROVE  /\ Rank(S, e) + 1 \in 1 .. Cardinality(S)
           /\ InOrder(S)[Rank(S, e) + 1] = e
<1>1. Rank(S, e) \in Nat /\ Rank(S, e) < Cardinality(S) /\ Cardinality(S) \in Nat
  BY RankType, InOrderIs
<1>2. Rank(S, e) + 1 \in 1 .. Cardinality(S)
  BY <1>1
<1> DEFINE d == InOrder(S)[Rank(S, e) + 1]
<1>3. d \in S /\ Rank(S, d) = (Rank(S, e) + 1) - 1
  <2>1. ASSUME NEW i \in 1 .. Cardinality(S)
        PROVE  InOrder(S)[i] \in S /\ Rank(S, InOrder(S)[i]) = i - 1
    BY InOrderIs
  <2> HIDE DEF d
  <2> DEFINE i == Rank(S, e) + 1
  <2>2. d = InOrder(S)[i]
    BY DEF d
  <2>3. i \in 1 .. Cardinality(S)
    BY <1>2
  <2> HIDE DEF i
  <2>4. d \in S /\ Rank(S, d) = i - 1
    BY <2>1, <2>2, <2>3
  <2> QED
    BY <2>4 DEF i
<1>4. Rank(S, d) = Rank(S, e)
  BY <1>1, <1>3
<1> HIDE DEF d
<1>5. d = e
  BY <1>3, <1>4, RankInjective
<1> QED
  BY <1>2, <1>5 DEF d

\* A bounded set of numbers has a highest.
LEMMA HighestNumber ==
    ASSUME NEW m \in Nat, NEW S \in SUBSET (0 .. m), S # {}
    PROVE  Max(S) \in S /\ \A y \in S : y <= Max(S)
<1> DEFINE below == {k \in 0 .. m : \A y \in S : y <= k}
           less == OpToRel(<, Nat)
<1>1. m \in below
  OBVIOUS
<1>2. \E k \in below : \A j \in below : ~(<<j, k>> \in less)
  <2>1. IsWellFoundedOn(less, Nat)
    BY NatLessThanWellFounded
  <2>2. below \subseteq Nat /\ below # {}
    BY <1>1
  <2> HIDE DEF less, below
  <2> QED
    BY <2>1, <2>2, WFMin
<1>3. PICK k \in below : \A j \in below : ~(<<j, k>> \in less)
  BY <1>2
<1>4. \A j \in below : ~(j < k)
  <2>1. ASSUME NEW j \in below, j < k PROVE <<j, k>> \in less
    BY <2>1 DEF OpToRel
  <2> QED
    BY <1>3, <2>1
<1>5. k \in S
  <2>1. SUFFICES ASSUME k \notin S PROVE FALSE
    OBVIOUS
  <2>2. PICK y \in S : TRUE
    OBVIOUS
  <2>3. \A x \in S : x <= k - 1
    <3>1. ASSUME NEW x \in S PROVE x <= k - 1
      <4>1. x \in Nat /\ k \in Nat /\ x <= k /\ x # k
        BY <2>1
      <4> QED
        BY <4>1
    <3> QED
      BY <3>1
  <2>4. k - 1 \in 0 .. m
    <3>1. y \in 0 .. m /\ k \in 0 .. m /\ y <= k - 1
      BY <2>3
    <3> QED
      BY <3>1
  <2>5. k - 1 \in below
    BY <2>3, <2>4
  <2>6. k - 1 < k
    BY <2>4
  <2> QED
    BY <1>4, <2>5, <2>6
<1>6. \A y \in S : k >= y
  OBVIOUS
<1>7. Max(S) \in S /\ \A y \in S : Max(S) >= y
  BY <1>5, <1>6 DEF Max
<1>8. S \subseteq Nat
  OBVIOUS
<1> QED
  BY <1>7, <1>8

-----------------------------------------------------------------------------
(* The rows of the index and the three kinds of sessions.                  *)

FileRow == [row : {"none", "live", "deleted"},
            status : [Passes -> {"none", "done", "skipped", "failed"}]]
NodeRow == [file : Entries \cup {0}, made : Nat, n : Nat]
Paging == [kind : {"browse"}, at : {"dirs", "files", "done"}, offset : Nat,
           dirs : SUBSET Entries, listed : Seq(Entries), steady : SUBSET Entries,
           vanished : SUBSET Entries, appeared : SUBSET Entries]
Inspection == [kind : {"inspect"}, at : {"node", "chunks", "done"}, id : 1 .. MaxNodeId,
               hit : NodeRow, node : NodeRow, text : NodeRow, touched : SUBSET Entries]
Counting == [kind : {"status"},
             at : {"indexed", "done rows", "failed rows", "skipped rows", "done"},
             total : Nat, indexed : Nat, done : [Passes -> Nat], failed : [Passes -> Nat],
             skipped : [Passes -> Nat], deleted : Nat, quiet : BOOLEAN]

RowsTypeOK ==
    /\ file \in [Entries -> FileRow]
    /\ nodes \in [1 .. MaxNodeId -> NodeRow]
    /\ writes \in Nat

ToolsTypeOK ==
    /\ RowsTypeOK
    /\ session \in {NoSession} \cup Paging \cup Inspection \cup Counting

\* A file whose embeddings are done is done in every pass, and one that the
\* walker never met has no statuses.
StatusesAgree ==
    \A f \in Entries :
        /\ file[f].status["embeddings"] = "done" => \A p \in Passes : file[f].status[p] = "done"
        /\ file[f].row = "none" => \A p \in Passes : file[f].status[p] = "none"

\* While the file of the hit is not indexed anew, its row is where it was found.
HitStays ==
    session.kind = "inspect" /\ session.hit.file \notin session.touched =>
        /\ session.at # "done" => nodes[session.id] = session.hit /\ session.hit # NoNode
        /\ session.at # "node" => session.node = session.hit
        /\ session.at = "done" => session.text = session.hit

Deleted == {f \in Entries : file[f].row = "deleted"}

\* While nothing was written, the numbers noted are those of the index.
NumbersStay ==
    session.kind = "status" /\ session.quiet /\ session.at # "done" =>
        /\ session.total = Cardinality(Live)
        /\ session.deleted = Cardinality(Deleted)
        /\ session.at # "indexed" => session.indexed = IndexedFiles
        /\ session.at \in {"failed rows", "skipped rows"} => session.done = CountOf("done")
        /\ session.at = "skipped rows" => session.failed = CountOf("failed")

\* What the next listing holds, were it made now.
Upcoming == IF session.at = "files" THEN session.dirs \cup (Live \ Subdirs) ELSE Live

Occurs(seq, e) == \E i \in 1 .. Len(seq) : seq[i] = e
OccursOnce(seq, e) == \A i, j \in 1 .. Len(seq) : seq[i] = e /\ seq[j] = e => i = j

Listed(e) == Occurs(session.listed, e)
ListedOnce(e) == OccursOnce(session.listed, e)

\* Where the folders listed first and the files differ from what is there now.
DirsAreKnown ==
    /\ session.steady \subseteq Live
    /\ session.at = "files" =>
          /\ session.dirs \subseteq Subdirs
          /\ session.steady \cap Subdirs \subseteq session.dirs
          /\ session.dirs \subseteq Live \cup session.vanished
          /\ Live \cap Subdirs \subseteq session.dirs \cup session.appeared

\* The offset has not passed an entry that was there all along, unless one
\* before it went; it has passed one that was listed, unless one before it came.
OffsetIsBetween(e) ==
    /\ e \in session.steady /\ ~Listed(e) /\ (\A d \in session.vanished : ~(d < e)) =>
          session.offset <= Rank(Upcoming, e)
    /\ Listed(e) /\ (\A d \in session.appeared : ~(d < e)) =>
          /\ Rank(Upcoming, e) + 1 <= session.offset
          /\ ListedOnce(e)

\* What the pages of a client that is through come to.
PagesComplete(e) ==
    /\ e \in session.steady /\ ~Listed(e) => \E d \in session.vanished : d < e
    /\ ListedOnce(e) \/ \E d \in session.appeared : d < e

PagesFollow ==
    session.kind = "browse" =>
        /\ session.at # "done" => DirsAreKnown /\ \A e \in Entries : OffsetIsBetween(e)
        /\ session.at = "done" => \A e \in Entries : PagesComplete(e)

ToolsInvariant ==
    ToolsTypeOK /\ StatusesAgree /\ HitStays /\ NumbersStay /\ StatusAddsUp /\ PagesFollow

-----------------------------------------------------------------------------
(* What the indexer's transactions do to the rows.                         *)

\* T are the files whose nodes went.
Touching(T) ==
    /\ RowsTypeOK' /\ StatusesAgree'
    /\ \A i \in 1 .. MaxNodeId :
           nodes[i] # NoNode /\ nodes[i].file \notin T => nodes'[i] = nodes[i]
    /\ Observe(T)

LEMMA WriteType == ASSUME RowsTypeOK, Write PROVE writes' \in Nat
BY DEF RowsTypeOK, Write

LEMMA WithoutNodesOfIs ==
    ASSUME RowsTypeOK, NEW f \in Entries
    PROVE  /\ WithoutNodesOf(f) \in [1 .. MaxNodeId -> NodeRow]
           /\ \A i \in 1 .. MaxNodeId :
                 nodes[i].file # f => WithoutNodesOf(f)[i] = nodes[i]
<1>1. NoNode \in NodeRow
  BY DEF NoNode, NodeRow
<1> QED
  BY <1>1 DEF RowsTypeOK, WithoutNodesOf

LEMMA WalkUpsertTouches ==
    ASSUME RowsTypeOK, StatusesAgree, NEW f \in Entries, WalkUpsert(f)
    PROVE  \E T \in SUBSET Entries : Touching(T)
<1>1. writes' \in Nat /\ file \in [Entries -> FileRow] /\ nodes \in [1 .. MaxNodeId -> NodeRow]
  BY WriteType DEF WalkUpsert, RowsTypeOK
<1>2. CASE /\ file[f].row # "live" /\ file' = [file EXCEPT ![f].row = "live"]
           /\ UNCHANGED nodes /\ Observe({})
  <2>1. file' \in [Entries -> FileRow]
    BY <1>1, <1>2 DEF FileRow
  <2>2. /\ file'[f].row = "live" /\ file'[f].status = file[f].status
        /\ \A g \in Entries : g # f => file'[g] = file[g]
    BY <1>1, <1>2 DEF FileRow
  <2>3. StatusesAgree'
    BY <2>2 DEF StatusesAgree
  <2> QED
    BY <1>1, <1>2, <2>1, <2>3 DEF Touching, RowsTypeOK
<1>3. CASE /\ file[f].row # "none"
           /\ file' = [file EXCEPT ![f] = [row |-> "live", status |-> NoStatus]]
           /\ nodes' = WithoutNodesOf(f)
           /\ Observe({f})
  <2>1. [row |-> "live", status |-> NoStatus] \in FileRow
    BY DEF FileRow, NoStatus
  <2>2. file' \in [Entries -> FileRow]
    BY <1>1, <1>3, <2>1
  <2>3. /\ file'[f].row = "live" /\ \A p \in Passes : file'[f].status[p] = "none"
        /\ \A g \in Entries : g # f => file'[g] = file[g]
    BY <1>1, <1>3 DEF NoStatus
  <2>4. StatusesAgree'
    BY <2>3, ToolsAssumption DEF StatusesAgree
  <2> QED
    BY <1>1, <1>3, <2>2, <2>4, WithoutNodesOfIs DEF Touching, RowsTypeOK
<1> QED
  BY <1>2, <1>3 DEF WalkUpsert

\* Every pass of a live file gets one status.
LEMMA StatusOfAllIs ==
    ASSUME RowsTypeOK, StatusesAgree, NEW f \in Live, NEW status \in {"done", "skipped"},
           StatusOfAll(f, status)
    PROVE  file' \in [Entries -> FileRow] /\ StatusesAgree'
<1>1. file \in [Entries -> FileRow] /\ f \in Entries /\ file[f].row = "live"
  BY DEF RowsTypeOK, Live
<1>2. [p \in Passes |-> status] \in [Passes -> {"none", "done", "skipped", "failed"}]
  OBVIOUS
<1>3. file' = [file EXCEPT ![f].status = [p \in Passes |-> status]]
  BY DEF StatusOfAll
<1>4. file' \in [Entries -> FileRow]
  BY <1>1, <1>2, <1>3 DEF FileRow
<1>5. /\ file'[f].row = "live" /\ \A p \in Passes : file'[f].status[p] = status
      /\ \A g \in Entries : g # f => file'[g] = file[g]
  BY <1>1, <1>3 DEF FileRow
<1>6. StatusesAgree'
  BY <1>5, ToolsAssumption DEF StatusesAgree
<1> QED
  BY <1>4, <1>6

LEMMA SkipFileTouches ==
    ASSUME RowsTypeOK, StatusesAgree, NEW f \in Entries, SkipFile(f)
    PROVE  \E T \in SUBSET Entries : Touching(T)
<1>1. f \in Live /\ StatusOfAll(f, "skipped") /\ nodes' = WithoutNodesOf(f) /\ Observe({f})
      /\ writes' \in Nat
  BY WriteType DEF SkipFile, Pending
<1>2. file' \in [Entries -> FileRow] /\ StatusesAgree'
  BY <1>1, StatusOfAllIs
<1> QED
  BY <1>1, <1>2, WithoutNodesOfIs DEF Touching, RowsTypeOK

\* What is kept is below the new ids.
LEMMA IndexFileTouches ==
    ASSUME RowsTypeOK, StatusesAgree, NEW f \in Entries, IndexFile(f)
    PROVE  \E T \in SUBSET Entries : Touching(T)
<1> DEFINE kept == WithoutNodesOf(f)
           base == NextId(kept) - 1
           Stored(k) == [i \in DOMAIN nodes |->
                           IF i \in base + 1 .. base + k
                           THEN [file |-> f, made |-> writes, n |-> i - base] ELSE kept[i]]
<1>1. f \in Live /\ StatusOfAll(f, "done") /\ Observe({f}) /\ writes' \in Nat
  BY WriteType DEF IndexFile, Pending
<1>2. PICK k \in 1 .. 2 : base + k <= MaxNodeId /\ nodes' = Stored(k)
  BY DEF IndexFile
<1>3. file' \in [Entries -> FileRow] /\ StatusesAgree'
  BY <1>1, StatusOfAllIs
<1>4. /\ kept \in [1 .. MaxNodeId -> NodeRow] /\ DOMAIN nodes = 1 .. MaxNodeId
      /\ \A i \in 1 .. MaxNodeId : nodes[i].file # f => kept[i] = nodes[i]
  BY WithoutNodesOfIs DEF RowsTypeOK
<1> HIDE DEF kept
<1>5. base \in Nat /\ \A i \in Ids(kept) : i <= base
  <2> DEFINE S == {0} \cup Ids(kept)
  <2>1. MaxNodeId \in Nat
    BY ToolsAssumption
  <2>2. S \in SUBSET (0 .. MaxNodeId) /\ S # {}
    BY <1>4, <2>1 DEF Ids
  <2>3. Max(S) \in S /\ \A y \in S : y <= Max(S)
    <3> HIDE DEF S
    <3> QED BY <2>1, <2>2, HighestNumber
  <2>4. NextId(kept) = Max(S) + 1
    BY DEF NextId
  <2> HIDE DEF S
  <2>5. Max(S) \in Nat
    <3>1. Max(S) \in 0 .. MaxNodeId
      BY <2>2, <2>3, Zenon
    <3> HIDE DEF base
    <3> QED BY <2>1, <3>1
  <2>6. base = Max(S)
    BY <2>4, <2>5
  <2> QED
    BY <2>3, <2>5, <2>6 DEF S
<1> HIDE DEF base
<1>6. nodes' \in [1 .. MaxNodeId -> NodeRow]
  <2>1. writes \in Nat
    BY DEF RowsTypeOK
  <2>2. ASSUME NEW i \in 1 .. MaxNodeId, i \in base + 1 .. base + k
        PROVE  [file |-> f, made |-> writes, n |-> i - base] \in NodeRow
    <3>1. i - base \in Nat
      BY <1>5, <2>2
    <3> QED
      BY <2>1, <3>1 DEF NodeRow
  <2> QED
    BY <1>2, <1>4, <2>2
<1>7. ASSUME NEW i \in 1 .. MaxNodeId, nodes[i] # NoNode, nodes[i].file # f
      PROVE  nodes'[i] = nodes[i]
  <2>1. kept[i] = nodes[i] /\ i \in Ids(kept)
    BY <1>4, <1>7 DEF Ids
  <2>2. i \notin base + 1 .. base + k
    BY <1>5, <2>1
  <2> QED
    BY <1>2, <1>4, <2>1, <2>2
<1> QED
  BY <1>1, <1>3, <1>6, <1>7 DEF Touching, RowsTypeOK

LEMMA FailFileTouches ==
    ASSUME RowsTypeOK, StatusesAgree, NEW f \in Entries, FailFile(f)
    PROVE  \E T \in SUBSET Entries : Touching(T)
<1>1. f \in Live /\ file[f].status["embeddings"] # "done" /\ UNCHANGED nodes /\ Observe({})
      /\ writes' \in Nat
  BY WriteType DEF FailFile, Pending
<1>2. PICK p \in Passes : file' = [file EXCEPT ![f].status[p] = "failed"]
  BY DEF FailFile
<1>3. file \in [Entries -> FileRow] /\ file[f].row = "live"
  BY <1>1 DEF RowsTypeOK, Live
<1>4. file' \in [Entries -> FileRow]
  BY <1>2, <1>3 DEF FileRow
<1>5. /\ file'[f].row = "live" /\ file'[f].status["embeddings"] # "done"
      /\ \A g \in Entries : g # f => file'[g] = file[g]
  <2>1. file[f].status \in [Passes -> {"none", "done", "skipped", "failed"}]
    BY <1>3 DEF FileRow
  <2>2. file'[f] = [file[f] EXCEPT !.status = [file[f].status EXCEPT ![p] = "failed"]]
    BY <1>2, <1>3
  <2>3. file[f] \in FileRow
    BY <1>3
  <2>4. file'[f].status = [file[f].status EXCEPT ![p] = "failed"] /\ file'[f].row = "live"
    BY <1>3, <2>2, <2>3 DEF FileRow
  <2>5. file'[f].status["embeddings"] # "done"
    BY <1>1, <2>1, <2>4, ToolsAssumption
  <2> QED
    BY <1>2, <1>3, <2>4, <2>5
<1>6. StatusesAgree'
  BY <1>5 DEF StatusesAgree
<1> QED
  BY <1>1, <1>4, <1>6 DEF Touching, RowsTypeOK

LEMMA MarkDeletedTouches ==
    ASSUME RowsTypeOK, StatusesAgree, MarkDeleted
    PROVE  \E T \in SUBSET Entries : Touching(T)
<1>1. UNCHANGED nodes /\ Observe({}) /\ writes' \in Nat /\ file \in [Entries -> FileRow]
  BY WriteType DEF MarkDeleted, RowsTypeOK
<1>2. PICK S \in SUBSET Live :
        file' = [f \in Entries |-> IF f \in S THEN [file[f] EXCEPT !.row = "deleted"]
                                   ELSE file[f]]
  BY DEF MarkDeleted
<1>3. ASSUME NEW f \in Entries
      PROVE  /\ file'[f] \in FileRow
             /\ file'[f].status = file[f].status
             /\ file'[f].row = IF f \in S THEN "deleted" ELSE file[f].row
  <2>1. file[f] \in FileRow
    BY <1>1
  <2>2. file'[f] = IF f \in S THEN [file[f] EXCEPT !.row = "deleted"] ELSE file[f]
    BY <1>2
  <2> QED
    BY <2>1, <2>2 DEF FileRow
<1>4. file' \in [Entries -> FileRow]
  BY <1>2, <1>3
<1>5. StatusesAgree'
  BY <1>3 DEF StatusesAgree
<1> QED
  BY <1>1, <1>4, <1>5 DEF Touching, RowsTypeOK

-----------------------------------------------------------------------------
(* What a session notes of a transaction.                                  *)

LEMMA EntriesAreFinite ==
    ASSUME NEW S \in SUBSET Entries
    PROVE  S \in SUBSET Nat /\ IsFiniteSet(S)
BY ToolsAssumption, FS_Subset

LEMMA ObservedDone ==
    ASSUME ToolsInvariant, NEW T \in SUBSET Entries, Touching(T), session.at = "done"
    PROVE  ToolsInvariant'
<1>1. session' = session /\ RowsTypeOK' /\ StatusesAgree'
  BY DEF Touching, Observe
<1>2. ToolsTypeOK' /\ NumbersStay' /\ StatusAddsUp'
  BY <1>1 DEF ToolsInvariant, ToolsTypeOK, NumbersStay, StatusAddsUp, NoSession
<1>3. HitStays'
  BY <1>1 DEF ToolsInvariant, HitStays
<1>4. PagesFollow'
  BY <1>1 DEF ToolsInvariant, PagesFollow, PagesComplete, Listed, ListedOnce
<1> QED
  BY <1>1, <1>2, <1>3, <1>4 DEF ToolsInvariant

LEMMA ObservedStatus ==
    ASSUME ToolsInvariant, NEW T \in SUBSET Entries, Touching(T), session.at # "done",
           session \in Counting
    PROVE  ToolsInvariant'
<1>1. session' = [session EXCEPT !.quiet = FALSE] /\ RowsTypeOK' /\ StatusesAgree'
  BY DEF Touching, Observe, Counting
<1>2. session' \in Counting /\ ~session'.quiet /\ session'.kind = "status"
  BY <1>1 DEF Counting
<1> QED
  BY <1>1, <1>2
  DEF ToolsInvariant, ToolsTypeOK, NumbersStay, StatusAddsUp, HitStays, PagesFollow

LEMMA ObservedInspection ==
    ASSUME ToolsInvariant, NEW T \in SUBSET Entries, Touching(T), session.at # "done",
           session \in Inspection
    PROVE  ToolsInvariant'
<1>1. /\ session' = [session EXCEPT !.touched = @ \cup T] /\ RowsTypeOK' /\ StatusesAgree'
      /\ \A i \in 1 .. MaxNodeId :
             nodes[i] # NoNode /\ nodes[i].file \notin T => nodes'[i] = nodes[i]
  BY DEF Touching, Observe, Inspection
<1>2. /\ session' \in Inspection /\ session'.touched = session.touched \cup T
      /\ session'.kind = "inspect" /\ session'.at = session.at /\ session'.id = session.id
      /\ session'.hit = session.hit /\ session'.node = session.node
      /\ session'.text = session.text
  BY <1>1 DEF Inspection
<1>3. HitStays'
  <2> SUFFICES ASSUME session.hit.file \notin session.touched \cup T
               PROVE  /\ nodes'[session.id] = session.hit /\ session.hit # NoNode
                      /\ session.at # "node" => session.node = session.hit
    BY <1>2 DEF HitStays
  <2>1. session.kind = "inspect" /\ session.id \in 1 .. MaxNodeId
    BY DEF Inspection
  <2>2. /\ nodes[session.id] = session.hit /\ session.hit # NoNode
        /\ session.at # "node" => session.node = session.hit
    BY <2>1 DEF ToolsInvariant, HitStays
  <2> QED
    BY <1>1, <2>1, <2>2
<1> QED
  BY <1>1, <1>2, <1>3 DEF ToolsInvariant, ToolsTypeOK, NumbersStay, StatusAddsUp, PagesFollow

LEMMA ObservedPaging ==
    ASSUME ToolsInvariant, NEW T \in SUBSET Entries, Touching(T), session.at # "done",
           session \in Paging
    PROVE  ToolsInvariant'
<1>1. /\ session' = [session EXCEPT !.steady = @ \cap Live',
                                    !.vanished = @ \cup (Live \ Live'),
                                    !.appeared = @ \cup (Live' \ Live)]
      /\ RowsTypeOK' /\ StatusesAgree'
  BY DEF Touching, Observe, Paging, Live
<1>2. Live \in SUBSET Entries /\ Live' \in SUBSET Entries
  BY DEF Live
<1>3. /\ session'.kind = "browse" /\ session'.at = session.at
      /\ session'.offset = session.offset /\ session'.dirs = session.dirs
      /\ session'.listed = session.listed
      /\ session'.steady = session.steady \cap Live'
      /\ session'.vanished = session.vanished \cup (Live \ Live')
      /\ session'.appeared = session.appeared \cup (Live' \ Live)
  BY <1>1 DEF Paging
<1>4. session' \in Paging
  BY <1>1, <1>2 DEF Paging
<1>5. DirsAreKnown /\ (\A e \in Entries : OffsetIsBetween(e)) /\ session.at \in {"dirs", "files"}
  BY DEF ToolsInvariant, PagesFollow, Paging
<1>6. DirsAreKnown'
  BY <1>3, <1>5 DEF DirsAreKnown
<1>7. Upcoming \in SUBSET Entries /\ Upcoming' \in SUBSET Entries
  <2>1. session.dirs \in SUBSET Entries /\ session'.dirs \in SUBSET Entries
    BY <1>4 DEF Paging
  <2> QED
    BY <1>2, <2>1 DEF Upcoming
<1>8. ASSUME NEW e \in Entries PROVE OffsetIsBetween(e)'
  <2>1. Listed(e)' = Listed(e) /\ ListedOnce(e)' = ListedOnce(e)
    BY <1>3 DEF Listed, ListedOnce
  <2>2. /\ e \in Nat /\ session.offset \in Nat
        /\ Upcoming \in SUBSET Nat /\ IsFiniteSet(Upcoming)
        /\ Upcoming' \in SUBSET Nat /\ IsFiniteSet(Upcoming')
        /\ Rank(Upcoming, e) \in Nat /\ Rank(Upcoming', e) \in Nat
    <3>1. e \in Nat /\ session.offset \in Nat
      BY ToolsAssumption DEF Paging
    <3>2. /\ Upcoming \in SUBSET Nat /\ IsFiniteSet(Upcoming)
          /\ Upcoming' \in SUBSET Nat /\ IsFiniteSet(Upcoming')
      BY <1>7, EntriesAreFinite
    <3> QED
      BY <3>1, <3>2, RankType
  <2>3. ASSUME e \in session'.steady, ~Listed(e), \A d \in session'.vanished : ~(d < e)
        PROVE  session.offset <= Rank(Upcoming', e)
    <3>1. session.offset <= Rank(Upcoming, e)
      BY <1>3, <1>5, <2>3 DEF OffsetIsBetween
    <3>2. Before(Upcoming, e) \subseteq Upcoming'
      BY <1>3, <2>3 DEF Before, Upcoming
    <3>3. Rank(Upcoming, e) <= Rank(Upcoming', e)
      BY <2>2, <3>2, RankGrows
    <3> QED
      BY <2>2, <3>1, <3>3
  <2>4. ASSUME Listed(e), \A d \in session'.appeared : ~(d < e)
        PROVE  Rank(Upcoming', e) + 1 <= session.offset /\ ListedOnce(e)
    <3>1. Rank(Upcoming, e) + 1 <= session.offset /\ ListedOnce(e)
      BY <1>3, <1>5, <2>4 DEF OffsetIsBetween
    <3>2. Before(Upcoming', e) \subseteq Upcoming
      BY <1>3, <2>4 DEF Before, Upcoming
    <3>3. Rank(Upcoming', e) <= Rank(Upcoming, e)
      BY <2>2, <3>2, RankGrows
    <3> QED
      BY <2>2, <3>1, <3>3
  <2> QED
    BY <1>3, <2>1, <2>3, <2>4 DEF OffsetIsBetween, Rank
<1>9. PagesFollow'
  BY <1>3, <1>5, <1>6, <1>8 DEF PagesFollow
<1> QED
  BY <1>1, <1>3, <1>4, <1>9 DEF ToolsInvariant, ToolsTypeOK, NumbersStay, StatusAddsUp, HitStays

LEMMA WriteStep ==
    ASSUME ToolsInvariant, NEW T \in SUBSET Entries, Touching(T)
    PROVE  ToolsInvariant'
<1>1. session.at = "done" \/ session \in Paging \cup Inspection \cup Counting
  BY DEF ToolsInvariant, ToolsTypeOK, NoSession
<1> QED
  BY <1>1, ObservedDone, ObservedStatus, ObservedInspection, ObservedPaging

-----------------------------------------------------------------------------
(* The client's steps.                                                     *)

\* A session of another kind has nothing to do with a property of this one.
LEMMA NewSession ==
    ASSUME ToolsInvariant, UNCHANGED <<file, nodes, writes>>,
           session' \in {NoSession} \cup Paging \cup Inspection \cup Counting,
           HitStays', NumbersStay', StatusAddsUp', PagesFollow'
    PROVE  ToolsInvariant'
BY DEF ToolsInvariant, ToolsTypeOK, RowsTypeOK, StatusesAgree

LEMMA KindTells ==
    ASSUME ToolsTypeOK
    PROVE  /\ session.kind = "browse" => session \in Paging
           /\ session.kind = "inspect" => session \in Inspection
           /\ session.kind = "status" => session \in Counting
<1>1. session = NoSession => session.kind = "none"
  BY DEF NoSession
<1>2. session \in Paging => session.kind = "browse"
  BY DEF Paging
<1>3. session \in Inspection => session.kind = "inspect"
  BY DEF Inspection
<1>4. session \in Counting => session.kind = "status"
  BY DEF Counting
<1> QED
  BY <1>1, <1>2, <1>3, <1>4 DEF ToolsTypeOK

LEMMA EndSessionStep == ASSUME ToolsInvariant, EndSession PROVE ToolsInvariant'
<1>1. session' = NoSession /\ UNCHANGED <<file, nodes, writes>>
  BY DEF EndSession, Reads
<1>2. session'.kind = "none"
  BY <1>1 DEF NoSession
<1>3. HitStays' /\ NumbersStay' /\ StatusAddsUp' /\ PagesFollow'
  BY <1>2 DEF HitStays, NumbersStay, StatusAddsUp, PagesFollow
<1> QED
  BY <1>1, <1>3, NewSession

LEMMA StartBrowseStep == ASSUME ToolsInvariant, StartBrowse PROVE ToolsInvariant'
<1>1. /\ session' = [kind |-> "browse", at |-> "dirs", offset |-> 0, dirs |-> {},
                     listed |-> << >>, steady |-> Live, vanished |-> {}, appeared |-> {}]
      /\ UNCHANGED <<file, nodes, writes>>
  BY DEF StartBrowse, Reads
<1>2. Live \in SUBSET Entries /\ Live' = Live
  BY <1>1 DEF Live
<1>3. session' \in Paging
  BY <1>1, <1>2 DEF Paging
<1>4. DirsAreKnown'
  BY <1>1, <1>2 DEF DirsAreKnown
<1>5. ASSUME NEW e \in Entries PROVE OffsetIsBetween(e)'
  <2>1. ~Listed(e)'
    BY <1>1 DEF Listed, Occurs
  <2>2. Live \in SUBSET Nat /\ IsFiniteSet(Live) /\ e \in Nat
    BY <1>2, EntriesAreFinite, ToolsAssumption
  <2>3. Rank(Live, e) \in Nat
    BY <2>2, RankType
  <2>4. Upcoming' = Live /\ session'.offset = 0
    BY <1>1, <1>2 DEF Upcoming
  <2>5. 0 <= Rank(Live, e)
    BY <2>3
  <2>6. session'.offset <= Rank(Upcoming', e)
    BY <2>4, <2>5
  <2> QED
    BY <2>1, <2>6 DEF OffsetIsBetween, Rank, Before
<1>6. PagesFollow'
  BY <1>1, <1>4, <1>5 DEF PagesFollow
<1> QED
  BY <1>1, <1>3, <1>6, NewSession DEF HitStays, NumbersStay, StatusAddsUp

LEMMA MetadataHitStep == ASSUME ToolsInvariant, MetadataHit PROVE ToolsInvariant'
<1>1. PICK i \in Ids(nodes) :
        /\ nodes[i].file \in Live
        /\ session' = [kind |-> "inspect", at |-> "node", id |-> i, hit |-> nodes[i],
                       node |-> NoNode, text |-> NoNode, touched |-> {}]
        /\ UNCHANGED <<file, nodes, writes>>
  BY DEF MetadataHit, Reads
<1>2. i \in 1 .. MaxNodeId /\ nodes[i] \in NodeRow /\ nodes[i] # NoNode
  BY DEF ToolsInvariant, ToolsTypeOK, RowsTypeOK, Ids
<1>3. session' \in Inspection
  BY <1>1, <1>2 DEF Inspection, NodeRow, NoNode
<1>4. HitStays'
  BY <1>1, <1>2 DEF HitStays
<1> QED
  BY <1>1, <1>3, <1>4, NewSession DEF NumbersStay, StatusAddsUp, PagesFollow

LEMMA GetNodeStep == ASSUME ToolsInvariant, GetNode PROVE ToolsInvariant'
<1>1. /\ session.kind = "inspect" /\ session.at = "node"
      /\ session' = [session EXCEPT !.node = nodes[session.id],
                                    !.at = IF nodes[session.id] = NoNode THEN "done"
                                           ELSE "chunks"]
      /\ UNCHANGED <<file, nodes, writes>>
  BY DEF GetNode, Reads
<1>2. session \in Inspection /\ nodes[session.id] \in NodeRow
  <2>1. session \in Inspection
    BY <1>1, KindTells DEF ToolsInvariant
  <2>2. session.id \in 1 .. MaxNodeId
    BY <2>1 DEF Inspection
  <2> QED
    BY <2>1, <2>2 DEF ToolsInvariant, ToolsTypeOK, RowsTypeOK
<1>3. /\ session' \in Inspection /\ session'.kind = "inspect"
      /\ session'.hit = session.hit /\ session'.touched = session.touched
      /\ session'.id = session.id /\ session'.node = nodes[session.id]
      /\ session'.at = IF nodes[session.id] = NoNode THEN "done" ELSE "chunks"
  BY <1>1, <1>2 DEF Inspection
<1>4. HitStays'
  BY <1>1, <1>3 DEF ToolsInvariant, HitStays
<1> QED
  BY <1>1, <1>3, <1>4, NewSession DEF NumbersStay, StatusAddsUp, PagesFollow

LEMMA GetChunksStep == ASSUME ToolsInvariant, GetChunks PROVE ToolsInvariant'
<1>1. /\ session.kind = "inspect" /\ session.at = "chunks"
      /\ session' = [session EXCEPT !.text = nodes[session.id], !.at = "done"]
      /\ UNCHANGED <<file, nodes, writes>>
  BY DEF GetChunks, Reads, ChunksOf
<1>2. session \in Inspection /\ nodes[session.id] \in NodeRow
  <2>1. session \in Inspection
    BY <1>1, KindTells DEF ToolsInvariant
  <2>2. session.id \in 1 .. MaxNodeId
    BY <2>1 DEF Inspection
  <2> QED
    BY <2>1, <2>2 DEF ToolsInvariant, ToolsTypeOK, RowsTypeOK
<1>3. /\ session' \in Inspection /\ session'.kind = "inspect"
      /\ session'.hit = session.hit /\ session'.touched = session.touched
      /\ session'.node = session.node /\ session'.text = nodes[session.id]
      /\ session'.at = "done"
  BY <1>1, <1>2 DEF Inspection
<1>4. HitStays'
  BY <1>1, <1>3 DEF ToolsInvariant, HitStays
<1> QED
  BY <1>1, <1>3, <1>4, NewSession DEF NumbersStay, StatusAddsUp, PagesFollow

\* The counts are numbers.
LEMMA CountType ==
    ASSUME NEW status
    PROVE  /\ CountOf(status) \in [Passes -> Nat]
           /\ \A p \in Passes : Count(p, status) \in Nat /\ CountOf(status)[p] = Count(p, status)
<1>1. ASSUME NEW p \in Passes PROVE Count(p, status) \in Nat
  <2>1. {f \in Entries : file[f].status[p] = status} \in SUBSET Entries
    OBVIOUS
  <2>2. IsFiniteSet({f \in Entries : file[f].status[p] = status})
    BY <2>1, EntriesAreFinite
  <2> QED
    BY <2>2, FS_CardinalityType DEF Count
<1> QED
  BY <1>1 DEF CountOf

LEMMA LiveAndDeletedType ==
    /\ IsFiniteSet(Live) /\ Cardinality(Live) \in Nat
    /\ IsFiniteSet(Deleted) /\ Cardinality(Deleted) \in Nat
<1>1. Live \in SUBSET Entries /\ Deleted \in SUBSET Entries
  BY DEF Live, Deleted
<1>2. IsFiniteSet(Live) /\ IsFiniteSet(Deleted)
  BY <1>1, EntriesAreFinite
<1> QED
  BY <1>2, FS_CardinalityType

\* The rows are where they were: so are the counts.
LEMMA CountsUnchanged ==
    ASSUME UNCHANGED file
    PROVE  /\ Live' = Live /\ Deleted' = Deleted /\ IndexedFiles' = IndexedFiles
           /\ \A status \in {"done", "failed", "skipped"} : CountOf(status)' = CountOf(status)
BY DEF Live, Deleted, IndexedFiles, CountOf, Count

LEMMA CountFilesStep == ASSUME ToolsInvariant, CountFiles PROVE ToolsInvariant'
<1>1. PICK total \in {0, Cardinality(Live)} :
        /\ session' = [kind |-> "status", at |-> "indexed", total |-> total, indexed |-> 0,
                       done |-> CountOf("-"), failed |-> CountOf("-"), skipped |-> CountOf("-"),
                       deleted |-> Cardinality(Deleted), quiet |-> total = Cardinality(Live)]
        /\ UNCHANGED <<file, nodes, writes>>
  BY DEF CountFiles, Reads, Deleted
<1>2. total \in Nat /\ Cardinality(Deleted) \in Nat /\ CountOf("-") \in [Passes -> Nat]
  BY LiveAndDeletedType, CountType
<1>3. (total = Cardinality(Live)) \in BOOLEAN
  OBVIOUS
<1>4. session' \in Counting
  BY <1>1, <1>2, <1>3 DEF Counting
<1>5. NumbersStay'
  BY <1>1, CountsUnchanged DEF NumbersStay
<1> QED
  BY <1>1, <1>4, <1>5, NewSession DEF HitStays, StatusAddsUp, PagesFollow

LEMMA CountIndexedStep == ASSUME ToolsInvariant, CountIndexed PROVE ToolsInvariant'
<1>1. /\ session.kind = "status" /\ session.at = "indexed"
      /\ session' = [session EXCEPT !.indexed = IndexedFiles, !.at = "done rows"]
      /\ UNCHANGED <<file, nodes, writes>>
  BY DEF CountIndexed, Reads
<1>2. session \in Counting
  BY <1>1, KindTells DEF ToolsInvariant
<1>3. IndexedFiles \in Nat
  BY CountType, ToolsAssumption DEF IndexedFiles
<1>4. /\ session' \in Counting /\ session'.kind = "status" /\ session'.at = "done rows"
      /\ session'.quiet = session.quiet /\ session'.total = session.total
      /\ session'.deleted = session.deleted /\ session'.indexed = IndexedFiles
  BY <1>1, <1>2, <1>3 DEF Counting
<1>5. NumbersStay'
  BY <1>1, <1>4, CountsUnchanged DEF ToolsInvariant, NumbersStay
<1> QED
  BY <1>1, <1>4, <1>5, NewSession DEF HitStays, StatusAddsUp, PagesFollow

LEMMA CountDoneStep == ASSUME ToolsInvariant, CountDone PROVE ToolsInvariant'
<1>1. /\ session.kind = "status" /\ session.at = "done rows"
      /\ session' = [session EXCEPT !.done = CountOf("done"), !.at = "failed rows"]
      /\ UNCHANGED <<file, nodes, writes>>
  BY DEF CountDone, Reads
<1>2. session \in Counting
  BY <1>1, KindTells DEF ToolsInvariant
<1>3. CountOf("done") \in [Passes -> Nat]
  BY CountType
<1>4. /\ session' \in Counting /\ session'.kind = "status" /\ session'.at = "failed rows"
      /\ session'.quiet = session.quiet /\ session'.total = session.total
      /\ session'.deleted = session.deleted /\ session'.indexed = session.indexed
      /\ session'.done = CountOf("done")
  BY <1>1, <1>2, <1>3 DEF Counting
<1>5. NumbersStay'
  BY <1>1, <1>4, CountsUnchanged DEF ToolsInvariant, NumbersStay
<1> QED
  BY <1>1, <1>4, <1>5, NewSession DEF HitStays, StatusAddsUp, PagesFollow

LEMMA CountFailedStep == ASSUME ToolsInvariant, CountFailed PROVE ToolsInvariant'
<1>1. /\ session.kind = "status" /\ session.at = "failed rows"
      /\ session' = [session EXCEPT !.failed = CountOf("failed"), !.at = "skipped rows"]
      /\ UNCHANGED <<file, nodes, writes>>
  BY DEF CountFailed, Reads
<1>2. session \in Counting
  BY <1>1, KindTells DEF ToolsInvariant
<1>3. CountOf("failed") \in [Passes -> Nat]
  BY CountType
<1>4. /\ session' \in Counting /\ session'.kind = "status" /\ session'.at = "skipped rows"
      /\ session'.quiet = session.quiet /\ session'.total = session.total
      /\ session'.deleted = session.deleted /\ session'.indexed = session.indexed
      /\ session'.done = session.done /\ session'.failed = CountOf("failed")
  BY <1>1, <1>2, <1>3 DEF Counting
<1>5. NumbersStay'
  BY <1>1, <1>4, CountsUnchanged DEF ToolsInvariant, NumbersStay
<1> QED
  BY <1>1, <1>4, <1>5, NewSession DEF HitStays, StatusAddsUp, PagesFollow

LEMMA CountNothingStep == ASSUME ToolsInvariant, CountNothing PROVE ToolsInvariant'
<1>1. /\ session.kind = "status"
      /\ session.at \in {"indexed", "done rows", "failed rows", "skipped rows"}
      /\ UNCHANGED <<file, nodes, writes>>
  BY KindTells DEF CountNothing, Reads, ToolsInvariant, Counting
<1>2. session \in Counting
  BY <1>1, KindTells DEF ToolsInvariant
<1>3. PICK at \in {"done rows", "failed rows", "skipped rows", "done"} :
        session' = [session EXCEPT !.quiet = FALSE, !.at = at]
  BY <1>1 DEF CountNothing, Reads
<1>4. session' \in Counting /\ session'.kind = "status" /\ ~session'.quiet
  BY <1>2, <1>3 DEF Counting
<1> QED
  BY <1>1, <1>4, NewSession DEF NumbersStay, HitStays, StatusAddsUp, PagesFollow

\* Sets that have nothing in common count together.
LEMMA DisjointUnion ==
    ASSUME NEW S, IsFiniteSet(S), NEW T, IsFiniteSet(T), S \cap T = {}
    PROVE  /\ IsFiniteSet(S \cup T)
           /\ Cardinality(S \cup T) = Cardinality(S) + Cardinality(T)
<1>1. /\ IsFiniteSet(S \cup T)
      /\ Cardinality(S \cup T) = Cardinality(S) + Cardinality(T) - Cardinality(S \cap T)
  BY FS_Union
<1>2. Cardinality(S \cap T) = 0 /\ Cardinality(S) \in Nat /\ Cardinality(T) \in Nat
  BY FS_EmptySet, FS_CardinalityType
<1> QED
  BY <1>1, <1>2

\* The files of a pass that are done, failed and skipped are different ones, and
\* all of them were met by the walker.
LEMMA CountsAddUp ==
    ASSUME RowsTypeOK, StatusesAgree, NEW p \in Passes
    PROVE  /\ IndexedFiles <= Count(p, "done")
           /\ IndexedFiles + Count(p, "failed") + Count(p, "skipped")
                <= Cardinality(Live) + Cardinality(Deleted)
<1> DEFINE With(q, status) == {f \in Entries : file[f].status[q] = status}
           indexed == With("embeddings", "done")
           failed == With(p, "failed")
           skipped == With(p, "skipped")
<1>1. "embeddings" \in Passes
  BY ToolsAssumption
<1>2. indexed \subseteq With(p, "done")
  BY DEF StatusesAgree
<1>3. \A f \in indexed : f \notin failed /\ f \notin skipped
  BY DEF StatusesAgree
<1>4. failed \cap skipped = {}
  OBVIOUS
<1>5. indexed \cup failed \cup skipped \subseteq Live \cup Deleted
  <2>1. ASSUME NEW f \in Entries, file[f].row = "none"
        PROVE  f \notin indexed /\ f \notin failed /\ f \notin skipped
    BY <1>1, <2>1 DEF StatusesAgree
  <2>2. \A f \in Entries : file[f].row \in {"none", "live", "deleted"}
    BY DEF RowsTypeOK, FileRow
  <2> QED
    BY <2>1, <2>2 DEF Live, Deleted
<1>6. Live \cap Deleted = {}
  BY DEF Live, Deleted
<1>7. /\ IndexedFiles = Cardinality(indexed) /\ Count(p, "done") = Cardinality(With(p, "done"))
      /\ Count(p, "failed") = Cardinality(failed) /\ Count(p, "skipped") = Cardinality(skipped)
  BY DEF IndexedFiles, Count
<1>8. /\ IsFiniteSet(indexed) /\ IsFiniteSet(failed) /\ IsFiniteSet(skipped)
      /\ IsFiniteSet(With(p, "done"))
  <2>1. /\ indexed \in SUBSET Entries /\ failed \in SUBSET Entries /\ skipped \in SUBSET Entries
        /\ With(p, "done") \in SUBSET Entries
    OBVIOUS
  <2> QED
    BY <2>1, EntriesAreFinite
<1>9. IndexedFiles <= Count(p, "done")
  <2> HIDE DEF With
  <2> QED BY <1>2, <1>7, <1>8, FS_Subset
<1> HIDE DEF indexed, failed, skipped
<1>10. /\ IsFiniteSet(indexed \cup failed)
       /\ Cardinality(indexed \cup failed) = Cardinality(indexed) + Cardinality(failed)
  <2>1. indexed \cap failed = {}
    BY <1>3
  <2> QED
    BY <1>8, <2>1, DisjointUnion
<1>11. /\ IsFiniteSet(indexed \cup failed \cup skipped)
       /\ Cardinality(indexed \cup failed \cup skipped)
            = Cardinality(indexed \cup failed) + Cardinality(skipped)
  <2>1. (indexed \cup failed) \cap skipped = {}
    BY <1>3, <1>4
  <2> QED
    BY <1>8, <1>10, <2>1, DisjointUnion
<1>12. /\ IsFiniteSet(Live \cup Deleted)
       /\ Cardinality(Live \cup Deleted) = Cardinality(Live) + Cardinality(Deleted)
  BY <1>6, LiveAndDeletedType, DisjointUnion
<1>13. Cardinality(indexed \cup failed \cup skipped) <= Cardinality(Live \cup Deleted)
  BY <1>5, <1>12, FS_Subset
<1> QED
  BY <1>7, <1>9, <1>10, <1>11, <1>12, <1>13

LEMMA CountSkippedStep == ASSUME ToolsInvariant, CountSkipped PROVE ToolsInvariant'
<1>1. /\ session.kind = "status" /\ session.at = "skipped rows"
      /\ session' = [session EXCEPT !.skipped = CountOf("skipped"), !.at = "done"]
      /\ UNCHANGED <<file, nodes, writes>>
  BY DEF CountSkipped, Reads
<1>2. session \in Counting
  BY <1>1, KindTells DEF ToolsInvariant
<1>3. CountOf("skipped") \in [Passes -> Nat]
  BY CountType
<1>4. /\ session' \in Counting /\ session'.kind = "status" /\ session'.at = "done"
      /\ session'.quiet = session.quiet /\ session'.total = session.total
      /\ session'.deleted = session.deleted /\ session'.indexed = session.indexed
      /\ session'.done = session.done /\ session'.failed = session.failed
      /\ session'.skipped = CountOf("skipped")
  BY <1>1, <1>2, <1>3 DEF Counting
<1>5. ASSUME session.quiet, NEW p \in Passes
      PROVE  /\ session'.indexed <= session'.done[p]
             /\ session'.indexed + session'.failed[p] + session'.skipped[p]
                  <= session'.total + session'.deleted
  <2>1. /\ session.total = Cardinality(Live) /\ session.deleted = Cardinality(Deleted)
        /\ session.indexed = IndexedFiles /\ session.done = CountOf("done")
        /\ session.failed = CountOf("failed")
    BY <1>1, <1>5 DEF ToolsInvariant, NumbersStay
  <2>2. /\ CountOf("done")[p] = Count(p, "done") /\ CountOf("failed")[p] = Count(p, "failed")
        /\ CountOf("skipped")[p] = Count(p, "skipped")
    BY CountType
  <2>3. RowsTypeOK /\ StatusesAgree
    BY DEF ToolsInvariant, ToolsTypeOK
  <2> QED
    BY <1>4, <2>1, <2>2, <2>3, CountsAddUp
<1>6. StatusAddsUp'
  <2>1. \A p \in Passes : session'.indexed \in Nat /\ session'.done[p] \in Nat
    BY <1>4 DEF Counting
  <2> QED
    BY <1>4, <1>5, <2>1 DEF StatusAddsUp
<1> QED
  BY <1>1, <1>4, <1>6, NewSession DEF NumbersStay, HitStays, PagesFollow

\* Nothing else changes when the folders are read: what they leave for the files
\* is what was there.
LEMMA ListDirsStep == ASSUME ToolsInvariant, ListDirs PROVE ToolsInvariant'
<1>1. /\ session.kind = "browse" /\ session.at = "dirs"
      /\ session' = [session EXCEPT !.dirs = Live \cap Subdirs, !.at = "files"]
      /\ UNCHANGED <<file, nodes, writes>>
  BY DEF ListDirs, Reads
<1>2. session \in Paging /\ Live' = Live /\ Live \in SUBSET Entries
  BY <1>1, KindTells DEF ToolsInvariant, Live
<1>3. /\ session'.kind = "browse" /\ session'.at = "files"
      /\ session'.offset = session.offset /\ session'.dirs = Live \cap Subdirs
      /\ session'.listed = session.listed /\ session'.steady = session.steady
      /\ session'.vanished = session.vanished /\ session'.appeared = session.appeared
  BY <1>1, <1>2 DEF Paging
<1>4. session' \in Paging
  BY <1>1, <1>2 DEF Paging
<1>5. DirsAreKnown /\ \A e \in Entries : OffsetIsBetween(e)
  BY <1>1 DEF ToolsInvariant, PagesFollow
<1>6. DirsAreKnown'
  BY <1>2, <1>3, <1>5 DEF DirsAreKnown
<1>7. Upcoming' = Upcoming
  BY <1>1, <1>2, <1>3 DEF Upcoming
<1>8. ASSUME NEW e \in Entries PROVE OffsetIsBetween(e)'
  <2>1. Listed(e)' = Listed(e) /\ ListedOnce(e)' = ListedOnce(e)
    BY <1>3 DEF Listed, ListedOnce
  <2>2. Rank(Upcoming, e)' = Rank(Upcoming, e)
    BY <1>7 DEF Rank, Before
  <2>3. OffsetIsBetween(e)
    BY <1>5
  <2> QED
    BY <1>3, <2>1, <2>2, <2>3 DEF OffsetIsBetween
<1>9. PagesFollow'
  BY <1>3, <1>6, <1>8 DEF PagesFollow
<1> QED
  BY <1>1, <1>3, <1>4, <1>9, NewSession DEF NumbersStay, StatusAddsUp, HitStays

-----------------------------------------------------------------------------
(* One page.                                                               *)

\* Of entries, those from the position after offset to end go at the end of listed.
After(listed, entries, offset, end) == listed \o SubSeq(entries, offset + 1, end)

LongerBy(listed, entries, offset, end) ==
    LET longer == After(listed, entries, offset, end)
    IN  /\ longer \in Seq(Entries)
        /\ Len(longer) = Len(listed) + (end - offset)
        /\ \A i \in 1 .. Len(listed) : longer[i] = listed[i]
        /\ \A i \in 1 .. (end - offset) : longer[Len(listed) + i] = entries[offset + i]

LEMMA PageIs ==
    ASSUME NEW listed \in Seq(Entries), NEW n \in Nat, NEW entries \in [1 .. n -> Entries],
           NEW offset \in 0 .. n, NEW end \in offset .. n
    PROVE  LongerBy(listed, entries, offset, end)
<1> DEFINE longer == After(listed, entries, offset, end)
<1>0. longer = listed \o SubSeq(entries, offset + 1, end)
  BY DEF After
<1> HIDE DEF longer
<1> DEFINE page == SubSeq(entries, offset + 1, end)
<1>1. entries \in Seq(Entries) /\ Len(entries) = n
  OBVIOUS
<1>2. offset \in Nat /\ end \in Nat /\ offset <= end /\ end <= n
  OBVIOUS
<1>3. /\ page \in Seq(Entries) /\ Len(page) = end - offset
      /\ \A i \in 1 .. (end - offset) : page[i] = entries[offset + i]
  <2>1. page = [i \in 1 .. (end - offset) |-> entries[offset + i]]
    BY <1>1, <1>2
  <2>2. end - offset \in Nat
    BY <1>2
  <2>3. \A i \in 1 .. (end - offset) : offset + i \in 1 .. n
    BY <1>2
  <2> HIDE DEF page
  <2> QED
    BY <2>1, <2>2, <2>3
<1> HIDE DEF page
<1>4. longer = listed \o page
  BY <1>0 DEF page
<1>5. Len(listed) \in Nat /\ end - offset \in Nat
  BY <1>2
<1>6. longer \in Seq(Entries) /\ Len(longer) = Len(listed) + (end - offset)
  <2>1. page \in Seq(Entries) /\ Len(page) = end - offset
    BY <1>3
  <2>2. longer \in Seq(Entries) /\ Len(longer) = Len(listed) + Len(page)
    BY <1>4, <2>1, ConcatProperties
  <2> QED
    BY <2>1, <2>2
<1>7. \A i \in 1 .. Len(listed) : longer[i] = listed[i]
  BY <1>3, <1>4
<1>8. ASSUME NEW i \in 1 .. (end - offset)
      PROVE  longer[Len(listed) + i] = entries[offset + i]
  BY <1>3, <1>4, <1>5
<1> QED
  BY <1>6, <1>7, <1>8 DEF LongerBy, longer

\* The list after a page of S that ends where end says.
Longer(S, listed, offset, end) == After(listed, InOrder(S), offset, end)

\* What is in the longer list was there before or is where its rank puts it.
PageFits(S, listed, offset, end, e) ==
    LET longer == Longer(S, listed, offset, end)
    IN  /\ longer \in Seq(Entries)
        /\ Occurs(listed, e) => Occurs(longer, e)
        /\ e \in S /\ Rank(S, e) + 1 \in offset + 1 .. end => Occurs(longer, e)
        /\ Occurs(longer, e) /\ ~Occurs(listed, e) =>
               e \in S /\ Rank(S, e) + 1 <= end /\ OccursOnce(longer, e)
        /\ OccursOnce(listed, e) /\ (e \in S => Rank(S, e) + 1 <= offset) =>
               OccursOnce(longer, e)

LEMMA PageLists ==
    ASSUME NEW S \in SUBSET Entries, NEW listed \in Seq(Entries),
           NEW offset \in 0 .. Cardinality(S), NEW end \in offset .. Cardinality(S),
           NEW e \in Entries
    PROVE  PageFits(S, listed, offset, end, e)
<1> DEFINE longer == Longer(S, listed, offset, end)
<1> HIDE DEF longer
<1> DEFINE n == Cardinality(S)
           entries == InOrder(S)
<1>1. S \in SUBSET Nat /\ IsFiniteSet(S)
  BY EntriesAreFinite
<1>2. /\ n \in Nat /\ entries \in [1 .. n -> S]
      /\ \A i \in 1 .. n : Rank(S, entries[i]) = i - 1
  BY <1>1, InOrderIs
<1>3. e \in S => Rank(S, e) + 1 \in 1 .. n /\ entries[Rank(S, e) + 1] = e
  BY <1>1, InOrderFinds
<1> DEFINE r == Rank(S, e)
<1>4. r \in Nat
  BY <1>1, RankType, ToolsAssumption
<1> HIDE DEF n, entries
<1>5. offset \in 0 .. n /\ end \in offset .. n
  BY DEF n
<1>6. offset \in Nat /\ end \in Nat /\ offset <= end /\ end <= n
  BY <1>2, <1>5
<1>7. /\ longer \in Seq(Entries)
      /\ Len(longer) = Len(listed) + (end - offset)
      /\ \A i \in 1 .. Len(listed) : longer[i] = listed[i]
      /\ \A i \in 1 .. (end - offset) : longer[Len(listed) + i] = entries[offset + i]
  <2>1. entries \in [1 .. n -> Entries]
    BY <1>2
  <2>2. LongerBy(listed, entries, offset, end)
    BY <1>2, <1>5, <2>1, PageIs
  <2>3. longer = After(listed, entries, offset, end)
    BY DEF longer, Longer, entries
  <2> QED
    BY <2>2, <2>3 DEF LongerBy
<1>8. Len(listed) \in Nat
  OBVIOUS
\* Where e is in the page.
<1>9. ASSUME NEW i \in 1 .. Len(longer), longer[i] = e, i > Len(listed)
      PROVE  e \in S /\ i = Len(listed) + (r + 1 - offset) /\ r + 1 <= end /\ r + 1 > offset
  <2> DEFINE j == i - Len(listed)
  <2>1. j \in 1 .. (end - offset) /\ i = Len(listed) + j
    BY <1>6, <1>7, <1>8, <1>9
  <2>2. offset + j \in 1 .. n
    BY <1>2, <1>6, <2>1
  <2>3. entries[offset + j] = e
    <3> HIDE DEF j
    <3> QED BY <1>7, <1>9, <2>1
  <2>4. e \in S /\ r = (offset + j) - 1
    <3> HIDE DEF j
    <3> QED BY <1>2, <2>2, <2>3
  <2> HIDE DEF j, r
  <2>5. j \in Int
    BY <2>1, <1>6
  <2> QED
    BY <1>4, <1>6, <1>8, <2>1, <2>4, <2>5
<1> HIDE DEF r
<1>10. Occurs(listed, e) => Occurs(longer, e)
  <2>1. SUFFICES ASSUME NEW i \in 1 .. Len(listed), listed[i] = e PROVE Occurs(longer, e)
    BY DEF Occurs
  <2>2. i \in 1 .. Len(longer) /\ longer[i] = e
    BY <1>6, <1>7, <1>8, <2>1
  <2> QED
    BY <2>2 DEF Occurs
<1>11. ASSUME e \in S, r + 1 \in offset + 1 .. end PROVE Occurs(longer, e)
  <2> DEFINE i == r + 1 - offset
  <2>1. i \in 1 .. (end - offset) /\ offset + i = r + 1
    BY <1>4, <1>6, <1>11
  <2>2. entries[r + 1] = e
    BY <1>3, <1>11 DEF r
  <2> HIDE DEF i
  <2>3. longer[Len(listed) + i] = e
    BY <1>7, <2>1, <2>2
  <2>4. Len(listed) + i \in 1 .. Len(longer)
    BY <1>6, <1>7, <1>8, <2>1
  <2> QED
    BY <2>3, <2>4 DEF Occurs
<1>12. ASSUME Occurs(longer, e), ~Occurs(listed, e)
       PROVE  e \in S /\ r + 1 <= end /\ OccursOnce(longer, e)
  <2>1. ASSUME NEW i \in 1 .. Len(longer), longer[i] = e PROVE i > Len(listed)
    <3>1. CASE i <= Len(listed)
      <4>1. i \in 1 .. Len(listed)
        BY <1>7, <1>8, <3>1
      <4> QED
        BY <1>7, <1>12, <2>1, <4>1 DEF Occurs
    <3> QED
      BY <1>7, <1>8, <3>1
  <2>2. PICK i \in 1 .. Len(longer) : longer[i] = e
    BY <1>12 DEF Occurs
  <2>3. e \in S /\ r + 1 <= end
    BY <1>9, <2>1, <2>2
  <2>4. OccursOnce(longer, e)
    BY <1>9, <2>1 DEF OccursOnce
  <2> QED
    BY <2>3, <2>4
<1>13. ASSUME OccursOnce(listed, e), e \in S => r + 1 <= offset
       PROVE  OccursOnce(longer, e)
  <2>1. ASSUME NEW i \in 1 .. Len(longer), longer[i] = e
        PROVE  i \in 1 .. Len(listed) /\ listed[i] = e
    <3>1. ~(i > Len(listed))
      BY <1>4, <1>6, <1>9, <1>13, <2>1
    <3>2. i \in 1 .. Len(listed)
      BY <1>7, <1>8, <3>1
    <3> QED
      BY <1>7, <2>1, <3>2
  <2> QED
    BY <1>13, <2>1 DEF OccursOnce
<1> QED
  BY <1>7, <1>10, <1>11, <1>12, <1>13 DEF r, longer, PageFits

LEMMA SmallerOf ==
    ASSUME NEW a \in Nat, NEW b \in Nat
    PROVE  Min({a, b}) = IF a <= b THEN a ELSE b
BY DEF Min

LEMMA ListFilesStep == ASSUME ToolsInvariant, ListFiles PROVE ToolsInvariant'
<1> DEFINE folder == Upcoming
           n == Cardinality(folder)
           from == Min({session.offset, n})
           upto == Min({from + MaxItems, n})
<1>1. session.kind = "browse" /\ session.at = "files" /\ UNCHANGED <<file, nodes, writes>>
  BY DEF ListFiles, Reads
<1>2. session \in Paging /\ Live' = Live /\ Live \in SUBSET Entries
  BY <1>1, KindTells DEF ToolsInvariant, Live
<1>3. folder = session.dirs \cup (Live \ Subdirs) /\ folder \in SUBSET Entries
  BY <1>1, <1>2 DEF Upcoming, Paging
<1>4. folder \in SUBSET Nat /\ IsFiniteSet(folder) /\ n \in Nat
  <2> HIDE DEF folder
  <2> QED
    BY <1>3, EntriesAreFinite, FS_CardinalityType
<1>5. Listing(session.dirs, Live \ Subdirs) = InOrder(folder) /\ Len(InOrder(folder)) = n
  <2>1. Listing(session.dirs, Live \ Subdirs) = InOrder(folder)
    BY <1>3 DEF Listing
  <2> HIDE DEF folder
  <2>2. InOrder(folder) \in [1 .. n -> folder]
    BY <1>4, InOrderIs
  <2>3. Len(InOrder(folder)) = n
    BY <1>4, <2>2
  <2> QED
    BY <2>1, <2>3
<1>6. session' = [session EXCEPT !.listed = @ \o SubSeq(InOrder(folder), from + 1, upto),
                                 !.offset = upto, !.at = IF upto = n THEN "done" ELSE "dirs"]
  BY <1>5 DEF ListFiles, Reads
<1>7. /\ session.offset \in Nat /\ session.listed \in Seq(Entries)
      /\ MaxItems \in Nat \ {0}
  BY <1>2, ToolsAssumption DEF Paging
<1> HIDE DEF folder, n
<1>8. from = IF session.offset <= n THEN session.offset ELSE n
  BY <1>4, <1>7, SmallerOf
<1>9. upto = IF from + MaxItems <= n THEN from + MaxItems ELSE n
  <2>1. from + MaxItems \in Nat
    BY <1>4, <1>7, <1>8
  <2> HIDE DEF from
  <2> QED
    BY <1>4, <2>1, SmallerOf
<1> HIDE DEF from, upto
<1>10. from \in 0 .. n /\ upto \in from .. n /\ upto \in Nat
  BY <1>4, <1>7, <1>8, <1>9
<1> DEFINE longer == Longer(folder, session.listed, from, upto)
<1>11. ASSUME NEW e \in Entries
       PROVE  /\ longer \in Seq(Entries)
              /\ Listed(e) => Occurs(longer, e)
              /\ e \in folder /\ Rank(folder, e) + 1 \in from + 1 .. upto => Occurs(longer, e)
              /\ Occurs(longer, e) /\ ~Listed(e) =>
                     e \in folder /\ Rank(folder, e) + 1 <= upto /\ OccursOnce(longer, e)
              /\ ListedOnce(e) /\ (e \in folder => Rank(folder, e) + 1 <= from) =>
                     OccursOnce(longer, e)
  <2>1. from \in 0 .. Cardinality(folder) /\ upto \in from .. Cardinality(folder)
    BY <1>10 DEF n
  <2>2. PageFits(folder, session.listed, from, upto, e)
    BY <1>3, <1>7, <2>1, PageLists
  <2> QED
    BY <2>2 DEF PageFits, Listed, ListedOnce, longer
<1>12. longer \in Seq(Entries)
  <2>1. CASE Entries = {}
    <3>1. n = 0 /\ folder = {}
      BY <1>3, <2>1, FS_EmptySet DEF n
    <3>2. longer = session.listed
      <4>1. from = 0 /\ upto = 0
        BY <1>10, <3>1
      <4>2. SubSeq(InOrder(folder), from + 1, upto) = << >>
        BY <4>1
      <4> QED
        BY <1>7, <4>2, ConcatEmptySeq DEF longer, Longer, After
    <3> QED
      BY <1>7, <3>2
  <2>2. CASE Entries # {}
    BY <1>11, <2>2
  <2> QED
    BY <2>1, <2>2
<1> HIDE DEF longer
<1>13. /\ session' = [session EXCEPT !.listed = longer, !.offset = upto,
                                     !.at = IF upto = n THEN "done" ELSE "dirs"]
  BY <1>6 DEF longer, Longer, After
<1>14. /\ session'.kind = "browse" /\ session'.listed = longer /\ session'.offset = upto
       /\ session'.at = IF upto = n THEN "done" ELSE "dirs"
       /\ session'.steady = session.steady /\ session'.dirs = session.dirs
       /\ session'.vanished = session.vanished /\ session'.appeared = session.appeared
  BY <1>2, <1>13 DEF Paging
<1>15. session' \in Paging
  BY <1>2, <1>10, <1>12, <1>13 DEF Paging
<1>16. DirsAreKnown /\ \A e \in Entries : OffsetIsBetween(e)
  BY <1>1 DEF ToolsInvariant, PagesFollow
<1>17. DirsAreKnown'
  BY <1>2, <1>14, <1>16 DEF DirsAreKnown
<1>18. ASSUME NEW e \in Entries
       PROVE  /\ e \in Nat /\ Rank(folder, e) \in Nat /\ Rank(Live, e) \in Nat
              /\ e \in folder => Rank(folder, e) < n
              /\ Before(folder, e) \subseteq Live => Rank(folder, e) <= Rank(Live, e)
              /\ Before(Live, e) \subseteq folder => Rank(Live, e) <= Rank(folder, e)
  <2>1. e \in Nat /\ Live \in SUBSET Nat /\ IsFiniteSet(Live)
    BY <1>2, EntriesAreFinite, ToolsAssumption
  <2> QED
    BY <1>4, <2>1, RankType, RankGrows DEF n
\* What was there all along and is not listed yet is beyond the page.
<1>19. ASSUME NEW e \in Entries, e \in session.steady, ~Occurs(longer, e),
              \A d \in session.vanished : ~(d < e)
       PROVE  upto # n /\ upto <= Rank(Live, e)
  <2>1. e \in folder
    BY <1>1, <1>3, <1>16, <1>19 DEF DirsAreKnown
  <2>2. session.offset <= Rank(folder, e)
    BY <1>11, <1>16, <1>19 DEF OffsetIsBetween, folder
  <2>3. Rank(folder, e) + 1 \notin from + 1 .. upto
    BY <1>11, <1>19, <2>1
  <2>4. upto <= Rank(folder, e)
    BY <1>4, <1>7, <1>8, <1>10, <1>18, <2>2, <2>3
  <2>5. Before(folder, e) \subseteq Live
    BY <1>1, <1>3, <1>16, <1>19 DEF DirsAreKnown, Before
  <2> QED
    BY <1>4, <1>10, <1>18, <2>1, <2>4, <2>5
\* What is listed is before the next page, and once in the list.
<1>20. ASSUME NEW e \in Entries, Occurs(longer, e), \A d \in session.appeared : ~(d < e)
       PROVE  OccursOnce(longer, e) /\ (upto # n => Rank(Live, e) + 1 <= upto)
  <2>1. Before(Live, e) \subseteq folder
    BY <1>1, <1>3, <1>16, <1>20 DEF DirsAreKnown, Before
  <2>2. Rank(Live, e) <= Rank(folder, e) /\ Rank(Live, e) \in Nat /\ Rank(folder, e) \in Nat
    BY <1>18, <2>1
  <2>3. CASE Listed(e)
    <3>1. Rank(folder, e) + 1 <= session.offset /\ ListedOnce(e)
      BY <1>16, <1>20, <2>3 DEF OffsetIsBetween, folder
    <3>2. e \in folder => Rank(folder, e) + 1 <= from
      BY <1>4, <1>7, <1>8, <1>18, <2>2, <3>1
    <3>3. OccursOnce(longer, e)
      BY <1>11, <3>1, <3>2
    <3>4. upto # n => Rank(folder, e) + 1 <= upto
      BY <1>4, <1>7, <1>8, <1>9, <2>2, <3>1
    <3> QED
      BY <1>10, <2>2, <3>3, <3>4
  <2>4. CASE ~Listed(e)
    <3>1. Rank(folder, e) + 1 <= upto /\ OccursOnce(longer, e)
      BY <1>11, <1>20, <2>4
    <3> QED
      BY <1>10, <2>2, <3>1
  <2> QED
    BY <2>3, <2>4
<1>21. ASSUME upto # n, NEW e \in Entries PROVE OffsetIsBetween(e)'
  <2>1. Upcoming' = Live
    BY <1>2, <1>14, <1>21 DEF Upcoming
  <2>2. Rank(Upcoming, e)' = Rank(Live, e)
    BY <2>1 DEF Rank, Before
  <2>3. Listed(e)' = Occurs(longer, e) /\ ListedOnce(e)' = OccursOnce(longer, e)
    BY <1>14 DEF Listed, ListedOnce
  <2> QED
    BY <1>14, <1>19, <1>20, <1>21, <2>2, <2>3 DEF OffsetIsBetween
<1>22. ASSUME upto = n, NEW e \in Entries PROVE PagesComplete(e)'
  <2>1. Listed(e)' = Occurs(longer, e) /\ ListedOnce(e)' = OccursOnce(longer, e)
    BY <1>14 DEF Listed, ListedOnce
  <2>2. CASE Occurs(longer, e)
    BY <1>14, <1>20, <2>1, <2>2 DEF PagesComplete
  <2>3. CASE ~Occurs(longer, e)
    <3>1. OccursOnce(longer, e)
      BY <2>3 DEF Occurs, OccursOnce
    <3> QED
      BY <1>14, <1>19, <1>22, <2>1, <2>3, <3>1 DEF PagesComplete
  <2> QED
    BY <2>2, <2>3
<1>23. PagesFollow'
  BY <1>14, <1>17, <1>21, <1>22 DEF PagesFollow
<1> QED
  BY <1>1, <1>14, <1>15, <1>23, NewSession DEF NumbersStay, StatusAddsUp, HitStays

-----------------------------------------------------------------------------
(* IndexTools: the invariant, and what it is for.                          *)

LEMMA InitTools == ToolsInit => ToolsInvariant
<1> SUFFICES ASSUME ToolsInit PROVE ToolsInvariant
  OBVIOUS
<1>1. NoStatus \in [Passes -> {"none", "done", "skipped", "failed"}] /\ NoNode \in NodeRow
      /\ \A p \in Passes : NoStatus[p] = "none"
  BY DEF NoStatus, NoNode, NodeRow
<1>2. RowsTypeOK
  BY <1>1, ToolsAssumption DEF ToolsInit, RowsTypeOK, FileRow
<1>3. StatusesAgree
  BY <1>1, ToolsAssumption DEF ToolsInit, StatusesAgree
<1>4. session = NoSession /\ session.kind = "none"
  BY DEF ToolsInit, NoSession
<1> QED
  BY <1>2, <1>3, <1>4
  DEF ToolsInvariant, ToolsTypeOK, HitStays, NumbersStay, StatusAddsUp, PagesFollow

LEMMA ToolsStep == ToolsInvariant /\ [ToolsNext]_toolsVars => ToolsInvariant'
<1> SUFFICES ASSUME ToolsInvariant, [ToolsNext]_toolsVars PROVE ToolsInvariant'
  OBVIOUS
<1>1. RowsTypeOK /\ StatusesAgree
  BY DEF ToolsInvariant, ToolsTypeOK
<1>2. ASSUME NEW f \in Entries, WalkUpsert(f) \/ IndexFile(f) \/ SkipFile(f) \/ FailFile(f)
      PROVE  ToolsInvariant'
  BY <1>1, <1>2, WalkUpsertTouches, IndexFileTouches, SkipFileTouches, FailFileTouches, WriteStep
<1>3. CASE MarkDeleted
  BY <1>1, <1>3, MarkDeletedTouches, WriteStep
<1>4. CASE StartBrowse \/ ListDirs \/ ListFiles
  BY <1>4, StartBrowseStep, ListDirsStep, ListFilesStep
<1>5. CASE MetadataHit \/ GetNode \/ GetChunks
  BY <1>5, MetadataHitStep, GetNodeStep, GetChunksStep
<1>6. CASE EndSession
  BY <1>6, EndSessionStep
<1>7. CASE CountFiles \/ CountIndexed \/ CountDone \/ CountFailed \/ CountSkipped \/ CountNothing
  BY <1>7, CountFilesStep, CountIndexedStep, CountDoneStep, CountFailedStep, CountSkippedStep,
     CountNothingStep
<1>8. CASE UNCHANGED toolsVars
  <2>1. UNCHANGED <<file, nodes, writes, session>>
    BY <1>8 DEF toolsVars
  <2>2. ToolsTypeOK' /\ StatusesAgree' /\ HitStays' /\ StatusAddsUp'
    BY <2>1
    DEF ToolsInvariant, ToolsTypeOK, RowsTypeOK, StatusesAgree, HitStays, StatusAddsUp
  <2>3. Live' = Live
    BY <2>1 DEF Live
  <2>4. NumbersStay'
    BY <2>1, CountsUnchanged DEF ToolsInvariant, NumbersStay
  <2>5. PagesFollow'
    <3>1. DirsAreKnown' = DirsAreKnown /\ Upcoming' = Upcoming
      BY <2>1, <2>3 DEF DirsAreKnown, Upcoming
    <3>2. ASSUME NEW e \in Entries
          PROVE  OffsetIsBetween(e)' = OffsetIsBetween(e) /\ PagesComplete(e)' = PagesComplete(e)
      <4>1. Rank(Upcoming, e)' = Rank(Upcoming, e)
        BY <3>1 DEF Rank, Before
      <4>2. Listed(e)' = Listed(e) /\ ListedOnce(e)' = ListedOnce(e)
        BY <2>1 DEF Listed, ListedOnce
      <4> QED
        BY <2>1, <4>1, <4>2 DEF OffsetIsBetween, PagesComplete
    <3> QED
      BY <2>1, <3>1, <3>2 DEF ToolsInvariant, PagesFollow
  <2> QED
    BY <2>2, <2>4, <2>5 DEF ToolsInvariant
<1> QED
  BY <1>2, <1>3, <1>4, <1>5, <1>6, <1>7, <1>8 DEF ToolsNext

LEMMA ToolsInvariantHolds == ToolsSpec => []ToolsInvariant
  BY InitTools, ToolsStep, PTL DEF ToolsSpec

\* Whatever the indexer writes between the pages, for a folder of any size and
\* pages of any size (browse_folder.go:151-162).
THEOREM BrowsingMissesNothing == ToolsSpec => []BrowsePages
<1>1. ASSUME ToolsInvariant PROVE BrowsePages
  <2>1. SUFFICES ASSUME session.kind = "browse", session.at = "done", NEW e \in Entries
                 PROVE  LET times == Cardinality({i \in DOMAIN session.listed :
                                                     session.listed[i] = e})
                        IN  /\ times = 0 /\ e \in session.steady =>
                                   \E d \in session.vanished : d < e
                            /\ times > 1 => \E d \in session.appeared : d < e
    BY DEF BrowsePages
  <2> DEFINE found == {i \in DOMAIN session.listed : session.listed[i] = e}
  <2>2. session.listed \in Seq(Entries)
    BY <1>1, <2>1, KindTells DEF ToolsInvariant, Paging
  <2>3. Len(session.listed) \in Nat /\ DOMAIN session.listed = 1 .. Len(session.listed)
    BY <2>2
  <2>4. PagesComplete(e)
    BY <1>1, <2>1 DEF ToolsInvariant, PagesFollow
  <2>5. IsFiniteSet(found)
    <3>1. IsFiniteSet(1 .. Len(session.listed)) /\ found \in SUBSET (1 .. Len(session.listed))
      BY <2>3, FS_Interval
    <3> HIDE DEF found
    <3> QED
      BY <3>1, FS_Subset
  <2>6. ASSUME Cardinality(found) = 0 PROVE ~Listed(e)
    <3>1. found = {}
      <4> HIDE DEF found
      <4> QED BY <2>5, <2>6, FS_EmptySet
    <3> QED
      BY <2>3, <3>1 DEF Listed, Occurs
  <2>7. ASSUME ListedOnce(e) PROVE ~(Cardinality(found) > 1)
    <3>1. CASE found = {}
      BY <3>1, FS_EmptySet
    <3>2. CASE found # {}
      <4>1. PICK i \in found : TRUE
        BY <3>2
      <4>2. found = {i}
        BY <2>3, <2>7, <4>1 DEF ListedOnce, OccursOnce
      <4> HIDE DEF found
      <4>3. Cardinality(found) = 1
        BY <4>2, FS_Singleton
      <4> QED
        BY <4>3
    <3> QED
      BY <3>1, <3>2
  <2> QED
    BY <2>4, <2>6, <2>7 DEF PagesComplete
<1> QED
  BY <1>1, ToolsInvariantHolds, PTL

\* Row ids are handed out again, never one that a hit of an untouched file has
\* (inspect_node.go:25-29).
THEOREM InspectionsAreOfTheHit == ToolsSpec => []InspectIsOfTheHit
<1>1. ToolsInvariant => InspectIsOfTheHit
  BY DEF ToolsInvariant, HitStays, InspectIsOfTheHit
<1> QED
  BY <1>1, ToolsInvariantHolds, PTL

\* The numbers of a status without a write meanwhile, for any number of files
\* and passes (status.go:22-97).
THEOREM StatusAlwaysAddsUp == ToolsSpec => []StatusAddsUp
<1>1. ToolsInvariant => StatusAddsUp
  BY DEF ToolsInvariant
<1> QED
  BY <1>1, ToolsInvariantHolds, PTL
=============================================================================
