----------------------- MODULE CommandRecords_proofs -----------------------
(* Theorems about CommandRecords, for any number of starts, attaches and   *)
(* doctors.                                                                *)
EXTENDS CommandRecords, TLAPS

-----------------------------------------------------------------------------
(* Every step is the step of one process. *)

StepOf(p) ==
  \/ OpenStep(p) \/ Kill(p)
  \/ p \in Starts /\ StartStep(p)
  \/ p \in Attaches /\ AttachResolves(p)
  \/ p \in Attaches \union Doctors /\ OtherBegins(p)
  \/ p \in Operations /\ OperationStep(p)
  \/ p \in Doctors /\ DoctorStep(p)

LEMMA StepHasProcess == Next => \E p \in Processes : StepOf(p)
  BY DEF Next, StepOf, Processes, Operations

LEMMA Kinds ==
  /\ Starts \subseteq Operations /\ Attaches \subseteq Operations
  /\ Operations \subseteq Processes /\ Doctors \subseteq Processes
  /\ Starts \intersect Attaches = {} /\ Operations \intersect Doctors = {}
  /\ None \notin Processes
  BY ProcessAssumption DEF Operations, Processes

-----------------------------------------------------------------------------
(* Type correctness. *)

LEMMA InitType == Init => TypeOK
<1>1. Init => DatabaseTypeOK
  <2>1. Init => session \in [Starts -> [status : Statuses, lastUsed : Nat]]
    BY DEF Init, DatabaseInit, Statuses
  <2>2. Init => nested \in [Starts -> SUBSET Operations] /\ lock \in [Processes -> Locks]
    BY DEF Init, DatabaseInit, Locks
  <2> QED
    BY <2>1, <2>2 DEF Init, DatabaseInit, DatabaseTypeOK
<1>2. Init => TraceTypeOK
  BY DEF Init, TraceInit, TraceTypeOK, Trace, TraceStatuses, Directories, Artefacts,
     NoArtefacts, Statuses
<1>3. Init => now \in Nat /\ proc \in [Processes -> Process]
  BY DEF Init, NewProcess, Process, Steps, Outcomes, Statuses
<1> QED
  BY <1>1, <1>2, <1>3 DEF TypeOK

LEMMA MovesType ==
  ASSUME TypeOK, NEW p \in Processes, NEW step \in Steps, Moves(p, step)
  PROVE  proc' \in [Processes -> Process]
  BY DEF TypeOK, Moves, Process

LEMMA ReturnsType ==
  ASSUME TypeOK, NEW p \in Processes, NEW outcome \in Outcomes, Returns(p, outcome)
  PROVE  proc' \in [Processes -> Process]
<1>1. {"ended", "complete"} \subseteq Steps
  BY DEF Steps, EndSteps
<1>2. [proc[p] EXCEPT !.step = IF p \in Doctors THEN "ended" ELSE "complete",
                      !.outcome = outcome] \in Process
  BY <1>1 DEF TypeOK, Process
<1> QED
  BY <1>2 DEF TypeOK, Returns

LEMMA EndingsType ==
  ASSUME TypeOK, NEW p \in Operations,
         GoesOnUnsaved(p) \/ GivesUpCollecting(p)
  PROVE  proc' \in [Processes -> Process]
<1>1. "ended" \in Steps /\ AfterSave(p) \in Steps
  BY DEF Steps, EndSteps, AfterSave, Operations
<1>2. proc \in [Processes -> Process] /\ p \in Processes
  BY Kinds DEF TypeOK
<1>3. /\ [proc[p] EXCEPT !.step = AfterSave(p), !.unsaved = TRUE] \in Process
      /\ [proc[p] EXCEPT !.step = "ended", !.uncollected = TRUE] \in Process
  BY <1>1, <1>2 DEF Process
<1> QED
  BY <1>2, <1>3 DEF GoesOnUnsaved, GivesUpCollecting

LEMMA FailsType ==
  ASSUME TypeOK, NEW p \in Processes, Fails(p)
  PROVE  proc' \in [Processes -> Process]
<1>1. {"update_failed", "complete"} \subseteq Steps /\ "error" \in Outcomes
  BY DEF Steps, EndSteps, Outcomes
<1>2. [proc[p] EXCEPT !.step = IF p \in Starts THEN "update_failed" ELSE "complete",
                      !.outcome = "error"] \in Process
  BY <1>1 DEF TypeOK, Process
<1> QED
  BY <1>2 DEF TypeOK, Fails

LEMMA TakesType ==
  ASSUME TypeOK, NEW p \in Processes, NEW l \in Locks, Takes(p, l)
  PROVE  lock' \in [Processes -> Locks]
  BY DEF TypeOK, DatabaseTypeOK, Takes

LEMMA LockStepType ==
  ASSUME TypeOK, NEW p \in Processes,
         Reserves(p) \/ TimesOut(p) \/ Releases(p) \/ TablesExist(p) \/ UNCHANGED lock
  PROVE  lock' \in [Processes -> Locks]
  BY TakesType DEF Reserves, TimesOut, Releases, TablesExist, Locks, TypeOK, DatabaseTypeOK

LEMMA StepFailsType ==
  ASSUME TypeOK, NEW p \in Operations, NEW step \in TraceSteps, StepFails(p, step)
  PROVE  trace' \in [Operations -> Trace]
<1>1. [trace[p] EXCEPT !.status = "failed", !.failed = step] \in Trace
  BY DEF TypeOK, TraceTypeOK, Trace, TraceStatuses
<1> QED
  BY <1>1 DEF TypeOK, TraceTypeOK, StepFails

\* The parts of the type invariant that a step may leave alone.
LEMMA TypeByParts ==
  ASSUME TypeOK,
         UNCHANGED dbVars \/ DatabaseTypeOK',
         UNCHANGED traceVars \/ TraceTypeOK',
         now' \in Nat,
         proc' \in [Processes -> Process]
  PROVE  TypeOK'
  BY DEF TypeOK, DatabaseTypeOK, TraceTypeOK, dbVars, traceVars

LEMMA LockOnly ==
  ASSUME TypeOK, NEW p \in Processes,
         Reserves(p) \/ TimesOut(p) \/ Releases(p) \/ TablesExist(p) \/ UNCHANGED lock,
         UNCHANGED <<version, tables, session, nested>>
  PROVE  DatabaseTypeOK'
  BY LockStepType DEF TypeOK, DatabaseTypeOK

LEMMA TraceOnly ==
  ASSUME TypeOK, trace' \in [Operations -> Trace], UNCHANGED <<latest, writers, artefact>>
  PROVE  TraceTypeOK'
  BY DEF TypeOK, TraceTypeOK

LEMMA BeginningsType ==
  ASSUME TypeOK, NEW p \in Processes,
         \/ p \in Starts /\ (StartBegins(p) \/ PreflightConfig(p))
         \/ OtherBegins(p)
  PROVE  TypeOK'
<1>1. /\ {"preflight_configuration", "open"} \subseteq Steps /\ "error" \in Outcomes
      /\ {"ensure_runtime", "preflight_configuration"} \subseteq TraceSteps
  BY DEF Steps, WorkSteps, OpenSteps, Outcomes, TraceSteps
<1>2. /\ UNCHANGED <<dbVars, now>>
      /\ \A step \in Steps : Moves(p, step) => proc' \in [Processes -> Process]
      /\ Returns(p, "error") => proc' \in [Processes -> Process]
  BY <1>1, MovesType, ReturnsType DEF StartBegins, PreflightConfig, OtherBegins
<1>3. CASE p \in Starts /\ StartBegins(p)
  <2>1. trace' \in [Operations -> Trace]
    BY <1>1, <1>3, StepFailsType, Kinds DEF StartBegins, TypeOK, TraceTypeOK
  <2> QED
    BY <1>1, <1>2, <1>3, <2>1, TypeByParts, TraceOnly DEF StartBegins, TypeOK
<1>4. CASE p \in Starts /\ PreflightConfig(p)
  <2>1. trace' \in [Operations -> Trace]
    BY <1>1, <1>4, StepFailsType, Kinds DEF PreflightConfig, TypeOK, TraceTypeOK
  <2> QED
    BY <1>1, <1>2, <1>4, <2>1, TypeByParts, TraceOnly DEF PreflightConfig, TypeOK
<1>5. CASE OtherBegins(p)
  BY <1>1, <1>2, <1>5, TypeByParts DEF OtherBegins, TypeOK
<1> QED
  BY <1>3, <1>4, <1>5

LEMMA OpenType ==
  ASSUME TypeOK, NEW p \in Processes, OpenStep(p)
  PROVE  TypeOK'
<1>1. /\ OpenSteps \subseteq Steps /\ Opened(p) \in Steps
      /\ {"error", "locked"} \subseteq Outcomes
  BY DEF Steps, WorkSteps, Opened, Outcomes
<1>2. {"migrate", "create_tables", "user_version", "commit_migration"} \subseteq Steps
  BY <1>1 DEF OpenSteps
<1>3. /\ \A step \in Steps : Moves(p, step) => proc' \in [Processes -> Process]
      /\ \A outcome \in Outcomes : Returns(p, outcome) => proc' \in [Processes -> Process]
  BY MovesType, ReturnsType
<1>4. CASE SchemaVersion(p)
  BY <1>1, <1>2, <1>3, <1>4, TypeByParts DEF SchemaVersion, TypeOK
<1>5. CASE ApplyMigration(p)
  BY <1>2, <1>3, <1>5, LockOnly, TypeByParts DEF ApplyMigration, OnlyLock, traceVars, TypeOK
<1>6. CASE CreateTablesStep(p)
  BY <1>1, <1>2, <1>3, <1>6, LockOnly, TypeByParts
     DEF CreateTablesStep, CreateTables, OnlyLock, traceVars, TypeOK
<1>7. CASE UserVersionStep(p)
  <2>1. Reserves(p) \/ TimesOut(p) \/ UNCHANGED lock
    BY <1>7 DEF UserVersionStep, UserVersion, UserVersionBusy
  <2>2. DatabaseTypeOK'
    BY <1>7, <2>1, LockOnly DEF UserVersionStep, OnlyLock
  <2>3. proc' \in [Processes -> Process]
    BY <1>1, <1>2, <1>3, <1>7 DEF UserVersionStep
  <2> QED
    BY <1>7, <2>2, <2>3, TypeByParts DEF UserVersionStep, OnlyLock, traceVars, TypeOK
<1>8. CASE CommitMigrationStep(p)
  <2>1. lock' \in [Processes -> Locks]
    BY <1>8, LockStepType DEF CommitMigrationStep, CommitMigration
  <2>2. DatabaseTypeOK'
    BY <1>8, <2>1 DEF CommitMigrationStep, CommitMigration, TypeOK, DatabaseTypeOK
  <2> QED
    BY <1>1, <1>3, <1>8, <2>2, TypeByParts DEF CommitMigrationStep, TypeOK
<1> QED
  BY <1>4, <1>5, <1>6, <1>7, <1>8 DEF OpenStep

\* The commit of every other statement.
LEMMA CommitType ==
  ASSUME TypeOK, NEW p \in Processes, NEW s, NEW t \in Nat,
         NEW status \in Statuses,
         \/ p = s /\ CreateKagenSession(s, t)
         \/ p \in Operations /\ CreateAgentSession(p, s)
         \/ UpdateKagenSessionStatus(p, s, status)
         \/ RecordAttach(p, s, t)
  PROVE  DatabaseTypeOK'
<1>1. /\ lock' \in [Processes -> Locks]
      /\ UNCHANGED <<version, tables>>
  BY LockStepType DEF CreateKagenSession, CreateAgentSession, UpdateKagenSessionStatus,
     RecordAttach
<1>2. session' \in [Starts -> [status : Statuses, lastUsed : Nat]]
  <2>1. "starting" \in Statuses
    BY DEF Statuses
  <2> QED
    BY <2>1 DEF CreateKagenSession, CreateAgentSession, UpdateKagenSessionStatus,
     RecordAttach, TypeOK, DatabaseTypeOK
<1>3. nested' \in [Starts -> SUBSET Operations]
  BY DEF CreateKagenSession, CreateAgentSession, UpdateKagenSessionStatus,
     RecordAttach, TypeOK, DatabaseTypeOK
<1> QED
  BY <1>1, <1>2, <1>3 DEF TypeOK, DatabaseTypeOK

LEMMA StartType ==
  ASSUME TypeOK, NEW p \in Starts, StartStep(p)
  PROVE  TypeOK'
<1>1. /\ WorkSteps \subseteq Steps /\ EndSteps \subseteq Steps
      /\ "error" \in Outcomes /\ Statuses = {"none", "starting", "ready", "failed"}
      /\ p \in Processes /\ p \in Operations
      /\ {"forgejo_import", "prepare_agent_state"} \subseteq TraceSteps
      /\ {"forgejo_import", "provision", "commit_session", "new_forgejo_service",
          "commit_ready", "record_attach"} \subseteq WorkSteps
      /\ {"commit_failed", "complete", "collect"} \subseteq EndSteps
  BY Kinds DEF Steps, WorkSteps, EndSteps, Outcomes, Statuses, TraceSteps
<1>2. /\ \A step \in Steps : Moves(p, step) => proc' \in [Processes -> Process]
      /\ Returns(p, "error") \/ Fails(p) => proc' \in [Processes -> Process]
  BY <1>1, MovesType, ReturnsType, FailsType
<1>3. \A step \in TraceSteps : StepFails(p, step) => trace' \in [Operations -> Trace]
  BY <1>1, StepFailsType
<1>4. trace \in [Operations -> Trace] /\ now \in Nat
  BY DEF TypeOK, TraceTypeOK
<1>5. CASE StartBegins(p) \/ PreflightConfig(p)
  BY <1>1, <1>5, BeginningsType
<1>6. CASE InsertSession(p)
  <2>1. (Reserves(p) \/ TimesOut(p)) /\ proc' \in [Processes -> Process]
    BY <1>1, <1>2, <1>6 DEF InsertSession, Writes
  <2> QED
    BY <1>1, <1>4, <1>6, <2>1, LockOnly, TypeByParts DEF InsertSession, OnlyLock, traceVars
<1>7. CASE CommitSession(p)
  <2>1. DatabaseTypeOK' /\ now' \in Nat
    BY <1>1, <1>4, <1>7, CommitType DEF CommitSession
  <2>2. [proc[p] EXCEPT !.step = "new_forgejo_service", !.target = p] \in Process
    BY <1>1 DEF TypeOK, Process
  <2>3. proc' \in [Processes -> Process]
    BY <1>7, <2>2 DEF CommitSession, TypeOK
  <2> QED
    BY <1>7, <2>1, <2>3, TypeByParts DEF CommitSession
<1>8. CASE NewForgejoService(p)
  BY <1>1, <1>2, <1>4, <1>8, TypeByParts DEF NewForgejoService
<1>9. CASE ForgejoImport(p)
  <2>1. trace' \in [Operations -> Trace] /\ proc' \in [Processes -> Process]
    BY <1>1, <1>2, <1>3, <1>4, <1>9 DEF ForgejoImport
  <2> QED
    BY <1>4, <1>9, <2>1, TraceOnly, TypeByParts DEF ForgejoImport
<1>10. CASE UpdateReady(p)
  <2>1. trace' \in [Operations -> Trace] /\ proc' \in [Processes -> Process]
    BY <1>1, <1>2, <1>3, <1>4, <1>10 DEF UpdateReady, Waits, Writes
  <2>2. Reserves(p) \/ TimesOut(p)
    BY <1>10 DEF UpdateReady, Waits, Writes
  <2> QED
    BY <1>1, <1>4, <1>10, <2>1, <2>2, LockOnly, TraceOnly, TypeByParts
       DEF UpdateReady, Waits
<1>11. CASE CommitReady(p)
  BY <1>1, <1>2, <1>4, <1>11, CommitType, TypeByParts DEF CommitReady
<1>12. CASE UpdateFailed(p)
  <2>1. [proc[p] EXCEPT !.step = "complete", !.unmarked = TRUE] \in Process
    BY <1>1 DEF TypeOK, Process
  <2>2. (Reserves(p) \/ TimesOut(p)) /\ proc' \in [Processes -> Process]
    BY <1>1, <1>2, <1>12, <2>1 DEF UpdateFailed, Writes, TypeOK
  <2> QED
    BY <1>1, <1>4, <1>12, <2>2, LockOnly, TypeByParts DEF UpdateFailed, OnlyLock, traceVars
<1>13. CASE CommitFailed(p)
  BY <1>1, <1>2, <1>4, <1>13, CommitType, TypeByParts DEF CommitFailed
<1>14. CASE GetSummary(p)
  <2>1. {session[p].status, "none"} \subseteq Statuses
    BY <1>1 DEF TypeOK, DatabaseTypeOK
  <2>2. \A status \in Statuses :
          [proc[p] EXCEPT !.step = "collect", !.seen = status] \in Process
    BY <1>1 DEF TypeOK, Process
  <2>3. PICK status \in Statuses :
               proc' = [proc EXCEPT ![p].step = "collect", ![p].seen = status]
    BY <1>14, <2>1 DEF GetSummary
  <2>4. proc' \in [Processes -> Process]
    BY <2>2, <2>3 DEF TypeOK
  <2> QED
    BY <1>4, <1>14, <2>4, TypeByParts DEF GetSummary
<1> QED
  BY <1>5, <1>6, <1>7, <1>8, <1>9, <1>10, <1>11, <1>12, <1>13, <1>14 DEF StartStep

LEMMA CollectType ==
  ASSUME TypeOK, NEW p \in Operations, NEW d, NEW status \in Statuses,
         CollectFailure(p, d) \/ CollectTrace(p, d) \/ CollectSummary(p, d, status)
  PROVE  artefact' \in [Directories -> [{"start", "attach"} -> Artefacts]]
<1>1. artefact \in [Directories -> [{"start", "attach"} -> Artefacts]]
  BY DEF TypeOK, TraceTypeOK
<1>2. CASE d \notin Directories
  BY <1>1, <1>2 DEF CollectFailure, CollectTrace, CollectSummary
<1>3. CASE d \in Directories
  <2> DEFINE files == artefact[d]
             file == files[Name(p)]
  <2>1. files \in [{"start", "attach"} -> Artefacts] /\ Name(p) \in {"start", "attach"}
    BY <1>1, <1>3 DEF Name
  <2>2. /\ [file EXCEPT !.failure = p] \in Artefacts
        /\ [file EXCEPT !.trace = p] \in Artefacts
        /\ [file EXCEPT !.summary = status] \in Artefacts
    BY <2>1 DEF Artefacts
  <2>3. /\ [files EXCEPT ![Name(p)].failure = p] \in [{"start", "attach"} -> Artefacts]
        /\ [files EXCEPT ![Name(p)].trace = p] \in [{"start", "attach"} -> Artefacts]
        /\ [files EXCEPT ![Name(p)].summary = status] \in [{"start", "attach"} -> Artefacts]
    BY <2>1, <2>2
  <2> HIDE DEF files
  <2> QED
    BY <1>1, <1>3, <2>3 DEF files, CollectFailure, CollectTrace, CollectSummary
<1> QED
  BY <1>2, <1>3

LEMMA OperationType ==
  ASSUME TypeOK, NEW p \in Operations, OperationStep(p)
  PROVE  TypeOK'
<1>1. /\ WorkSteps \subseteq Steps /\ EndSteps \subseteq Steps /\ p \in Processes
      /\ {"provision", "prepare_agent_state", "attach_agent"} \subseteq TraceSteps
      /\ {"insert_agent", "commit_agent", "prepare_agent_state", "update_ready",
          "record_attach", "commit_attach", "attach_agent"} \subseteq WorkSteps
      /\ {"complete", "save", "summary", "collect", "collect_trace", "collect_summary",
          "ended"} \subseteq EndSteps
      /\ {"succeeded", "failed"} \subseteq TraceStatuses
  BY Kinds DEF Steps, WorkSteps, EndSteps, TraceSteps, TraceStatuses
<1>2. /\ \A step \in Steps : Moves(p, step) => proc' \in [Processes -> Process]
      /\ Fails(p) => proc' \in [Processes -> Process]
      /\ GoesOnUnsaved(p) \/ GivesUpCollecting(p) => proc' \in [Processes -> Process]
  BY <1>1, MovesType, FailsType, EndingsType
<1>3. \A step \in TraceSteps : StepFails(p, step) => trace' \in [Operations -> Trace]
  BY StepFailsType
<1>4. /\ trace \in [Operations -> Trace] /\ now \in Nat
      /\ proc[p] \in Process /\ proc \in [Processes -> Process]
  BY <1>1 DEF TypeOK, TraceTypeOK
<1>5. CASE Provision(p)
  <2>1. \A t \in Nat : [proc[p] EXCEPT !.step = "insert_agent", !.usedAt = t] \in Process
    BY <1>1, <1>4 DEF Process
  <2>2. now + 1 \in Nat
    BY <1>4
  <2>3. proc' \in [Processes -> Process]
    BY <1>1, <1>2, <1>4, <1>5, <2>1, <2>2 DEF Provision
  <2>4. trace' \in [Operations -> Trace] /\ now' \in Nat
    BY <1>1, <1>3, <1>4, <1>5 DEF Provision
  <2> QED
    BY <1>5, <2>3, <2>4, TraceOnly, TypeByParts DEF Provision
<1>6. CASE InsertAgent(p) \/ RecordAttachBegins(p)
  <2>1. /\ trace' \in [Operations -> Trace] /\ proc' \in [Processes -> Process]
        /\ Reserves(p) \/ TimesOut(p)
    BY <1>1, <1>2, <1>3, <1>4, <1>6 DEF InsertAgent, RecordAttachBegins, Waits, Writes
  <2> QED
    BY <1>1, <1>4, <1>6, <2>1, LockOnly, TraceOnly, TypeByParts
       DEF InsertAgent, RecordAttachBegins, Waits
<1>7. CASE CommitAgent(p)
  <2>1. 0 \in Nat /\ "none" \in Statuses
    BY DEF Statuses
  <2>2. DatabaseTypeOK'
    BY <1>1, <1>7, <2>1, CommitType DEF CommitAgent
  <2> QED
    BY <1>1, <1>2, <1>4, <1>7, <2>2, TypeByParts DEF CommitAgent
<1>8. CASE PrepareAgentState(p) \/ AttachAgent(p)
  <2>1. trace' \in [Operations -> Trace] /\ proc' \in [Processes -> Process]
    BY <1>1, <1>2, <1>3, <1>4, <1>8 DEF PrepareAgentState, AttachAgent
  <2> QED
    BY <1>4, <1>8, <2>1, TraceOnly, TypeByParts DEF PrepareAgentState, AttachAgent
<1>9. CASE CommitAttach(p)
  <2>1. [proc[p] EXCEPT !.step = "attach_agent", !.recordedAt = now] \in Process
    BY <1>1, <1>4 DEF Process
  <2>2. proc' \in [Processes -> Process]
    BY <1>4, <1>9, <2>1 DEF CommitAttach
  <2>3. DatabaseTypeOK'
    BY <1>1, <1>4, <1>9, CommitType DEF CommitAttach, Process
  <2> QED
    BY <1>4, <1>9, <2>2, <2>3, TypeByParts DEF CommitAttach
<1>10. CASE CompleteOperation(p)
  <2>1. \A status \in TraceStatuses :
          [trace[p] EXCEPT !.finished = TRUE, !.status = status] \in Trace
    BY <1>4 DEF Trace
  <2>2. trace' \in [Operations -> Trace]
    BY <1>1, <1>4, <1>10, <2>1 DEF CompleteOperation, Complete
  <2>3. latest' \in [Starts -> Operations \union {None, Empty, Partial, Mixed}]
    BY <1>10 DEF CompleteOperation, SaveTruncates, TypeOK, TraceTypeOK
  <2>6. Saving(proc[p].target) \union {p} \subseteq Operations
    BY DEF Saving
  <2>7. writers' \in [Starts -> SUBSET Operations]
    BY <1>10, <2>6 DEF CompleteOperation, SaveTruncates, TypeOK, TraceTypeOK
  <2>4. proc' \in [Processes -> Process]
    BY <1>1, <1>2, <1>10 DEF CompleteOperation
  <2>5. TraceTypeOK'
    BY <1>10, <2>2, <2>3, <2>7 DEF CompleteOperation, TypeOK, TraceTypeOK
  <2> QED
    BY <1>4, <1>10, <2>4, <2>5, TypeByParts DEF CompleteOperation
<1>11. CASE Save(p)
  <2>1. /\ latest' \in [Starts -> Operations \union {None, Empty, Partial, Mixed}]
        /\ writers' = writers
    BY <1>11 DEF Save, SaveWrites, SaveFails, TypeOK, TraceTypeOK
  <2>2. AfterSave(p) \in EndSteps
    BY <1>1, <1>4 DEF AfterSave, Operations
  <2>3. proc' \in [Processes -> Process]
    BY <1>1, <1>2, <1>11, <2>2 DEF Save
  <2>4. TraceTypeOK'
    BY <1>11, <2>1 DEF Save, TypeOK, TraceTypeOK
  <2> QED
    BY <1>4, <1>11, <2>3, <2>4, TypeByParts DEF Save
<1>12. CASE Collect(p)
  <2>1. proc[p].seen \in Statuses
    BY <1>4 DEF Process
  <2>2. artefact' \in [Directories -> [{"start", "attach"} -> Artefacts]]
    BY <1>12, <2>1, CollectType DEF Collect, TypeOK, TraceTypeOK
  <2>3. proc' \in [Processes -> Process]
    BY <1>1, <1>2, <1>12 DEF Collect
  <2>4. TraceTypeOK'
    BY <1>12, <2>2 DEF Collect, TypeOK, TraceTypeOK
  <2> QED
    BY <1>4, <1>12, <2>3, <2>4, TypeByParts DEF Collect
<1> QED
  BY <1>5, <1>6, <1>7, <1>8, <1>9, <1>10, <1>11, <1>12 DEF OperationStep

\* A doctor that reads a trace knows whose.
DoctorInv == \A d \in Doctors : At(d, "load") => proc[d].target # None

LEMMA OtherType ==
  ASSUME TypeOK, DoctorInv, NEW p \in Processes,
         \/ Kill(p)
         \/ p \in Attaches /\ AttachResolves(p)
         \/ p \in Doctors /\ DoctorStep(p)
  PROVE  TypeOK'
<1>1. /\ {"provision", "load", "ended"} \subseteq Steps
      /\ {"killed", "torn", "refused", "error"} \subseteq Outcomes
      /\ "ready" \in Statuses
      /\ proc[p] \in Process /\ proc \in [Processes -> Process] /\ now \in Nat
  BY DEF Steps, WorkSteps, EndSteps, Outcomes, Statuses, TypeOK
<1>2. \A outcome \in Outcomes : Returns(p, outcome) => proc' \in [Processes -> Process]
  BY ReturnsType
<1>3. CASE Kill(p)
  <2>1. \A outcome \in Outcomes :
          [proc[p] EXCEPT !.step = "ended", !.outcome = outcome] \in Process
    BY <1>1 DEF Process
  <2>2. proc' \in [Processes -> Process]
    BY <1>1, <1>3, <2>1 DEF Kill, Ends
  <2> QED
    BY <1>1, <1>3, <2>2, LockOnly, TypeByParts DEF Kill, OnlyLock, traceVars
<1>4. CASE p \in Attaches /\ AttachResolves(p)
  <2>1. \A s \in Starts :
          [proc[p] EXCEPT !.step = "provision", !.target = s, !.seen = "ready"] \in Process
    BY <1>1 DEF Process
  <2>2. proc' \in [Processes -> Process]
    BY <1>1, <1>2, <1>4, <2>1 DEF AttachResolves
  <2> QED
    BY <1>1, <1>4, <2>2, TypeByParts DEF AttachResolves
<1>5. CASE p \in Doctors /\ DoctorResolves(p)
  <2>1. \A s \in Starts : session[s].status \in Statuses
    BY DEF TypeOK, DatabaseTypeOK
  <2>2. \A s \in Starts, past \in SUBSET Operations :
          [proc[p] EXCEPT !.step = "load", !.target = s, !.seen = session[s].status,
                          !.past = past] \in Process
    BY <1>1, <2>1 DEF Process
  <2>4. {q \in Operations : trace[q].finished} \in SUBSET Operations
    OBVIOUS
  <2>3. proc' \in [Processes -> Process]
    <3>1. CASE Returns(p, "refused")
      BY <1>1, <1>2, <3>1
    <3>2. CASE ~Returns(p, "refused")
      <4>1. PICK s \in Starts :
                   proc' = [proc EXCEPT ![p].step = "load", ![p].target = s,
                                        ![p].seen = session[s].status,
                                        ![p].past = {q \in Operations : trace[q].finished}]
        BY <1>5, <3>2 DEF DoctorResolves
      <4> QED
        BY <1>1, <2>2, <2>4, <4>1
    <3> QED
      BY <3>1, <3>2
  <2> QED
    BY <1>1, <1>5, <2>3, TypeByParts DEF DoctorResolves
<1>6. CASE p \in Doctors /\ LoadLatestOperation(p)
  <2>1. proc[p].target \in Starts
    BY <1>1, <1>6 DEF LoadLatestOperation, DoctorInv, Process
  <2>2. Loads(proc[p].target) => latest[proc[p].target] \in Operations \union {None}
    BY <2>1 DEF Loads, TypeOK, TraceTypeOK
  <2>3. \A q \in Operations \union {None} :
          [proc[p] EXCEPT !.step = "ended", !.shown = q] \in Process
    BY <1>1 DEF Process
  <2>4. proc' \in [Processes -> Process]
    BY <1>1, <1>2, <1>6, <2>2, <2>3 DEF LoadLatestOperation
  <2> QED
    BY <1>1, <1>6, <2>4, TypeByParts DEF LoadLatestOperation
<1> QED
  BY <1>3, <1>4, <1>5, <1>6 DEF DoctorStep

LEMMA TypeStep ==
  ASSUME TypeOK, DoctorInv, NEW p \in Processes, StepOf(p)
  PROVE  TypeOK'
  BY OpenType, StartType, OperationType, OtherType, BeginningsType DEF StepOf

-----------------------------------------------------------------------------
(* What a step leaves alone, and what the moves do to their process. *)

\* The fields of a process that a plain move keeps.
Kept(p) ==
  /\ proc'[p].target = proc[p].target /\ proc'[p].usedAt = proc[p].usedAt
  /\ proc'[p].recordedAt = proc[p].recordedAt /\ proc'[p].unmarked = proc[p].unmarked
  /\ proc'[p].seen = proc[p].seen /\ proc'[p].shown = proc[p].shown
  /\ proc'[p].past = proc[p].past /\ (proc[p].unsaved => proc'[p].unsaved)

LEMMA MovesEffect ==
  ASSUME TypeOK, NEW p \in Processes, NEW step, Moves(p, step)
  PROVE  Kept(p) /\ proc'[p].step = step /\ proc'[p].outcome = proc[p].outcome
  BY DEF TypeOK, Process, Moves, Kept

LEMMA ReturnsEffect ==
  ASSUME TypeOK, NEW p \in Processes, NEW outcome, Returns(p, outcome)
  PROVE  /\ Kept(p) /\ proc'[p].outcome = outcome
         /\ proc'[p].step = IF p \in Doctors THEN "ended" ELSE "complete"
  BY DEF TypeOK, Process, Returns, Kept

LEMMA FailsEffect ==
  ASSUME TypeOK, NEW p \in Processes, Fails(p)
  PROVE  /\ Kept(p) /\ proc'[p].outcome = "error"
         /\ proc'[p].step = IF p \in Starts THEN "update_failed" ELSE "complete"
  BY DEF TypeOK, Process, Fails, Kept

LEMMA EndsEffect ==
  ASSUME TypeOK, NEW p \in Processes, NEW outcome, Ends(p, outcome)
  PROVE  Kept(p) /\ proc'[p].outcome = outcome /\ proc'[p].step = "ended"
  BY DEF TypeOK, Process, Ends, Kept

LEMMA UnsavedEffect ==
  ASSUME TypeOK, NEW p \in Processes, GoesOnUnsaved(p)
  PROVE  /\ Kept(p) /\ proc'[p].step = AfterSave(p) /\ proc'[p].outcome = proc[p].outcome
         /\ proc'[p].unsaved
  BY DEF TypeOK, Process, GoesOnUnsaved, Kept

LEMMA UncollectedEffect ==
  ASSUME TypeOK, NEW p \in Processes, GivesUpCollecting(p)
  PROVE  /\ Kept(p) /\ proc'[p].step = "ended" /\ proc'[p].outcome = proc[p].outcome
         /\ proc'[p].uncollected
  BY DEF TypeOK, Process, GivesUpCollecting, Kept

LEMMA AfterSaveSteps ==
  ASSUME NEW p \in Operations
  PROVE  AfterSave(p) \in {"ended", "summary", "collect"}
  BY DEF AfterSave, Operations

\* The last three actions of an operation keep all but its step and what was refused.
LEMMA FinalEffect ==
  ASSUME TypeOK, NEW p \in Operations, CompleteOperation(p) \/ Save(p) \/ Collect(p)
  PROVE  /\ Kept(p) /\ proc'[p].outcome = proc[p].outcome
         /\ proc[p].step \in {"complete", "save", "collect", "collect_trace", "collect_summary"}
         /\ CompleteOperation(p) =>
              /\ At(p, "complete")
              /\ \/ proc[p].target # None /\ proc'[p].step = "save"
                 \/ proc[p].target # None /\ proc'[p].step = AfterSave(p) /\ proc'[p].unsaved
                 \/ proc[p].target = None /\ proc'[p].step = "ended"
                 \/ /\ proc[p].target = None /\ proc'[p].step = "collect"
                    /\ trace[p].failed = "preflight_configuration"
         /\ Save(p) => At(p, "save") /\ proc'[p].step = AfterSave(p)
         /\ Collect(p) =>
              \/ At(p, "collect") /\ proc'[p].step = "collect_trace"
              \/ /\ At(p, "collect_trace")
                 /\ proc'[p].step = IF proc[p].seen = "none" THEN "ended" ELSE "collect_summary"
              \/ At(p, "collect_summary") /\ proc'[p].step = "ended"
              \/ /\ proc[p].step \in {"collect", "collect_trace", "collect_summary"}
                 /\ proc'[p].step = "ended" /\ proc'[p].uncollected
<1>0. p \in Processes
  BY Kinds
<1>1. CASE CompleteOperation(p)
  BY <1>0, <1>1, MovesEffect, UnsavedEffect DEF CompleteOperation, Save, Collect, At
<1>2. CASE Save(p)
  BY <1>0, <1>2, MovesEffect, UnsavedEffect DEF CompleteOperation, Save, Collect, At
<1>3. CASE Collect(p)
  BY <1>0, <1>3, MovesEffect, UncollectedEffect DEF CompleteOperation, Save, Collect, At
<1> QED
  BY <1>1, <1>2, <1>3

LEMMA SummaryEffect ==
  ASSUME TypeOK, NEW p \in Starts, GetSummary(p)
  PROVE  /\ proc[p].step = "summary" /\ proc'[p].step = "collect"
         /\ proc'[p].seen \in {session[p].status, "none"}
         /\ proc'[p].outcome = proc[p].outcome /\ proc'[p].target = proc[p].target
         /\ proc'[p].unmarked = proc[p].unmarked /\ proc'[p].unsaved = proc[p].unsaved
         /\ proc'[p].usedAt = proc[p].usedAt /\ proc'[p].recordedAt = proc[p].recordedAt
         /\ UNCHANGED <<dbVars, traceVars, now>>
<1>1. p \in Processes
  BY Kinds
<1> QED
  BY <1>1 DEF GetSummary, TypeOK, Process, At

LEMMA TakesEffect ==
  ASSUME TypeOK, NEW p \in Processes, NEW l, Takes(p, l)
  PROVE  lock'[p] = l
  BY DEF TypeOK, DatabaseTypeOK, Takes

LEMMA StepFailsEffect ==
  ASSUME TypeOK, NEW p \in Operations, NEW step, StepFails(p, step)
  PROVE  /\ trace'[p].status = "failed" /\ trace'[p].failed = step
         /\ trace'[p].finished = trace[p].finished
  BY DEF TypeOK, TraceTypeOK, Trace, StepFails

\* What a doctor reads of a session and of the traces that are complete then.
LEMMA ResolvesEffect ==
  ASSUME TypeOK, NEW d \in Processes, DoctorResolves(d)
  PROVE  \/ Returns(d, "refused")
         \/ /\ proc'[d].step = "load" /\ proc'[d].outcome = proc[d].outcome
            /\ proc'[d].target \in Starts
            /\ proc'[d].seen = session[proc'[d].target].status /\ proc'[d].seen # "none"
            /\ proc'[d].past = {q \in Operations : trace[q].finished}
            /\ proc'[d].shown = proc[d].shown
<1>1. ASSUME NEW s \in Starts, session[s].status # "none",
             proc' = [proc EXCEPT ![d].step = "load", ![d].target = s,
                                  ![d].seen = session[s].status,
                                  ![d].past = {q \in Operations : trace[q].finished}]
      PROVE  /\ proc'[d].step = "load" /\ proc'[d].outcome = proc[d].outcome
             /\ proc'[d].target \in Starts
             /\ proc'[d].seen = session[proc'[d].target].status /\ proc'[d].seen # "none"
             /\ proc'[d].past = {q \in Operations : trace[q].finished}
             /\ proc'[d].shown = proc[d].shown
  BY <1>1 DEF TypeOK, Process
<1> QED
  BY <1>1 DEF DoctorResolves

\* A step changes nothing of the other processes.
LEMMA Frame ==
  ASSUME TypeOK, NEW p \in Processes, StepOf(p), NEW q \in Processes \ {p}
  PROVE  /\ proc'[q] = proc[q] /\ lock'[q] = lock[q]
         /\ q \in Operations => trace'[q] = trace[q]
<1>1. /\ proc \in [Processes -> Process] /\ lock \in [Processes -> Locks]
      /\ trace \in [Operations -> Trace]
  BY DEF TypeOK, DatabaseTypeOK, TraceTypeOK
<1>2. /\ \A step : Moves(p, step) => proc'[q] = proc[q]
      /\ \A outcome : Returns(p, outcome) \/ Ends(p, outcome) => proc'[q] = proc[q]
      /\ Fails(p) \/ GoesOnUnsaved(p) \/ GivesUpCollecting(p) => proc'[q] = proc[q]
  BY <1>1 DEF Moves, Returns, Ends, Fails, GoesOnUnsaved, GivesUpCollecting
<1>3. \A l : Takes(p, l) => lock'[q] = lock[q]
  BY <1>1 DEF Takes
<1>4. \A step : StepFails(p, step) => \A r \in Operations \ {p} : trace'[r] = trace[r]
  BY <1>1 DEF StepFails
<1>5. CASE OpenStep(p)
  BY <1>2, <1>3, <1>5 DEF OpenStep, SchemaVersion, ApplyMigration, CreateTablesStep,
     UserVersionStep, CommitMigrationStep, dbVars, traceVars, TablesExist, OnlyLock,
     CreateTables, Reserves, TimesOut, UserVersion, UserVersionBusy, CommitMigration, Releases
<1>6. CASE Kill(p)
  BY <1>2, <1>3, <1>6 DEF Kill, Releases, OnlyLock, traceVars
<1>7. CASE p \in Starts /\ StartStep(p)
  <2>1. proc'[q] = proc[q]
    BY <1>1, <1>2, <1>7 DEF StartStep, StartBegins, PreflightConfig, InsertSession,
       CommitSession, NewForgejoService, ForgejoImport, UpdateReady, CommitReady,
       UpdateFailed, CommitFailed, GetSummary, Waits, Writes
  <2>2. lock'[q] = lock[q]
    BY <1>3, <1>7 DEF StartStep, StartBegins, PreflightConfig, InsertSession,
       CommitSession, NewForgejoService, ForgejoImport, UpdateReady, CommitReady,
       UpdateFailed, CommitFailed, GetSummary, Waits, Writes, dbVars, OnlyLock, Reserves,
       TimesOut, Releases, CreateKagenSession, UpdateKagenSessionStatus
  <2>3. q \in Operations => trace'[q] = trace[q]
    BY <1>4, <1>7 DEF StartStep, StartBegins, PreflightConfig, InsertSession,
       CommitSession, NewForgejoService, ForgejoImport, UpdateReady, CommitReady,
       UpdateFailed, CommitFailed, GetSummary, Waits, Writes, traceVars, OnlyLock
  <2> QED
    BY <2>1, <2>2, <2>3
<1>8. CASE p \in Operations /\ OperationStep(p)
  <2>1. proc'[q] = proc[q]
    BY <1>1, <1>2, <1>8 DEF OperationStep, Provision, InsertAgent, CommitAgent,
       PrepareAgentState, RecordAttachBegins, CommitAttach, AttachAgent,
       CompleteOperation, Save, Collect, Waits, Writes
  <2>2. lock'[q] = lock[q]
    BY <1>3, <1>8 DEF OperationStep, Provision, InsertAgent, CommitAgent,
       PrepareAgentState, RecordAttachBegins, CommitAttach, AttachAgent,
       CompleteOperation, Save, Collect, Waits, Writes, dbVars, Reserves, TimesOut,
       Releases, CreateAgentSession, RecordAttach
  <2>3. q \in Operations => trace'[q] = trace[q]
    BY <1>1, <1>4, <1>8 DEF OperationStep, Provision, InsertAgent, CommitAgent,
       PrepareAgentState, RecordAttachBegins, CommitAttach, AttachAgent,
       CompleteOperation, Save, Collect, Waits, Writes, traceVars, Complete
  <2> QED
    BY <2>1, <2>2, <2>3
<1>9. CASE AttachResolves(p) \/ OtherBegins(p) \/ DoctorStep(p)
  BY <1>1, <1>2, <1>9 DEF AttachResolves, OtherBegins, DoctorStep, DoctorResolves,
     LoadLatestOperation, dbVars, traceVars
<1> QED
  BY <1>5, <1>6, <1>7, <1>8, <1>9 DEF StepOf

-----------------------------------------------------------------------------
(* Locks and the schema. *)

StoreSteps == WorkSteps \ {"preflight_configuration"}

\* A transaction holds the lock of its last statement; a command that works, or was
\* refused by a transaction of its own, has seen the schema.
LockInv(p) ==
  /\ proc[p].step = "user_version" => lock[p] \in {"shared", "reserved"}
  /\ proc[p].step \in CommitSteps => lock[p] = "reserved"
  /\ proc[p].step \notin CommitSteps \union {"user_version"} => lock[p] = "none"
  /\ lock[p] = "shared" => tables
  /\ proc[p].step \in StoreSteps => version = 1
  /\ proc[p].outcome = "locked" => version = 1

SchemaInv ==
  /\ version = 1 <=> tables
  /\ \A p \in Processes : LockInv(p)
  /\ \A p, q \in Processes : lock[p] = "reserved" /\ lock[q] = "reserved" => p = q

LEMMA SchemaGrows ==
  ASSUME TypeOK, SchemaInv, NEW p \in Processes, StepOf(p)
  PROVE  /\ version' = 1 <=> tables'
         /\ version = 1 => version' = 1
<1>1. CASE UNCHANGED <<version, tables>>
  BY <1>1 DEF SchemaInv
<1>2. CASE CommitMigrationStep(p)
  BY <1>2 DEF CommitMigrationStep, CommitMigration
<1>3. CASE ~CommitMigrationStep(p)
  <2>1. ASSUME OpenStep(p) \/ Kill(p)
        PROVE  UNCHANGED <<version, tables>>
    BY <1>3, <2>1 DEF OpenStep, SchemaVersion, ApplyMigration, CreateTablesStep,
       UserVersionStep, dbVars, OnlyLock, Kill
  <2>2. ASSUME p \in Starts /\ StartStep(p)
        PROVE  UNCHANGED <<version, tables>>
    BY <2>2 DEF StartStep, StartBegins, PreflightConfig, InsertSession,
       CommitSession, NewForgejoService, ForgejoImport, UpdateReady, CommitReady,
       UpdateFailed, CommitFailed, GetSummary, Waits, dbVars, OnlyLock,
       CreateKagenSession, UpdateKagenSessionStatus
  <2>3. ASSUME p \in Operations /\ OperationStep(p)
        PROVE  UNCHANGED <<version, tables>>
    BY <2>3 DEF OperationStep, Provision, InsertAgent, CommitAgent,
       PrepareAgentState, RecordAttachBegins, CommitAttach, AttachAgent,
       CompleteOperation, Save, Collect, Waits, dbVars, CreateAgentSession, RecordAttach
  <2>4. ASSUME AttachResolves(p) \/ OtherBegins(p) \/ DoctorStep(p)
        PROVE  UNCHANGED <<version, tables>>
    BY <2>4 DEF AttachResolves, OtherBegins, DoctorStep, DoctorResolves,
       LoadLatestOperation, dbVars
  <2>5. UNCHANGED <<version, tables>>
    BY <1>3, <2>1, <2>2, <2>3, <2>4 DEF StepOf
  <2> QED
    BY <1>1, <2>5
<1> QED
  BY <1>2, <1>3

\* The lock of a process that commits is given back; nothing else changes it there.
LEMMA CommitReleases ==
  ASSUME TypeOK, NEW p \in Processes, NEW s, NEW t, NEW status,
         \/ CreateKagenSession(s, t) /\ p = s
         \/ CreateAgentSession(p, s) \/ UpdateKagenSessionStatus(p, s, status)
         \/ RecordAttach(p, s, t) \/ CommitMigration(p)
  PROVE  lock'[p] = "none" /\ CanCommit(p)
  BY TakesEffect DEF CreateKagenSession, CreateAgentSession, UpdateKagenSessionStatus,
     RecordAttach, CommitMigration, Releases

LEMMA OwnLock ==
  ASSUME TypeOK, SchemaInv, NEW p \in Processes, StepOf(p)
  PROVE  LockInv(p)'
<1>0. /\ LockInv(p) /\ version \in {0, 1}
      /\ version' = 1 <=> tables'
      /\ version = 1 => version' = 1
      /\ version = 1 <=> tables
  BY SchemaGrows DEF SchemaInv, TypeOK, DatabaseTypeOK
<1>1. \A step : Moves(p, step) =>
        proc'[p].step = step /\ proc'[p].outcome = proc[p].outcome
  BY MovesEffect
<1>2. \A outcome : Returns(p, outcome) =>
        proc'[p].step \in {"ended", "complete"} /\ proc'[p].outcome = outcome
  BY ReturnsEffect
<1>3. Fails(p) => proc'[p].step \in {"update_failed", "complete"} /\ proc'[p].outcome = "error"
  BY FailsEffect
<1>4. \A l : Takes(p, l) => lock'[p] = l
  BY TakesEffect
<1>5. proc[p].step \in StoreSteps => proc[p].step \in WorkSteps
  BY DEF StoreSteps
<1>6. CASE OpenStep(p)
  <2>1. CASE SchemaVersion(p)
    BY <1>0, <1>1, <2>1 DEF SchemaVersion, LockInv, dbVars, At, Opened, CommitSteps,
       StoreSteps, WorkSteps
  <2>2. CASE ApplyMigration(p)
    BY <1>0, <1>1, <1>4, <2>2 DEF ApplyMigration, TablesExist, LockInv, OnlyLock, At,
       CommitSteps, StoreSteps, WorkSteps
  <2>3. CASE CreateTablesStep(p)
    BY <1>0, <1>1, <1>2, <1>4, <2>3 DEF CreateTablesStep, CreateTables, Reserves, TimesOut,
       LockInv, OnlyLock, At, CommitSteps, StoreSteps, WorkSteps
  <2>4. CASE UserVersionStep(p)
    BY <1>0, <1>1, <1>2, <1>4, <2>4 DEF UserVersionStep, UserVersion, UserVersionBusy,
       Reserves, TimesOut, LockInv, OnlyLock, At, CommitSteps, StoreSteps, WorkSteps
  <2>5. CASE CommitMigrationStep(p)
    BY <1>0, <1>1, <2>5, CommitReleases DEF CommitMigrationStep, CommitMigration, Opened,
       LockInv, At, CommitSteps, StoreSteps, WorkSteps
  <2> QED
    BY <1>6, <2>1, <2>2, <2>3, <2>4, <2>5 DEF OpenStep
<1>7. CASE Kill(p)
  BY <1>0, <1>4, <1>7, EndsEffect DEF Kill, Releases, OnlyLock, LockInv, CommitSteps,
     StoreSteps, WorkSteps
<1>8. CASE p \in Starts /\ StartStep(p)
  <2>1. CASE StartBegins(p) \/ PreflightConfig(p) \/ NewForgejoService(p) \/ ForgejoImport(p)
    BY <1>0, <1>1, <1>2, <1>3, <2>1 DEF StartBegins, PreflightConfig, NewForgejoService,
       ForgejoImport, LockInv, dbVars, At, CommitSteps, StoreSteps, WorkSteps
  <2>2. CASE InsertSession(p) \/ UpdateReady(p)
    BY <1>0, <1>1, <1>2, <1>3, <1>4, <2>2 DEF InsertSession, UpdateReady, Waits, Writes,
       Reserves, TimesOut, LockInv, OnlyLock, At, CommitSteps, StoreSteps, WorkSteps
  <2>3. CASE CommitSession(p)
    <3>1. proc'[p].step = "new_forgejo_service" /\ proc'[p].outcome = proc[p].outcome
      BY <2>3 DEF CommitSession, TypeOK, Process
    <3> QED
      BY <1>0, <2>3, <3>1, CommitReleases DEF CommitSession, CreateKagenSession, LockInv, At,
         CommitSteps, StoreSteps, WorkSteps
  <2>4. CASE CommitReady(p) \/ CommitFailed(p)
    BY <1>0, <1>1, <2>4, CommitReleases DEF CommitReady, CommitFailed,
       UpdateKagenSessionStatus, LockInv, At, CommitSteps, StoreSteps, WorkSteps
  <2>5. CASE UpdateFailed(p)
    <3>1. \/ Moves(p, "commit_failed") /\ Reserves(p)
          \/ /\ proc'[p].step = "complete" /\ proc'[p].outcome = proc[p].outcome
             /\ TimesOut(p)
      BY <2>5 DEF UpdateFailed, Writes, TypeOK, Process
    <3> QED
      BY <1>0, <1>1, <1>4, <2>5, <3>1 DEF UpdateFailed, Reserves, TimesOut, LockInv, OnlyLock,
         At, CommitSteps, StoreSteps, WorkSteps
  <2>6. CASE GetSummary(p)
    <3>1. proc'[p].step = "collect" /\ proc'[p].outcome = proc[p].outcome
      BY <2>6 DEF GetSummary, TypeOK, Process
    <3> QED
      BY <1>0, <2>6, <3>1 DEF GetSummary, LockInv, dbVars, At, CommitSteps, StoreSteps,
         WorkSteps
  <2> QED
    BY <1>8, <2>1, <2>2, <2>3, <2>4, <2>5, <2>6 DEF StartStep
<1>9. CASE p \in Operations /\ OperationStep(p)
  <2>1. CASE Provision(p)
    <3>1. \/ proc'[p].step = "insert_agent" /\ proc'[p].outcome = proc[p].outcome
          \/ Fails(p)
      BY <2>1 DEF Provision, TypeOK, Process
    <3> QED
      BY <1>0, <1>3, <2>1, <3>1 DEF Provision, LockInv, dbVars, At, CommitSteps, StoreSteps,
         WorkSteps
  <2>2. CASE InsertAgent(p) \/ RecordAttachBegins(p)
    BY <1>0, <1>1, <1>3, <1>4, <2>2 DEF InsertAgent, RecordAttachBegins, Waits, Writes,
       Reserves, TimesOut, LockInv, At, CommitSteps, StoreSteps, WorkSteps
  <2>3. CASE PrepareAgentState(p) \/ AttachAgent(p)
    BY <1>0, <1>1, <1>3, <2>3 DEF PrepareAgentState, AttachAgent, LockInv, dbVars, At,
       CommitSteps, StoreSteps, WorkSteps
  <2>4. CASE CommitAgent(p)
    BY <1>0, <1>1, <1>4, <2>4 DEF CommitAgent, CreateAgentSession, Releases, LockInv, At,
       CommitSteps, StoreSteps, WorkSteps
  <2>5. CASE CommitAttach(p)
    <3>1. proc'[p].step = "attach_agent" /\ proc'[p].outcome = proc[p].outcome
      BY <2>5 DEF CommitAttach, TypeOK, Process
    <3> QED
      BY <1>0, <2>5, <3>1, CommitReleases DEF CommitAttach, RecordAttach, LockInv, At,
         CommitSteps, StoreSteps, WorkSteps
  <2>6. CASE CompleteOperation(p) \/ Save(p) \/ Collect(p)
    <3>1. AfterSave(p) \in {"ended", "summary", "collect"}
      BY <1>9, AfterSaveSteps
    <3>2. UNCHANGED dbVars
      BY <2>6 DEF CompleteOperation, Save, Collect
    <3> QED
      BY <1>0, <1>9, <2>6, <3>1, <3>2, FinalEffect DEF LockInv, dbVars, At, CommitSteps,
         StoreSteps, WorkSteps
  <2> QED
    BY <1>9, <2>1, <2>2, <2>3, <2>4, <2>5, <2>6 DEF OperationStep
<1>10. CASE OtherBegins(p)
  BY <1>0, <1>1, <1>2, <1>10 DEF OtherBegins, LockInv, dbVars, At, CommitSteps, StoreSteps,
     WorkSteps
<1>11. CASE AttachResolves(p) \/ DoctorStep(p)
  <2>1. \/ /\ proc'[p].step \in {"provision", "load", "ended"}
           /\ proc'[p].outcome = proc[p].outcome
        \/ Returns(p, "error") \/ Returns(p, "refused")
    <3>1. CASE AttachResolves(p)
      BY <3>1 DEF AttachResolves, TypeOK, Process
    <3>2. CASE DoctorResolves(p)
      BY <3>2, ResolvesEffect
    <3>3. CASE LoadLatestOperation(p)
      BY <3>3 DEF LoadLatestOperation, TypeOK, Process
    <3> QED
      BY <1>11, <3>1, <3>2, <3>3 DEF DoctorStep
  <2> QED
    BY <1>0, <1>2, <1>11, <2>1 DEF AttachResolves, DoctorStep, DoctorResolves,
       LoadLatestOperation, LockInv, dbVars, At, CommitSteps, StoreSteps, WorkSteps
<1> QED
  BY <1>6, <1>7, <1>8, <1>9, <1>10, <1>11 DEF StepOf

LEMMA SchemaStep ==
  ASSUME TypeOK, SchemaInv, NEW p \in Processes, StepOf(p)
  PROVE  SchemaInv'
<1>1. \A q \in Processes : LockInv(q)'
  <2> SUFFICES ASSUME NEW q \in Processes PROVE LockInv(q)'
    OBVIOUS
  <2>1. CASE q = p
    BY <2>1, OwnLock
  <2>2. CASE q # p
    BY <2>2, Frame, SchemaGrows DEF SchemaInv, LockInv
  <2> QED
    BY <2>1, <2>2
<1>2. ASSUME lock'[p] = "reserved", NEW q \in Processes \ {p}, lock[q] = "reserved"
      PROVE  FALSE
  <2>1. lock[p] = "none" \/ lock[p] = "shared"
    BY <1>2 DEF SchemaInv, TypeOK, DatabaseTypeOK, Locks
  <2>2. \A l \in {"none", "shared"} : ~Takes(p, l)
    BY <1>2, TakesEffect
  <2>3. ~Reserves(p) /\ ~TimesOut(p) /\ ~Releases(p) /\ ~CanCommit(p)
    BY <1>2, <2>1, <2>2 DEF Reserves, TimesOut, Releases, OtherHas, CanCommit
  <2>4. lock' # lock
    BY <1>2, <2>1
  <2>5. ~OpenStep(p) /\ ~Kill(p)
    BY <2>1, <2>2, <2>3, <2>4 DEF OpenStep, SchemaVersion, ApplyMigration, CreateTablesStep,
       UserVersionStep, CommitMigrationStep, dbVars, CreateTables, TablesExist, UserVersion,
       UserVersionBusy, CommitMigration, Kill
  <2>6. ~StartStep(p)
    BY <2>3, <2>4 DEF StartStep, StartBegins, PreflightConfig, InsertSession,
       CommitSession, NewForgejoService, ForgejoImport, UpdateReady, CommitReady,
       UpdateFailed, CommitFailed, GetSummary, Waits, Writes, dbVars,
       CreateKagenSession, UpdateKagenSessionStatus
  <2>7. ~OperationStep(p)
    BY <2>3, <2>4 DEF OperationStep, Provision, InsertAgent, CommitAgent,
       PrepareAgentState, RecordAttachBegins, CommitAttach, AttachAgent,
       CompleteOperation, Save, Collect, Waits, Writes, dbVars, CreateAgentSession,
       RecordAttach
  <2>8. ~AttachResolves(p) /\ ~OtherBegins(p) /\ ~DoctorStep(p)
    BY <2>4 DEF AttachResolves, OtherBegins, DoctorStep, DoctorResolves,
       LoadLatestOperation, dbVars
  <2> QED
    BY <2>5, <2>6, <2>7, <2>8 DEF StepOf
<1>3. \A q \in Processes \ {p} : lock'[q] = lock[q]
  BY Frame
<1>4. \A q, r \in Processes : lock'[q] = "reserved" /\ lock'[r] = "reserved" => q = r
  BY <1>2, <1>3 DEF SchemaInv
<1> QED
  BY <1>1, <1>4, SchemaGrows DEF SchemaInv

-----------------------------------------------------------------------------
(* Sessions and the agent sessions under them. *)

NewSteps == {"idle", "preflight_configuration", "insert_session", "commit_session"} \union OpenSteps
EarlySteps == {"new_forgejo_service", "forgejo_import", "provision", "insert_agent",
               "commit_agent"}
NestedSteps == {"prepare_agent_state", "update_ready", "commit_ready"}
ReadySteps == {"record_attach", "commit_attach", "attach_agent"}
FailSteps == {"update_failed", "commit_failed"}
LastSteps == {"complete", "save", "summary", "collect", "collect_trace", "collect_summary",
              "ended"}

\* A start and its session.
StartInv(s) ==
  /\ proc[s].step \in NewSteps \union EarlySteps \union NestedSteps \union ReadySteps
                      \union FailSteps \union LastSteps
  /\ proc[s].step \in NewSteps => proc[s].target = None
  /\ proc[s].step \in EarlySteps \union NestedSteps \union ReadySteps \union FailSteps
       => proc[s].target = s
  /\ proc[s].target = None => session[s].status = "none" /\ nested[s] = {}
  /\ proc[s].target # None => proc[s].target = s /\ session[s].status # "none"
  /\ proc[s].step \in EarlySteps => session[s].status = "starting" /\ s \notin nested[s]
  /\ proc[s].step \in NestedSteps => session[s].status = "starting" /\ s \in nested[s]
  /\ proc[s].step \in ReadySteps => session[s].status = "ready"
  /\ proc[s].step \in FailSteps => session[s].status \in {"starting", "ready"}
  /\ session[s].status = "ready" => s \in nested[s]
  /\ session[s].status = "starting" => nested[s] \subseteq {s}

AttachNewSteps == {"idle", "resolve"} \union OpenSteps
AttachEarlySteps == {"provision", "insert_agent", "commit_agent"}
AttachLateSteps == {"prepare_agent_state", "record_attach", "commit_attach", "attach_agent"}

\* An attach and the session it resolved.
AttachInv(a) ==
  /\ proc[a].step \in AttachNewSteps \union AttachEarlySteps \union AttachLateSteps
                      \union (LastSteps \ {"summary"})
  /\ proc[a].step \in AttachNewSteps => proc[a].target = None
  /\ proc[a].step \in AttachEarlySteps \union AttachLateSteps => proc[a].target # None
  /\ proc[a].step \in AttachNewSteps \union AttachEarlySteps =>
       \A s \in Starts : a \notin nested[s]
  /\ proc[a].target # None =>
       /\ session[proc[a].target].status \in {"ready", "failed"}
       /\ proc[a].target \in nested[proc[a].target]
       /\ proc[a].seen = "ready"

\* The operations under a session resolved it, or persisted it.
NestedInv == \A s \in Starts : \A p \in nested[s] : proc[p].target = s

SessionInv ==
  /\ DoctorInv
  /\ \A s \in Starts : StartInv(s)
  /\ \A a \in Attaches : AttachInv(a)
  /\ NestedInv

\* What a step may change of the tables that the status and the nesting tell apart.
SameSessions == nested' = nested /\ \A s \in Starts : session'[s].status = session[s].status

LEMMA StoreEffect ==
  ASSUME TypeOK, NEW p \in Processes, StepOf(p)
  PROVE  \/ SameSessions
         \/ p \in Starts /\ (CommitSession(p) \/ CommitReady(p) \/ CommitFailed(p))
         \/ p \in Operations /\ CommitAgent(p)
<1>1. UNCHANGED <<session, nested>> => SameSessions
  BY DEF SameSessions
<1>2. ASSUME CommitAttach(p) PROVE SameSessions
  <2>1. session \in [Starts -> [status : Statuses, lastUsed : Nat]]
    BY DEF TypeOK, DatabaseTypeOK
  <2>2. /\ session' = [session EXCEPT ![proc[p].target].lastUsed = proc[p].usedAt]
        /\ nested' = nested
    BY <1>2 DEF CommitAttach, RecordAttach
  <2> QED
    BY <2>1, <2>2 DEF SameSessions
<1>3. ASSUME OpenStep(p) \/ Kill(p) PROVE UNCHANGED <<session, nested>>
  BY <1>3 DEF OpenStep, SchemaVersion, ApplyMigration, CreateTablesStep,
     UserVersionStep, CommitMigrationStep, CommitMigration, dbVars, OnlyLock, Kill
<1>4. ASSUME StartStep(p), ~CommitSession(p), ~CommitReady(p), ~CommitFailed(p)
      PROVE  UNCHANGED <<session, nested>>
  BY <1>4 DEF StartStep, StartBegins, PreflightConfig, InsertSession, NewForgejoService,
     ForgejoImport, UpdateReady, UpdateFailed, GetSummary, Waits, dbVars, OnlyLock
<1>5. ASSUME OperationStep(p), ~CommitAgent(p), ~CommitAttach(p)
      PROVE  UNCHANGED <<session, nested>>
  BY <1>5 DEF OperationStep, Provision, InsertAgent, PrepareAgentState,
     RecordAttachBegins, AttachAgent, CompleteOperation, Save, Collect, Waits, dbVars
<1>6. ASSUME AttachResolves(p) \/ OtherBegins(p) \/ DoctorStep(p)
      PROVE  UNCHANGED <<session, nested>>
  BY <1>6 DEF AttachResolves, OtherBegins, DoctorStep, DoctorResolves,
     LoadLatestOperation, dbVars
<1> QED
  BY <1>1, <1>2, <1>3, <1>4, <1>5, <1>6 DEF StepOf

LEMMA CommitSessionEffect ==
  ASSUME TypeOK, NEW p \in Starts, CommitSession(p)
  PROVE  /\ proc'[p].step = "new_forgejo_service" /\ proc'[p].target = p
         /\ session'[p].status = "starting" /\ session'[p].lastUsed = now + 1
         /\ \A s \in Starts \ {p} : session'[s] = session[s]
         /\ nested' = nested
<1>1. session \in [Starts -> [status : Statuses, lastUsed : Nat]]
  BY DEF TypeOK, DatabaseTypeOK
<1>2. proc \in [Processes -> Process] /\ p \in Processes
  BY Kinds DEF TypeOK
<1>3. proc'[p].step = "new_forgejo_service" /\ proc'[p].target = p
  BY <1>2 DEF CommitSession, Process
<1> QED
  BY <1>1, <1>3 DEF CommitSession, CreateKagenSession

LEMMA UpdateEffect ==
  ASSUME TypeOK, NEW p \in Starts, NEW status \in Statuses,
         UpdateKagenSessionStatus(p, p, status)
  PROVE  /\ session'[p].status = status /\ session'[p].lastUsed = session[p].lastUsed
         /\ \A s \in Starts \ {p} : session'[s] = session[s]
         /\ nested' = nested
  BY DEF UpdateKagenSessionStatus, TypeOK, DatabaseTypeOK

LEMMA CommitAgentEffect ==
  ASSUME TypeOK, NEW p \in Operations, CommitAgent(p), proc[p].target \in Starts
  PROVE  /\ session' = session
         /\ nested'[proc[p].target] = nested[proc[p].target] \union {p}
         /\ \A s \in Starts \ {proc[p].target} : nested'[s] = nested[s]
  BY DEF CommitAgent, CreateAgentSession, TypeOK, DatabaseTypeOK

LEMMA OwnStart ==
  ASSUME TypeOK, SessionInv, NEW p \in Starts, StepOf(p)
  PROVE  StartInv(p)'
<1>0. /\ StartInv(p) /\ p \in Processes /\ p \in Operations
      /\ p \notin Attaches /\ p \notin Doctors /\ p # None
  BY Kinds DEF SessionInv
<1>1. \A step : Moves(p, step) =>
        proc'[p].step = step /\ proc'[p].target = proc[p].target
  BY <1>0, MovesEffect DEF Kept
<1>2. \A outcome : Returns(p, outcome) =>
        proc'[p].step = "complete" /\ proc'[p].target = proc[p].target
  BY <1>0, ReturnsEffect DEF Kept
<1>3. Fails(p) => proc'[p].step = "update_failed" /\ proc'[p].target = proc[p].target
  BY <1>0, FailsEffect DEF Kept
<1>4. SameSessions => /\ session'[p].status = session[p].status
                      /\ nested'[p] = nested[p]
  BY DEF SameSessions
<1>5. \/ SameSessions \/ CommitSession(p) \/ CommitReady(p) \/ CommitFailed(p)
      \/ CommitAgent(p)
  BY <1>0, StoreEffect
<1>6. CASE CommitSession(p)
  <2>1. proc[p].target = None
    BY <1>0, <1>6 DEF CommitSession, StartInv, At, NewSteps
  <2> QED
    BY <1>0, <1>6, <2>1, CommitSessionEffect
       DEF StartInv, NewSteps, OpenSteps, EarlySteps, NestedSteps, ReadySteps, FailSteps,
           LastSteps
<1>7. CASE CommitReady(p)
  BY <1>0, <1>1, <1>7, UpdateEffect
     DEF CommitReady, At, Statuses, StartInv, NewSteps, OpenSteps, EarlySteps, NestedSteps,
         ReadySteps, FailSteps, LastSteps
<1>8. CASE CommitFailed(p)
  BY <1>0, <1>1, <1>8, UpdateEffect
     DEF CommitFailed, At, Statuses, StartInv, NewSteps, OpenSteps, EarlySteps, NestedSteps,
         ReadySteps, FailSteps, LastSteps
<1>9. CASE CommitAgent(p)
  <2>1. proc[p].target = p /\ session[p].status = "starting" /\ nested[p] \subseteq {p}
    BY <1>0, <1>9 DEF CommitAgent, At, StartInv, EarlySteps
  <2>2. /\ session'[p].status = "starting" /\ p \in nested'[p] /\ nested'[p] \subseteq {p}
        /\ proc'[p].step = "prepare_agent_state" /\ proc'[p].target = p
    BY <1>0, <1>1, <1>9, <2>1, CommitAgentEffect DEF CommitAgent
  <2> QED
    BY <1>0, <2>2
       DEF StartInv, NewSteps, OpenSteps, EarlySteps, NestedSteps, ReadySteps, FailSteps,
           LastSteps
<1>10. CASE SameSessions
  <2> DEFINE Later(step) == proc'[p].step = step /\ proc'[p].target = proc[p].target
  <2>1. CASE OpenStep(p)
    <3>1. \/ /\ At(p, "open") \/ At(p, "migrate") \/ At(p, "create_tables")
             \/ At(p, "user_version") \/ At(p, "commit_migration")
          /\ \/ Later("insert_session") \/ Later("migrate") \/ Later("create_tables")
             \/ Later("user_version") \/ Later("commit_migration") \/ Later("complete")
      BY <1>0, <1>1, <1>2, <2>1 DEF OpenStep, SchemaVersion, ApplyMigration,
         CreateTablesStep, UserVersionStep, CommitMigrationStep, Opened
    <3> QED
      BY <1>0, <1>4, <1>10, <3>1
         DEF At, StartInv, NewSteps, OpenSteps, EarlySteps, NestedSteps, ReadySteps,
             FailSteps, LastSteps
  <2>2. CASE Kill(p)
    <3>1. Later("ended")
      BY <1>0, <2>2, EndsEffect DEF Kill, Kept
    <3> QED
      BY <1>0, <1>4, <1>10, <3>1
         DEF StartInv, NewSteps, OpenSteps, EarlySteps, NestedSteps, ReadySteps,
             FailSteps, LastSteps
  <2>3. CASE StartStep(p) /\ ~CommitSession(p) /\ ~CommitReady(p) /\ ~CommitFailed(p)
    <3>1. \/ At(p, "idle") /\ (Later("preflight_configuration") \/ Later("complete"))
          \/ At(p, "preflight_configuration") /\ (Later("open") \/ Later("complete"))
          \/ At(p, "insert_session") /\ (Later("commit_session") \/ Later("complete"))
          \/ /\ At(p, "new_forgejo_service")
             /\ Later("forgejo_import") \/ Later("update_failed")
          \/ At(p, "forgejo_import") /\ (Later("provision") \/ Later("update_failed"))
          \/ At(p, "update_ready") /\ (Later("commit_ready") \/ Later("update_failed"))
          \/ At(p, "update_failed") /\ (Later("commit_failed") \/ Later("complete"))
          \/ At(p, "summary") /\ Later("collect")
      <4>1. UpdateFailed(p) => Moves(p, "commit_failed") \/ Later("complete")
        BY <1>0 DEF UpdateFailed, Writes, TypeOK, Process
      <4>2. GetSummary(p) => Later("collect")
        BY <1>0 DEF GetSummary, TypeOK, Process
      <4> QED
        BY <1>1, <1>2, <1>3, <2>3, <4>1, <4>2 DEF StartStep, StartBegins, PreflightConfig,
           InsertSession, NewForgejoService, ForgejoImport, UpdateReady, UpdateFailed,
           GetSummary, Waits, Writes
    <3> QED
      BY <1>0, <1>4, <1>10, <3>1
         DEF At, StartInv, NewSteps, OpenSteps, EarlySteps, NestedSteps, ReadySteps,
             FailSteps, LastSteps
  <2>4. CASE OperationStep(p) /\ ~CommitAgent(p)
    <3>1. \/ At(p, "provision") /\ (Later("insert_agent") \/ Later("update_failed"))
          \/ At(p, "insert_agent") /\ (Later("commit_agent") \/ Later("update_failed"))
          \/ /\ At(p, "prepare_agent_state")
             /\ Later("update_ready") \/ Later("update_failed")
          \/ At(p, "record_attach") /\ (Later("commit_attach") \/ Later("update_failed"))
          \/ At(p, "commit_attach") /\ Later("attach_agent")
          \/ At(p, "attach_agent") /\ (Later("complete") \/ Later("update_failed"))
          \/ /\ \E step \in LastSteps : At(p, step)
             /\ \E step \in LastSteps : Later(step)
      <4>1. Provision(p) => Later("insert_agent") \/ Fails(p)
        BY <1>0 DEF Provision, TypeOK, Process
      <4>2. CommitAttach(p) => Later("attach_agent")
        BY <1>0 DEF CommitAttach, TypeOK, Process
      <4>3. CompleteOperation(p) \/ Save(p) \/ Collect(p) =>
              \E step \in LastSteps : Later(step)
        BY <1>0, FinalEffect, AfterSaveSteps DEF Kept, LastSteps
      <4>4. CompleteOperation(p) \/ Save(p) \/ Collect(p) => \E step \in LastSteps : At(p, step)
        BY <1>0, FinalEffect DEF At, LastSteps
      <4> QED
        BY <1>0, <1>1, <1>3, <2>4, <4>1, <4>2, <4>3, <4>4 DEF OperationStep, Provision,
           InsertAgent, PrepareAgentState, RecordAttachBegins, CommitAttach, AttachAgent,
           Waits, Writes
    <3> QED
      BY <1>0, <1>4, <1>10, <3>1
         DEF At, StartInv, NewSteps, OpenSteps, EarlySteps, NestedSteps, ReadySteps,
             FailSteps, LastSteps
  <2> QED
    BY <1>0, <1>6, <1>7, <1>8, <1>9, <2>1, <2>2, <2>3, <2>4 DEF StepOf
<1> QED
  BY <1>5, <1>6, <1>7, <1>8, <1>9, <1>10

LEMMA OwnAttach ==
  ASSUME TypeOK, SessionInv, NEW p \in Attaches, StepOf(p)
  PROVE  AttachInv(p)'
<1>0. /\ AttachInv(p) /\ p \in Processes /\ p \in Operations
      /\ p \notin Starts /\ p \notin Doctors /\ p # None
      /\ proc[p].target \in Starts \union {None}
  BY Kinds DEF SessionInv, TypeOK, Process
<1> DEFINE Later(step) ==
             /\ proc'[p].step = step /\ proc'[p].target = proc[p].target
             /\ proc'[p].seen = proc[p].seen
<1>1. \A step : Moves(p, step) => Later(step)
  BY <1>0, MovesEffect DEF Kept
<1>2. \A outcome : Returns(p, outcome) => Later("complete")
  BY <1>0, ReturnsEffect DEF Kept
<1>3. Fails(p) => Later("complete")
  BY <1>0, FailsEffect DEF Kept
<1>4. SameSessions \/ CommitAgent(p)
  BY <1>0, StoreEffect
<1>5. SameSessions => /\ \A s \in Starts : session'[s].status = session[s].status
                      /\ nested' = nested
  BY DEF SameSessions
<1>6. CASE CommitAgent(p)
  <2> DEFINE t == proc[p].target
  <2>1. /\ t \in Starts /\ t # None /\ t \in nested[t]
        /\ session[t].status \in {"ready", "failed"} /\ proc[p].seen = "ready"
    BY <1>0, <1>6 DEF CommitAgent, At, AttachInv, AttachEarlySteps
  <2>2. session' = session /\ t \in nested'[t]
    BY <1>0, <1>6, <2>1, CommitAgentEffect
  <2>3. /\ proc'[p].step = "prepare_agent_state" /\ proc'[p].target = t
        /\ proc'[p].seen = "ready"
    BY <1>1, <1>6, <2>1 DEF CommitAgent
  <2> HIDE DEF t
  <2> QED
    BY <2>1, <2>2, <2>3 DEF AttachInv, AttachNewSteps, AttachEarlySteps, AttachLateSteps,
       LastSteps, OpenSteps
<1>7. CASE SameSessions
  <2>1. CASE OpenStep(p)
    <3>1. \/ /\ At(p, "open") \/ At(p, "migrate") \/ At(p, "create_tables")
             \/ At(p, "user_version") \/ At(p, "commit_migration")
          /\ \/ Later("resolve") \/ Later("migrate") \/ Later("create_tables")
             \/ Later("user_version") \/ Later("commit_migration") \/ Later("complete")
      BY <1>0, <1>1, <1>2, <2>1 DEF OpenStep, SchemaVersion, ApplyMigration,
         CreateTablesStep, UserVersionStep, CommitMigrationStep, Opened
    <3> QED
      BY <1>0, <1>5, <1>7, <3>1 DEF At, AttachInv, AttachNewSteps, AttachEarlySteps,
         AttachLateSteps, LastSteps, OpenSteps
  <2>2. CASE Kill(p)
    <3>1. Later("ended")
      BY <1>0, <2>2, EndsEffect DEF Kill, Kept
    <3> QED
      BY <1>0, <1>5, <1>7, <3>1 DEF AttachInv, AttachNewSteps, AttachEarlySteps,
         AttachLateSteps, LastSteps, OpenSteps
  <2>3. CASE AttachResolves(p)
    <3>1. CASE Later("complete")
      BY <1>0, <1>5, <1>7, <3>1 DEF AttachInv, AttachNewSteps, AttachEarlySteps,
         AttachLateSteps, LastSteps, OpenSteps
    <3>2. ASSUME NEW s \in Starts, session[s].status = "ready",
                 proc' = [proc EXCEPT ![p].step = "provision", ![p].target = s,
                                      ![p].seen = "ready"]
          PROVE  AttachInv(p)'
      <4>1. /\ proc'[p].step = "provision" /\ proc'[p].target = s
            /\ proc'[p].seen = "ready"
        BY <1>0, <3>2 DEF TypeOK, Process
      <4>2. s \in nested[s] /\ s # None
        BY <3>2, Kinds DEF SessionInv, StartInv
      <4>3. \A t \in Starts : p \notin nested[t]
        BY <1>0, <2>3 DEF AttachResolves, At, AttachInv, AttachNewSteps
      <4> QED
        BY <1>5, <1>7, <3>2, <4>1, <4>2, <4>3 DEF AttachInv, AttachNewSteps,
           AttachEarlySteps, AttachLateSteps, LastSteps, OpenSteps
    <3> QED
      BY <1>2, <2>3, <3>1, <3>2 DEF AttachResolves
  <2>4. CASE OtherBegins(p)
    <3>1. At(p, "idle") /\ (Later("open") \/ Later("complete"))
      BY <1>1, <1>2, <2>4 DEF OtherBegins
    <3> QED
      BY <1>0, <1>5, <1>7, <3>1 DEF At, AttachInv, AttachNewSteps, AttachEarlySteps,
         AttachLateSteps, LastSteps, OpenSteps
  <2>5. CASE OperationStep(p) /\ ~CommitAgent(p)
    <3>1. \/ At(p, "provision") /\ (Later("insert_agent") \/ Later("complete"))
          \/ At(p, "insert_agent") /\ (Later("commit_agent") \/ Later("complete"))
          \/ At(p, "prepare_agent_state") /\ (Later("record_attach") \/ Later("complete"))
          \/ At(p, "record_attach") /\ (Later("commit_attach") \/ Later("complete"))
          \/ At(p, "commit_attach") /\ Later("attach_agent")
          \/ At(p, "attach_agent") /\ Later("complete")
          \/ /\ \E step \in LastSteps : At(p, step)
             /\ \E step \in LastSteps \ {"summary"} : Later(step)
      <4>1. Provision(p) => Later("insert_agent") \/ Fails(p)
        BY <1>0 DEF Provision, TypeOK, Process
      <4>2. CommitAttach(p) => Later("attach_agent")
        BY <1>0 DEF CommitAttach, TypeOK, Process
      <4>3. CompleteOperation(p) \/ Save(p) \/ Collect(p) =>
              \E step \in LastSteps \ {"summary"} : Later(step)
        <5>1. AfterSave(p) \in {"ended", "collect"}
          BY <1>0 DEF AfterSave
        <5> QED
          BY <1>0, <5>1, FinalEffect DEF Kept, LastSteps
      <4>4. CompleteOperation(p) \/ Save(p) \/ Collect(p) => \E step \in LastSteps : At(p, step)
        BY <1>0, FinalEffect DEF At, LastSteps
      <4> QED
        BY <1>0, <1>1, <1>3, <2>5, <4>1, <4>2, <4>3, <4>4 DEF OperationStep, Provision,
           InsertAgent, PrepareAgentState, RecordAttachBegins, CommitAttach, AttachAgent,
           Waits, Writes
    <3> QED
      BY <1>0, <1>5, <1>7, <3>1 DEF At, AttachInv, AttachNewSteps, AttachEarlySteps,
         AttachLateSteps, LastSteps, OpenSteps
  <2> QED
    BY <1>0, <1>6, <2>1, <2>2, <2>3, <2>4, <2>5 DEF StepOf
<1> QED
  BY <1>4, <1>6, <1>7

LEMMA OwnDoctor ==
  ASSUME TypeOK, SessionInv, NEW p \in Doctors, StepOf(p)
  PROVE  At(p, "load")' => proc'[p].target # None
<1>0. p \in Processes /\ p \notin Starts /\ p \notin Operations /\ p \notin Attaches
  BY Kinds
<1>1. /\ \A step : Moves(p, step) => proc'[p].step = step
      /\ \A outcome : Returns(p, outcome) => proc'[p].step = "ended"
      /\ \A outcome : Ends(p, outcome) => proc'[p].step = "ended"
  BY <1>0, MovesEffect, ReturnsEffect, EndsEffect
<1>2. CASE OpenStep(p) \/ Kill(p) \/ OtherBegins(p)
  BY <1>0, <1>1, <1>2 DEF OpenStep, SchemaVersion, ApplyMigration,
     CreateTablesStep, UserVersionStep, CommitMigrationStep, Opened, Kill, OtherBegins, At
<1>3. CASE DoctorResolves(p)
  BY <1>0, <1>1, <1>3, ResolvesEffect, Kinds DEF At
<1>4. CASE LoadLatestOperation(p)
  <2>1. proc'[p].step = "ended"
    BY <1>0, <1>1, <1>4 DEF LoadLatestOperation, TypeOK, Process
  <2> QED
    BY <2>1 DEF At
<1> QED
  BY <1>0, <1>2, <1>3, <1>4 DEF StepOf, DoctorStep

\* What a step does to the sessions it does not own.
LEMMA SharedSessions ==
  ASSUME TypeOK, SessionInv, NEW p \in Processes, StepOf(p)
  PROVE  /\ \A s \in Starts \ {p} : session'[s].status = session[s].status
         /\ \A s \in Starts :
              \/ nested'[s] = nested[s]
              \/ /\ nested'[s] = nested[s] \union {p} /\ proc[p].target = s
                 /\ p \in Operations /\ At(p, "commit_agent")
                 /\ proc'[p].target = s
<1>1. CASE SameSessions
  BY <1>1 DEF SameSessions
<1>2. CASE p \in Starts /\ (CommitSession(p) \/ CommitReady(p) \/ CommitFailed(p))
  BY <1>2, CommitSessionEffect, UpdateEffect DEF CommitReady, CommitFailed, Statuses
<1>3. CASE p \in Operations /\ CommitAgent(p)
  <2>1. proc[p].target \in Starts
    BY <1>3, Kinds DEF Operations, CommitAgent, At, SessionInv, StartInv, AttachInv, EarlySteps,
       AttachEarlySteps, TypeOK, Process
  <2>2. proc'[p].target = proc[p].target
    BY <1>3, MovesEffect DEF CommitAgent, Kept
  <2> QED
    BY <1>3, <2>1, <2>2, CommitAgentEffect DEF CommitAgent
<1> QED
  BY <1>1, <1>2, <1>3, StoreEffect

\* Who runs "commit_agent" works on a session that is starting and its own, or
\* was ready.
LEMMA CommitAgentTarget ==
  ASSUME TypeOK, SessionInv, NEW p \in Operations, At(p, "commit_agent"),
         NEW s \in Starts, proc[p].target = s, p # s
  PROVE  /\ session[s].status \in {"ready", "failed"} /\ nested[s] # {}
         /\ s \in nested[s]
<1>1. p \in Attaches
  BY Kinds DEF Operations, At, SessionInv, StartInv, EarlySteps
<1>2. s # None
  BY Kinds
<1> QED
  BY <1>1, <1>2 DEF SessionInv, AttachInv

LEMMA SessionStep ==
  ASSUME TypeOK, SessionInv, NEW p \in Processes, StepOf(p)
  PROVE  SessionInv'
<1>1. ASSUME NEW s \in Starts PROVE StartInv(s)'
  <2>1. CASE s = p
    BY <2>1, OwnStart
  <2>2. CASE s # p
    <3>1. StartInv(s) /\ s \in Processes /\ s # None
      BY Kinds DEF SessionInv
    <3>2. proc'[s] = proc[s] /\ session'[s].status = session[s].status
      BY <2>2, <3>1, Frame, SharedSessions
    <3>3. CASE nested'[s] = nested[s]
      BY <3>1, <3>2, <3>3 DEF StartInv
    <3>4. CASE nested'[s] # nested[s]
      <4>1. /\ nested'[s] = nested[s] \union {p}
            /\ session[s].status \in {"ready", "failed"}
        BY <2>2, <3>4, SharedSessions, CommitAgentTarget
      <4> QED
        BY <2>2, <3>1, <3>2, <4>1 DEF StartInv
    <3> QED
      BY <3>3, <3>4
  <2> QED
    BY <2>1, <2>2
<1>2. ASSUME NEW a \in Attaches PROVE AttachInv(a)'
  <2>1. CASE a = p
    BY <2>1, OwnAttach
  <2>2. CASE a # p
    <3>1. AttachInv(a) /\ a \in Processes /\ proc'[a] = proc[a]
      BY <2>2, Kinds, Frame DEF SessionInv
    <3>2. \A s \in Starts : a \in nested'[s] <=> a \in nested[s]
      BY <2>2, SharedSessions
    <3>3. ASSUME proc[a].target # None
          PROVE  /\ session'[proc[a].target].status \in {"ready", "failed"}
                 /\ proc[a].target \in nested'[proc[a].target]
      <4> DEFINE s == proc[a].target
      <4>1. s \in Starts
        BY <3>1, <3>3 DEF TypeOK, Process
      <4>2. session[s].status \in {"ready", "failed"} /\ s \in nested[s]
        BY <3>1, <3>3 DEF AttachInv
      <4>3. s \in nested'[s]
        BY <4>1, <4>2, SharedSessions
      <4>4. CASE s # p
        BY <4>1, <4>2, <4>3, <4>4, SharedSessions
      <4>5. CASE s = p
        <5>1. CASE SameSessions
          BY <4>1, <4>2, <4>3, <5>1 DEF SameSessions
        <5>2. CASE CommitAgent(p)
          BY <4>1, <4>2, <4>5, <5>2 DEF CommitAgent, At, SessionInv, StartInv, EarlySteps
        <5>3. CASE CommitSession(p)
          BY <4>1, <4>2, <4>5, <5>3, Kinds DEF CommitSession, At, SessionInv, StartInv, NewSteps
        <5>4. CASE CommitReady(p)
          BY <4>1, <4>2, <4>5, <5>4 DEF CommitReady, At, SessionInv, StartInv, NestedSteps
        <5>5. CASE CommitFailed(p)
          BY <4>1, <4>3, <4>5, <5>5, UpdateEffect DEF CommitFailed, Statuses
        <5> QED
          BY <5>1, <5>2, <5>3, <5>4, <5>5, StoreEffect
      <4> QED
        BY <4>4, <4>5
    <3> QED
      BY <3>1, <3>2, <3>3 DEF AttachInv
  <2> QED
    BY <2>1, <2>2
<1>3. NestedInv'
  <2> SUFFICES ASSUME NEW s \in Starts, NEW q \in nested'[s] PROVE proc'[q].target = s
    BY DEF NestedInv
  <2>1. CASE q \notin nested[s]
    BY <2>1, SharedSessions
  <2>2. CASE q \in nested[s] /\ q # p
    <3>1. q \in Processes
      BY <2>2, Kinds DEF TypeOK, DatabaseTypeOK
    <3> QED
      BY <2>2, <3>1, Frame DEF SessionInv, NestedInv
  <2>3. CASE q \in nested[s] /\ q = p
    <3>1. p \in Operations /\ proc[p].target = s /\ s # None
      BY <2>3, Kinds DEF TypeOK, DatabaseTypeOK, SessionInv, NestedInv
    <3>2. CASE p \in Starts
      <4>1. StartInv(p) /\ StartInv(p)' /\ s = p
        BY <3>1, <3>2, OwnStart DEF SessionInv, StartInv
      <4>2. p \in nested'[p]
        BY <2>3, <3>2, <4>1
      <4> QED
        BY <2>3, <4>1, <4>2 DEF StartInv
    <3>3. CASE p \in Attaches
      <4>1. proc[p].step \notin AttachNewSteps \union AttachEarlySteps
        BY <2>3, <3>3 DEF SessionInv, AttachInv
      <4>2. p \notin Doctors /\ p \notin Starts
        BY <3>3, Kinds
      <4>3. proc'[p].target = proc[p].target
        <5>1. /\ \A step : Moves(p, step) => proc'[p].target = proc[p].target
              /\ \A outcome : Ends(p, outcome) => proc'[p].target = proc[p].target
              /\ Fails(p) => proc'[p].target = proc[p].target
          BY MovesEffect, EndsEffect, FailsEffect DEF Kept
        <5>2. ~OpenStep(p) /\ ~AttachResolves(p) /\ ~OtherBegins(p)
          BY <4>1 DEF OpenStep, SchemaVersion, ApplyMigration, CreateTablesStep,
             UserVersionStep, CommitMigrationStep, AttachResolves, OtherBegins, At,
             AttachNewSteps, OpenSteps
        <5>3. CASE Kill(p)
          BY <5>1, <5>3 DEF Kill
        <5>4. CASE OperationStep(p)
          <6>1. ~Provision(p) /\ ~InsertAgent(p) /\ ~CommitAgent(p)
            BY <4>1 DEF Provision, InsertAgent, CommitAgent, Waits, At, AttachEarlySteps
          <6>2. CommitAttach(p) => proc'[p].target = proc[p].target
            BY DEF CommitAttach, TypeOK, Process
          <6>3. CompleteOperation(p) \/ Save(p) \/ Collect(p) =>
                  proc'[p].target = proc[p].target
            BY <3>1, FinalEffect DEF Kept
          <6> QED
            BY <5>1, <5>4, <6>1, <6>2, <6>3 DEF OperationStep, PrepareAgentState,
               RecordAttachBegins, AttachAgent, Waits, Writes
        <5> QED
          BY <4>2, <5>2, <5>3, <5>4 DEF StepOf
      <4> QED
        BY <2>3, <3>1, <4>3
    <3> QED
      BY <3>1, <3>2, <3>3 DEF Operations
  <2> QED
    BY <2>1, <2>2, <2>3
<1>4. DoctorInv'
  <2> SUFFICES ASSUME NEW d \in Doctors, At(d, "load")' PROVE proc'[d].target # None
    BY DEF DoctorInv, At
  <2>1. CASE d = p
    BY <2>1, OwnDoctor
  <2>2. CASE d # p
    BY <2>2, Kinds, Frame DEF SessionInv, DoctorInv, At
  <2> QED
    BY <2>1, <2>2
<1> QED
  BY <1>1, <1>2, <1>3, <1>4 DEF SessionInv

LEMMA InitSession == Init => SchemaInv /\ SessionInv
<1> SUFFICES ASSUME Init PROVE SchemaInv /\ SessionInv
  OBVIOUS
<1>1. \A p \in Processes : proc[p] = NewProcess /\ lock[p] = "none"
  BY DEF Init, DatabaseInit
<1>2. version = 0 /\ tables = FALSE /\ \A s \in Starts : nested[s] = {} /\ session[s].status = "none"
  BY DEF Init, DatabaseInit
<1>3. SchemaInv
  BY <1>1, <1>2 DEF SchemaInv, LockInv, NewProcess, CommitSteps, StoreSteps, WorkSteps
<1>4. ASSUME NEW s \in Starts PROVE StartInv(s)
  BY <1>1, <1>2, Kinds DEF StartInv, NewProcess, NewSteps, EarlySteps, NestedSteps,
     ReadySteps, FailSteps
<1>5. ASSUME NEW a \in Attaches PROVE AttachInv(a)
  BY <1>1, <1>2, Kinds DEF AttachInv, NewProcess, AttachNewSteps, AttachEarlySteps,
     AttachLateSteps
<1>6. DoctorInv /\ NestedInv
  BY <1>1, <1>2, Kinds DEF DoctorInv, NestedInv, NewProcess, At
<1> QED
  BY <1>3, <1>4, <1>5, <1>6 DEF SessionInv

-----------------------------------------------------------------------------
(* The core of the invariant, and what follows from it. *)

Core == TypeOK /\ SchemaInv /\ SessionInv

LEMMA CoreStep ==
  ASSUME Core, NEW p \in Processes, StepOf(p)
  PROVE  Core'
  BY TypeStep, SchemaStep, SessionStep DEF Core, SessionInv

LEMMA CoreStutter ==
  ASSUME Core, UNCHANGED vars
  PROVE  Core'
<1>1. TypeOK'
  BY DEF Core, TypeOK, DatabaseTypeOK, TraceTypeOK, vars, dbVars, traceVars
<1>2. SchemaInv'
  BY DEF Core, SchemaInv, LockInv, vars, dbVars
<1>3. SessionInv'
  BY DEF Core, SessionInv, DoctorInv, StartInv, AttachInv, NestedInv, At, vars, dbVars
<1> QED
  BY <1>1, <1>2, <1>3 DEF Core

\* The step of every process agrees with the locks, the schema and its session.
THEOREM CoreInvariance == Spec => []Core
<1>1. Init => Core
  BY InitType, InitSession DEF Core
<1>2. Core /\ [Next]_vars => Core'
  BY CoreStep, CoreStutter, StepHasProcess
<1> QED
  BY <1>1, <1>2, PTL DEF Spec

\* Type correctness: the database, the files and the processes are well formed, for
\* any number of commands.
THEOREM TypeCorrect == Spec => []TypeOK
<1>1. Core => TypeOK
  BY DEF Core
<1> QED
  BY <1>1, CoreInvariance, PTL

\* Nobody works on a store without its schema, however many first commands there
\* are (initialise, applyMigration).
THEOREM OpenedFindsSchemaHolds == Spec => []OpenedFindsSchema
<1>1. Core => OpenedFindsSchema
  BY DEF Core, SchemaInv, LockInv, StoreSteps, OpenedFindsSchema
<1> QED
  BY <1>1, CoreInvariance, PTL

\* A command that is refused at once has lost to one that migrated the store.
THEOREM RefusedOnlyLateHolds == Spec => []RefusedOnlyLate
<1>1. Core => RefusedOnlyLate
  BY DEF Core, SchemaInv, LockInv, RefusedOnlyLate
<1> QED
  BY <1>1, CoreInvariance, PTL

\* Whoever waits for a lock has none that another one waits for: all who wait hold
\* nothing, or are about to commit and wait for readers only, none of which waits.
LEMMA NoCircle ==
  ASSUME Core
  PROVE  NoCircularWait
<1> SUFFICES ASSUME NEW waiting \in (SUBSET Processes) \ {{}}
             PROVE  \E p \in waiting : Blockers(p) \intersect waiting = {}
  BY DEF NoCircularWait
<1>1. ASSUME NEW p \in waiting
      PROVE  /\ proc[p].step \in FirstWrites => lock[p] = "none"
             /\ proc[p].step \in CommitSteps => lock[p] = "reserved"
  BY DEF Core, SchemaInv, LockInv, FirstWrites, CommitSteps
<1>2. CASE \E p \in waiting : proc[p].step \notin FirstWrites \union CommitSteps
  BY <1>2 DEF Blockers
<1>3. CASE \A p \in waiting : proc[p].step \in FirstWrites
  <2>1. \A q \in waiting : lock[q] = "none" /\ proc[q].step \notin CommitSteps
    BY <1>1, <1>3 DEF FirstWrites, CommitSteps
  <2> QED
    BY <2>1 DEF Blockers
<1>4. CASE /\ \A p \in waiting : proc[p].step \in FirstWrites \union CommitSteps
           /\ \E p \in waiting : proc[p].step \in CommitSteps
  <2>1. PICK p \in waiting : proc[p].step \in CommitSteps
    BY <1>4
  <2>2. ASSUME NEW q \in waiting PROVE lock[q] # "shared"
    <3>1. proc[q].step \in FirstWrites \/ proc[q].step \in CommitSteps
      BY <1>4
    <3> QED
      BY <1>1, <3>1
  <2>3. proc[p].step \notin FirstWrites
    BY <2>1 DEF FirstWrites, CommitSteps
  <2> QED
    BY <2>2, <2>3 DEF Blockers
<1> QED
  BY <1>2, <1>3, <1>4

\* The commands never wait for each other in a circle, however many they are.
THEOREM NoCircularWaitHolds == Spec => []NoCircularWait
  BY NoCircle, CoreInvariance, PTL

-----------------------------------------------------------------------------
(* The tables show the life of a session. *)

LEMMA LifecycleInit == Init => Lifecycle!Init
  BY DEF Init, DatabaseInit, Lifecycle!Init

\* The function of the status of every session, before and after a step.
StatusOf == [s \in Starts |-> session[s].status]

LEMMA LifecycleStep ==
  ASSUME Core, NEW p \in Processes, StepOf(p)
  PROVE  Lifecycle!Next \/ UNCHANGED <<StatusOf, nested>>
<1>0. TypeOK /\ SessionInv
  BY DEF Core
<1>1. CASE SameSessions
  BY <1>1 DEF SameSessions, StatusOf
<1>2. ASSUME p \in Starts PROVE StartInv(p) /\ p # None
  BY <1>0, <1>2, Kinds DEF SessionInv
<1>3. ASSUME NEW status, p \in Starts, session'[p].status = status, nested' = nested,
             \A s \in Starts \ {p} : session'[s] = session[s]
      PROVE  StatusOf' = [StatusOf EXCEPT ![p] = status]
  BY <1>3 DEF StatusOf
<1>4. CASE p \in Starts /\ CommitSession(p)
  <2>1. session[p].status = "none"
    BY <1>2, <1>4 DEF StartInv, CommitSession, At, NewSteps
  <2>2. StatusOf' = [StatusOf EXCEPT ![p] = "starting"] /\ nested' = nested
    BY <1>0, <1>3, <1>4, CommitSessionEffect
  <2>3. Lifecycle!Persist(p)
    BY <1>4, <2>1, <2>2 DEF Lifecycle!Persist, StatusOf
  <2> QED
    BY <1>4, <2>3 DEF Lifecycle!Next
<1>5. CASE p \in Starts /\ CommitReady(p)
  <2>1. session[p].status = "starting" /\ p \in nested[p]
    BY <1>2, <1>5 DEF StartInv, CommitReady, At, NestedSteps
  <2>2. StatusOf' = [StatusOf EXCEPT ![p] = "ready"] /\ nested' = nested
    BY <1>0, <1>3, <1>5, UpdateEffect DEF CommitReady, Statuses
  <2>3. Lifecycle!Prepare(p)
    BY <1>5, <2>1, <2>2 DEF Lifecycle!Prepare, StatusOf
  <2> QED
    BY <1>5, <2>3 DEF Lifecycle!Next
<1>6. CASE p \in Starts /\ CommitFailed(p)
  <2>1. session[p].status \in {"starting", "ready"}
    BY <1>2, <1>6 DEF StartInv, CommitFailed, At, FailSteps
  <2>2. StatusOf' = [StatusOf EXCEPT ![p] = "failed"] /\ nested' = nested
    BY <1>0, <1>3, <1>6, UpdateEffect DEF CommitFailed, Statuses
  <2>3. Lifecycle!Fail(p)
    BY <1>6, <2>1, <2>2 DEF Lifecycle!Fail, StatusOf
  <2> QED
    BY <1>6, <2>3 DEF Lifecycle!Next
<1>7. CASE p \in Operations /\ CommitAgent(p)
  <2> DEFINE t == proc[p].target
  <2>1. t \in Starts /\ At(p, "commit_agent")
    BY <1>0, <1>7, Kinds DEF Operations, CommitAgent, At, SessionInv, StartInv, AttachInv,
       EarlySteps, AttachEarlySteps, TypeOK, Process
  <2>2. \A s \in Starts : p \notin nested[s]
    <3>1. CASE p \in Attaches
      BY <1>0, <2>1, <3>1 DEF SessionInv, AttachInv, At, AttachEarlySteps
    <3>2. CASE p \in Starts
      BY <1>0, <1>2, <2>1, <3>2 DEF SessionInv, NestedInv, StartInv, At, EarlySteps
    <3> QED
      BY <1>7, <3>1, <3>2 DEF Operations
  <2>3. \/ session[t].status = "starting" /\ nested[t] = {}
        \/ session[t].status \in {"ready", "failed"} /\ nested[t] # {}
    <3>1. CASE p = t
      BY <1>2, <2>1, <3>1 DEF StartInv, At, EarlySteps
    <3>2. CASE p # t
      BY <1>0, <1>7, <2>1, <3>2, CommitAgentTarget
    <3> QED
      BY <3>1, <3>2
  <2>4. nested' = [nested EXCEPT ![t] = @ \union {p}] /\ session' = session
    BY <1>7 DEF CommitAgent, CreateAgentSession
  <2>5. StatusOf' = StatusOf
    BY <2>4 DEF StatusOf
  <2> HIDE DEF t
  <2>6. Lifecycle!Nest(t, p)
    BY <2>1, <2>2, <2>3, <2>4, <2>5 DEF Lifecycle!Nest, StatusOf
  <2> QED
    BY <1>7, <2>1, <2>6 DEF Lifecycle!Next
<1> QED
  BY <1>0, <1>1, <1>4, <1>5, <1>6, <1>7, StoreEffect

\* Commit by commit, under any locks, rollbacks and deaths, the tables live the life
\* of SessionLifecycle.
THEOREM RecordsImplementLifecycle == Spec => ImplementsLifecycle
<1>1. Core /\ [Next]_vars => [Lifecycle!Next]_(Lifecycle!vars)
  <2> SUFFICES ASSUME Core, [Next]_vars
               PROVE  Lifecycle!Next \/ UNCHANGED Lifecycle!vars
    OBVIOUS
  <2>1. CASE Next
    BY <2>1, LifecycleStep, StepHasProcess DEF StatusOf, Lifecycle!vars
  <2>2. CASE UNCHANGED vars
    BY <2>2 DEF vars, dbVars, Lifecycle!vars
  <2> QED
    BY <2>1, <2>2
<1> QED
  BY <1>1, LifecycleInit, CoreInvariance, PTL DEF Spec, ImplementsLifecycle, Lifecycle!Spec

\* What SessionLifecycle promises holds of the tables: an agent session stays under
\* one session, whatever dies or overlaps, and no failed session comes back.
THEOREM RecordsKeepHistory ==
  Spec => [](Lifecycle!NestedOnce /\ Lifecycle!NestingFollows) /\ Lifecycle!HistoryGrows
<1>1. Spec => Lifecycle!Spec
  BY RecordsImplementLifecycle DEF ImplementsLifecycle
<1> QED
  BY <1>1, Lifecycle!NestingHolds, Lifecycle!HistoryGrowsHolds, PTL

-----------------------------------------------------------------------------
(* Traces. *)

\* A trace and the outcome of its operation.
TraceInv(p) ==
  /\ trace[p].finished => proc[p].step \in LastSteps \ {"complete"}
  /\ proc[p].step \in LastSteps \ {"complete", "ended"} => trace[p].finished
  /\ proc[p].step = "ended" => trace[p].finished \/ proc[p].outcome = "killed"
  /\ trace[p].finished => trace[p].status # "running"
  /\ ~trace[p].finished => trace[p].status # "succeeded"
  /\ trace[p].failed = None <=> trace[p].status # "failed"
  /\ trace[p].status = "failed" => proc[p].outcome \in {"error", "killed", "torn"}
  /\ proc[p].step \notin LastSteps \union FailSteps =>
       proc[p].outcome = "ok" /\ trace[p].status = "running"
  /\ proc[p].step \in FailSteps => proc[p].outcome = "error"
  /\ proc[p].outcome = "error" /\ trace[p].status # "failed" =>
       proc[p].target = None \/ (p \in Starts /\ p \notin nested[p])
  /\ proc[p].outcome \in {"refused", "locked"} => proc[p].target = None
  /\ proc[p].outcome \in {"killed", "torn"} => proc[p].step = "ended"
  /\ proc[p].step = "save" => proc[p].target # None
  /\ proc[p].step = "summary" => proc[p].outcome = "error" /\ proc[p].target # None
  /\ proc[p].step \in {"collect", "collect_trace", "collect_summary"} =>
       proc[p].outcome # "ok"
  /\ proc[p].step = "collect_summary" => proc[p].seen # "none"

\* The steps after which an operation still works.
Working == NewSteps \union EarlySteps \union NestedSteps \union ReadySteps \union {"resolve"}

LEMMA WorkingSteps ==
  /\ Working \intersect (LastSteps \union FailSteps) = {}
  /\ LastSteps \intersect FailSteps = {}
  BY DEF Working, NewSteps, OpenSteps, EarlySteps, NestedSteps, ReadySteps, LastSteps, FailSteps

\* What a step of the work does: it goes on to another one; a step of the trace
\* breaks; or the command returns, with a failure between two steps of the trace or
\* without one.  A start that fails with a session has that marked first.
MarksFirst(p) ==
  p \in Starts /\ proc'[p].step = "complete" /\ proc'[p].target # None =>
    proc'[p].outcome = "ok" /\ trace' = trace

GoesOn(p) ==
  proc'[p].step \in Working /\ proc'[p].outcome = proc[p].outcome /\ trace' = trace

Breaks(p) ==
  /\ proc'[p].step \in {"complete"} \union FailSteps /\ proc'[p].outcome = "error"
  /\ proc'[p].target = proc[p].target
  /\ \E step \in TraceSteps : StepFails(p, step)
  /\ MarksFirst(p)

Returned(p) ==
  /\ proc'[p].step \in {"complete"} \union FailSteps
  /\ proc'[p].target = proc[p].target
  /\ nested' = nested /\ trace' = trace
  /\ proc'[p].outcome \in {"ok", "error", "refused", "locked"}
  /\ proc'[p].step \in FailSteps => proc'[p].outcome = "error"
  /\ proc'[p].outcome # "ok" =>
       proc[p].target = None
         \/ (proc'[p].outcome = "error" /\ p \in Starts /\ p \notin nested[p])
  /\ MarksFirst(p)

LEMMA WorkEffect ==
  ASSUME Core, NEW p \in Operations, TraceInv(p), StepOf(p), proc[p].step \in Working,
         ~Kill(p)
  PROVE  GoesOn(p) \/ Breaks(p) \/ Returned(p)
<1>0. /\ TypeOK /\ SessionInv /\ p \in Processes /\ p \notin Doctors
      /\ p \in Starts => StartInv(p)
      /\ p \in Attaches => AttachInv(p)
      /\ p \in Starts => p # None /\ p \notin Attaches
      /\ p \in Starts \/ p \in Attaches
      /\ proc[p].outcome = "ok"
  BY Kinds, WorkingSteps DEF Core, SessionInv, Operations, TraceInv
<1> DEFINE Later(step, outcome) ==
             /\ proc'[p].step = step /\ proc'[p].outcome = outcome
             /\ proc'[p].target = proc[p].target
<1>1. \A step : Moves(p, step) => Later(step, "ok")
  BY <1>0, MovesEffect DEF Kept
<1>2. \A outcome : Returns(p, outcome) => Later("complete", outcome)
  BY <1>0, ReturnsEffect DEF Kept
<1>3. Fails(p) => /\ Later("update_failed", "error") \/ (Later("complete", "error") /\ p \notin Starts)
                  /\ proc'[p].step \in {"complete"} \union FailSteps
  BY <1>0, FailsEffect DEF Kept, FailSteps
<1>4. \A step \in {"create_tables", "migrate", "user_version", "commit_migration",
        "preflight_configuration", "open", "insert_session", "commit_session",
        "new_forgejo_service", "forgejo_import", "provision", "insert_agent", "commit_agent",
        "prepare_agent_state", "update_ready", "commit_ready", "record_attach",
        "commit_attach", "attach_agent", "resolve", "idle"} : step \in Working
  BY DEF Working, NewSteps, OpenSteps, EarlySteps, NestedSteps, ReadySteps
<1>5. {"ensure_runtime", "preflight_configuration", "forgejo_import", "provision",
       "prepare_agent_state", "attach_agent"} \subseteq TraceSteps
  BY DEF TraceSteps
<1>6. \A step \in {"idle", "open", "migrate", "create_tables", "user_version",
        "commit_migration", "preflight_configuration", "insert_session", "resolve"} :
        At(p, step) => proc[p].target = None
  <2>1. CASE p \in Starts
    BY <1>0, <2>1 DEF At, StartInv, NewSteps, OpenSteps, EarlySteps, NestedSteps, ReadySteps,
       FailSteps, LastSteps
  <2>2. CASE p \in Attaches
    BY <1>0, <2>2 DEF At, AttachInv, AttachNewSteps, AttachEarlySteps, AttachLateSteps,
       OpenSteps, LastSteps
  <2> QED
    BY <1>0, <2>1, <2>2
<1>7. CASE OpenStep(p)
  <2>1. trace' = trace /\ nested' = nested /\ proc[p].target = None
    BY <1>6, <1>7 DEF OpenStep, SchemaVersion, ApplyMigration, CreateTablesStep,
       UserVersionStep, CommitMigrationStep, CommitMigration, OnlyLock, dbVars, traceVars
  <2>2. \/ Later("migrate", "ok") \/ Later("insert_session", "ok") \/ Later("resolve", "ok")
        \/ Later("create_tables", "ok") \/ Later("user_version", "ok")
        \/ Later("commit_migration", "ok")
        \/ Later("complete", "error") \/ Later("complete", "locked")
    BY <1>1, <1>2, <1>7 DEF OpenStep, SchemaVersion, ApplyMigration, CreateTablesStep,
       UserVersionStep, CommitMigrationStep, Opened
  <2> QED
    BY <1>0, <1>4, <2>1, <2>2 DEF GoesOn, Breaks, Returned, MarksFirst, FailSteps
<1>8. CASE StartBegins(p) \/ PreflightConfig(p)
  <2>1. nested' = nested /\ proc[p].target = None
    BY <1>6, <1>8 DEF StartBegins, PreflightConfig, dbVars
  <2>2. \/ Later("preflight_configuration", "ok") /\ trace' = trace
        \/ Later("open", "ok") /\ trace' = trace
        \/ Later("complete", "error") /\ trace' = trace
        \/ Later("complete", "error") /\ StepFails(p, "ensure_runtime")
        \/ Later("complete", "error") /\ StepFails(p, "preflight_configuration")
    BY <1>1, <1>2, <1>8 DEF StartBegins, PreflightConfig
  <2> QED
    BY <1>0, <1>4, <1>5, <2>1, <2>2 DEF GoesOn, Breaks, Returned, MarksFirst, FailSteps
<1>9. CASE OtherBegins(p) \/ AttachResolves(p)
  <2>1. nested' = nested /\ trace' = trace /\ proc[p].target = None
    BY <1>6, <1>9 DEF OtherBegins, AttachResolves, dbVars, traceVars
  <2>2. \/ Later("open", "ok") \/ Later("complete", "error") \/ Later("complete", "refused")
        \/ proc'[p].step = "provision" /\ proc'[p].outcome = proc[p].outcome
    <3>1. AttachResolves(p) =>
            \/ Returns(p, "refused")
            \/ proc'[p].step = "provision" /\ proc'[p].outcome = proc[p].outcome
      BY <1>0 DEF AttachResolves, TypeOK, Process
    <3> QED
      BY <1>1, <1>2, <1>9, <3>1 DEF OtherBegins
  <2> QED
    BY <1>0, <1>4, <2>1, <2>2 DEF GoesOn, Breaks, Returned, MarksFirst, FailSteps
<1>10. CASE InsertSession(p)
  <2>1. nested' = nested /\ trace' = trace /\ proc[p].target = None
    BY <1>6, <1>10 DEF InsertSession, OnlyLock, traceVars
  <2>2. Later("commit_session", "ok") \/ Later("complete", "error")
    BY <1>1, <1>2, <1>10 DEF InsertSession, Writes
  <2> QED
    BY <1>0, <1>4, <2>1, <2>2 DEF GoesOn, Breaks, Returned, MarksFirst, FailSteps
<1>11. CASE p \in Starts /\ CommitSession(p)
  <2>1. /\ trace' = trace
        /\ proc'[p].step = "new_forgejo_service" /\ proc'[p].outcome = proc[p].outcome
    BY <1>0, <1>11 DEF CommitSession, traceVars, TypeOK, Process
  <2> QED
    BY <1>4, <2>1 DEF GoesOn, Breaks, Returned, MarksFirst
<1>12. CASE p \in Starts /\ NewForgejoService(p)
  <2>1. nested' = nested /\ trace' = trace /\ p \notin nested[p]
    BY <1>0, <1>12 DEF NewForgejoService, dbVars, traceVars, At, StartInv, EarlySteps
  <2>2. Later("forgejo_import", "ok") \/ Fails(p)
    BY <1>1, <1>12 DEF NewForgejoService
  <2> QED
    BY <1>0, <1>3, <1>4, <1>12, <2>1, <2>2 DEF GoesOn, Breaks, Returned, MarksFirst
<1>13. CASE ForgejoImport(p)
  BY <1>0, <1>1, <1>3, <1>4, <1>5, <1>13 DEF GoesOn, Breaks, Returned, MarksFirst, ForgejoImport
<1>14. CASE InsertAgent(p) \/ RecordAttachBegins(p) \/ UpdateReady(p)
  <2>1. \/ trace' = trace
           /\ (Later("commit_agent", "ok") \/ Later("commit_attach", "ok")
               \/ Later("commit_ready", "ok"))
        \/ Fails(p) /\ StepFails(p, "prepare_agent_state")
    BY <1>1, <1>14 DEF InsertAgent, RecordAttachBegins, UpdateReady, Waits, Writes
  <2> QED
    BY <1>0, <1>3, <1>4, <1>5, <2>1 DEF GoesOn, Breaks, Returned, MarksFirst
<1>15. CASE CommitReady(p) \/ CommitAgent(p)
  BY <1>0, <1>1, <1>4, <1>15 DEF GoesOn, Breaks, Returned, MarksFirst, CommitReady, CommitAgent, traceVars
<1>16. CASE Provision(p) \/ CommitAttach(p)
  <2>1. \/ /\ trace' = trace /\ proc'[p].outcome = proc[p].outcome
           /\ proc'[p].step \in {"insert_agent", "attach_agent"}
        \/ Fails(p) /\ StepFails(p, "provision")
    <3>1. CASE Provision(p)
      BY <1>0, <3>1 DEF Provision, TypeOK, Process
    <3>2. CASE CommitAttach(p)
      BY <1>0, <3>2 DEF CommitAttach, TypeOK, Process, traceVars
    <3> QED
      BY <1>16, <3>1, <3>2
  <2> QED
    BY <1>3, <1>4, <1>5, <2>1 DEF GoesOn, Breaks, Returned, MarksFirst
<1>17. CASE PrepareAgentState(p)
  <2>1. \/ Moves(p, "update_ready") /\ trace' = trace
        \/ Moves(p, "record_attach") /\ trace' = trace
        \/ Fails(p) /\ StepFails(p, "prepare_agent_state")
    BY <1>17 DEF PrepareAgentState
  <2> QED
    BY <1>0, <1>1, <1>3, <1>4, <1>5, <2>1 DEF GoesOn, Breaks, Returned, MarksFirst
<1>18. CASE AttachAgent(p)
  <2>1. \/ Later("complete", "ok") /\ trace' = trace /\ nested' = nested
        \/ Fails(p) /\ StepFails(p, "attach_agent")
    BY <1>1, <1>18 DEF AttachAgent, dbVars
  <2> QED
    BY <1>0, <1>3, <1>5, <2>1 DEF GoesOn, Breaks, Returned, MarksFirst, FailSteps
<1>19. /\ ~UpdateFailed(p) /\ ~CommitFailed(p) /\ ~GetSummary(p)
       /\ ~CompleteOperation(p) /\ ~Save(p) /\ ~Collect(p)
  BY WorkingSteps DEF UpdateFailed, CommitFailed, GetSummary, CompleteOperation, Save,
     Collect, At, FailSteps, LastSteps, Writes
<1> QED
  BY <1>0, <1>7, <1>8, <1>9, <1>10, <1>11, <1>12, <1>13, <1>14, <1>15, <1>16, <1>17, <1>18,
     <1>19 DEF StepOf, StartStep, OperationStep

LEMMA OwnTraceWork ==
  ASSUME Core, NEW p \in Operations, TraceInv(p), StepOf(p), proc[p].step \in Working,
         ~Kill(p)
  PROVE  TraceInv(p)'
<1>1. /\ ~trace[p].finished /\ trace[p].status = "running" /\ trace[p].failed = None
      /\ proc[p].outcome = "ok"
  BY WorkingSteps DEF TraceInv
<1>2. CASE GoesOn(p)
  BY <1>1, <1>2, WorkingSteps DEF GoesOn, TraceInv, LastSteps
<1>3. CASE Breaks(p)
  <2>1. PICK step \in TraceSteps : StepFails(p, step)
    BY <1>3 DEF Breaks
  <2>2. /\ trace'[p].status = "failed" /\ trace'[p].failed = step
        /\ trace'[p].finished = trace[p].finished
    BY <2>1, StepFailsEffect DEF Core
  <2>3. step # None
    BY ContentAssumption
  <2> QED
    BY <1>1, <1>3, <2>2, <2>3, WorkingSteps DEF Breaks, TraceInv, LastSteps, FailSteps
<1>4. CASE Returned(p)
  BY <1>1, <1>4, WorkingSteps DEF Returned, TraceInv, LastSteps, FailSteps
<1> QED
  BY <1>2, <1>3, <1>4, WorkEffect

\* The steps of an operation that does not work any more.
LEMMA EndActions ==
  ASSUME Core, NEW p \in Operations, StepOf(p), proc[p].step \notin Working, ~Kill(p)
  PROVE  \/ p \in Starts /\ (UpdateFailed(p) \/ CommitFailed(p) \/ GetSummary(p))
         \/ CompleteOperation(p) \/ Save(p) \/ Collect(p)
<1>1. \A step \in {"create_tables", "migrate", "user_version", "commit_migration",
        "preflight_configuration", "open", "insert_session", "commit_session",
        "new_forgejo_service", "forgejo_import", "provision", "insert_agent", "commit_agent",
        "prepare_agent_state", "update_ready", "commit_ready", "record_attach",
        "commit_attach", "attach_agent", "resolve", "idle"} : ~At(p, step)
  BY DEF Working, NewSteps, OpenSteps, EarlySteps, NestedSteps, ReadySteps, At
<1>2. p \notin Doctors
  BY Kinds
<1>3. ~OpenStep(p) /\ ~AttachResolves(p) /\ ~OtherBegins(p)
  BY <1>1 DEF OpenStep, SchemaVersion, ApplyMigration, CreateTablesStep, UserVersionStep,
     CommitMigrationStep, AttachResolves, OtherBegins
<1>4. /\ ~StartBegins(p) /\ ~PreflightConfig(p) /\ ~InsertSession(p) /\ ~CommitSession(p)
      /\ ~NewForgejoService(p) /\ ~ForgejoImport(p) /\ ~UpdateReady(p) /\ ~CommitReady(p)
  BY <1>1 DEF StartBegins, PreflightConfig, InsertSession, CommitSession,
     NewForgejoService, ForgejoImport, UpdateReady, CommitReady, Waits
<1>5. /\ ~Provision(p) /\ ~InsertAgent(p) /\ ~CommitAgent(p) /\ ~PrepareAgentState(p)
      /\ ~RecordAttachBegins(p) /\ ~CommitAttach(p) /\ ~AttachAgent(p)
  BY <1>1 DEF Provision, InsertAgent, CommitAgent, PrepareAgentState, RecordAttachBegins,
     CommitAttach, AttachAgent, Waits
<1> QED
  BY <1>2, <1>3, <1>4, <1>5 DEF StepOf, StartStep, OperationStep

LEMMA CompleteEffect ==
  ASSUME TypeOK, NEW p \in Operations, Complete(p)
  PROVE  /\ trace'[p].finished /\ trace'[p].failed = trace[p].failed
         /\ trace'[p].status = IF trace[p].status = "failed" THEN "failed" ELSE "succeeded"
  BY DEF TypeOK, TraceTypeOK, Trace, Complete

LEMMA KillEffect ==
  ASSUME TypeOK, NEW p \in Processes, Kill(p)
  PROVE  /\ proc'[p].step = "ended" /\ Kept(p)
         /\ proc'[p].outcome = IF At(p, "save") THEN "torn" ELSE "killed"
         /\ UNCHANGED <<traceVars, session, nested, now>>
<1>1. Ends(p, IF At(p, "save") THEN "torn" ELSE "killed")
  BY DEF Kill
<1>2. UNCHANGED <<traceVars, session, nested, now>>
  BY DEF Kill, OnlyLock
<1> QED
  BY <1>1, <1>2, EndsEffect

LEMMA OwnTraceEnd ==
  ASSUME Core, NEW p \in Operations, TraceInv(p), StepOf(p),
         proc[p].step \notin Working \/ Kill(p)
  PROVE  TraceInv(p)'
<1>0. /\ TypeOK /\ p \in Processes
      /\ p \in Starts => StartInv(p)
      /\ p \in Starts => p # None /\ p \notin Attaches
      /\ p \in Starts \/ p \in Attaches
      /\ nested \in [Starts -> SUBSET Operations]
  BY Kinds DEF Core, SessionInv, Operations, TypeOK, DatabaseTypeOK
<1> DEFINE Later(step) ==
             /\ proc'[p].step = step /\ proc'[p].outcome = proc[p].outcome
             /\ proc'[p].target = proc[p].target
<1>1. \A step : Moves(p, step) => Later(step)
  BY <1>0, MovesEffect DEF Kept
<1>2. CASE Kill(p)
  BY <1>0, <1>2, KillEffect DEF Kept, traceVars, At, TraceInv, LastSteps, FailSteps
<1>3. CASE p \in Starts /\ UpdateFailed(p)
  <2>1. /\ Later("commit_failed") \/ Later("complete")
        /\ trace' = trace /\ nested' = nested /\ proc[p].step = "update_failed"
    <3>1. proc' = [proc EXCEPT ![p].step = "complete", ![p].unmarked = TRUE] =>
            Later("complete")
      BY <1>0 DEF TypeOK, Process
    <3> QED
      BY <1>1, <1>3, <3>1 DEF UpdateFailed, Writes, OnlyLock, traceVars, At
  <2> QED
    BY <2>1 DEF TraceInv, LastSteps, FailSteps
<1>4. CASE p \in Starts /\ CommitFailed(p)
  <2>1. /\ Later("complete") /\ trace' = trace /\ nested' = nested
        /\ proc[p].step = "commit_failed"
    BY <1>1, <1>4 DEF CommitFailed, UpdateKagenSessionStatus, traceVars, At
  <2> QED
    BY <2>1 DEF TraceInv, LastSteps, FailSteps
<1>5. CASE p \in Starts /\ GetSummary(p)
  <2>1. /\ Later("collect") /\ trace' = trace /\ nested' = nested
        /\ proc[p].step = "summary"
    BY <1>0, <1>5, SummaryEffect DEF dbVars, traceVars
  <2> QED
    BY <2>1 DEF TraceInv, LastSteps, FailSteps
<1>6. CASE CompleteOperation(p)
  <2>1. nested' = nested /\ proc[p].step = "complete" /\ Complete(p)
    BY <1>6 DEF CompleteOperation, dbVars, At
  <2>2. \/ Later("save") /\ proc[p].target # None
        \/ Later(AfterSave(p)) /\ proc[p].target # None
        \/ Later("collect") /\ proc[p].target = None /\ trace[p].status = "failed"
        \/ Later("ended") /\ proc[p].target = None
    <3>1. trace[p].failed = "preflight_configuration" => trace[p].status = "failed"
      BY ContentAssumption DEF TraceInv, TraceSteps
    <3> QED
      BY <1>0, <1>6, <3>1, FinalEffect DEF Kept
  <2>3. proc[p].outcome \in {"ok", "error"} \/ proc[p].target = None
    BY <1>0, <2>1 DEF TraceInv, TypeOK, Process, Outcomes
  <2>4. proc[p].target # None /\ Later(AfterSave(p)) =>
          \/ Later("ended") /\ proc[p].outcome = "ok"
          \/ Later("summary") /\ proc[p].outcome = "error" /\ p \in Starts
          \/ Later("collect") /\ proc[p].outcome = "error" /\ p \in Attaches
    BY <1>0, <2>3 DEF AfterSave
  <2> QED
    BY <1>0, <2>1, <2>2, <2>4, CompleteEffect DEF TraceInv, LastSteps, FailSteps
<1>7. CASE Save(p)
  <2>1. /\ trace' = trace /\ nested' = nested /\ proc[p].step = "save"
        /\ Later(AfterSave(p)) /\ trace[p].finished /\ proc[p].target # None
    BY <1>0, <1>7, FinalEffect DEF Save, dbVars, At, TraceInv, LastSteps, Kept
  <2>2. proc[p].outcome \in {"ok", "error"}
    BY <1>0, <2>1 DEF TraceInv, TypeOK, Process, Outcomes
  <2>3. \/ Later("ended") /\ proc[p].outcome = "ok"
        \/ Later("summary") /\ proc[p].outcome = "error" /\ p \in Starts
        \/ Later("collect") /\ proc[p].outcome = "error" /\ p \in Attaches
    BY <1>0, <2>1, <2>2 DEF AfterSave
  <2> QED
    BY <1>0, <2>1, <2>3 DEF TraceInv, LastSteps, FailSteps
<1>8. CASE Collect(p)
  <2>1. /\ trace' = trace /\ nested' = nested
        /\ trace[p].finished /\ proc[p].outcome # "ok"
        /\ \/ Later("collect_trace")
           \/ Later("collect_summary") /\ proc[p].seen # "none"
           \/ Later("ended")
        /\ proc[p].step \in {"collect", "collect_trace", "collect_summary"}
        /\ proc'[p].seen = proc[p].seen
    BY <1>0, <1>8, FinalEffect DEF Collect, dbVars, At, TraceInv, LastSteps, Kept
  <2> QED
    BY <2>1 DEF TraceInv, LastSteps, FailSteps
<1> QED
  BY <1>2, <1>3, <1>4, <1>5, <1>6, <1>7, <1>8, EndActions

TracesInv == \A p \in Operations : TraceInv(p)

LEMMA TraceStep ==
  ASSUME Core, TracesInv, NEW p \in Processes, StepOf(p)
  PROVE  TracesInv'
<1> SUFFICES ASSUME NEW q \in Operations PROVE TraceInv(q)'
  BY DEF TracesInv
<1>1. TraceInv(q) /\ TypeOK /\ SessionInv /\ q \in Processes
  BY Kinds DEF TracesInv, Core
<1>2. CASE q = p
  BY <1>1, <1>2, OwnTraceWork, OwnTraceEnd
<1>3. CASE q # p
  <2>1. proc'[q] = proc[q] /\ trace'[q] = trace[q]
    BY <1>1, <1>3, Frame
  <2>2. q \in Starts /\ q \notin nested[q] => q \notin nested'[q]
    BY <1>1, <1>3, SharedSessions
  <2> QED
    BY <1>1, <2>1, <2>2 DEF TraceInv
<1> QED
  BY <1>2, <1>3

\* The trace and the session of an operation whose trace is complete stay as they are.
LEMMA FinishedStays ==
  ASSUME Core, TracesInv, NEW p \in Processes, StepOf(p),
         NEW q \in Operations, trace[q].finished
  PROVE  /\ trace'[q] = trace[q] /\ proc'[q].target = proc[q].target
         /\ proc'[q].unmarked = proc[q].unmarked
         /\ proc[q].unsaved => proc'[q].unsaved
<1>0. TypeOK /\ q \in Processes /\ TraceInv(q)
  BY Kinds DEF Core, TracesInv
<1>1. CASE q # p
  BY <1>0, <1>1, Frame
<1>2. CASE q = p
  <2>1. proc[p].step \in LastSteps \ {"complete"} /\ proc[p].step \notin Working
    BY <1>0, <1>2, WorkingSteps DEF TraceInv
  <2>2. CASE Kill(p)
    BY <1>0, <1>2, <2>2, KillEffect DEF Kept, traceVars
  <2>3. CASE p \in Starts /\ GetSummary(p)
    BY <1>0, <1>2, <2>3, SummaryEffect DEF traceVars
  <2>4. CASE Save(p) \/ Collect(p)
    BY <1>0, <1>2, <2>4, FinalEffect DEF Save, Collect, Kept
  <2>5. ~UpdateFailed(p) /\ ~CommitFailed(p) /\ ~CompleteOperation(p)
    BY <2>1 DEF UpdateFailed, CommitFailed, CompleteOperation, Writes, At, LastSteps
  <2> QED
    BY <1>2, <2>1, <2>2, <2>3, <2>4, <2>5, EndActions
<1> QED
  BY <1>1, <1>2

\* Every reachable state has consistent traces.
THEOREM TracesInvariance == Spec => [](Core /\ TracesInv)
<1>1. Init => TracesInv
  <2> SUFFICES ASSUME Init, NEW p \in Operations PROVE TraceInv(p)
    BY DEF TracesInv
  <2>1. /\ proc[p].step = "idle" /\ proc[p].outcome = "ok" /\ proc[p].target = None
        /\ ~trace[p].finished /\ trace[p].status = "running" /\ trace[p].failed = None
    BY Kinds DEF Init, TraceInit, NewProcess
  <2> QED
    BY <2>1 DEF TraceInv, LastSteps, FailSteps
<1>2. Core /\ TracesInv /\ [Next]_vars => TracesInv'
  <2> SUFFICES ASSUME Core, TracesInv, [Next]_vars PROVE TracesInv'
    OBVIOUS
  <2>1. CASE Next
    BY <2>1, StepHasProcess, TraceStep
  <2>2. CASE UNCHANGED vars
    BY <2>2 DEF TracesInv, TraceInv, vars, dbVars, traceVars
  <2> QED
    BY <2>1, <2>2
<1> QED
  BY <1>1, <1>2, CoreInvariance, PTL DEF Spec

\* A trace tells of every failure that is not one between two steps of the trace.
THEOREM TraceTellsFailureHolds == Spec => []TraceTellsFailure
<1>1. TracesInv => TraceTellsFailure
  BY DEF TracesInv, TraceInv, TraceTellsFailure
<1> QED
  BY <1>1, TracesInvariance, PTL

-----------------------------------------------------------------------------
(* latest-operation.json. *)

\* A process that has ended does nothing any more.
LEMMA EndedRests ==
  ASSUME Core, NEW p \in Operations, At(p, "ended"), StepOf(p)
  PROVE  FALSE
<1>1. proc[p].step \notin Working /\ ~Kill(p)
  BY WorkingSteps DEF At, LastSteps, Kill
<1> QED
  BY <1>1, EndActions DEF UpdateFailed, CommitFailed, GetSummary, CompleteOperation, Save,
     Collect, Writes, At

\* Where an operation goes at its end.
LEMMA LastMoves ==
  ASSUME Core, TracesInv, NEW p \in Operations, StepOf(p)
  PROVE  /\ proc'[p].step = "save" => CompleteOperation(p)
         /\ trace'[p].finished /\ ~trace[p].finished => CompleteOperation(p)
         /\ At(p, "save") => Save(p) \/ Kill(p)
<1>0. TypeOK /\ TraceInv(p) /\ p \in Processes /\ (p \in Starts \/ p \in Attaches)
  BY Kinds DEF Core, TracesInv, Operations
<1>1. CASE Kill(p)
  BY <1>0, <1>1, KillEffect DEF traceVars
<1>2. CASE proc[p].step \in Working /\ ~Kill(p)
  <2>1. \A step \in TraceSteps : StepFails(p, step) => trace'[p].finished = trace[p].finished
    BY <1>0, StepFailsEffect
  <2> QED
    BY <1>0, <1>2, <2>1, WorkEffect, WorkingSteps DEF GoesOn, Breaks, Returned, LastSteps,
       FailSteps, At
<1>3. CASE proc[p].step \notin Working /\ ~Kill(p)
  <2>1. p \in Starts /\ UpdateFailed(p) =>
          proc'[p].step \in {"commit_failed", "complete"} /\ trace' = trace /\ ~At(p, "save")
    BY <1>0, MovesEffect DEF UpdateFailed, Writes, OnlyLock, traceVars, TypeOK, Process, At
  <2>2. CommitFailed(p) => proc'[p].step = "complete" /\ trace' = trace /\ ~At(p, "save")
    BY <1>0, MovesEffect DEF CommitFailed, traceVars, At
  <2>3. p \in Starts /\ GetSummary(p) =>
          proc'[p].step = "collect" /\ trace' = trace /\ ~At(p, "save")
    BY <1>0, SummaryEffect DEF traceVars, At
  <2>4. Save(p) => proc'[p].step \in {"ended", "summary", "collect"} /\ trace' = trace
    BY <1>0, FinalEffect, AfterSaveSteps DEF Save
  <2>5. Collect(p) => /\ proc'[p].step \in {"collect_trace", "collect_summary", "ended"}
                      /\ trace' = trace /\ ~At(p, "save")
    BY <1>0, FinalEffect DEF Collect, At
  <2>6. CompleteOperation(p) => ~At(p, "save")
    BY DEF CompleteOperation, At
  <2> QED
    BY <1>3, <2>1, <2>2, <2>3, <2>4, <2>5, <2>6, EndActions
<1> QED
  BY <1>1, <1>2, <1>3

\* The file of a session is truncated and written, and nothing else; whoever has it
\* open writes it, is refused or dies.
Truncates(p, s) ==
  /\ p \in Operations /\ CompleteOperation(p) /\ proc[p].target = s
  /\ latest'[s] = Empty /\ writers'[s] = Saving(s) \union {p}
  /\ proc'[p].step = "save" /\ proc'[p].target = s

WritesFile(p, s) ==
  /\ p \in Operations /\ At(p, "save") /\ Save(p) /\ proc[p].target = s
  /\ writers'[s] = writers[s] /\ proc'[p].step # "save"
  /\ latest'[s] = p \/ (latest[s] # Empty /\ latest'[s] = Mixed)

IsRefused(p, s) ==
  /\ p \in Operations /\ At(p, "save") /\ Save(p) /\ proc[p].target = s
  /\ writers'[s] = writers[s] /\ proc'[p].step # "save" /\ proc'[p].unsaved
  /\ \/ latest'[s] = latest[s]
     \/ latest[s] = Empty /\ latest'[s] = Partial
     \/ latest[s] # Empty /\ latest'[s] = Mixed

LeavesFile(p, s) ==
  /\ latest'[s] = latest[s] /\ writers'[s] = writers[s]
  /\ p \in Operations /\ At(p, "save") /\ proc[p].target = s => Kill(p)

LEMMA LatestEffect ==
  ASSUME Core, TracesInv, NEW p \in Processes, StepOf(p), NEW s \in Starts
  PROVE  Truncates(p, s) \/ WritesFile(p, s) \/ IsRefused(p, s) \/ LeavesFile(p, s)
<1>0. /\ TypeOK
      /\ latest \in [Starts -> Operations \union {None, Empty, Partial, Mixed}]
      /\ writers \in [Starts -> SUBSET Operations]
  BY DEF Core, TypeOK, TraceTypeOK
<1>1. CASE p \in Operations /\ CompleteOperation(p)
  <2>1. ~At(p, "save") /\ proc'[p].target = proc[p].target
    BY <1>0, <1>1, FinalEffect DEF CompleteOperation, At, Kept
  <2>2. CASE SaveTruncates(proc[p].target, Saving(proc[p].target) \union {p}) /\ Moves(p, "save")
    <3>1. proc'[p].step = "save"
      BY <1>0, <1>1, <2>2, MovesEffect
    <3>2. \/ proc[p].target = s /\ latest'[s] = Empty /\ writers'[s] = Saving(s) \union {p}
          \/ proc[p].target # s /\ latest'[s] = latest[s] /\ writers'[s] = writers[s]
      BY <1>0, <2>2 DEF SaveTruncates
    <3> QED
      BY <1>1, <2>1, <3>1, <3>2 DEF Truncates, LeavesFile
  <2>3. CASE UNCHANGED <<latest, writers>>
    BY <2>1, <2>3 DEF LeavesFile
  <2> QED
    BY <1>1, <2>2, <2>3 DEF CompleteOperation
<1>2. CASE p \in Operations /\ Save(p)
  <2>1. At(p, "save") /\ proc'[p].step # "save" /\ writers' = writers
    BY <1>0, <1>2, FinalEffect, AfterSaveSteps DEF Save, SaveWrites, SaveFails
  <2>2. CASE proc[p].target # s
    BY <1>0, <1>2, <2>1, <2>2 DEF LeavesFile, Save, SaveWrites, SaveFails
  <2>3. CASE proc[p].target = s /\ SaveWrites(p, s)
    BY <1>0, <1>2, <2>1, <2>3 DEF WritesFile, SaveWrites
  <2>4. CASE proc[p].target = s /\ SaveFails(s) /\ GoesOnUnsaved(p)
    <3>1. proc'[p].unsaved
      BY <1>0, <2>4, UnsavedEffect
    <3> QED
      BY <1>0, <1>2, <2>1, <2>4, <3>1 DEF IsRefused, SaveFails
  <2> QED
    BY <1>2, <2>2, <2>3, <2>4 DEF Save
<1>3. ASSUME OpenStep(p) \/ Kill(p) \/ OtherBegins(p) \/ AttachResolves(p) \/ DoctorStep(p)
      PROVE  UNCHANGED <<latest, writers>>
  BY <1>3 DEF OpenStep, SchemaVersion, ApplyMigration, CreateTablesStep, UserVersionStep,
     CommitMigrationStep, OnlyLock, Kill, OtherBegins, AttachResolves, DoctorStep,
     DoctorResolves, LoadLatestOperation, traceVars
<1>4. ASSUME StartStep(p)
      PROVE  UNCHANGED <<latest, writers>>
  BY <1>4 DEF StartStep, StartBegins, PreflightConfig, InsertSession, CommitSession,
     NewForgejoService, ForgejoImport, UpdateReady, CommitReady, UpdateFailed, CommitFailed,
     GetSummary, Waits, OnlyLock, traceVars
<1>5. ASSUME OperationStep(p), ~CompleteOperation(p), ~Save(p)
      PROVE  UNCHANGED <<latest, writers>>
  BY <1>5 DEF OperationStep, Provision, InsertAgent, CommitAgent, PrepareAgentState,
     RecordAttachBegins, CommitAttach, AttachAgent, Collect, Waits, traceVars
<1>6. CASE UNCHANGED <<latest, writers>> /\ ~(p \in Operations /\ Save(p))
  BY <1>6, LastMoves DEF LeavesFile
<1> QED
  BY <1>1, <1>2, <1>3, <1>4, <1>5, <1>6 DEF StepOf

\* What is in the file of a session, and who has had it open since it was truncated.
Opening(s) ==
  \A q \in writers[s] : proc[q].target = s /\ trace[q].finished

Owned(s) ==
  latest[s] \in Operations => latest[s] \in writers[s] /\ ~At(latest[s], "save")

Explained(q) == At(q, "save") \/ proc[q].outcome = "torn" \/ proc[q].unsaved

Cut(s) ==
  /\ latest[s] \in {Empty, Partial} =>
       writers[s] # {} /\ \A q \in writers[s] : Explained(q)
  /\ latest[s] = Partial => \E q \in writers[s] : ~At(q, "save")

Overwritten(s) ==
  latest[s] = Mixed =>
    \E p, q \in writers[s] : p # q /\ ~At(p, "save") /\ ~At(q, "save")

FileInv(s) == Opening(s) /\ Owned(s) /\ Cut(s) /\ Overwritten(s)

\* An operation that writes has the file open, and one that has written left it there.
Writing(p) ==
  /\ At(p, "save") => p \in writers[proc[p].target] /\ latest[proc[p].target] # None
  /\ trace[p].finished /\ proc[p].target # None =>
       latest[proc[p].target] # None \/ proc[p].unsaved

LatestInv ==
  /\ \A s \in Starts : FileInv(s)
  /\ \A p \in Operations : Writing(p)

LEMMA Contents ==
  /\ Empty # Mixed /\ Empty # None /\ Mixed # None /\ Partial # None
  /\ Partial # Empty /\ Partial # Mixed
  /\ Empty \notin Operations /\ Partial \notin Operations /\ Mixed \notin Operations
  /\ None \notin Operations
  BY ContentAssumption, Kinds DEF Empty, Partial, Mixed

\* What an operation at "save" has done.
LEMMA Saves ==
  ASSUME Core, TracesInv, NEW p \in Operations, At(p, "save")
  PROVE  trace[p].finished /\ proc[p].target \in Starts
<1>1. TraceInv(p) /\ TypeOK /\ p \in Processes
  BY Kinds DEF Core, TracesInv
<1>2. trace[p].finished /\ proc[p].target # None
  BY <1>1 DEF TraceInv, At, LastSteps
<1> QED
  BY <1>1, <1>2 DEF TypeOK, Process

\* Nobody who has written opens the file again, and what explains a cut file stays.
LEMMA WriterStays ==
  ASSUME Core, TracesInv, NEW p \in Processes, StepOf(p),
         NEW q \in Operations, trace[q].finished
  PROVE  /\ ~At(q, "save") => ~At(q, "save")'
         /\ Explained(q) => Explained(q)' \/ (q = p /\ Save(p))
<1>0. TypeOK /\ TraceInv(q) /\ q \in Processes
  BY Kinds DEF Core, TracesInv
<1>1. CASE q # p
  BY <1>0, <1>1, Frame DEF At, Explained
<1>2. CASE q = p
  <2>1. ~CompleteOperation(p)
    BY <1>0, <1>2 DEF CompleteOperation, At, TraceInv
  <2>2. proc[p].outcome # "torn"
    BY <1>0, <1>2, EndedRests DEF TraceInv, At
  <2>3. At(p, "save") /\ Kill(p) => proc'[p].outcome = "torn"
    BY <1>0, <1>2, KillEffect
  <2> QED
    BY <1>2, <2>1, <2>2, <2>3, LastMoves, FinishedStays DEF At, Explained
<1> QED
  BY <1>1, <1>2

\* What a step does with the operations that have the file open.
LEMMA OpeningStep ==
  ASSUME Core, TracesInv, LatestInv, NEW p \in Processes, StepOf(p), NEW s \in Starts
  PROVE  Opening(s)'
<1>1. Opening(s) /\ writers[s] \subseteq Operations
  BY DEF LatestInv, FileInv, Core, TypeOK, TraceTypeOK
<1>2. ASSUME writers'[s] = writers[s] PROVE Opening(s)'
  BY <1>1, <1>2, FinishedStays DEF Opening
<1>3. CASE Truncates(p, s)
  <2>1. ASSUME NEW q \in Operations, At(q, "save"), proc[q].target = s
        PROVE  proc'[q].target = s /\ trace'[q].finished
    BY <2>1, Saves, FinishedStays
  <2>2. proc'[p].target = s /\ trace'[p].finished
    BY <1>3, CompleteEffect DEF Truncates, CompleteOperation, Core
  <2> QED
    BY <1>3, <2>1, <2>2 DEF Truncates, Opening, Saving
<1> QED
  BY <1>2, <1>3, LatestEffect DEF WritesFile, IsRefused, LeavesFile

LEMMA ContentStep ==
  ASSUME Core, TracesInv, LatestInv, NEW p \in Processes, StepOf(p), NEW s \in Starts
  PROVE  Owned(s)' /\ Cut(s)' /\ Overwritten(s)'
<1>0. /\ TypeOK /\ FileInv(s) /\ writers[s] \in SUBSET Operations
      /\ latest[s] \in Operations \union {None, Empty, Partial, Mixed}
      /\ \A q \in writers[s] : q \in Operations /\ trace[q].finished
  BY DEF LatestInv, FileInv, Opening, Core, TypeOK, TraceTypeOK
<1>1. \A q \in writers[s] :
        /\ ~At(q, "save") => ~At(q, "save")'
        /\ Explained(q) => Explained(q)' \/ (q = p /\ Save(p))
  BY <1>0, WriterStays
<1>2. CASE Truncates(p, s)
  <2>1. \A q \in writers'[s] : At(q, "save")'
    <3>1. ASSUME NEW q \in Operations, At(q, "save"), q # p PROVE At(q, "save")'
      BY <1>0, <3>1, Frame, Kinds DEF At
    <3> QED
      BY <1>2, <3>1 DEF Truncates, Saving, At
  <2>2. latest'[s] = Empty /\ p \in writers'[s]
    BY <1>2 DEF Truncates
  <2> QED
    BY <2>1, <2>2, Contents DEF Owned, Cut, Overwritten, Explained
<1>3. CASE WritesFile(p, s) \/ IsRefused(p, s)
  <2>1. /\ p \in writers[s] /\ At(p, "save") /\ ~At(p, "save")' /\ latest[s] # None
        /\ writers'[s] = writers[s]
    BY <1>3 DEF WritesFile, IsRefused, LatestInv, Writing, At
  <2>2. ASSUME latest'[s] = Mixed, latest[s] # Empty
        PROVE  \E q, r \in writers[s] : q # r /\ ~At(q, "save")' /\ ~At(r, "save")'
    <3>1. CASE latest[s] = Mixed
      BY <1>0, <1>1, <3>1 DEF FileInv, Overwritten
    <3>2. CASE latest[s] # Mixed
      <4>1. PICK q \in writers[s] : ~At(q, "save")
        BY <1>0, <2>1, <2>2, <3>2 DEF FileInv, Owned, Cut
      <4> QED
        BY <1>1, <2>1, <4>1
    <3> QED
      BY <3>1, <3>2
  <2>3. CASE WritesFile(p, s)
    BY <2>1, <2>2, <2>3, Contents DEF WritesFile, Owned, Cut, Overwritten
  <2>4. CASE IsRefused(p, s)
    <3>1. Explained(p)'
      BY <2>4 DEF IsRefused, Explained
    <3>2. Owned(s)'
      BY <1>0, <1>1, <2>1, <2>4, Contents DEF FileInv, Owned, IsRefused, At
    <3>3. Cut(s)'
      BY <1>0, <1>1, <2>1, <2>4, <3>1, Contents DEF FileInv, Cut, IsRefused
    <3>4. Overwritten(s)'
      BY <2>1, <2>2, <2>4, Contents DEF Overwritten, IsRefused
    <3> QED
      BY <3>2, <3>3, <3>4
  <2> QED
    BY <1>3, <2>3, <2>4
<1>4. CASE LeavesFile(p, s)
  <2>1. latest'[s] = latest[s] /\ writers'[s] = writers[s]
    BY <1>4 DEF LeavesFile
  <2>2. \A q \in writers[s] : Explained(q) => Explained(q)'
    <3>1. ASSUME p \in writers[s], Save(p) PROVE FALSE
      <4>1. Kill(p) /\ TraceInv(p) /\ p \in Operations
        BY <1>0, <1>4, <3>1 DEF LeavesFile, Save, FileInv, Opening, TracesInv
      <4>2. proc'[p].outcome = "torn" /\ proc[p].outcome # "torn"
        BY <1>0, <3>1, <4>1, KillEffect, Kinds DEF Save, At, TraceInv
      <4> QED
        BY <1>0, <3>1, <4>1, <4>2, FinalEffect
    <3> QED
      BY <1>1, <3>1
  <2>3. Owned(s)'
    BY <1>0, <1>1, <2>1 DEF FileInv, Owned, At
  <2>4. Cut(s)'
    BY <1>0, <1>1, <2>1, <2>2 DEF FileInv, Cut
  <2>5. Overwritten(s)'
    BY <1>0, <1>1, <2>1 DEF FileInv, Overwritten
  <2> QED
    BY <2>3, <2>4, <2>5
<1> QED
  BY <1>2, <1>3, <1>4, LatestEffect

LEMMA WritingStep ==
  ASSUME Core, TracesInv, LatestInv, NEW p \in Processes, StepOf(p), NEW q \in Operations
  PROVE  Writing(q)'
<1>0. /\ TypeOK /\ Core' /\ TracesInv' /\ q \in Processes
      /\ proc[q].target \in Starts \union {None}
  BY CoreStep, TraceStep, Kinds DEF Core, TypeOK, Process
<1>1. \A s \in Starts : latest[s] # None => latest'[s] # None
  BY LatestEffect, Contents DEF Truncates, WritesFile, IsRefused, LeavesFile
<1>2. ASSUME At(q, "save")'
      PROVE  q \in writers'[proc'[q].target] /\ latest'[proc'[q].target] # None
  <2>1. CASE q # p
    <3>1. At(q, "save") /\ proc'[q].target = proc[q].target
      BY <1>0, <1>2, <2>1, Frame DEF At
    <3>2. /\ proc[q].target \in Starts /\ q \in writers[proc[q].target]
          /\ latest[proc[q].target] # None
      BY <3>1, Saves DEF LatestInv, Writing
    <3>3. q \in writers'[proc[q].target]
      BY <3>1, <3>2, LatestEffect DEF Truncates, WritesFile, IsRefused, LeavesFile, Saving
    <3> QED
      BY <1>1, <3>1, <3>2, <3>3
  <2>2. CASE q = p
    <3>1. CompleteOperation(p)
      BY <1>2, <2>2, LastMoves DEF At
    <3>2. proc'[p].target = proc[p].target /\ At(p, "complete")
      BY <1>0, <2>2, <3>1, FinalEffect DEF Kept
    <3>3. proc[p].target \in Starts
      BY <1>0, <1>2, <2>2, <3>1, FinalEffect DEF At
    <3>4. Moves(p, "save")
      BY <1>0, <1>2, <2>2, <3>1, <3>3, UnsavedEffect, AfterSaveSteps, Kinds
         DEF CompleteOperation, At
    <3>5. SaveTruncates(proc[p].target, Saving(proc[p].target) \union {p})
      BY <1>0, <1>2, <2>2, <3>1, <3>3, UnsavedEffect, AfterSaveSteps, Kinds
         DEF CompleteOperation, At
    <3> QED
      BY <2>2, <3>2, <3>3, <3>5, <1>0, Contents DEF SaveTruncates, TypeOK, TraceTypeOK
  <2> QED
    BY <2>1, <2>2
<1>3. ASSUME trace'[q].finished, proc'[q].target # None
      PROVE  latest'[proc'[q].target] # None \/ proc'[q].unsaved
  <2>1. CASE trace[q].finished
    BY <1>0, <1>1, <1>3, <2>1, FinishedStays DEF LatestInv, Writing
  <2>2. CASE ~trace[q].finished
    <3>1. q = p /\ CompleteOperation(p)
      BY <1>0, <1>3, <2>2, LastMoves, Frame
    <3>2. proc'[p].target = proc[p].target
      BY <1>0, <3>1, FinalEffect DEF Kept
    <3>3. CASE Moves(p, "save")
      BY <1>0, <1>2, <3>1, <3>3, MovesEffect DEF At
    <3>4. CASE GoesOnUnsaved(p)
      BY <1>0, <3>1, <3>4, UnsavedEffect
    <3> QED
      BY <1>3, <3>1, <3>2, <3>3, <3>4 DEF CompleteOperation
  <2> QED
    BY <2>1, <2>2
<1> QED
  BY <1>2, <1>3 DEF Writing

\* The file of every session has a complete trace of the session, or was cut off.
THEOREM LatestInvariance == Spec => [](Core /\ TracesInv /\ LatestInv)
<1>1. Init => LatestInv
  BY Contents, Kinds DEF Init, TraceInit, NewProcess, LatestInv, FileInv, Opening, Owned, Cut,
     Overwritten, Writing, At
<1>2. Core /\ TracesInv /\ LatestInv /\ [Next]_vars => LatestInv'
  <2> SUFFICES ASSUME Core, TracesInv, LatestInv, [Next]_vars PROVE LatestInv'
    OBVIOUS
  <2>1. CASE Next
    BY <2>1, StepHasProcess, OpeningStep, ContentStep, WritingStep DEF LatestInv, FileInv
  <2>2. CASE UNCHANGED vars
    BY <2>2 DEF LatestInv, FileInv, Opening, Owned, Cut, Explained, Overwritten, Writing, At,
       vars, traceVars
  <2> QED
    BY <2>1, <2>2
<1> QED
  BY <1>1, <1>2, TracesInvariance, PTL DEF Spec

\* An unreadable latest-operation.json is being written, was cut off by the deaths or
\* the refusals of all who have had it open, or was written by two commands.
THEOREM LatestIsWholeHolds == Spec => []LatestIsWhole
<1>1. LatestInv => LatestIsWhole
  BY DEF LatestInv, FileInv, Cut, Explained, Overwritten, LatestIsWhole
<1> QED
  BY <1>1, LatestInvariance, PTL

-----------------------------------------------------------------------------
(* The artefacts of a failure. *)

\* A start marks its session before its trace is complete.
MarkedInv(p) ==
  p \in Starts /\ proc[p].target # None
  /\ (trace[p].finished \/ At(p, "complete"))
  /\ (trace[p].status = "failed" \/ proc[p].outcome = "error") =>
    proc[p].unmarked \/ session[p].status = "failed"

CollectSteps == {"collect", "collect_trace", "collect_summary"}

\* The summary that a start has read.
SeenInv(p) ==
  p \in Starts /\ proc[p].target # None
  /\ (proc[p].step \in CollectSteps \/ (At(p, "ended") /\ proc[p].outcome = "error")) =>
    proc[p].unmarked \/ proc[p].seen \in {"none", "failed"}

Files(p) == artefact[proc[p].target][Name(p)]

\* An operation is at one of the steps, or has failed and ended with all its artefacts.
Past(p, steps) ==
  \/ proc[p].step \in steps
  \/ At(p, "ended") /\ proc[p].outcome = "error" /\ ~proc[p].uncollected

FilesInv(p) ==
  /\ p \in Starts /\ ~At(p, "ended") => artefact[p]["start"].summary = "none"
  /\ proc[p].target # None =>
       /\ Past(p, {"collect_trace", "collect_summary"}) =>
            Files(p).failure # None /\ (p \in Starts => Files(p).failure = p)
       /\ Past(p, {"collect_summary"}) =>
            Files(p).trace # None /\ (p \in Starts => Files(p).trace = p)
       /\ Past(p, {}) =>
            /\ proc[p].seen # "none" => Files(p).summary # "none"
            /\ p \in Starts => Files(p).summary = proc[p].seen

DiskInv == \A p \in Operations : MarkedInv(p) /\ SeenInv(p) /\ FilesInv(p)

\* Where an operation goes that still works.
LEMMA WorkLeads ==
  ASSUME Core, TracesInv, NEW p \in Operations, StepOf(p), proc[p].step \in Working, ~Kill(p)
  PROVE  /\ proc'[p].step \in Working \union FailSteps \union {"complete"}
         /\ ~trace'[p].finished
         /\ proc'[p].step = "complete" /\ p \in Starts /\ proc'[p].target # None =>
              proc'[p].outcome = "ok" /\ trace'[p].status = "running"
<1>1. TraceInv(p) /\ ~trace[p].finished /\ trace[p].status = "running"
  BY WorkingSteps DEF TracesInv, TraceInv
<1>2. \A step \in TraceSteps : StepFails(p, step) => trace'[p].finished = trace[p].finished
  BY StepFailsEffect DEF Core
<1> QED
  BY <1>1, <1>2, WorkEffect, WorkingSteps DEF GoesOn, Breaks, Returned, MarksFirst, LastSteps

\* Where an operation goes whose trace is complete: a start that failed with a session
\* reads it again first, and who goes no further with one has not failed.
Leads(p) ==
  /\ proc'[p].step \in {"save", "summary", "collect", "ended"}
  /\ p \in Starts /\ proc[p].target # None => proc'[p].step # "collect"
  /\ proc[p].target # None /\ proc'[p].step = "ended" => proc[p].outcome = "ok"

\* The steps at the end, each with what it changes.
LEMMA EndEffects ==
  ASSUME Core, TracesInv, NEW p \in Operations, StepOf(p), proc[p].step \notin Working,
         ~Kill(p)
  PROVE  /\ proc'[p].target = proc[p].target /\ proc'[p].outcome = proc[p].outcome
         /\ p \in Starts /\ UpdateFailed(p) =>
              /\ At(p, "update_failed") /\ trace' = trace
              /\ \/ proc'[p].step = "commit_failed"
                 \/ proc'[p].step = "complete" /\ proc'[p].unmarked
         /\ p \in Starts /\ CommitFailed(p) =>
              At(p, "commit_failed") /\ proc'[p].step = "complete"
              /\ session'[p].status = "failed"
         /\ p \in Starts /\ GetSummary(p) =>
              /\ At(p, "summary") /\ proc'[p].step = "collect"
              /\ proc'[p].seen \in {session[p].status, "none"}
              /\ proc'[p].unmarked = proc[p].unmarked
         /\ CompleteOperation(p) =>
              /\ At(p, "complete") /\ Complete(p) /\ Kept(p) /\ Leads(p)
         /\ Save(p) =>
              /\ At(p, "save") /\ Kept(p) /\ Leads(p)
         /\ Collect(p) =>
              /\ proc[p].step \in CollectSteps /\ Kept(p)
              /\ proc'[p].step \in {"ended"} \union CollectSteps
<1>0. TypeOK /\ p \in Processes /\ TraceInv(p)
  BY Kinds DEF Core, TracesInv
<1>1. p \in Starts /\ UpdateFailed(p) =>
        /\ proc'[p].target = proc[p].target /\ proc'[p].outcome = proc[p].outcome
        /\ At(p, "update_failed") /\ trace' = trace
        /\ \/ proc'[p].step = "commit_failed"
           \/ proc'[p].step = "complete" /\ proc'[p].unmarked
  BY <1>0, MovesEffect DEF UpdateFailed, Writes, OnlyLock, traceVars, TypeOK, Process, Kept
<1>2. p \in Starts /\ CommitFailed(p) =>
        /\ Kept(p) /\ proc'[p].outcome = proc[p].outcome
        /\ At(p, "commit_failed") /\ proc'[p].step = "complete"
        /\ session'[p].status = "failed"
  BY <1>0, MovesEffect, UpdateEffect DEF CommitFailed, Statuses
<1>3. p \in Starts /\ GetSummary(p) =>
        /\ proc'[p].target = proc[p].target /\ proc'[p].outcome = proc[p].outcome
        /\ At(p, "summary") /\ proc'[p].step = "collect"
        /\ proc'[p].seen \in {session[p].status, "none"}
        /\ proc'[p].unmarked = proc[p].unmarked
  BY <1>0, SummaryEffect DEF At
<1>4. /\ proc'[p].step \in {"save", AfterSave(p)} \/ proc[p].target = None
      /\ proc'[p].step \in {"save", "summary", "collect", "ended"}
      => Leads(p)
  BY Kinds DEF Leads, AfterSave, Operations
<1>5. CompleteOperation(p) =>
        /\ At(p, "complete") /\ Complete(p) /\ Leads(p)
        /\ Kept(p) /\ proc'[p].outcome = proc[p].outcome
  BY <1>0, <1>4, FinalEffect, AfterSaveSteps DEF CompleteOperation
<1>6. Save(p) =>
        /\ At(p, "save") /\ Leads(p)
        /\ Kept(p) /\ proc'[p].outcome = proc[p].outcome
  BY <1>0, <1>4, FinalEffect, AfterSaveSteps DEF Save
<1>7. Collect(p) =>
        /\ proc[p].step \in CollectSteps
        /\ proc'[p].step \in {"ended"} \union CollectSteps
        /\ Kept(p) /\ proc'[p].outcome = proc[p].outcome
  BY <1>0, FinalEffect DEF CollectSteps, At
<1> QED
  BY <1>1, <1>2, <1>3, <1>5, <1>6, <1>7, EndActions DEF Kept

LEMMA MarkedStep ==
  ASSUME Core, TracesInv, DiskInv, NEW p \in Processes, StepOf(p), NEW q \in Operations
  PROVE  MarkedInv(q)'
<1>0. TypeOK /\ MarkedInv(q) /\ TraceInv(q) /\ q \in Processes
  BY Kinds DEF Core, TracesInv, DiskInv
<1>1. CASE q # p
  <2>1. q \in Starts => session'[q].status = session[q].status
    BY <1>1, SharedSessions DEF Core
  <2> QED
    BY <1>0, <1>1, <2>1, Frame DEF MarkedInv, At
<1>2. CASE q = p /\ Kill(p)
  BY <1>0, <1>2, KillEffect DEF MarkedInv, At, Kept, traceVars
<1>3. CASE q = p /\ ~Kill(p) /\ proc[p].step \in Working
  BY <1>3, WorkLeads, WorkingSteps DEF MarkedInv, At, LastSteps, FailSteps
<1>4. CASE q = p /\ ~Kill(p) /\ proc[p].step \notin Working
  <2>1. CASE p \in Starts /\ (UpdateFailed(p) \/ CommitFailed(p))
    BY <1>0, <1>4, <2>1, EndEffects DEF MarkedInv, At, TraceInv, LastSteps
  <2>2. CASE CompleteOperation(p)
    <3>1. session' = session
      BY <2>2 DEF CompleteOperation, dbVars
    <3> QED
      BY <1>0, <1>4, <2>2, <3>1, EndEffects, CompleteEffect DEF MarkedInv, At, Kept
  <2>3. CASE (p \in Starts /\ GetSummary(p)) \/ Save(p) \/ Collect(p)
    <3>1. session' = session /\ trace' = trace
      BY <2>3 DEF GetSummary, Save, Collect, dbVars, traceVars
    <3>2. trace[p].finished
      BY <1>0, <1>4, <2>3, EndEffects DEF TraceInv, LastSteps, At, CollectSteps
    <3> QED
      BY <1>0, <1>4, <2>3, <3>1, <3>2, EndEffects DEF MarkedInv, Kept
  <2> QED
    BY <1>4, <2>1, <2>2, <2>3, EndActions
<1> QED
  BY <1>1, <1>2, <1>3, <1>4

LEMMA SeenStep ==
  ASSUME Core, TracesInv, DiskInv, NEW p \in Processes, StepOf(p), NEW q \in Operations
  PROVE  SeenInv(q)'
<1>0. /\ TypeOK /\ MarkedInv(q) /\ SeenInv(q) /\ TraceInv(q) /\ q \in Processes
      /\ q \in Starts => StartInv(q)
  BY Kinds DEF Core, TracesInv, DiskInv, SessionInv
<1>1. CASE q # p
  BY <1>0, <1>1, Frame DEF SeenInv, At
<1>2. CASE q = p /\ Kill(p)
  BY <1>0, <1>2, KillEffect DEF SeenInv, CollectSteps, At
<1>3. CASE q = p /\ ~Kill(p) /\ proc[p].step \in Working
  BY <1>3, WorkLeads, WorkingSteps DEF SeenInv, CollectSteps, LastSteps, FailSteps, At
<1>4. CASE q = p /\ ~Kill(p) /\ proc[p].step \notin Working
  <2>1. CASE p \in Starts /\ GetSummary(p)
    <3>1. proc[p].outcome = "error" /\ proc[p].target # None /\ trace[p].finished
      BY <1>0, <1>4, <2>1, EndEffects DEF TraceInv, LastSteps, At
    <3>2. proc[p].unmarked \/ session[p].status = "failed"
      BY <1>0, <1>4, <2>1, <3>1 DEF MarkedInv
    <3> QED
      BY <1>4, <2>1, <3>2, EndEffects DEF SeenInv
  <2>2. CASE p \in Starts /\ (UpdateFailed(p) \/ CommitFailed(p))
    BY <1>4, <2>2, EndEffects DEF SeenInv, CollectSteps, At
  <2>3. CASE CompleteOperation(p) \/ Save(p)
    BY <1>4, <2>3, EndEffects DEF SeenInv, CollectSteps, At, Leads
  <2>4. CASE Collect(p)
    BY <1>0, <1>4, <2>4, EndEffects DEF SeenInv, Kept
  <2> QED
    BY <1>4, <2>1, <2>2, <2>3, <2>4, EndActions
<1> QED
  BY <1>1, <1>2, <1>3, <1>4

\* What Collect writes over the files of an operation.
Written(p, files, new) ==
  \/ At(p, "collect") /\ new = [files EXCEPT !.failure = p]
  \/ At(p, "collect_trace") /\ new = [files EXCEPT !.trace = p]
  \/ At(p, "collect_summary") /\ new = [files EXCEPT !.summary = proc[p].seen]

\* A file of a session changes only by its Collect, and only by an operation of the
\* session with the name of its directory.
LEMMA ArtefactEffect ==
  ASSUME Core, NEW p \in Processes, StepOf(p), NEW s \in Starts, NEW name \in {"start", "attach"}
  PROVE  \/ artefact'[s][name] = artefact[s][name]
         \/ /\ p \in Operations /\ Collect(p) /\ proc[p].target = s /\ name = Name(p)
            /\ Written(p, artefact[s][name], artefact'[s][name])
<1>0. /\ artefact \in [Directories -> [{"start", "attach"} -> Artefacts]]
      /\ s \in Directories
  BY DEF Core, TypeOK, TraceTypeOK, Directories
<1>1. CASE p \in Operations /\ Collect(p)
  <2>1. Name(p) \in {"start", "attach"} /\ proc[p].target \in Directories
    BY <1>1, Kinds DEF Name, Core, TypeOK, Process, Directories
  <2> QED
    BY <1>0, <1>1, <2>1 DEF Collect, CollectFailure, CollectTrace, CollectSummary, Written
<1>2. ASSUME OpenStep(p) \/ Kill(p) \/ OtherBegins(p) \/ AttachResolves(p) \/ DoctorStep(p)
      PROVE  UNCHANGED artefact
  BY <1>2 DEF OpenStep, SchemaVersion, ApplyMigration, CreateTablesStep, UserVersionStep,
     CommitMigrationStep, OnlyLock, Kill, OtherBegins, AttachResolves, DoctorStep,
     DoctorResolves, LoadLatestOperation, traceVars
<1>3. ASSUME StartStep(p)
      PROVE  UNCHANGED artefact
  BY <1>3 DEF StartStep, StartBegins, PreflightConfig, InsertSession, CommitSession,
     NewForgejoService, ForgejoImport, UpdateReady, CommitReady, UpdateFailed, CommitFailed,
     GetSummary, Waits, OnlyLock, traceVars
<1>4. ASSUME OperationStep(p), ~Collect(p)
      PROVE  UNCHANGED artefact
  BY <1>4 DEF OperationStep, Provision, InsertAgent, CommitAgent, PrepareAgentState,
     RecordAttachBegins, CommitAttach, AttachAgent, CompleteOperation, Save, Waits, traceVars
<1> QED
  BY <1>1, <1>2, <1>3, <1>4 DEF StepOf

\* Only a start itself writes the artefacts of a start of its session.
LEMMA StartFiles ==
  ASSUME Core, TracesInv, NEW p \in Processes, StepOf(p), NEW s \in Starts, s # p
  PROVE  artefact'[s]["start"] = artefact[s]["start"]
<1>1. p \in Starts => StartInv(p)
  BY DEF Core, SessionInv
<1>2. p \in Operations /\ "start" = Name(p) => p \in Starts
  BY DEF Name
<1> QED
  BY <1>1, <1>2, ArtefactEffect, Kinds DEF StartInv

\* What one operation has written stays, unless another one that shares the directory
\* writes its own.
LEMMA OthersFiles ==
  ASSUME Core, TracesInv, DiskInv, NEW p \in Processes, StepOf(p),
         NEW q \in Operations, q # p, FilesInv(q)
  PROVE  FilesInv(q)'
<1>0. /\ TypeOK /\ q \in Processes /\ Name(q) \in {"start", "attach"}
      /\ q \in Starts => StartInv(q)
      /\ p \in Operations => TraceInv(p)
  BY Kinds DEF Core, SessionInv, Name, TracesInv
<1>1. proc'[q] = proc[q]
  BY <1>0, Frame
<1>2. q \in Starts => artefact'[q]["start"] = artefact[q]["start"]
  BY StartFiles
<1>3. CASE proc[q].target = None
  BY <1>1, <1>2, <1>3 DEF FilesInv, At
<1>4. CASE proc[q].target # None
  <2> DEFINE t == proc[q].target
  <2>1. t \in Starts /\ artefact[t][Name(q)] \in Artefacts
    BY <1>0, <1>4 DEF TypeOK, TraceTypeOK, Process, Directories
  <2>2. Files(q) = artefact[t][Name(q)] /\ Files(q)' = artefact'[t][Name(q)]
    BY <1>1 DEF Files
  <2>3. CASE artefact'[t][Name(q)] = artefact[t][Name(q)]
    BY <1>1, <1>2, <2>2, <2>3 DEF FilesInv, Past, At
  <2>4. CASE artefact'[t][Name(q)] # artefact[t][Name(q)]
    <3>1. p \in Operations /\ Written(p, Files(q), Files(q)')
      BY <1>0, <2>1, <2>2, <2>4, ArtefactEffect
    <3>2. q \notin Starts
      BY <1>0, <1>2, <1>4, <2>4 DEF StartInv, Name
    <3>3. At(p, "collect_summary") => proc[p].seen # "none"
      BY <1>0, <3>1 DEF TraceInv, At
    <3>4. p # None /\ Files(q) \in Artefacts
      BY <2>1, <2>2, Kinds
    <3> QED
      BY <1>1, <3>1, <3>2, <3>3, <3>4 DEF FilesInv, Past, At, Artefacts, Written
  <2> QED
    BY <2>3, <2>4
<1> QED
  BY <1>3, <1>4

\* Before it has a summary to write, a start leaves none.
LEMMA NoSummaryYet ==
  ASSUME Core, TracesInv, DiskInv, NEW p \in Starts, StepOf(p), ~At(p, "ended")'
  PROVE  artefact'[p]["start"].summary = "none"
<1>0. /\ TypeOK /\ p \in Processes /\ p \in Operations /\ p \in Directories
      /\ FilesInv(p) /\ StartInv(p) /\ Name(p) = "start"
  BY Kinds DEF Core, DiskInv, SessionInv, Directories, Name
<1>1. ~At(p, "ended")
  BY <1>0, EndedRests
<1>2. artefact[p]["start"].summary = "none" /\ artefact[p]["start"] \in Artefacts
  BY <1>0, <1>1 DEF FilesInv, TypeOK, TraceTypeOK
<1>3. ASSUME At(p, "collect_summary"), Collect(p) PROVE FALSE
  BY <1>0, <1>3, FinalEffect DEF At
<1>4. \/ artefact'[p]["start"] = artefact[p]["start"]
      \/ Collect(p) /\ Written(p, artefact[p]["start"], artefact'[p]["start"])
  <2>1. "start" \in {"start", "attach"}
    OBVIOUS
  <2> QED
    BY <1>0, <2>1, ArtefactEffect
<1> QED
  BY <1>2, <1>3, <1>4 DEF Written, Artefacts

LEMMA OwnFiles ==
  ASSUME Core, TracesInv, DiskInv, NEW p \in Operations, StepOf(p)
  PROVE  FilesInv(p)'
<1>0. /\ TypeOK /\ p \in Processes /\ Name(p) \in {"start", "attach"} /\ p # None
      /\ FilesInv(p) /\ TraceInv(p)
      /\ p \in Starts => StartInv(p) /\ Name(p) = "start"
  BY Kinds DEF Core, SessionInv, Name, DiskInv, TracesInv
<1> SUFFICES ASSUME proc'[p].target # None, Past(p, {"collect_trace", "collect_summary"})'
             PROVE  /\ Files(p)'.failure # None /\ (p \in Starts => Files(p)'.failure = p)
                    /\ Past(p, {"collect_summary"})' =>
                         Files(p)'.trace # None /\ (p \in Starts => Files(p)'.trace = p)
                    /\ Past(p, {})' =>
                         /\ proc'[p].seen # "none" => Files(p)'.summary # "none"
                         /\ p \in Starts => Files(p)'.summary = proc'[p].seen
  BY NoSummaryYet DEF FilesInv, Past
<1>1. ~Kill(p)
  BY <1>0, KillEffect DEF Past, At
<1>2. proc[p].step \notin Working
  BY <1>1, WorkLeads, WorkingSteps DEF Past, At, LastSteps, FailSteps
<1>3. Collect(p) /\ Kept(p) /\ proc'[p].outcome = proc[p].outcome /\ proc[p].target # None
  BY <1>1, <1>2, EndEffects, EndActions DEF Past, At, Leads
<1>4. /\ proc[p].target \in Directories /\ Files(p) \in Artefacts
      /\ artefact \in [Directories -> [{"start", "attach"} -> Artefacts]]
  BY <1>0 DEF TypeOK, TraceTypeOK, Process, Directories, Files
<1>5. Files(p)' = artefact'[proc[p].target][Name(p)]
  BY <1>3 DEF Files, Kept
<1>6. \/ /\ At(p, "collect") /\ proc'[p].step = "collect_trace"
         /\ Files(p)' = [Files(p) EXCEPT !.failure = p]
      \/ /\ At(p, "collect_trace")
         /\ proc'[p].step = IF proc[p].seen = "none" THEN "ended" ELSE "collect_summary"
         /\ Files(p)' = [Files(p) EXCEPT !.trace = p]
      \/ /\ At(p, "collect_summary") /\ proc'[p].step = "ended"
         /\ Files(p)' = [Files(p) EXCEPT !.summary = proc[p].seen]
  <2>1. ~GivesUpCollecting(p)
    BY <1>0, UncollectedEffect DEF Past, At
  <2> QED
    BY <1>0, <1>3, <1>4, <1>5, <2>1, MovesEffect
       DEF Collect, CollectFailure, CollectTrace, CollectSummary, Files
<1>7. /\ p \in Starts => Files(p).summary = "none"
      /\ At(p, "collect_summary") => proc[p].seen # "none"
  BY <1>0, <1>3, <1>6 DEF FilesInv, Files, StartInv, TraceInv, At
<1> QED
  BY <1>0, <1>3, <1>4, <1>6, <1>7 DEF FilesInv, Past, At, Kept, Artefacts

\* The steps to the artefacts of a failure, in their order.
THEOREM DiskInvariance == Spec => [](Core /\ TracesInv /\ DiskInv)
<1>1. Init => DiskInv
  BY Kinds DEF Init, TraceInit, NewProcess, NoArtefacts, Directories, DiskInv, MarkedInv,
     SeenInv, CollectSteps, FilesInv, Past, At
<1>2. Core /\ TracesInv /\ DiskInv /\ [Next]_vars => DiskInv'
  <2> SUFFICES ASSUME Core, TracesInv, DiskInv, [Next]_vars PROVE DiskInv'
    OBVIOUS
  <2>1. ASSUME NEW p \in Processes, StepOf(p), NEW q \in Operations
        PROVE  FilesInv(q)'
    BY <2>1, OwnFiles, OthersFiles DEF DiskInv
  <2>2. CASE Next
    BY <2>1, <2>2, StepHasProcess, MarkedStep, SeenStep DEF DiskInv
  <2>3. CASE UNCHANGED vars
    BY <2>3 DEF DiskInv, MarkedInv, SeenInv, FilesInv, Files, Past, At, vars, dbVars, traceVars
  <2> QED
    BY <2>2, <2>3
<1> QED
  BY <1>1, <1>2, TracesInvariance, PTL DEF Spec

\* A failure with a session leaves its trace and its artefacts, but for what was
\* refused, and the artefacts of a start say that its session failed.
THEOREM FailureReachesDiskHolds == Spec => []FailureReachesDisk
<1>1. TypeOK /\ TracesInv /\ LatestInv /\ DiskInv => FailureReachesDisk
  <2> SUFFICES ASSUME TypeOK, TracesInv, LatestInv, DiskInv, NEW p \in Operations,
                      At(p, "ended"), proc[p].outcome = "error", proc[p].target # None
               PROVE  /\ latest[proc[p].target] # None \/ proc[p].unsaved
                      /\ p \in Starts => proc[p].unmarked \/ session[p].status = "failed"
                      /\ ~proc[p].uncollected =>
                           /\ Files(p).failure # None /\ Files(p).trace # None
                           /\ proc[p].seen # "none" => Files(p).summary # "none"
                           /\ p \in Starts =>
                                /\ Files(p).failure = p /\ Files(p).trace = p
                                /\ Files(p).summary = proc[p].seen
                                /\ proc[p].seen \in {"none", "failed"} \/ proc[p].unmarked
    BY DEF FailureReachesDisk, Files
  <2>1. trace[p].finished
    BY DEF TracesInv, TraceInv, At
  <2>2. latest[proc[p].target] # None \/ proc[p].unsaved
    BY <2>1 DEF LatestInv, Writing
  <2>3. p \in Starts => proc[p].unmarked \/ session[p].status = "failed"
    BY <2>1 DEF DiskInv, MarkedInv
  <2>4. p \in Starts => proc[p].seen \in {"none", "failed"} \/ proc[p].unmarked
    BY DEF DiskInv, SeenInv
  <2>5. FilesInv(p) /\ (~proc[p].uncollected => \A steps : Past(p, steps))
    BY DEF DiskInv, Past
  <2> QED
    BY <2>2, <2>3, <2>4, <2>5 DEF FilesInv
<1> QED
  BY <1>1, TypeCorrect, LatestInvariance, DiskInvariance, PTL

-----------------------------------------------------------------------------
(* A session that is starting has a start that prepares it. *)

\* A start that is over without an error has made its session ready.
PreparedInv(s) ==
  proc[s].target # None /\ proc[s].step \in LastSteps /\ proc[s].outcome = "ok" =>
    session[s].status = "ready"

PreparedAll == \A s \in Starts : PreparedInv(s)

\* Only the last step of its work lets a start return without an error.
LEMMA ReturnsPrepared ==
  ASSUME Core, TracesInv, NEW p \in Starts, StepOf(p), proc[p].step \in Working,
         proc'[p].step = "complete", proc'[p].outcome = "ok"
  PROVE  AttachAgent(p)
<1>0. TypeOK /\ p \in Processes /\ p \in Operations /\ p \notin Attaches /\ p \notin Doctors
  BY Kinds DEF Core
<1>1. /\ \A step : Moves(p, step) => proc'[p].step = step
      /\ \A outcome : Returns(p, outcome) => proc'[p].outcome = outcome
      /\ Fails(p) => proc'[p].outcome = "error"
  BY <1>0, MovesEffect, ReturnsEffect, FailsEffect
<1>2. ~OpenStep(p)
  BY <1>1 DEF OpenStep, SchemaVersion, ApplyMigration, CreateTablesStep, UserVersionStep,
     CommitMigrationStep, Opened
<1>3. ~Kill(p)
  BY <1>0, KillEffect
<1>4. ~OtherBegins(p)
  BY <1>0, <1>1 DEF OtherBegins
<1>5. CASE StartStep(p)
  <2>1. ~CommitSession(p)
    BY <1>0 DEF CommitSession, TypeOK, Process
  <2>2. ~UpdateFailed(p) /\ ~CommitFailed(p) /\ ~GetSummary(p)
    BY WorkingSteps DEF UpdateFailed, CommitFailed, GetSummary, Writes, At, FailSteps, LastSteps
  <2> QED
    BY <1>1, <1>5, <2>1, <2>2 DEF StartStep, StartBegins, PreflightConfig, InsertSession,
       NewForgejoService, ForgejoImport, UpdateReady, CommitReady, Waits, Writes
<1>6. CASE OperationStep(p)
  <2>1. ~Provision(p) /\ ~CommitAttach(p)
    BY <1>0, <1>1 DEF Provision, CommitAttach, TypeOK, Process
  <2>2. ~CompleteOperation(p) /\ ~Save(p) /\ ~Collect(p)
    BY WorkingSteps DEF CompleteOperation, Save, Collect, At, LastSteps
  <2> QED
    BY <1>1, <1>6, <2>1, <2>2 DEF OperationStep, InsertAgent, CommitAgent,
       PrepareAgentState, RecordAttachBegins, Waits, Writes
<1> QED
  BY <1>0, <1>2, <1>3, <1>4, <1>5, <1>6 DEF StepOf

LEMMA PreparedStep ==
  ASSUME Core, TracesInv, PreparedAll, NEW p \in Processes, StepOf(p), NEW s \in Starts
  PROVE  PreparedInv(s)'
<1>0. /\ TypeOK /\ SessionInv /\ StartInv(s) /\ TraceInv(s) /\ PreparedInv(s)
      /\ s \in Processes /\ s \in Operations
  BY Kinds DEF Core, SessionInv, TracesInv, PreparedAll
<1>1. CASE s # p
  <2>1. session'[s].status = session[s].status /\ proc'[s] = proc[s]
    BY <1>0, <1>1, SharedSessions, Frame
  <2> QED
    BY <1>0, <2>1 DEF PreparedInv
<1>2. CASE s = p /\ Kill(p)
  BY <1>0, <1>2, KillEffect DEF PreparedInv
<1>3. CASE s = p /\ ~Kill(p) /\ proc[p].step \in Working
  <2> SUFFICES ASSUME proc'[p].step = "complete", proc'[p].outcome = "ok"
               PROVE  session'[p].status = "ready"
    BY <1>0, <1>3, WorkLeads, WorkingSteps DEF PreparedInv
  <2>1. AttachAgent(p)
    BY <1>0, <1>3, ReturnsPrepared
  <2> QED
    BY <1>0, <1>3, <2>1 DEF AttachAgent, At, StartInv, ReadySteps, dbVars
<1>4. CASE s = p /\ ~Kill(p) /\ proc[p].step \notin Working
  <2>1. proc'[p].target = proc[p].target /\ proc'[p].outcome = proc[p].outcome
    BY <1>0, <1>4, EndEffects
  <2>2. CASE proc[p].outcome # "ok"
    BY <1>4, <2>1, <2>2 DEF PreparedInv
  <2>3. CASE proc[p].outcome = "ok"
    <3>1. proc[p].step \in LastSteps
      BY <1>0, <1>4, <2>3 DEF StartInv, TraceInv, Working
    <3>2. CompleteOperation(p) \/ Save(p) \/ Collect(p) \/ GetSummary(p)
      BY <1>0, <1>4, <3>1, EndActions, WorkingSteps DEF UpdateFailed, CommitFailed, Writes, At,
         FailSteps
    <3>3. session' = session
      BY <3>2 DEF CompleteOperation, Save, Collect, GetSummary, dbVars
    <3> QED
      BY <1>0, <1>4, <2>1, <2>3, <3>1, <3>3 DEF PreparedInv
  <2> QED
    BY <2>2, <2>3
<1> QED
  BY <1>1, <1>2, <1>3, <1>4

\* No start returns without an error before its session is ready.
THEOREM PreparedInvariance == Spec => [](Core /\ TracesInv /\ DiskInv /\ PreparedAll)
<1>1. Init => PreparedAll
  BY Kinds DEF Init, NewProcess, PreparedAll, PreparedInv, LastSteps
<1>2. Core /\ TracesInv /\ PreparedAll /\ [Next]_vars => PreparedAll'
  <2> SUFFICES ASSUME Core, TracesInv, PreparedAll, [Next]_vars PROVE PreparedAll'
    OBVIOUS
  <2>1. CASE Next
    BY <2>1, StepHasProcess, PreparedStep DEF PreparedAll
  <2>2. CASE UNCHANGED vars
    BY <2>2 DEF PreparedAll, PreparedInv, vars, dbVars
  <2> QED
    BY <2>1, <2>2
<1> QED
  BY <1>1, <1>2, TracesInvariance, DiskInvariance, PTL DEF Spec

\* The safety half of StartingSettles: nobody gives up a session that is starting,
\* however many commands there are, unless it dies or the store refuses the mark.
THEOREM StartingIsOwnedHolds == Spec => []StartingIsOwned
<1>1. Core /\ TracesInv /\ DiskInv /\ PreparedAll => StartingIsOwned
  <2> SUFFICES ASSUME Core, TracesInv, DiskInv, PreparedAll, NEW s \in Starts,
                      session[s].status = "starting",
                      proc[s].step \notin WorkSteps \union {"update_failed", "commit_failed"}
               PROVE  proc[s].outcome \in {"killed", "torn"} \/ proc[s].unmarked
    BY DEF StartingIsOwned
  <2>1. /\ StartInv(s) /\ TraceInv(s) /\ MarkedInv(s) /\ PreparedInv(s)
        /\ s \in Processes /\ proc[s].outcome \in Outcomes
    BY Kinds DEF Core, SessionInv, TracesInv, DiskInv, PreparedAll, TypeOK, Process
  <2>2. proc[s].target # None /\ proc[s].step \in LastSteps
    BY <2>1 DEF StartInv, NewSteps, OpenSteps, EarlySteps, NestedSteps, ReadySteps, FailSteps,
       WorkSteps
  <2>3. CASE proc[s].outcome = "error"
    BY <2>1, <2>2, <2>3 DEF MarkedInv, TraceInv, At, LastSteps
  <2> QED
    BY <2>1, <2>2, <2>3 DEF PreparedInv, TraceInv, Outcomes
<1> QED
  BY <1>1, PreparedInvariance, PTL

-----------------------------------------------------------------------------
(* What doctor prints. *)

\* A start whose trace is complete has settled its session.
SettledInv(s) ==
  trace[s].finished /\ proc[s].target # None =>
    \/ proc[s].unmarked \/ session[s].status = "failed"
    \/ session[s].status = "ready" /\ trace[s].status = "succeeded"

\* A session is marked by a start that failed at a step of its trace, or before it had
\* an agent session.
FailedInv(s) ==
  session[s].status = "failed" => trace[s].status = "failed" \/ s \notin nested[s]

\* Once its session is ready, a start fails at two steps only.
WasReady(s) ==
  /\ proc[s].step \in ReadySteps \union FailSteps \union LastSteps
  /\ trace[s].failed \in {None, "prepare_agent_state", "attach_agent"}

ReadyInv(s) == session[s].status = "ready" => WasReady(s)

StoriesInv == \A s \in Starts : SettledInv(s) /\ FailedInv(s) /\ ReadyInv(s)

\* What the end of a command does not change.
LEMMA EndKeeps ==
  ASSUME Core, TracesInv, NEW p \in Operations, StepOf(p),
         proc[p].step \in FailSteps \union LastSteps
  PROVE  /\ proc'[p].step \in FailSteps \union LastSteps
         /\ trace'[p].failed = trace[p].failed
         /\ trace[p].status = "failed" => trace'[p].status = "failed"
<1>0. TypeOK /\ proc[p].step \notin Working
  BY WorkingSteps DEF Core
<1>1. CASE Kill(p)
  BY <1>0, <1>1, KillEffect, Kinds DEF traceVars, LastSteps
<1>2. CASE CompleteOperation(p)
  BY <1>0, <1>2, FinalEffect, AfterSaveSteps, CompleteEffect DEF CompleteOperation, LastSteps
<1>3. CASE Save(p) \/ Collect(p)
  BY <1>0, <1>3, FinalEffect, AfterSaveSteps DEF Save, Collect, LastSteps
<1>4. CASE p \in Starts /\ (UpdateFailed(p) \/ CommitFailed(p) \/ GetSummary(p)) /\ ~Kill(p)
  <2>1. trace' = trace
    BY <1>4 DEF UpdateFailed, CommitFailed, GetSummary, OnlyLock, traceVars
  <2> QED
    BY <1>0, <1>4, <2>1, EndEffects DEF LastSteps, FailSteps
<1> QED
  BY <1>0, <1>1, <1>2, <1>3, <1>4, EndActions

LEMMA StatusStays ==
  ASSUME Core, NEW p \in Processes, StepOf(p), NEW s \in Starts, proc[s].step \in LastSteps
  PROVE  session'[s].status = session[s].status
<1>0. TypeOK /\ SessionInv /\ s \in Operations
  BY Kinds DEF Core
<1>1. CASE s # p
  BY <1>0, <1>1, SharedSessions
<1>2. CASE s = p
  <2>1. /\ ~CommitSession(p) /\ ~CommitReady(p) /\ ~CommitFailed(p) /\ ~CommitAgent(p)
    BY <1>2 DEF CommitSession, CommitReady, CommitFailed, CommitAgent, At, LastSteps
  <2> QED
    BY <1>0, <1>2, <2>1, StoreEffect DEF SameSessions
<1> QED
  BY <1>1, <1>2

LEMMA WasReadyStays ==
  ASSUME Core, TracesInv, NEW p \in Processes, StepOf(p), NEW s \in Starts, WasReady(s)
  PROVE  WasReady(s)'
<1>0. TypeOK /\ s \in Processes /\ s \in Operations /\ s \notin Attaches /\ s \notin Doctors
  BY Kinds DEF Core
<1>1. CASE s # p
  BY <1>0, <1>1, Frame DEF WasReady
<1>2. CASE s = p /\ proc[p].step \in FailSteps \union LastSteps
  BY <1>0, <1>2, EndKeeps DEF WasReady
<1>3. CASE s = p /\ Kill(p)
  BY <1>0, <1>3, KillEffect DEF WasReady, LastSteps, traceVars
<1>4. CASE s = p /\ proc[p].step \in ReadySteps /\ ~Kill(p)
  <2>1. RecordAttachBegins(p) \/ CommitAttach(p) \/ AttachAgent(p)
    BY <1>0, <1>4 DEF StepOf, ReadySteps, At, OpenStep, SchemaVersion, ApplyMigration,
       CreateTablesStep, UserVersionStep, CommitMigrationStep, StartStep, StartBegins,
       PreflightConfig, InsertSession, CommitSession, NewForgejoService, ForgejoImport,
       UpdateReady, CommitReady, UpdateFailed, CommitFailed, GetSummary, Waits, Writes,
       AttachResolves, OtherBegins, OperationStep, Provision, InsertAgent, CommitAgent,
       PrepareAgentState, CompleteOperation, Save, Collect
  <2>2. ASSUME Fails(p) PROVE proc'[p].step \in FailSteps \union LastSteps
    BY <1>0, <1>4, <2>2, FailsEffect DEF FailSteps, LastSteps
  <2>3. ASSUME NEW step, Moves(p, step) PROVE proc'[p].step = step
    BY <1>0, <1>4, <2>3, MovesEffect
  <2>4. ASSUME NEW step \in TraceSteps, StepFails(p, step) PROVE trace'[p].failed = step
    BY <1>0, <1>4, <2>4, StepFailsEffect
  <2>5. {"prepare_agent_state", "attach_agent"} \subseteq TraceSteps
    BY DEF TraceSteps
  <2>6. CASE RecordAttachBegins(p)
    BY <1>4, <2>2, <2>3, <2>4, <2>5, <2>6
       DEF RecordAttachBegins, Waits, Writes, WasReady, ReadySteps
  <2>7. CASE CommitAttach(p)
    BY <1>0, <1>4, <2>7 DEF CommitAttach, WasReady, ReadySteps, traceVars, TypeOK, Process
  <2>8. CASE AttachAgent(p)
    BY <1>4, <2>2, <2>3, <2>4, <2>5, <2>8 DEF AttachAgent, WasReady, LastSteps
  <2> QED
    BY <2>1, <2>6, <2>7, <2>8
<1> QED
  BY <1>1, <1>2, <1>3, <1>4 DEF WasReady

LEMMA SettledStep ==
  ASSUME Core, TracesInv, DiskInv, PreparedAll, StoriesInv, NEW p \in Processes, StepOf(p),
         NEW s \in Starts
  PROVE  SettledInv(s)'
<1>0. /\ TypeOK /\ TraceInv(s) /\ MarkedInv(s) /\ PreparedInv(s) /\ SettledInv(s)
      /\ s \in Operations /\ s \in Processes
  BY Kinds DEF Core, TracesInv, DiskInv, PreparedAll, StoriesInv
<1>1. CASE trace[s].finished
  BY <1>0, <1>1, FinishedStays, StatusStays DEF SettledInv, TraceInv
<1>2. CASE trace'[s].finished /\ ~trace[s].finished
  <2>1. s = p /\ CompleteOperation(p)
    BY <1>0, <1>2, Frame, LastMoves
  <2>2. /\ At(p, "complete") /\ Kept(p) /\ session' = session
        /\ trace'[p].status = IF trace[p].status = "failed" THEN "failed" ELSE "succeeded"
    BY <1>0, <2>1, FinalEffect, CompleteEffect DEF CompleteOperation, dbVars
  <2> SUFFICES ASSUME proc[p].target # None, ~proc[p].unmarked, session[p].status # "failed"
               PROVE  session[p].status = "ready" /\ trace[p].status # "failed"
    BY <2>1, <2>2 DEF SettledInv, Kept
  <2>3. proc[p].outcome = "ok"
    BY <1>0, <2>1, <2>2 DEF TraceInv, MarkedInv, At, TypeOK, Process, Outcomes
  <2> QED
    BY <1>0, <2>1, <2>2, <2>3 DEF TraceInv, PreparedInv, At, LastSteps
<1> QED
  BY <1>1, <1>2 DEF SettledInv

LEMMA FailedStep ==
  ASSUME Core, TracesInv, StoriesInv, NEW p \in Processes, StepOf(p), NEW s \in Starts
  PROVE  FailedInv(s)'
<1>0. /\ TypeOK /\ SessionInv /\ StartInv(s) /\ TraceInv(s) /\ FailedInv(s)
      /\ s \in Operations /\ s \in Processes /\ s # None
  BY Kinds DEF Core, SessionInv, TracesInv, StoriesInv
<1>1. CASE session[s].status = "failed"
  <2>1. proc[s].step \in LastSteps
    BY <1>0, <1>1, Kinds DEF StartInv
  <2>2. s \notin nested[s] => s \notin nested'[s]
    BY <1>0, <2>1, SharedSessions DEF At, LastSteps
  <2>3. trace[s].status = "failed" => trace'[s].status = "failed"
    BY <1>0, <2>1, Frame, EndKeeps
  <2> QED
    BY <1>0, <1>1, <2>2, <2>3 DEF FailedInv
<1>2. CASE session[s].status # "failed" /\ session'[s].status = "failed"
  <2>1. s = p
    BY <1>0, <1>2, SharedSessions
  <2>2. CommitFailed(p)
    <3>1. CommitSession(p) => session'[p].status = "starting"
      BY <1>0, <2>1, CommitSessionEffect
    <3>2. CommitReady(p) => session'[p].status = "ready"
      BY <1>0, <2>1, UpdateEffect DEF CommitReady, Statuses
    <3>3. CommitAgent(p) => session' = session
      BY DEF CommitAgent, CreateAgentSession
    <3> QED
      BY <1>0, <1>2, <2>1, <3>1, <3>2, <3>3, StoreEffect DEF SameSessions
  <2>3. trace' = trace /\ nested' = nested
    BY <2>2 DEF CommitFailed, UpdateKagenSessionStatus, traceVars
  <2>4. proc[p].step = "commit_failed" /\ proc[p].target # None
    BY <1>0, <2>1, <2>2 DEF CommitFailed, At, StartInv, FailSteps
  <2> QED
    BY <1>0, <2>1, <2>3, <2>4 DEF FailedInv, TraceInv, FailSteps
<1> QED
  BY <1>1, <1>2 DEF FailedInv

LEMMA ReadyStep ==
  ASSUME Core, TracesInv, StoriesInv, NEW p \in Processes, StepOf(p), NEW s \in Starts
  PROVE  ReadyInv(s)'
<1>0. /\ TypeOK /\ SessionInv /\ TraceInv(s) /\ ReadyInv(s)
      /\ s \in Operations /\ s \in Processes
  BY Kinds DEF Core, TracesInv, StoriesInv
<1>1. CASE session[s].status = "ready"
  BY <1>0, <1>1, WasReadyStays DEF ReadyInv
<1>2. CASE session[s].status # "ready" /\ session'[s].status = "ready"
  <2>1. s = p
    BY <1>0, <1>2, SharedSessions
  <2>2. CommitReady(p)
    <3>1. CommitSession(p) => session'[p].status = "starting"
      BY <1>0, <2>1, CommitSessionEffect
    <3>2. CommitFailed(p) => session'[p].status = "failed"
      BY <1>0, <2>1, UpdateEffect DEF CommitFailed, Statuses
    <3>3. CommitAgent(p) => session' = session
      BY DEF CommitAgent, CreateAgentSession
    <3> QED
      BY <1>0, <1>2, <2>1, <3>1, <3>2, <3>3, StoreEffect DEF SameSessions
  <2>3. /\ trace' = trace /\ proc'[p].step = "record_attach"
        /\ proc[p].step = "commit_ready"
    BY <1>0, <2>1, <2>2, MovesEffect DEF CommitReady, traceVars, At
  <2>4. trace[p].failed = None
    BY <1>0, <2>1, <2>3 DEF TraceInv, LastSteps, FailSteps
  <2> QED
    BY <2>1, <2>3, <2>4 DEF ReadyInv, WasReady, ReadySteps
<1> QED
  BY <1>1, <1>2 DEF ReadyInv

\* Every reachable state tells the stories of its starts.
THEOREM StoriesInvariance ==
  Spec => [](Core /\ TracesInv /\ DiskInv /\ PreparedAll /\ StoriesInv)
<1>1. Init => StoriesInv
  <2> SUFFICES ASSUME Init, NEW s \in Starts
               PROVE  SettledInv(s) /\ FailedInv(s) /\ ReadyInv(s)
    BY DEF StoriesInv
  <2>1. ~trace[s].finished /\ session[s].status = "none"
    BY Kinds DEF Init, TraceInit, DatabaseInit
  <2> QED
    BY <2>1 DEF SettledInv, FailedInv, ReadyInv
<1>2. Core /\ TracesInv /\ DiskInv /\ PreparedAll /\ StoriesInv /\ [Next]_vars => StoriesInv'
  <2> SUFFICES ASSUME Core, TracesInv, DiskInv, PreparedAll, StoriesInv, [Next]_vars
               PROVE  StoriesInv'
    OBVIOUS
  <2>1. CASE Next
    BY <2>1, StepHasProcess, SettledStep, FailedStep, ReadyStep DEF StoriesInv
  <2>2. CASE UNCHANGED vars
    BY <2>2 DEF StoriesInv, SettledInv, FailedInv, ReadyInv, WasReady, vars, dbVars, traceVars
  <2> QED
    BY <2>1, <2>2
<1> QED
  BY <1>1, <1>2, PreparedInvariance, PTL DEF Spec

\* A doctor prints the complete trace of an operation of its session.
ShownInv(d) ==
  proc[d].shown # None =>
    /\ At(d, "ended") /\ proc[d].target # None /\ proc[d].shown \in Operations
    /\ proc[proc[d].shown].target = proc[d].target
    /\ trace[proc[d].shown].finished

\* What the status that a doctor has read says of an operation whose trace was complete.
Agrees(d, q) ==
  proc[q].target = proc[d].target =>
    IF q # proc[d].target THEN proc[d].seen # "starting"
    ELSE \/ proc[q].unmarked \/ proc[d].seen = "failed"
         \/ proc[d].seen = "ready" /\ trace[q].status = "succeeded"

\* The status that a doctor has read, and the session since then.
ReadInv(d) ==
  proc[d].target # None =>
    /\ proc[d].seen = "failed" => session[proc[d].target].status = "failed"
    /\ proc[d].seen = "ready" => WasReady(proc[d].target)
    /\ \A q \in proc[d].past : q \in Operations /\ trace[q].finished /\ Agrees(d, q)

DoctorsInv == \A d \in Doctors : ShownInv(d) /\ ReadInv(d)

\* A doctor's own steps.
LEMMA DoctorActions ==
  ASSUME NEW d \in Doctors, StepOf(d)
  PROVE  OpenStep(d) \/ Kill(d) \/ OtherBegins(d) \/ DoctorStep(d)
  BY Kinds DEF StepOf

Rereads(d) ==
  /\ proc'[d].target \in Starts /\ proc'[d].shown = proc[d].shown
  /\ proc'[d].seen = session[proc'[d].target].status
  /\ proc'[d].past = {q \in Operations : trace[q].finished}

KeepsReading(d) ==
  /\ proc'[d].target = proc[d].target /\ proc'[d].seen = proc[d].seen
  /\ proc'[d].past = proc[d].past
  /\ LoadLatestOperation(d) \/ proc'[d].shown = proc[d].shown

LEMMA DoctorEffect ==
  ASSUME TypeOK, NEW d \in Doctors, StepOf(d)
  PROVE  KeepsReading(d) \/ (DoctorResolves(d) /\ Rereads(d))
<1>0. d \in Processes
  BY Kinds
<1>1. Kept(d) => KeepsReading(d)
  BY DEF Kept, KeepsReading
<1>2. CASE LoadLatestOperation(d)
  <2>1. CASE Returns(d, "error")
    BY <1>0, <1>1, <2>1, ReturnsEffect
  <2>2. CASE proc' = [proc EXCEPT ![d].step = "ended", ![d].shown = latest[proc[d].target]]
    BY <1>0, <1>2, <2>2 DEF KeepsReading, TypeOK, Process
  <2> QED
    BY <1>2, <2>1, <2>2 DEF LoadLatestOperation
<1>3. CASE DoctorResolves(d)
  BY <1>0, <1>1, <1>3, ResolvesEffect, ReturnsEffect DEF Rereads
<1>4. CASE OpenStep(d) \/ Kill(d) \/ OtherBegins(d)
  <2>1. Kept(d)
    BY <1>0, <1>4, KillEffect, MovesEffect, ReturnsEffect DEF OtherBegins, OpenStep,
       SchemaVersion, ApplyMigration, CreateTablesStep, UserVersionStep, CommitMigrationStep
  <2> QED
    BY <1>1, <2>1
<1> QED
  BY <1>2, <1>3, <1>4, DoctorActions DEF DoctorStep

LEMMA ShownStep ==
  ASSUME Core, TracesInv, LatestInv, DoctorsInv, NEW p \in Processes, StepOf(p),
         NEW d \in Doctors
  PROVE  ShownInv(d)'
<1>0. /\ TypeOK /\ d \in Processes /\ ShownInv(d)
      /\ At(d, "load") => proc[d].target # None
  BY Kinds DEF Core, DoctorsInv, SessionInv, DoctorInv
<1>1. CASE d # p
  <2>1. proc'[d] = proc[d]
    BY <1>0, <1>1, Frame
  <2> SUFFICES ASSUME proc[d].shown # None PROVE ShownInv(d)'
    BY <2>1 DEF ShownInv
  <2>2. proc[d].shown \in Operations /\ trace[proc[d].shown].finished
    BY <1>0 DEF ShownInv
  <2>3. /\ trace'[proc[d].shown] = trace[proc[d].shown]
        /\ proc'[proc[d].shown].target = proc[proc[d].shown].target
    BY <2>2, FinishedStays
  <2> QED
    BY <1>0, <2>1, <2>3 DEF ShownInv, At
<1>2. CASE d = p /\ At(d, "ended")
  BY <1>2, DoctorActions DEF At, OpenStep, SchemaVersion, ApplyMigration, CreateTablesStep,
     UserVersionStep, CommitMigrationStep, Kill, OtherBegins, DoctorStep, DoctorResolves,
     LoadLatestOperation
<1>3. CASE d = p /\ ~At(d, "ended") /\ LoadLatestOperation(d)
  <2> DEFINE t == proc[d].target
  <2>1. t \in Starts
    BY <1>0, <1>3 DEF LoadLatestOperation, TypeOK, Process
  <2>2. CASE Loads(t)
    <3>1. latest[t] \in Operations \union {None}
      BY <1>0, <2>1, <2>2 DEF Loads, TypeOK, TraceTypeOK
    <3>2. /\ proc'[d].shown = latest[t] /\ proc'[d].step = "ended" /\ proc'[d].target = t
          /\ trace' = trace
      BY <1>0, <1>3, <2>2 DEF LoadLatestOperation, traceVars, TypeOK, Process
    <3>3. latest[t] \in Operations =>
            /\ trace[latest[t]].finished /\ proc[latest[t]].target = t
            /\ proc'[latest[t]] = proc[latest[t]]
      <4>1. FileInv(t)
        BY <2>1 DEF LatestInv
      <4>2. latest[t] \in Operations => latest[t] # d
        BY Kinds
      <4> QED
        BY <1>0, <1>3, <4>1, <4>2, Frame, Kinds DEF FileInv, Owned, Opening
    <3>4. t # None
      BY <2>1, Kinds
    <3> HIDE DEF t
    <3> QED
      BY <3>1, <3>2, <3>3, <3>4 DEF ShownInv, At
  <2>3. CASE ~Loads(t)
    BY <1>0, <1>3, <2>3, ReturnsEffect DEF LoadLatestOperation, Kept, ShownInv
  <2> QED
    BY <2>2, <2>3
<1>4. CASE d = p /\ ~At(d, "ended") /\ ~LoadLatestOperation(d)
  BY <1>0, <1>4, DoctorEffect DEF KeepsReading, Rereads, ShownInv
<1> QED
  BY <1>1, <1>2, <1>3, <1>4

LEMMA ReadStep ==
  ASSUME Core, TracesInv, StoriesInv, DoctorsInv, NEW p \in Processes, StepOf(p),
         NEW d \in Doctors
  PROVE  ReadInv(d)'
<1>0. /\ TypeOK /\ SessionInv /\ d \in Processes /\ ReadInv(d)
      /\ proc[d].target \in Starts \union {None}
  BY Kinds DEF Core, DoctorsInv, TypeOK, Process
<1>1. CASE /\ proc'[d].target = proc[d].target /\ proc'[d].seen = proc[d].seen
           /\ proc'[d].past = proc[d].past
  <2> SUFFICES ASSUME NEW s, s = proc[d].target, s # None PROVE ReadInv(d)'
    BY <1>1 DEF ReadInv
  <2>1. s \in Starts /\ StartInv(s)
    BY <1>0 DEF SessionInv
  <2>2. session[s].status = "failed" => session'[s].status = "failed"
    BY <2>1, StatusStays, Kinds DEF StartInv
  <2>3. WasReady(s) => WasReady(s)'
    BY <2>1, WasReadyStays
  <2>4. ASSUME NEW q \in Operations, trace[q].finished, Agrees(d, q)
        PROVE  trace'[q].finished /\ Agrees(d, q)'
    BY <1>1, <2>4, FinishedStays DEF Agrees
  <2> QED
    BY <1>0, <1>1, <2>2, <2>3, <2>4 DEF ReadInv
<1>2. CASE d = p /\ DoctorResolves(d) /\ Rereads(d)
  <2>0. PICK s \in Starts : s = proc'[d].target
    BY <1>2 DEF Rereads
  <2>1. /\ session' = session /\ trace' = trace
        /\ proc'[d].seen = session[s].status
        /\ proc'[d].past = {q \in Operations : trace[q].finished}
    BY <1>2, <2>0 DEF Rereads, DoctorResolves, dbVars, traceVars
  <2>2. proc'[d].seen = "ready" => WasReady(s)'
    <3>1. proc'[d].seen = "ready" => WasReady(s)
      BY <2>1 DEF StoriesInv, ReadyInv
    <3>2. proc'[s] = proc[s]
      BY <1>0, <1>2, Frame, Kinds
    <3> QED
      BY <2>1, <3>1, <3>2 DEF WasReady
  <2>3. ASSUME NEW q \in Operations, trace[q].finished PROVE Agrees(d, q)'
    <3>1. proc'[q] = proc[q] /\ s # None
      BY <1>0, <1>2, Frame, Kinds
    <3>2. CASE q # s
      <4> SUFFICES ASSUME proc[q].target = s PROVE session[s].status # "starting"
        BY <2>0, <2>1, <3>1, <3>2 DEF Agrees
      <4>1. q \in Attaches
        BY <1>0, <3>1, <3>2 DEF Operations, SessionInv, StartInv
      <4> QED
        BY <1>0, <3>1, <4>1 DEF SessionInv, AttachInv
    <3>3. CASE q = s
      <4>1. proc[q].target = s => SettledInv(s)
        BY <2>1 DEF StoriesInv
      <4> QED
        BY <2>0, <2>1, <2>3, <3>1, <3>3, <4>1 DEF Agrees, SettledInv
    <3> QED
      BY <3>2, <3>3
  <2> QED
    BY <2>0, <2>1, <2>2, <2>3 DEF ReadInv
<1>3. CASE d # p
  BY <1>0, <1>1, <1>3, Frame
<1> QED
  BY <1>0, <1>1, <1>2, <1>3, DoctorEffect DEF KeepsReading

\* What every doctor prints is complete, and its session's own.
THEOREM DoctorsInvariance ==
  Spec => [](Core /\ TracesInv /\ LatestInv /\ StoriesInv /\ DoctorsInv)
<1>1. Init => DoctorsInv
  BY DEF Init, NewProcess, DoctorsInv, ShownInv, ReadInv, Processes
<1>2. Core /\ TracesInv /\ LatestInv /\ StoriesInv /\ DoctorsInv /\ [Next]_vars => DoctorsInv'
  <2> SUFFICES ASSUME Core, TracesInv, LatestInv, StoriesInv, DoctorsInv, [Next]_vars
               PROVE  DoctorsInv'
    OBVIOUS
  <2>1. CASE Next
    BY <2>1, StepHasProcess, ShownStep, ReadStep DEF DoctorsInv
  <2>2. CASE UNCHANGED vars
    BY <2>2 DEF DoctorsInv, ShownInv, ReadInv, WasReady, Agrees, At, vars, dbVars, traceVars
  <2> QED
    BY <2>1, <2>2
<1> QED
  BY <1>1, <1>2, LatestInvariance, StoriesInvariance, PTL DEF Spec

\* The status that doctor prints and the trace it prints beside it belong to one
\* session, and the status is older than the trace only if the command of the trace was
\* not complete when it was read.
THEOREM DoctorTellsTruthHolds == Spec => []DoctorTellsTruth
<1>1. TypeOK /\ TracesInv /\ StoriesInv /\ DoctorsInv => DoctorTellsTruth
  <2> SUFFICES ASSUME TypeOK, TracesInv, StoriesInv, DoctorsInv, NEW d \in Doctors,
                      proc[d].shown # None,
                      NEW q, q = proc[d].shown, NEW s, s = proc[d].target
               PROVE  /\ proc[q].target = s /\ trace[q].finished
                      /\ proc[d].seen = "failed" /\ q = s =>
                           trace[q].status = "failed" \/ s \notin nested[s]
                      /\ proc[d].seen = "ready" /\ q = s =>
                           \/ trace[q].status = "succeeded"
                           \/ trace[q].failed \in {"prepare_agent_state", "attach_agent"}
                      /\ q \in proc[d].past =>
                           IF q # s THEN proc[d].seen # "starting"
                           ELSE \/ proc[s].unmarked \/ proc[d].seen = "failed"
                                \/ proc[d].seen = "ready" /\ trace[q].status = "succeeded"
    BY DEF DoctorTellsTruth
  <2>1. s # None /\ q \in Operations /\ proc[q].target = s /\ trace[q].finished
    BY DEF DoctorsInv, ShownInv
  <2>2. s \in Starts
    BY <2>1, Kinds DEF TypeOK, Process
  <2>3. /\ trace[q].status \in {"succeeded", "failed"}
        /\ trace[q].failed = None <=> trace[q].status # "failed"
    BY <2>1 DEF TypeOK, TraceTypeOK, Trace, TraceStatuses, TracesInv, TraceInv
  <2>4. /\ proc[d].seen = "failed" => FailedInv(s) /\ session[s].status = "failed"
        /\ proc[d].seen = "ready" => WasReady(s)
        /\ q \in proc[d].past => Agrees(d, q)
    BY <2>1, <2>2 DEF DoctorsInv, ReadInv, StoriesInv
  <2> QED
    BY <2>1, <2>3, <2>4 DEF FailedInv, WasReady, Agrees
<1> QED
  BY <1>1, TypeCorrect, DoctorsInvariance, PTL

-----------------------------------------------------------------------------
(* The last use of a session. *)

UsedSteps == {"attach_agent"} \union FailSteps \union LastSteps

\* A recorded use is over, and no time lies in the future.
UseInv(p) ==
  /\ proc[p].recordedAt # 0 => proc[p].step \in UsedSteps /\ proc[p].target # None
  /\ proc[p].usedAt <= now

UsesInv == (\A p \in Operations : UseInv(p)) /\ LastUseCounts

\* What a step changes of a process that is not only its step and its outcome.
LEMMA ProcessEffect ==
  ASSUME Core, NEW p \in Operations, StepOf(p), ~CommitAttach(p)
  PROVE  /\ proc'[p].recordedAt = proc[p].recordedAt
         /\ \/ proc'[p].usedAt = proc[p].usedAt
            \/ Provision(p) /\ proc'[p].usedAt = now'
         /\ \/ proc'[p].target = proc[p].target
            \/ p \in Starts /\ CommitSession(p)
            \/ AttachResolves(p)
<1>0. TypeOK /\ p \in Processes /\ p \notin Doctors
  BY Kinds DEF Core
<1> DEFINE Same == /\ proc'[p].recordedAt = proc[p].recordedAt
                   /\ proc'[p].usedAt = proc[p].usedAt
                   /\ proc'[p].target = proc[p].target
<1>1. Kept(p) => Same
  BY DEF Kept
<1>2. /\ \A step : Moves(p, step) => Same
      /\ \A outcome : Returns(p, outcome) => Same
      /\ Fails(p) => Same
  BY <1>0, <1>1, MovesEffect, ReturnsEffect, FailsEffect
<1>3. CASE OpenStep(p) \/ Kill(p) \/ OtherBegins(p)
  <2>1. Kill(p) => Same
    BY <1>0, <1>1, KillEffect
  <2> QED
    BY <1>2, <1>3, <2>1 DEF OpenStep, SchemaVersion, ApplyMigration, CreateTablesStep,
       UserVersionStep, CommitMigrationStep, OtherBegins
<1>4. CASE AttachResolves(p)
  <2>1. ASSUME NEW s \in Starts,
               proc' = [proc EXCEPT ![p].step = "provision", ![p].target = s,
                                    ![p].seen = "ready"]
        PROVE  /\ proc'[p].recordedAt = proc[p].recordedAt
               /\ proc'[p].usedAt = proc[p].usedAt
    BY <1>0, <2>1 DEF TypeOK, Process
  <2>2. Returns(p, "refused") => Same
    BY <1>2
  <2> HIDE DEF Same
  <2>3. \/ Returns(p, "refused")
        \/ \E s \in Starts : proc' = [proc EXCEPT ![p].step = "provision", ![p].target = s,
                                                  ![p].seen = "ready"]
    BY <1>4 DEF AttachResolves
  <2> QED
    BY <1>4, <2>1, <2>2, <2>3 DEF Same
<1>5. CASE p \in Starts /\ StartStep(p)
  <2>1. CASE CommitSession(p)
    BY <1>0, <1>5, <2>1 DEF CommitSession, TypeOK, Process
  <2>2. CASE UpdateFailed(p)
    BY <1>0, <1>2, <2>2 DEF UpdateFailed, Writes, TypeOK, Process
  <2>3. CASE GetSummary(p)
    BY <1>0, <2>3 DEF GetSummary, TypeOK, Process
  <2> QED
    BY <1>2, <1>5, <2>1, <2>2, <2>3 DEF StartStep, StartBegins, PreflightConfig,
       InsertSession, NewForgejoService, ForgejoImport, UpdateReady, CommitReady,
       CommitFailed, Waits, Writes
<1>6. CASE OperationStep(p)
  <2>1. CASE Provision(p)
    BY <1>0, <1>2, <2>1 DEF Provision, TypeOK, Process
  <2>2. CompleteOperation(p) \/ Save(p) \/ Collect(p) => Same
    BY <1>0, <1>1, FinalEffect
  <2> HIDE DEF Same
  <2>3. ~Provision(p) => Same
    BY <1>2, <1>6, <2>2 DEF OperationStep, InsertAgent, CommitAgent, PrepareAgentState,
       RecordAttachBegins, AttachAgent, Waits, Writes
  <2> QED
    BY <2>1, <2>3 DEF Same
<1> QED
  BY <1>0, <1>3, <1>4, <1>5, <1>6 DEF StepOf

LEMMA ClockEffect ==
  ASSUME Core, NEW p \in Processes, StepOf(p)
  PROVE  now' \in {now, now + 1}
<1>1. OpenStep(p) \/ Kill(p) \/ OtherBegins(p) \/ AttachResolves(p) \/ DoctorStep(p) => now' = now
  BY DEF OpenStep, SchemaVersion, ApplyMigration, CreateTablesStep, UserVersionStep,
     CommitMigrationStep, OnlyLock, Kill, OtherBegins, AttachResolves, DoctorStep,
     DoctorResolves, LoadLatestOperation
<1>2. StartStep(p) => now' \in {now, now + 1}
  BY DEF StartStep, StartBegins, PreflightConfig, InsertSession, CommitSession,
     NewForgejoService, ForgejoImport, UpdateReady, CommitReady, UpdateFailed, CommitFailed,
     GetSummary, Waits, OnlyLock
<1>3. OperationStep(p) => now' \in {now, now + 1}
  BY DEF OperationStep, Provision, InsertAgent, CommitAgent, PrepareAgentState,
     RecordAttachBegins, CommitAttach, AttachAgent, CompleteOperation, Save, Collect, Waits
<1> QED
  BY <1>1, <1>2, <1>3 DEF StepOf

LEMMA LastUsedEffect ==
  ASSUME Core, NEW p \in Processes, StepOf(p), NEW s \in Starts
  PROVE  \/ session'[s].lastUsed = session[s].lastUsed
         \/ /\ p \in Operations /\ CommitAttach(p) /\ s = proc[p].target
            /\ session'[s].lastUsed = proc[p].usedAt
         \/ p \in Starts /\ CommitSession(p) /\ s = p
<1>0. TypeOK /\ session \in [Starts -> [status : Statuses, lastUsed : Nat]]
  BY DEF Core, TypeOK, DatabaseTypeOK
<1>1. OpenStep(p) \/ Kill(p) \/ OtherBegins(p) \/ AttachResolves(p) \/ DoctorStep(p) =>
        session' = session
  BY DEF OpenStep, SchemaVersion, ApplyMigration, CreateTablesStep, UserVersionStep,
     CommitMigrationStep, CommitMigration, OnlyLock, Kill, OtherBegins, AttachResolves,
     DoctorStep, DoctorResolves, LoadLatestOperation, dbVars
<1>2. ASSUME p \in Starts, StartStep(p), ~CommitSession(p)
      PROVE  session'[s].lastUsed = session[s].lastUsed
  <2>1. CASE CommitReady(p) \/ CommitFailed(p)
    BY <1>0, <1>2, <2>1, UpdateEffect DEF CommitReady, CommitFailed, Statuses
  <2> QED
    BY <1>2, <2>1 DEF StartStep, StartBegins, PreflightConfig, InsertSession,
       NewForgejoService, ForgejoImport, UpdateReady, UpdateFailed, GetSummary, Waits,
       OnlyLock, dbVars
<1>3. CASE p \in Starts /\ CommitSession(p)
  BY <1>0, <1>3, CommitSessionEffect
<1>4. CASE p \in Operations /\ CommitAttach(p)
  BY <1>0, <1>4 DEF CommitAttach, RecordAttach
<1>5. OperationStep(p) /\ ~CommitAttach(p) => session' = session
  BY DEF OperationStep, Provision, InsertAgent, CommitAgent, CreateAgentSession,
     PrepareAgentState, RecordAttachBegins, AttachAgent, CompleteOperation, Save, Collect,
     Waits, dbVars
<1> QED
  BY <1>1, <1>2, <1>3, <1>4, <1>5 DEF StepOf

\* What CommitAttach does for the process itself.
LEMMA CommitAttachEffect ==
  ASSUME Core, NEW p \in Operations, CommitAttach(p)
  PROVE  /\ proc'[p].recordedAt = now /\ proc'[p].usedAt = proc[p].usedAt
         /\ proc'[p].target = proc[p].target /\ proc'[p].step = "attach_agent"
         /\ now' = now /\ proc[p].target \in Starts
<1>0. TypeOK /\ p \in Processes /\ (p \in Starts \/ p \in Attaches)
  BY Kinds DEF Core, Operations
<1>1. proc[p].target # None
  BY <1>0, Kinds DEF CommitAttach, At, Core, SessionInv, StartInv, AttachInv, ReadySteps,
     AttachLateSteps
<1> QED
  BY <1>0, <1>1 DEF CommitAttach, TypeOK, Process

\* A use that was recorded stays as it is.
LEMMA UsedStays ==
  ASSUME Core, TracesInv, NEW p \in Processes, StepOf(p), NEW q \in Operations,
         UseInv(q), proc[q].recordedAt # 0
  PROVE  /\ proc'[q].recordedAt = proc[q].recordedAt /\ proc'[q].usedAt = proc[q].usedAt
         /\ proc'[q].target = proc[q].target /\ proc'[q].step \in UsedSteps
<1>0. /\ TypeOK /\ q \in Processes /\ proc[q].step \in UsedSteps
      /\ q \in Starts \/ q \in Attaches
  BY Kinds DEF Core, UseInv, Operations
<1>1. CASE q # p
  BY <1>0, <1>1, Frame
<1>2. CASE q = p
  <2>1. /\ ~Provision(p) /\ ~CommitSession(p) /\ ~AttachResolves(p) /\ ~CommitAttach(p)
    BY <1>0, <1>2 DEF Provision, CommitSession, AttachResolves, CommitAttach, At, UsedSteps,
       LastSteps, FailSteps
  <2>2. proc'[p].step \in UsedSteps
    <3>1. CASE Kill(p)
      BY <1>0, <1>2, <3>1, KillEffect DEF UsedSteps, LastSteps
    <3>2. CASE At(p, "attach_agent") /\ ~Kill(p)
      <4>1. AttachAgent(p)
        BY <1>2, <3>2, Kinds DEF StepOf, At, OpenStep, SchemaVersion, ApplyMigration,
           CreateTablesStep, UserVersionStep, CommitMigrationStep, StartStep, StartBegins,
           PreflightConfig, InsertSession, CommitSession, NewForgejoService, ForgejoImport,
           UpdateReady, CommitReady, UpdateFailed, CommitFailed, GetSummary, Waits, Writes,
           AttachResolves, OtherBegins, OperationStep, Provision, InsertAgent, CommitAgent,
           PrepareAgentState, RecordAttachBegins, CommitAttach, CompleteOperation, Save,
           Collect
      <4> QED
        BY <1>0, <1>2, <4>1, MovesEffect, FailsEffect DEF AttachAgent, UsedSteps, LastSteps,
           FailSteps
    <3>3. CASE proc[p].step \notin Working /\ ~Kill(p)
      BY <1>2, <3>3, EndActions, EndEffects DEF UsedSteps, LastSteps, FailSteps, Leads,
         CollectSteps
    <3> QED
      BY <1>0, <1>2, <3>1, <3>2, <3>3, WorkingSteps DEF UsedSteps, At
  <2> QED
    BY <1>2, <2>1, <2>2, ProcessEffect
<1> QED
  BY <1>1, <1>2

LEMMA UseStep ==
  ASSUME Core, TracesInv, UsesInv, NEW p \in Processes, StepOf(p), NEW q \in Operations
  PROVE  UseInv(q)'
<1>0. /\ TypeOK /\ UseInv(q) /\ q \in Processes
      /\ now \in Nat /\ proc[q].usedAt \in Nat
  BY Kinds DEF Core, TypeOK, Process, UsesInv
<1>1. now' \in Nat /\ now' >= now
  BY <1>0, ClockEffect
<1>2. proc'[q].recordedAt # 0 => proc'[q].step \in UsedSteps /\ proc'[q].target # None
  <2>1. CASE proc[q].recordedAt # 0
    BY <1>0, <2>1, UsedStays DEF UseInv
  <2>2. CASE q = p /\ CommitAttach(p)
    BY <2>2, CommitAttachEffect, Kinds DEF UsedSteps
  <2>3. CASE proc[q].recordedAt = 0 /\ ~(q = p /\ CommitAttach(p))
    BY <1>0, <2>3, ProcessEffect, Frame
  <2> QED
    BY <2>1, <2>2, <2>3
<1>3. proc'[q].usedAt <= now'
  <2>1. CASE proc'[q].usedAt = proc[q].usedAt
    BY <1>0, <1>1, <2>1 DEF UseInv
  <2>2. CASE proc'[q].usedAt = now'
    BY <1>1, <2>2
  <2> QED
    BY <1>0, <2>1, <2>2, ProcessEffect, CommitAttachEffect, Frame
<1> QED
  BY <1>2, <1>3 DEF UseInv

\* The use that the last use of a session comes from.
Excused(q) ==
  \E r \in Operations :
    /\ proc[r].target = proc[q].target
    /\ proc[r].usedAt = session[proc[q].target].lastUsed
    /\ proc[r].recordedAt >= proc[q].usedAt

LEMMA LastUseStep ==
  ASSUME Core, TracesInv, UsesInv, NEW p \in Processes, StepOf(p), NEW q \in Operations,
         proc'[q].recordedAt # 0,
         session'[proc'[q].target].lastUsed < proc'[q].usedAt
  PROVE  Excused(q)'
<1>0. /\ TypeOK /\ UseInv(q) /\ q \in Processes /\ (q \in Starts \/ q \in Attaches)
      /\ q \in Starts => StartInv(q)
      /\ q \in Attaches => AttachInv(q)
      /\ proc[q].usedAt \in Nat /\ now \in Nat
  BY Kinds DEF Core, TypeOK, Process, UsesInv, SessionInv, Operations
<1>1. CASE p \in Operations /\ CommitAttach(p) /\ proc[p].target = proc[q].target
  <2> DEFINE t == proc[p].target
  <2>1. /\ proc'[p].recordedAt = now /\ proc'[p].usedAt = proc[p].usedAt
        /\ proc'[p].target = t /\ t \in Starts
    BY <1>1, CommitAttachEffect
  <2>2. session'[t].lastUsed = proc[p].usedAt
    BY <1>0, <1>1, <2>1 DEF CommitAttach, RecordAttach, TypeOK, DatabaseTypeOK
  <2>3. proc'[q].target = t /\ proc'[q].usedAt = proc[q].usedAt
    BY <1>0, <1>1, <2>1, Frame
  <2>4. proc[q].usedAt <= now
    BY <1>0 DEF UseInv
  <2> QED
    BY <1>1, <2>1, <2>2, <2>3, <2>4 DEF Excused
<1>2. CASE ~(p \in Operations /\ CommitAttach(p) /\ proc[p].target = proc[q].target)
  <2>1. proc[q].recordedAt # 0
    BY <1>0, <1>2, ProcessEffect, Frame
  <2>2. /\ proc'[q].usedAt = proc[q].usedAt /\ proc'[q].target = proc[q].target
        /\ proc[q].step \in UsedSteps /\ proc[q].target # None
    BY <1>0, <2>1, UsedStays DEF UseInv
  <2> DEFINE t == proc[q].target
  <2>3. t \in Starts
    BY <1>0, <2>2 DEF TypeOK, Process
  <2>4. ~(p \in Starts /\ CommitSession(p) /\ t = p)
    <3> SUFFICES ASSUME p \in Starts, CommitSession(p), t = p PROVE FALSE
      OBVIOUS
    <3>1. At(p, "commit_session") /\ StartInv(p)
      BY DEF CommitSession, Core, SessionInv
    <3>2. q # p
      BY <2>2, <3>1 DEF UsedSteps, LastSteps, FailSteps, At
    <3>3. session[p].status = "none"
      BY <3>1 DEF StartInv, At, NewSteps
    <3> QED
      BY <1>0, <2>2, <3>2, <3>3 DEF StartInv, AttachInv
  <2>5. session'[t].lastUsed = session[t].lastUsed
    BY <1>2, <2>3, <2>4, LastUsedEffect
  <2>6. session[t].lastUsed < proc[q].usedAt
    BY <2>2, <2>5
  <2>7. PICK r \in Operations : /\ proc[r].target = t
                                /\ proc[r].usedAt = session[t].lastUsed
                                /\ proc[r].recordedAt >= proc[q].usedAt
    BY <2>1, <2>6 DEF UsesInv, LastUseCounts
  <2>8. proc[r].recordedAt # 0
    <3>1. session[t].lastUsed \in Nat /\ proc[r].recordedAt \in Nat
      BY <1>0, <2>3, Kinds DEF TypeOK, DatabaseTypeOK, Process
    <3> QED
      BY <1>0, <2>6, <2>7, <3>1
  <2>9. /\ proc'[r].target = proc[r].target /\ proc'[r].usedAt = proc[r].usedAt
        /\ proc'[r].recordedAt = proc[r].recordedAt
    BY <2>8, UsedStays DEF UsesInv
  <2> QED
    BY <2>2, <2>5, <2>7, <2>9 DEF Excused
<1> QED
  BY <1>1, <1>2

\* No recorded use is from the future, and every one counts.
THEOREM UsesInvariance == Spec => [](Core /\ TracesInv /\ UsesInv)
<1>1. Init => UsesInv
  BY Kinds DEF Init, NewProcess, UsesInv, UseInv, LastUseCounts
<1>2. Core /\ TracesInv /\ UsesInv /\ [Next]_vars => UsesInv'
  <2> SUFFICES ASSUME Core, TracesInv, UsesInv, [Next]_vars PROVE UsesInv'
    OBVIOUS
  <2>1. ASSUME NEW p \in Processes, StepOf(p)
        PROVE  LastUseCounts'
    BY <2>1, LastUseStep DEF LastUseCounts, Excused
  <2>2. CASE Next
    BY <2>1, <2>2, StepHasProcess, UseStep DEF UsesInv
  <2>3. CASE UNCHANGED vars
    BY <2>3 DEF UsesInv, UseInv, LastUseCounts, vars, dbVars
  <2> QED
    BY <2>2, <2>3
<1> QED
  BY <1>1, <1>2, TracesInvariance, PTL DEF Spec

\* The time of a session's last use is that of its latest use, save for uses that
\* overlapped the one recorded.
THEOREM LastUseCountsHolds == Spec => []LastUseCounts
<1>1. UsesInv => LastUseCounts
  BY DEF UsesInv
<1> QED
  BY <1>1, UsesInvariance, PTL

-----------------------------------------------------------------------------
(* Every command comes nearer to its end with every step. *)

\* The order of the steps, those of the three kinds of commands together.
Stages ==
  <<"idle", "preflight_configuration", "open", "migrate", "create_tables", "user_version",
    "commit_migration", "insert_session", "commit_session", "new_forgejo_service",
    "forgejo_import", "resolve", "load", "provision", "insert_agent", "commit_agent",
    "prepare_agent_state", "update_ready", "commit_ready", "record_attach",
    "commit_attach", "attach_agent", "update_failed", "commit_failed", "complete",
    "save", "summary", "collect", "collect_trace", "collect_summary", "ended">>

Earlier(old, new) ==
  \E i, j \in 1..31 : i < j /\ old = Stages[i] /\ new = Stages[j]

LEMMA StagesDiffer == \A i, j \in 1..31 : Stages[i] = Stages[j] => i = j
  BY DEF Stages

\* The order of the steps is one: no step is later than itself.
LEMMA EarlierIsOrder ==
  /\ \A step : ~Earlier(step, step)
  /\ \A a, b, c : Earlier(a, b) /\ Earlier(b, c) => Earlier(a, c)
<1>1. \A step : ~Earlier(step, step)
  BY StagesDiffer DEF Earlier
<1>2. ASSUME NEW a, NEW b, NEW c, Earlier(a, b), Earlier(b, c) PROVE Earlier(a, c)
  <2>1. PICK i, j \in 1..31 : i < j /\ a = Stages[i] /\ b = Stages[j]
    BY <1>2 DEF Earlier
  <2>2. PICK k, l \in 1..31 : k < l /\ b = Stages[k] /\ c = Stages[l]
    BY <1>2 DEF Earlier
  <2>3. j = k
    BY <2>1, <2>2, StagesDiffer
  <2> QED
    BY <2>1, <2>2, <2>3 DEF Earlier
<1> QED
  BY <1>1, <1>2

\* A command is never set back: a step of it leads to a later one, and what another
\* command does changes neither its step nor its lock.  No command retries anything,
\* so it ends after 30 steps at most, if it is not kept from taking them.
CommandsAdvance ==
  [][\E p \in Processes :
       /\ Earlier(proc[p].step, proc'[p].step)
       /\ \A q \in Processes \ {p} : proc'[q] = proc[q] /\ lock'[q] = lock[q]]_vars

LEMMA EarlierSteps ==
  /\ Earlier("idle", "preflight_configuration") /\ Earlier("idle", "open")
  /\ Earlier("preflight_configuration", "open")
  /\ Earlier("open", "migrate") /\ Earlier("open", "insert_session")
  /\ Earlier("open", "resolve")
  /\ Earlier("migrate", "create_tables") /\ Earlier("migrate", "user_version")
  /\ Earlier("create_tables", "user_version")
  /\ Earlier("user_version", "commit_migration")
  /\ Earlier("commit_migration", "insert_session") /\ Earlier("commit_migration", "resolve")
  /\ Earlier("insert_session", "commit_session")
  /\ Earlier("commit_session", "new_forgejo_service")
  /\ Earlier("new_forgejo_service", "forgejo_import")
  /\ Earlier("forgejo_import", "provision") /\ Earlier("resolve", "provision")
  /\ Earlier("resolve", "load")
  /\ Earlier("provision", "insert_agent") /\ Earlier("insert_agent", "commit_agent")
  /\ Earlier("commit_agent", "prepare_agent_state")
  /\ Earlier("prepare_agent_state", "update_ready")
  /\ Earlier("prepare_agent_state", "record_attach")
  /\ Earlier("update_ready", "commit_ready") /\ Earlier("commit_ready", "record_attach")
  /\ Earlier("record_attach", "commit_attach") /\ Earlier("commit_attach", "attach_agent")
  /\ Earlier("update_failed", "commit_failed") /\ Earlier("update_failed", "complete")
  /\ Earlier("commit_failed", "complete")
  /\ Earlier("complete", "save") /\ Earlier("complete", "summary")
  /\ Earlier("complete", "collect")
  /\ Earlier("save", "summary") /\ Earlier("save", "collect") /\ Earlier("summary", "collect")
  /\ Earlier("collect", "collect_trace") /\ Earlier("collect_trace", "collect_summary")
  BY DEF Earlier, Stages

\* What the end of a command and its failure come after.
LEMMA EarlierEnds ==
  ASSUME NEW i \in 1..31
  PROVE  /\ i < 31 => Earlier(Stages[i], "ended")
         /\ i < 25 => Earlier(Stages[i], "complete")
         /\ i < 23 => Earlier(Stages[i], "update_failed")
<1>1. Stages[31] = "ended" /\ Stages[25] = "complete" /\ Stages[23] = "update_failed"
  BY DEF Stages
<1> QED
  BY <1>1 DEF Earlier

\* The steps at which a command may return, fail or die.
LEMMA EarlierReturns ==
  /\ \A step \in Steps \ {"ended"} : Earlier(step, "ended")
  /\ \A step \in {"idle", "preflight_configuration", "create_tables", "user_version",
       "insert_session", "resolve", "load", "attach_agent"} :
         Earlier(step, "complete") /\ Earlier(step, "ended")
  /\ \A step \in {"new_forgejo_service", "forgejo_import", "provision", "insert_agent",
       "prepare_agent_state", "update_ready", "record_attach", "attach_agent"} :
         Earlier(step, "update_failed") /\ Earlier(step, "complete")
<1>1. \A step \in Steps : \E i \in 1..31 : step = Stages[i]
  BY DEF Steps, OpenSteps, WorkSteps, EndSteps, Stages
<1>2. \A step \in Steps \ {"ended"} : Earlier(step, "ended")
  <2>1. Stages[31] = "ended"
    BY DEF Stages
  <2> QED
    BY <1>1, <2>1, EarlierEnds
<1>3. \A step \in {"idle", "preflight_configuration", "create_tables", "user_version",
       "insert_session", "resolve", "load", "attach_agent"} :
         /\ step # "ended" /\ step \in Steps
         /\ \E i \in 1..24 : step = Stages[i]
  BY DEF Steps, OpenSteps, WorkSteps, EndSteps, Stages
<1>4. \A step \in {"new_forgejo_service", "forgejo_import", "provision", "insert_agent",
       "prepare_agent_state", "update_ready", "record_attach", "attach_agent"} :
         \E i \in 1..22 : step = Stages[i]
  BY DEF Stages
<1> QED
  BY <1>2, <1>3, <1>4, EarlierEnds

LEMMA Advances ==
  ASSUME TypeOK, NEW p \in Processes, StepOf(p)
  PROVE  Earlier(proc[p].step, proc'[p].step)
<1>0. \A step : At(p, step) => proc[p].step = step
  BY DEF At
<1>1. /\ \A step : Moves(p, step) => proc'[p].step = step
      /\ \A outcome : Returns(p, outcome) => proc'[p].step \in {"ended", "complete"}
      /\ Fails(p) => proc'[p].step \in {"update_failed", "complete"}
  BY MovesEffect, ReturnsEffect, FailsEffect
<1>2. CASE OpenStep(p)
  BY <1>0, <1>1, <1>2, EarlierSteps, EarlierReturns DEF OpenStep, SchemaVersion,
     ApplyMigration, CreateTablesStep, UserVersionStep, CommitMigrationStep, Opened
<1>3. CASE Kill(p)
  BY <1>3, EndsEffect, EarlierReturns DEF Kill, TypeOK, Process
<1>4. CASE p \in Starts /\ StartStep(p)
  <2>1. CASE CommitSession(p) \/ UpdateFailed(p) \/ GetSummary(p)
    <3>1. /\ CommitSession(p) => proc'[p].step = "new_forgejo_service"
          /\ UpdateFailed(p) => proc'[p].step \in {"commit_failed", "complete"}
          /\ GetSummary(p) => proc'[p].step = "collect"
      BY <1>1 DEF CommitSession, UpdateFailed, GetSummary, Writes, TypeOK, Process
    <3> QED
      BY <1>0, <2>1, <3>1, EarlierSteps DEF CommitSession, UpdateFailed, GetSummary, Writes
  <2>2. CASE StartBegins(p) \/ PreflightConfig(p) \/ InsertSession(p)
    BY <1>0, <1>1, <2>2, EarlierSteps, EarlierReturns DEF StartBegins, PreflightConfig,
       InsertSession, Writes
  <2>3. CASE NewForgejoService(p) \/ ForgejoImport(p) \/ UpdateReady(p)
    BY <1>0, <1>1, <2>3, EarlierSteps, EarlierReturns DEF NewForgejoService, ForgejoImport,
       UpdateReady, Waits, Writes
  <2>4. CASE CommitReady(p) \/ CommitFailed(p)
    BY <1>0, <1>1, <2>4, EarlierSteps DEF CommitReady, CommitFailed
  <2> QED
    BY <1>4, <2>1, <2>2, <2>3, <2>4 DEF StartStep
<1>5. CASE p \in Operations /\ OperationStep(p)
  <2>1. CASE Provision(p) \/ CommitAttach(p)
    <3>1. /\ Provision(p) => proc'[p].step = "insert_agent" \/ Fails(p)
          /\ CommitAttach(p) => proc'[p].step = "attach_agent"
      BY DEF Provision, CommitAttach, TypeOK, Process
    <3> QED
      BY <1>0, <1>1, <2>1, <3>1, EarlierSteps, EarlierReturns DEF Provision, CommitAttach
  <2>2. CASE InsertAgent(p) \/ RecordAttachBegins(p)
    BY <1>0, <1>1, <2>2, EarlierSteps, EarlierReturns DEF InsertAgent, RecordAttachBegins,
       Waits, Writes
  <2>3. CASE CommitAgent(p) \/ PrepareAgentState(p) \/ AttachAgent(p)
    BY <1>0, <1>1, <2>3, EarlierSteps, EarlierReturns DEF CommitAgent, PrepareAgentState,
       AttachAgent
  <2>4. CASE CompleteOperation(p) \/ Save(p) \/ Collect(p)
    <3>1. /\ proc[p].step \in Steps \ {"ended"}
          /\ AfterSave(p) \in {"ended", "summary", "collect"}
      BY <1>5, <2>4, FinalEffect, AfterSaveSteps DEF Steps, EndSteps
    <3> QED
      BY <1>0, <1>5, <2>4, <3>1, FinalEffect, EarlierSteps, EarlierReturns
  <2> QED
    BY <1>5, <2>1, <2>2, <2>3, <2>4 DEF OperationStep
<1>6. CASE OtherBegins(p)
  BY <1>0, <1>1, <1>6, EarlierSteps, EarlierReturns DEF OtherBegins
<1>7. CASE AttachResolves(p) \/ DoctorStep(p)
  <2>1. AttachResolves(p) => proc'[p].step = "provision" \/ Returns(p, "refused")
    BY DEF AttachResolves, TypeOK, Process
  <2>2. LoadLatestOperation(p) => proc'[p].step = "ended" \/ Returns(p, "error")
    <3>1. ASSUME NEW shown, proc' = [proc EXCEPT ![p].step = "ended", ![p].shown = shown]
          PROVE  proc'[p].step = "ended"
      BY <3>1 DEF TypeOK, Process
    <3> QED
      BY <3>1 DEF LoadLatestOperation
  <2>3. DoctorResolves(p) => proc'[p].step = "load" \/ Returns(p, "refused")
    BY ResolvesEffect
  <2> QED
    BY <1>0, <1>1, <1>7, <2>1, <2>2, <2>3, EarlierSteps, EarlierReturns DEF AttachResolves,
       DoctorStep, DoctorResolves, LoadLatestOperation
<1> QED
  BY <1>2, <1>3, <1>4, <1>5, <1>6, <1>7 DEF StepOf

\* The safety half of CommandsEnd, for any number of commands: with every step one of
\* them comes nearer to its end, and none is set back.
THEOREM CommandsAdvanceHolds == Spec => CommandsAdvance
<1>1. TypeOK /\ [Next]_vars =>
        [\E p \in Processes :
           /\ Earlier(proc[p].step, proc'[p].step)
           /\ \A q \in Processes \ {p} : proc'[q] = proc[q] /\ lock'[q] = lock[q]]_vars
  BY StepHasProcess, Advances, Frame
<1> QED
  BY <1>1, TypeCorrect, PTL DEF Spec, CommandsAdvance

=============================================================================
