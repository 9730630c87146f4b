--------------------------- MODULE CommandRecords ---------------------------
(***************************************************************************)
(* What kagen start, attach and doctor leave in the user's configuration   *)
(* directory: the session store, statement by statement and lock by lock,  *)
(* and the diagnostics, file by file.  Any number of commands run on one   *)
(* repository and may be the first on this machine; any of them may die    *)
(* between two of its steps.                                               *)
(*                                                                         *)
(* The steps that talk to the cluster are two: "forgejo_import" and those  *)
(* before it, which only start has, and "provision", those after it.       *)
(* SessionWorkflow has their order and Sandbox their calls.  An attach may *)
(* pick any ready session, which both of its ways to choose do.            *)
(***************************************************************************)
EXTENDS OperationTrace

VARIABLES
  now,  \* ticks of the wall clock
  proc  \* the processes

vars == <<dbVars, traceVars, now, proc>>

\* The steps of opening the store; of the commands; of their end.
OpenSteps == {"open", "migrate", "create_tables", "user_version", "commit_migration"}
WorkSteps ==
  {"preflight_configuration", "insert_session", "commit_session", "new_forgejo_service",
   "forgejo_import", "resolve", "provision", "insert_agent", "commit_agent", "prepare_agent_state",
   "update_ready", "commit_ready", "record_attach", "commit_attach", "attach_agent",
   "load"}
EndSteps ==
  {"update_failed", "commit_failed", "complete", "save", "summary",
   "collect", "collect_trace", "collect_summary", "ended"}
Steps == {"idle"} \union OpenSteps \union WorkSteps \union EndSteps

\* "locked": refused by the lock without a wait; "torn": killed between the
\* truncation of a file and its write.
Outcomes == {"ok", "error", "refused", "locked", "killed", "torn"}

\* target: the session; usedAt: attachedAt; seen: the status that was read; shown:
\* whose trace a doctor prints.  History: recordedAt, when RecordAttach was committed;
\* unmarked, the store did not take the status failed; unsaved and uncollected, the
\* file system refused latest-operation.json or an artefact; past, the operations
\* whose trace was complete when a doctor read the session.
Process ==
  [step : Steps, target : Starts \union {None}, usedAt : Nat, recordedAt : Nat,
   outcome : Outcomes, unmarked : BOOLEAN, unsaved : BOOLEAN, uncollected : BOOLEAN,
   seen : Statuses, shown : Operations \union {None}, past : SUBSET Operations]

NewProcess ==
  [step |-> "idle", target |-> None, usedAt |-> 0, recordedAt |-> 0, outcome |-> "ok",
   unmarked |-> FALSE, unsaved |-> FALSE, uncollected |-> FALSE,
   seen |-> "none", shown |-> None, past |-> {}]

TypeOK ==
  /\ DatabaseTypeOK
  /\ TraceTypeOK
  /\ now \in Nat
  /\ proc \in [Processes -> Process]

Init ==
  /\ DatabaseInit
  /\ TraceInit
  /\ now = 0
  /\ proc = [p \in Processes |-> NewProcess]

-----------------------------------------------------------------------------
(* How a process moves on. *)

At(p, step) == proc[p].step = step

Moves(p, step) == proc' = [proc EXCEPT ![p].step = step]

Ends(p, outcome) == proc' = [proc EXCEPT ![p].step = "ended", ![p].outcome = outcome]

\* An error outside of the trace's steps that is only returned; doctor has no trace.
Returns(p, outcome) ==
  proc' = [proc EXCEPT ![p].step = IF p \in Doctors THEN "ended" ELSE "complete",
                       ![p].outcome = outcome]

\* Mutant: the session is not marked.
FailsUnmarked(p) ==
  proc' = [proc EXCEPT ![p].step = "complete", ![p].outcome = "error"]

\* handleFailure: kagen start marks its session failed first.
Fails(p) ==
  proc' = [proc EXCEPT ![p].step = IF p \in Starts THEN "update_failed" ELSE "complete",
                       ![p].outcome = "error"]

\* A write outside of a transaction: the statement that takes the lock.
Writes(p, at, commit) == At(p, at) /\ Reserves(p) /\ Moves(p, commit)

UnchangedStore == UNCHANGED dbVars
OnlyLock == UNCHANGED <<version, tables, session, nested, traceVars, now>>

-----------------------------------------------------------------------------
(* The beginning of a command. *)

\* Configuration and repository, and then ensure_runtime: failures are returned as
\* they are.
StartBegins(p) ==
  /\ At(p, "idle")
  /\ \/ Moves(p, "preflight_configuration") /\ UNCHANGED trace
     \/ Returns(p, "error") /\ UNCHANGED trace
     \/ Returns(p, "error") /\ StepFails(p, "ensure_runtime")
  /\ UNCHANGED <<dbVars, latest, writers, artefact, now>>

\* The agent is chosen; then the configuration is checked (handleEarlyFailure).
PreflightConfig(p) ==
  /\ At(p, "preflight_configuration")
  /\ \/ Moves(p, "open") /\ UNCHANGED trace
     \/ Returns(p, "error") /\ UNCHANGED trace
     \/ Returns(p, "error") /\ StepFails(p, "preflight_configuration")
  /\ UNCHANGED <<dbVars, latest, writers, artefact, now>>

\* attach and doctor load the configuration first, which may fail.
OtherBegins(p) ==
  /\ At(p, "idle")
  /\ Moves(p, "open") \/ Returns(p, "error")
  /\ UNCHANGED <<dbVars, traceVars, now>>

-----------------------------------------------------------------------------
(* Open and initialise. *)

Opened(p) == IF p \in Starts THEN "insert_session" ELSE "resolve"

\* Mutant: the rows of the query are not closed.
SchemaVersionKeepsRows(p) ==
  /\ At(p, "open")
  /\ \/ version = 1 /\ Takes(p, "shared") /\ Moves(p, Opened(p))
     \/ version = 0 /\ UNCHANGED lock /\ Moves(p, "migrate")
  /\ OnlyLock

\* The version is read before the transaction of the migration begins.
SchemaVersion(p) ==
  /\ At(p, "open")
  /\ Moves(p, IF version = 1 THEN Opened(p) ELSE "migrate")
  /\ UNCHANGED <<dbVars, traceVars, now>>

ApplyMigration(p) ==
  /\ At(p, "migrate")
  /\ \/ TablesExist(p) /\ Moves(p, "user_version")
     \/ ~tables /\ Moves(p, "create_tables") /\ UNCHANGED lock
  /\ OnlyLock

CreateTablesStep(p) ==
  /\ At(p, "create_tables")
  /\ \/ CreateTables(p) /\ Moves(p, "user_version")
     \/ TimesOut(p) /\ Returns(p, "error")
  /\ OnlyLock

\* The deferred rollback gives the lock back.
UserVersionStep(p) ==
  /\ At(p, "user_version")
  /\ \/ UserVersion(p) /\ Moves(p, "commit_migration")
     \/ UserVersionBusy(p) /\ Returns(p, "locked")
  /\ OnlyLock

CommitMigrationStep(p) ==
  /\ At(p, "commit_migration")
  /\ CommitMigration(p)
  /\ Moves(p, Opened(p))
  /\ UNCHANGED <<traceVars, now>>

-----------------------------------------------------------------------------
(* kagen start: the row of the session. *)

InsertSession(p) ==
  /\ At(p, "insert_session")
  /\ \/ Writes(p, "insert_session", "commit_session")
     \/ TimesOut(p) /\ Returns(p, "error")
  /\ OnlyLock

\* Both timestamps are one reading of the clock; from here on the metadata of the
\* trace names the session.
CommitSession(p) ==
  /\ At(p, "commit_session")
  /\ now' = now + 1
  /\ CreateKagenSession(p, now + 1)
  /\ proc' = [proc EXCEPT ![p].step = "new_forgejo_service", ![p].target = p]
  /\ UNCHANGED traceVars

\* Between two steps of the trace.
NewForgejoService(p) ==
  /\ At(p, "new_forgejo_service")
  /\ Moves(p, "forgejo_import") \/ Fails(p)
  /\ UNCHANGED <<dbVars, traceVars, now>>

ForgejoImport(p) ==
  /\ At(p, "forgejo_import")
  /\ \/ Moves(p, "provision") /\ UNCHANGED trace
     \/ Fails(p) /\ StepFails(p, "forgejo_import")
  /\ UNCHANGED <<dbVars, latest, writers, artefact, now>>

-----------------------------------------------------------------------------
(* kagen attach: resolveAttachSummary, validateAttachSummary.  It is refused when it
   asks for a session that is not ready, or not there. *)

\* Mutant: any session that did not fail will do.
AttachResolvesAny(p) ==
  /\ At(p, "resolve")
  /\ \/ \E s \in Starts :
          /\ session[s].status \in {"starting", "ready"}
          /\ proc' = [proc EXCEPT ![p].step = "provision", ![p].target = s,
                                  ![p].seen = "ready"]
     \/ Returns(p, "refused")
  /\ UNCHANGED <<dbVars, traceVars, now>>

AttachResolves(p) ==
  /\ At(p, "resolve")
  /\ \/ \E s \in Starts :
          /\ session[s].status = "ready"
          /\ proc' = [proc EXCEPT ![p].step = "provision", ![p].target = s,
                                  ![p].seen = "ready"]
     \/ Returns(p, "refused")
  /\ UNCHANGED <<dbVars, traceVars, now>>

-----------------------------------------------------------------------------
(* The steps the two commands share. *)

\* A step that succeeds is followed by the reading of attachedAt.
Provision(p) ==
  /\ At(p, "provision")
  /\ \/ /\ now' = now + 1
        /\ proc' = [proc EXCEPT ![p].step = "insert_agent", ![p].usedAt = now + 1]
        /\ UNCHANGED trace
     \/ Fails(p) /\ StepFails(p, "provision") /\ UNCHANGED now
  /\ UNCHANGED <<dbVars, latest, writers, artefact>>

\* The statements of prepare_agent_state, each of which may wait in vain.
Waits(p, at, commit) ==
  /\ At(p, at)
  /\ \/ Writes(p, at, commit) /\ UNCHANGED trace
     \/ TimesOut(p) /\ Fails(p) /\ StepFails(p, "prepare_agent_state")
  /\ UNCHANGED <<version, tables, session, nested, latest, writers, artefact, now>>

InsertAgent(p) == Waits(p, "insert_agent", "commit_agent")

CommitAgent(p) ==
  /\ At(p, "commit_agent")
  /\ CreateAgentSession(p, proc[p].target)
  /\ Moves(p, "prepare_agent_state")
  /\ UNCHANGED <<traceVars, now>>

PrepareAgentState(p) ==
  /\ At(p, "prepare_agent_state")
  /\ \/ /\ Moves(p, IF p \in Starts THEN "update_ready" ELSE "record_attach")
        /\ UNCHANGED trace
     \/ Fails(p) /\ StepFails(p, "prepare_agent_state")
  /\ UNCHANGED <<dbVars, latest, writers, artefact, now>>

UpdateReady(p) == Waits(p, "update_ready", "commit_ready")

CommitReady(p) ==
  /\ At(p, "commit_ready")
  /\ UpdateKagenSessionStatus(p, p, "ready")
  /\ Moves(p, "record_attach")
  /\ UNCHANGED <<traceVars, now>>

RecordAttachBegins(p) == Waits(p, "record_attach", "commit_attach")

\* Mutant: the attach is recorded at the time its session was used before.
CommitAttachStale(p) ==
  /\ At(p, "commit_attach")
  /\ RecordAttach(p, proc[p].target, session[proc[p].target].lastUsed)
  /\ proc' = [proc EXCEPT ![p].step = "attach_agent", ![p].recordedAt = now]
  /\ UNCHANGED <<traceVars, now>>

CommitAttach(p) ==
  /\ At(p, "commit_attach")
  /\ RecordAttach(p, proc[p].target, proc[p].usedAt)
  /\ proc' = [proc EXCEPT ![p].step = "attach_agent", ![p].recordedAt = now]
  /\ UNCHANGED <<traceVars, now>>

\* The user leaves the agent, which may take for ever, or start --detach skips it.
AttachAgent(p) ==
  /\ At(p, "attach_agent")
  /\ \/ Moves(p, "complete") /\ UNCHANGED trace
     \/ Fails(p) /\ StepFails(p, "attach_agent")
  /\ UNCHANGED <<dbVars, latest, writers, artefact, now>>

-----------------------------------------------------------------------------
(* The end of a command: captureWorkflowFailure, and the deferred Complete. *)

UpdateFailed(p) ==
  /\ At(p, "update_failed")
  /\ \/ Writes(p, "update_failed", "commit_failed")
     \/ /\ TimesOut(p)
        /\ proc' = [proc EXCEPT ![p].step = "complete", ![p].unmarked = TRUE]
  /\ OnlyLock

CommitFailed(p) ==
  /\ At(p, "commit_failed")
  /\ UpdateKagenSessionStatus(p, p, "failed")
  /\ Moves(p, "complete")
  /\ UNCHANGED <<traceVars, now>>

\* Mutant: only the traces of successes are followed by anything.
AfterSaveEnds(p) == "ended"

AfterSave(p) ==
  CASE proc[p].outcome = "ok" -> "ended"
    [] proc[p].outcome # "ok" /\ p \in Starts -> "summary"
    [] proc[p].outcome # "ok" /\ p \in Attaches -> "collect"

\* A trace that cannot be written is reported, and the command goes on.
GoesOnUnsaved(p) ==
  proc' = [proc EXCEPT ![p].step = AfterSave(p), ![p].unsaved = TRUE]

\* The operations that have latest-operation.json of s open.
Saving(s) == {q \in Operations : At(q, "save") /\ proc[q].target = s}

\* The reporter saves the traces of a known session only, and the file may not even
\* open; of the failures before that, only that of preflight_configuration is captured.
CompleteOperation(p) ==
  /\ At(p, "complete")
  /\ Complete(p)
  /\ \/ /\ proc[p].target # None
        /\ SaveTruncates(proc[p].target, Saving(proc[p].target) \union {p})
        /\ Moves(p, "save")
     \/ proc[p].target # None /\ GoesOnUnsaved(p) /\ UNCHANGED <<latest, writers>>
     \/ /\ proc[p].target = None
        /\ Moves(p, IF trace[p].failed = "preflight_configuration" THEN "collect" ELSE "ended")
        /\ UNCHANGED <<latest, writers>>
  /\ UNCHANGED <<dbVars, artefact, now>>

Save(p) ==
  /\ At(p, "save")
  /\ \/ SaveWrites(p, proc[p].target) /\ Moves(p, AfterSave(p))
     \/ SaveFails(proc[p].target) /\ GoesOnUnsaved(p)
  /\ UNCHANGED <<dbVars, trace, artefact, now>>

\* start reads its session again, and goes on without it if that fails; attach has the
\* summary it resolved.
GetSummary(p) ==
  /\ At(p, "summary")
  /\ \E status \in {session[p].status, "none"} :
       proc' = [proc EXCEPT ![p].step = "collect", ![p].seen = status]
  /\ UNCHANGED <<dbVars, traceVars, now>>

\* Collect returns at the first file that is refused, and the command only warns.
GivesUpCollecting(p) ==
  proc' = [proc EXCEPT ![p].step = "ended", ![p].uncollected = TRUE]

\* The files are written one by one.
Collect(p) ==
  /\ \/ At(p, "collect") /\ CollectFailure(p, proc[p].target) /\ Moves(p, "collect_trace")
     \/ /\ At(p, "collect_trace")
        /\ CollectTrace(p, proc[p].target)
        /\ Moves(p, IF proc[p].seen = "none" THEN "ended" ELSE "collect_summary")
     \/ /\ At(p, "collect_summary")
        /\ CollectSummary(p, proc[p].target, proc[p].seen)
        /\ Moves(p, "ended")
     \/ /\ proc[p].step \in {"collect", "collect_trace", "collect_summary"}
        /\ GivesUpCollecting(p)
        /\ UNCHANGED artefact
  /\ UNCHANGED <<dbVars, trace, latest, writers, now>>

-----------------------------------------------------------------------------
(* kagen doctor, after it has opened the store, and perhaps migrated it. *)

\* It is refused when there is no session, or not the one it asks for.
DoctorResolves(d) ==
  /\ At(d, "resolve")
  /\ \/ \E s \in Starts :
          /\ session[s].status # "none"
          /\ proc' = [proc EXCEPT ![d].step = "load", ![d].target = s,
                                  ![d].seen = session[s].status,
                                  ![d].past = {q \in Operations : trace[q].finished}]
     \/ Returns(d, "refused")
  /\ UNCHANGED <<dbVars, traceVars, now>>

\* What follows, from FindFailureArtefactDir to the inspection of the cluster, is
\* read and printed.
LoadLatestOperation(d) ==
  /\ At(d, "load")
  /\ IF Loads(proc[d].target)
     THEN proc' = [proc EXCEPT ![d].step = "ended", ![d].shown = latest[proc[d].target]]
     ELSE Returns(d, "error")
  /\ UNCHANGED <<dbVars, traceVars, now>>

-----------------------------------------------------------------------------
\* The process dies: its transaction is rolled back, a file it has truncated stays.
Kill(p) ==
  /\ proc[p].step \notin {"idle", "ended"}
  /\ Ends(p, IF At(p, "save") THEN "torn" ELSE "killed")
  /\ Releases(p)
  /\ OnlyLock

OpenStep(p) ==
  \/ SchemaVersion(p) \/ ApplyMigration(p) \/ CreateTablesStep(p)
  \/ UserVersionStep(p) \/ CommitMigrationStep(p)

StartStep(p) ==
  \/ StartBegins(p) \/ PreflightConfig(p) \/ InsertSession(p) \/ CommitSession(p)
  \/ NewForgejoService(p) \/ ForgejoImport(p) \/ UpdateReady(p) \/ CommitReady(p)
  \/ UpdateFailed(p) \/ CommitFailed(p) \/ GetSummary(p)

OperationStep(p) ==
  \/ Provision(p) \/ InsertAgent(p) \/ CommitAgent(p) \/ PrepareAgentState(p)
  \/ RecordAttachBegins(p) \/ CommitAttach(p) \/ AttachAgent(p)
  \/ CompleteOperation(p) \/ Save(p) \/ Collect(p)

DoctorStep(d) == DoctorResolves(d) \/ LoadLatestOperation(d)

Next ==
  \/ \E p \in Processes : OpenStep(p) \/ Kill(p)
  \/ \E p \in Starts : StartStep(p)
  \/ \E p \in Attaches : AttachResolves(p)
  \/ \E p \in Attaches \union Doctors : OtherBegins(p)
  \/ \E p \in Operations : OperationStep(p)
  \/ \E d \in Doctors : DoctorStep(d)

Spec == Init /\ [][Next]_vars

\* The steps that wait for the lock of another writer.
FirstWrites ==
  {"create_tables", "insert_session", "insert_agent", "update_ready", "record_attach",
   "update_failed"}

\* The steps that nothing in the code bounds: colima, Forgejo and kubectl exec are
\* awaited without a deadline, and the user may stay in the agent.
Unbounded == {"idle", "forgejo_import", "provision", "prepare_agent_state", "attach_agent"}

\* Every other step ends, and a writer that waits for the lock is served once it is
\* free: that the wait times out is possible and not relied on.
Progress(p) ==
  /\ proc[p].step \notin Unbounded
  /\ ~(proc[p].step \in FirstWrites /\ OtherHas(p, "reserved"))
  /\ \/ OpenStep(p)
     \/ p \in Starts /\ StartStep(p)
     \/ p \in Attaches /\ AttachResolves(p)
     \/ p \in Operations /\ OperationStep(p)
     \/ p \in Doctors /\ DoctorStep(p)

FairSpec == Spec /\ \A p \in Processes : WF_vars(Progress(p))

-----------------------------------------------------------------------------
(* What the commands promise. *)

\* Whoever uses the store finds the whole schema there, however many first commands
\* created it at once and whichever of them died (initialise reads the version
\* outside of the transaction that migrates).
OpenedFindsSchema ==
  /\ version = 1 => tables
  /\ \A p \in Processes : proc[p].step \in WorkSteps \ {"preflight_configuration"} => version = 1

\* A command that the store refuses without a wait has lost to a command that has
\* migrated it, so that it may just be run again: two first commands never refuse
\* each other (PRAGMA user_version in a transaction that has only read).
RefusedOnlyLate == \A p \in Processes : proc[p].outcome = "locked" => version = 1

\* Statement by statement, lock by lock and with every rollback, the two tables show
\* the life of a session that SessionLifecycle describes.
Lifecycle == INSTANCE SessionLifecycle WITH
               Sessions <- Starts, Uses <- Operations,
               status <- [s \in Starts |-> session[s].status], nested <- nested

ImplementsLifecycle == Lifecycle!Spec

\* last_used_at of a session is not older than a recorded use, unless by a use that
\* began before it and was recorded after its beginning: attachedAt is read long
\* before RecordAttach, so two overlapping uses may be recorded in either order, but
\* no use is lost to one that was over.
LastUseCounts ==
  \A p \in Operations :
    proc[p].recordedAt # 0 /\ session[proc[p].target].lastUsed < proc[p].usedAt =>
      \E q \in Operations :
        /\ proc[q].target = proc[p].target
        /\ proc[q].usedAt = session[proc[p].target].lastUsed
        /\ proc[q].recordedAt >= proc[p].usedAt

\* A failure that its trace does not show happened between two steps: before the
\* session was known, or before an agent session was created for it.  Otherwise a
\* command fails if and only if a step of its complete trace has.
TraceTellsFailure ==
  \A p \in Operations :
    trace[p].finished /\ proc[p].outcome \in {"ok", "error"} =>
      IF trace[p].status = "failed"
      THEN trace[p].failed # None /\ proc[p].outcome = "error"
      ELSE \/ proc[p].outcome = "ok"
           \/ proc[p].target = None
           \/ p \in Starts /\ p \notin nested[p]

\* A start that fails once it has a session, and an attach that fails on one, leave
\* the trace and all artefacts of the failure, those of a start being its own, and its
\* summary says failed as the store does.  Only what the store or the file system
\* refused is missing: the mark, the file or the artefacts, and the summary if it could
\* not be read again (captureWorkflowFailure; docs/INTERNALS-BLUEPRINT.md:126).
FailureReachesDisk ==
  \A p \in Operations :
    At(p, "ended") /\ proc[p].outcome = "error" /\ proc[p].target # None =>
      LET files == artefact[proc[p].target][Name(p)]
      IN  /\ latest[proc[p].target] # None \/ proc[p].unsaved
          /\ p \in Starts => proc[p].unmarked \/ session[p].status = "failed"
          /\ ~proc[p].uncollected =>
               /\ files.failure # None /\ files.trace # None
               /\ proc[p].seen # "none" => files.summary # "none"
               /\ p \in Starts =>
                    /\ files.failure = p /\ files.trace = p
                    /\ files.summary = proc[p].seen
                    /\ proc[p].seen \in {"none", "failed"} \/ proc[p].unmarked

\* A latest-operation.json that cannot be read is explained by those that have had it
\* open since it was last truncated: while it is empty or cut, each of them is still
\* writing, was killed before it did, or was refused by the file system; its end is
\* that of another trace only if two have written.
LatestIsWhole ==
  \A s \in Starts :
    /\ latest[s] \in {Empty, Partial} =>
         /\ writers[s] # {}
         /\ \A p \in writers[s] :
              At(p, "save") \/ proc[p].outcome = "torn" \/ proc[p].unsaved
    /\ latest[s] = Mixed =>
         \E p, q \in writers[s] : p # q /\ ~At(p, "save") /\ ~At(q, "save")

\* What doctor prints belongs together, although it reads the session before the
\* trace and other commands go on in between.  The trace is a complete one of that
\* session; "failed" never stands beside a start that succeeded; and "starting", or
\* "ready" beside a start that failed before that, only if the command whose trace it
\* is was not yet complete when the session was read, or the store refused the mark.
DoctorTellsTruth ==
  \A d \in Doctors : proc[d].shown # None =>
    LET q == proc[d].shown
        s == proc[d].target
    IN  /\ proc[q].target = s /\ trace[q].finished
        /\ proc[d].seen = "failed" /\ q = s =>
             trace[q].status = "failed" \/ s \notin nested[s]
        /\ proc[d].seen = "ready" /\ q = s =>
             trace[q].status = "succeeded" \/ trace[q].failed \in {"prepare_agent_state", "attach_agent"}
        /\ q \in proc[d].past =>
             IF q # s THEN proc[d].seen # "starting"
             ELSE \/ proc[s].unmarked \/ proc[d].seen = "failed"
                  \/ proc[d].seen = "ready" /\ trace[q].status = "succeeded"

\* The steps that wait until nobody reads.
CommitSteps ==
  {"commit_migration", "commit_session", "commit_agent", "commit_ready", "commit_attach",
   "commit_failed"}

\* The processes that keep p waiting.  PRAGMA user_version is refused and waits for
\* nobody.
Blockers(p) ==
  {q \in Processes \ {p} :
     \/ proc[p].step \in FirstWrites /\ lock[q] = "reserved"
     \/ proc[p].step \in CommitSteps /\ lock[q] = "shared"}

\* No commands wait for each other in a circle: in every set of commands there is one
\* that waits for none of the others.  The timeout of the store (PRAGMA busy_timeout)
\* ends long waits and is not what prevents deadlocks: a transaction writes first, and
\* the one that may read first, that of the migration, does not wait afterwards.
NoCircularWait ==
  \A waiting \in (SUBSET Processes) \ {{}} :
    \E p \in waiting : Blockers(p) \intersect waiting = {}

\* A session that shows "starting" is one that its start still prepares or is about
\* to mark, unless that start was killed or the store did not take the mark: a start
\* that completes its trace has settled its session.
StartingIsOwned ==
  \A s \in Starts : session[s].status = "starting" =>
    \/ proc[s].step \in WorkSteps \union {"update_failed", "commit_failed"}
    \/ proc[s].outcome \in {"killed", "torn"}
    \/ proc[s].unmarked

\* Every command comes to its end, or to a step that awaits the cluster or the user:
\* between those no two commands wait for each other, in the store or at its files,
\* and the timeout of the store is not what ends a wait.
CommandsEnd ==
  \A p \in Processes :
    proc[p].step \notin Unbounded ~> proc[p].step \in Unbounded \union {"ended"}

\* A session does not stay "starting": the start that persisted it prepares it or
\* marks it failed, unless it is killed, awaits the cluster for ever, or the store does
\* not take the mark.
StartingSettles ==
  \A s \in Starts :
    session[s].status = "starting" ~>
      \/ session[s].status # "starting"
      \/ proc[s].outcome \in {"killed", "torn"}
      \/ proc[s].unmarked
      \/ proc[s].step \in Unbounded

=============================================================================
