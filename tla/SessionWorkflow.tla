--------------------------- MODULE SessionWorkflow ---------------------------
(***************************************************************************)
(* kagen start and kagen attach on one repository: any number of processes *)
(* that share the session store, the runtime pod of the repository and the *)
(* artefacts of failures.  Each process runs the named steps of its        *)
(* workflow; each step and each statement of the store is one action, and  *)
(* a process may die between any two.                                      *)
(*                                                                         *)
(* A session is named by the kagen start that persists it, an agent        *)
(* session by the process that creates it: both create at most one.        *)
(*                                                                         *)
(* Left out: sessions of other repositories (every query selects by        *)
(* repository or by id); steps before the session is persisted, which      *)
(* leave nothing behind; what the proxy and Forgejo steps do in the        *)
(* cluster; the traces of the steps; kagen down.                           *)
(***************************************************************************)
EXTENDS Timestamps, FiniteSets

CONSTANTS
  Starts,    \* kagen start processes
  Attaches,  \* kagen attach processes
  Agents,    \* agent types
  None       \* no session, no pod

Processes == Starts \union Attaches

ASSUME ProcessAssumption ==
  /\ IsFiniteSet(Starts)
  /\ Starts \intersect Attaches = {}
  /\ None \notin Processes

VARIABLES
  now,       \* ticks of the wall clock
  session,   \* table kagen_sessions
  nested,    \* table agent_sessions: the rows of every session
  pod,       \* the session whose start created the pod "agent"
  artefact,  \* the status in start-session-summary.json of every session
  proc       \* the processes

vars == <<now, session, nested, pod, artefact, proc>>
storeVars == <<session, nested>>

-----------------------------------------------------------------------------
(* States. *)

Statuses == {"none", "starting", "ready", "failed"}
\* Nothing is dated later than the clock.
Instants == 0..now
Times == {formatTimestamp(t) : t \in Instants}
NoSession == [id |-> 0, status |-> "none", lastUsed |-> formatTimestamp(0)]

\* The steps that only wait, or that change what is left out; and the outcomes.
PlainSteps == {"ensure_runtime", "provision", "forgejo_import", "validate_proxy_policy"}
Steps ==
  {"idle", "new_forgejo_service", "ensure_resources", "launch_agent_runtime",
   "preflight_runtime", "create_agent_session", "prepare_agent_state",
   "mark_ready", "record_attach", "attach_agent", "inside", "mark_failed",
   "collect"} \union PlainSteps
Outcomes == {"ok", "error", "refused", "agent_exit", "killed"}

\* agent, target: the arguments, once they are known; usedAt: attachedAt;
\* outcome: what the command will return; unmarked: the store refused to mark the
\* session failed.
Process ==
  [step : Steps \union {"ended"}, agent : Agents \union {None},
   target : Starts \union {None}, usedAt : Instants, outcome : Outcomes,
   unmarked : BOOLEAN]

NewProcess ==
  [step |-> "idle", agent |-> None, target |-> None, usedAt |-> 0,
   outcome |-> "ok", unmarked |-> FALSE]

TypeOK ==
  /\ now \in Nat
  /\ session \in [Starts -> [id : Nat, status : Statuses, lastUsed : Times]]
  /\ nested \in [Starts -> SUBSET Processes]
  /\ pod \in Starts \union {None}
  /\ artefact \in [Starts -> Statuses]
  /\ proc \in [Processes -> Process]

Init ==
  /\ now = 0
  /\ session = [s \in Starts |-> NoSession]
  /\ nested = [s \in Starts |-> {}]
  /\ pod = None
  /\ artefact = [s \in Starts |-> "none"]
  /\ proc = [p \in Processes |-> NewProcess]

-----------------------------------------------------------------------------
(* How a process moves on. *)

At(p, step) == proc[p].step = step

Moves(p, step) == proc' = [proc EXCEPT ![p].step = step]

\* What matters of a process that ended is its outcome and its session.
Ends(p, outcome) ==
  proc' = [proc EXCEPT ![p].step = "ended", ![p].outcome = outcome,
                       ![p].usedAt = 0]

\* Mutant: kagen start does not mark its session.
OnFailureUnmarked(p) == "collect"

\* handleFailure: kagen start marks its session failed, kagen attach does not.
OnFailure(p) == IF p \in Starts THEN "mark_failed" ELSE "collect"

StepFails(p, outcome) ==
  proc' = [proc EXCEPT ![p].step = OnFailure(p), ![p].outcome = outcome]

PodHas(agent) == pod # None /\ proc[pod].agent = agent

-----------------------------------------------------------------------------
(* kagen start, up to the pod. *)

\* Mutant: the row is dated by a clock that runs ahead.
StartPersistAhead(p) ==
  /\ At(p, "idle")
  /\ \E agent \in Agents :
       proc' = [proc EXCEPT ![p].step = "new_forgejo_service",
                            ![p].agent = agent, ![p].target = p]
  /\ session' = [session EXCEPT ![p] =
                   [id |-> 1 + Cardinality({s \in Starts : session[s].status # "none"}),
                    status |-> "starting",
                    lastUsed |-> formatTimestamp(now + 1)]]
  /\ UNCHANGED <<now, nested, pod, artefact>>

\* createPersistedKagenSession; both timestamps are one reading of the clock.
StartPersist(p) ==
  /\ At(p, "idle")
  /\ \E agent \in Agents :
       proc' = [proc EXCEPT ![p].step = "new_forgejo_service",
                            ![p].agent = agent, ![p].target = p]
  /\ now' = now + 1
  /\ session' = [session EXCEPT ![p] =
                   [id |-> 1 + Cardinality({s \in Starts : session[s].status # "none"}),
                    status |-> "starting",
                    lastUsed |-> formatTimestamp(now + 1)]]
  /\ UNCHANGED <<nested, pod, artefact>>

StartForgejoService(p) ==
  /\ At(p, "new_forgejo_service")
  /\ Moves(p, "provision") \/ StepFails(p, "error")
  /\ UNCHANGED <<now, storeVars, pod, artefact>>

\* EnsureResources creates the pod or replaces the one that is there; it may
\* fail before, or between the deletion and the creation.
StartResources(p) ==
  /\ At(p, "ensure_resources")
  /\ \/ pod' = p /\ Moves(p, "forgejo_import")
     \/ pod' \in {pod, None} /\ StepFails(p, "error")
  /\ UNCHANGED <<now, storeVars, artefact>>

-----------------------------------------------------------------------------
(* kagen attach, up to the pod. *)

\* Mutant: ORDER BY last_used_at, id.
PrecedesAscending(s, t) ==
  \/ TextBefore(session[s].lastUsed, session[t].lastUsed)
  \/ session[t].lastUsed = session[s].lastUsed /\ session[s].id < session[t].id

\* Mutant: every session that did not fail is offered.
ReadyOrStarting == {s \in Starts : session[s].status \in {"starting", "ready"}}

Ready == {s \in Starts : session[s].status = "ready"}

\* ORDER BY last_used_at DESC, id DESC LIMIT 1.
Precedes(s, t) ==
  \/ TextBefore(session[t].lastUsed, session[s].lastUsed)
  \/ session[t].lastUsed = session[s].lastUsed /\ session[t].id < session[s].id

FindMostRecentReady == {s \in Ready : \A t \in Ready \ {s} : Precedes(s, t)}

Resolves(p, agent, s) ==
  proc' = [proc EXCEPT ![p].step = "ensure_runtime",
                       ![p].agent = agent, ![p].target = s]

Refuses(p, agent) ==
  proc' = [proc EXCEPT ![p].step = "ended", ![p].agent = agent,
                       ![p].outcome = "refused"]

\* attach --session: validateAttachSummary refuses a session that is not ready.
AttachResolveById(p) ==
  /\ At(p, "idle")
  /\ \E agent \in Agents, s \in Starts :
       /\ session[s].status # "none"
       /\ IF session[s].status = "ready" THEN Resolves(p, agent, s)
                                         ELSE Refuses(p, agent)
  /\ UNCHANGED <<now, storeVars, pod, artefact>>

AttachResolveDefault(p) ==
  /\ At(p, "idle")
  /\ \E agent \in Agents :
       IF Ready = {} THEN Refuses(p, agent)
                     ELSE \E s \in FindMostRecentReady : Resolves(p, agent, s)
  /\ UNCHANGED <<now, storeVars, pod, artefact>>

-----------------------------------------------------------------------------
(* The steps the two commands share. *)

\* Mutant: the session is marked ready before its agent session is created.
AfterPlainReadyFirst(p) ==
  CASE At(p, "ensure_runtime") -> "launch_agent_runtime"
    [] At(p, "provision") -> "ensure_resources"
    [] At(p, "forgejo_import") -> "launch_agent_runtime"
    [] At(p, "validate_proxy_policy") ->
         IF p \in Starts THEN "mark_ready" ELSE "create_agent_session"

AfterPlain(p) ==
  CASE At(p, "ensure_runtime") -> "launch_agent_runtime"
    [] At(p, "provision") -> "ensure_resources"
    [] At(p, "forgejo_import") -> "launch_agent_runtime"
    [] At(p, "validate_proxy_policy") -> "create_agent_session"

PlainStep(p) ==
  /\ proc[p].step \in PlainSteps
  /\ Moves(p, AfterPlain(p)) \/ StepFails(p, "error")
  /\ UNCHANGED <<now, storeVars, pod, artefact>>

\* WaitForPodReady: any pod of that name will do.
Launch(p) ==
  /\ At(p, "launch_agent_runtime")
  /\ \/ pod # None /\ Moves(p, "preflight_runtime")
     \/ StepFails(p, "error")
  /\ UNCHANGED <<now, storeVars, pod, artefact>>

\* The checks run in the container of the agent, which a pod that was created for
\* another agent does not have.
Preflight(p) ==
  /\ At(p, "preflight_runtime")
  /\ \/ PodHas(proc[p].agent) /\ Moves(p, "validate_proxy_policy")
     \/ StepFails(p, "error")
  /\ UNCHANGED <<now, storeVars, pod, artefact>>

\* attachedAt is read first, and written by RecordAttach only later.
CreateAgentSession(p) ==
  /\ At(p, "create_agent_session")
  /\ now' = now + 1
  /\ \/ /\ nested' = [nested EXCEPT ![proc[p].target] = @ \union {p}]
        /\ proc' = [proc EXCEPT ![p].step = "prepare_agent_state",
                                ![p].usedAt = now + 1]
     \/ /\ StepFails(p, "error")
        /\ UNCHANGED nested
  /\ UNCHANGED <<session, pod, artefact>>

PrepareAgentState(p) ==
  /\ At(p, "prepare_agent_state")
  /\ \/ /\ PodHas(proc[p].agent)
        /\ Moves(p, IF p \in Starts THEN "mark_ready" ELSE "record_attach")
     \/ StepFails(p, "error")
  /\ UNCHANGED <<now, storeVars, pod, artefact>>

MarkReady(p) ==
  /\ At(p, "mark_ready")
  /\ \/ /\ session' = [session EXCEPT ![p].status = "ready"]
        /\ Moves(p, "record_attach")
     \/ /\ StepFails(p, "error")
        /\ UNCHANGED session
  /\ UNCHANGED <<now, nested, pod, artefact>>

\* One transaction; start --detach ends here.
RecordAttach(p) ==
  /\ At(p, "record_attach")
  /\ \/ /\ session' = [session EXCEPT ![proc[p].target].lastUsed =
                         formatTimestamp(proc[p].usedAt)]
        /\ \/ Moves(p, "attach_agent")
           \/ p \in Starts /\ Ends(p, "ok")
     \/ /\ StepFails(p, "error")
        /\ UNCHANGED session
  /\ UNCHANGED <<now, nested, pod, artefact>>

\* kubectl exec in the container of the agent.
AttachAgent(p) ==
  /\ At(p, "attach_agent")
  /\ \/ PodHas(proc[p].agent) /\ Moves(p, "inside")
     \/ StepFails(p, "error")
  /\ UNCHANGED <<now, storeVars, pod, artefact>>

\* The user leaves the agent, or it ends with a code that is not zero, or the
\* pod goes away.
LeaveAgent(p) ==
  /\ At(p, "inside")
  /\ Ends(p, "ok") \/ StepFails(p, "agent_exit")
  /\ UNCHANGED <<now, storeVars, pod, artefact>>

-----------------------------------------------------------------------------
(* The end of a command that fails: captureWorkflowFailure. *)

\* failStartSession.
MarkFailed(p) ==
  /\ At(p, "mark_failed")
  /\ \/ /\ session' = [session EXCEPT ![p].status = "failed"]
        /\ Moves(p, "collect")
     \/ /\ proc' = [proc EXCEPT ![p].step = "collect", ![p].unmarked = TRUE]
        /\ UNCHANGED session
  /\ UNCHANGED <<now, nested, pod, artefact>>

\* start reads the session again; attach saves, in a file of its own, the
\* summary it resolved, which always says ready.
Collect(p) ==
  /\ At(p, "collect")
  /\ \/ p \in Starts /\ artefact' = [artefact EXCEPT ![p] = session[p].status]
     \/ UNCHANGED artefact
  /\ Ends(p, proc[p].outcome)
  /\ UNCHANGED <<now, storeVars, pod>>

\* The process dies; nothing it holds outlives it.
Kill(p) ==
  /\ proc[p].step \notin {"idle", "ended"}
  /\ Ends(p, "killed")
  /\ UNCHANGED <<now, storeVars, pod, artefact>>

-----------------------------------------------------------------------------
StartStep(p) ==
  \/ StartPersist(p) \/ StartForgejoService(p) \/ StartResources(p)
  \/ MarkReady(p) \/ MarkFailed(p)

AttachStep(p) == AttachResolveById(p) \/ AttachResolveDefault(p)

SharedStep(p) ==
  \/ PlainStep(p) \/ Launch(p) \/ Preflight(p)
  \/ CreateAgentSession(p) \/ PrepareAgentState(p)
  \/ RecordAttach(p) \/ AttachAgent(p) \/ LeaveAgent(p)
  \/ Collect(p) \/ Kill(p)

Next ==
  \/ \E p \in Starts : StartStep(p)
  \/ \E p \in Attaches : AttachStep(p)
  \/ \E p \in Processes : SharedStep(p)

Spec == Init /\ [][Next]_vars

-----------------------------------------------------------------------------
(* What the workflows promise. *)

\* The store shows the life of a session that SessionLifecycle describes: no
\* agent session under a session that was never prepared, none shared, ready
\* only after the first agent session, and no way back from failed
\* (workflow/session.go, session/writes.go).
Lifecycle == INSTANCE SessionLifecycle WITH
               Sessions <- Starts, Uses <- Processes,
               status <- [s \in Starts |-> session[s].status], nested <- nested

ImplementsLifecycle == Lifecycle!Spec

\* A start that fails is known as failed before it reports, and no process that
\* works on the session at the same time undoes that; only a store that refuses
\* the update is an excuse (failStartSession).
FailureIsRecorded ==
  \A s \in Starts :
    /\ proc[s].outcome \notin {"ok", "killed"}
    /\ ~proc[s].unmarked
    /\ proc[s].step \in {"collect", "ended"}
    => session[s].status = "failed"

\* The session summary among the artefacts of a failed start says failed
\* (captureWorkflowFailure marks first and loads the summary after).
ArtefactTellsFailure ==
  \A s \in Starts :
    artefact[s] # "none" /\ ~proc[s].unmarked => artefact[s] = "failed"

\* Only a session that was ready once is entered by an attach, and it has the
\* agent session of its start (resolveAttachSummary, MarkReady after
\* CreateAgentSession), whatever happened to the session since.
AttachedWasPrepared ==
  \A p \in Attaches : proc[p].target # None =>
    /\ session[proc[p].target].status \in {"ready", "failed"}
    /\ proc[p].target \in nested[proc[p].target]

\* The session that kagen attach takes by default was last used in the same second
\* as the most recently used one, or is that: dropping the zeros at the end of the
\* fraction (formatTimestamp) disturbs the order of the texts only within a second.
DefaultIsOfTheLastSecond ==
  [][\A p \in Attaches : AttachResolveDefault(p) =>
       \A s, t \in Ready : proc'[p].target = s =>
         \A i, j \in Instants :
           session[s].lastUsed = formatTimestamp(i) /\ session[t].lastUsed = formatTimestamp(j)
             => Seconds(j) <= Seconds(i)]_vars

-----------------------------------------------------------------------------
(* What the documentation says and the code does not do. *)

\* README.md: exiting the agent TUI only detaches; the session persists.  The
\* start that loses its agent with an error marks its own ready session failed,
\* and no attach will take it again.
LeavingKeepsSession ==
  [][\A s \in Starts :
       proc[s].outcome = "agent_exit" /\ s \in Ready => s \in Ready']_vars

\* session/queries.go: FindMostRecentReady returns the most recently used ready
\* session.  It compares texts, and these do not sort like the instants.
DefaultIsMostRecent ==
  [][\A p \in Attaches : AttachResolveDefault(p) =>
       \A s, t \in Ready : proc'[p].target = s =>
         parseTimestamp(session[t].lastUsed) <= parseTimestamp(session[s].lastUsed)
    ]_vars

\* docs/INTERNALS-BLUEPRINT.md: a kagen session is the persisted workspace and
\* runtime identity, and attach reuses it.  All sessions of a repository share
\* one pod, which the last start created.
AttachEntersItsSession ==
  [][\A p \in Attaches :
       AttachAgent(p) /\ proc'[p].step = "inside" => pod = proc[p].target]_vars

=============================================================================
