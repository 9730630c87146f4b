----------------------- MODULE SessionWorkflow_proofs -----------------------
(* Theorems about SessionWorkflow, for any processes and any agents. *)
EXTENDS SessionWorkflow, FiniteSetTheorems, SequenceTheorems, TLAPS

-----------------------------------------------------------------------------
(* The inductive invariant: what the step of a process says about the rows *)
(* of the store.                                                           *)

EarlySteps ==
  {"new_forgejo_service", "provision", "ensure_resources", "forgejo_import",
   "launch_agent_runtime", "preflight_runtime", "validate_proxy_policy",
   "create_agent_session"}
NestedSteps == {"prepare_agent_state", "mark_ready"}
ReadySteps == {"record_attach", "attach_agent", "inside"}
AttachSteps ==
  {"idle", "ensure_runtime", "launch_agent_runtime", "preflight_runtime",
   "validate_proxy_policy", "create_agent_session", "prepare_agent_state",
   "record_attach", "attach_agent", "inside", "collect", "ended"}
AttachEarlySteps ==
  {"idle", "ensure_runtime", "launch_agent_runtime", "preflight_runtime",
   "validate_proxy_policy", "create_agent_session"}

\* A start and its session.
StartInv(s) ==
  /\ proc[s].step \in EarlySteps \union NestedSteps \union ReadySteps
                      \union {"idle", "mark_failed", "collect", "ended"}
  /\ proc[s].step = "idle" => proc[s].target = None /\ session[s].status = "none"
  /\ proc[s].step # "idle" => proc[s].target = s /\ session[s].status # "none"
  /\ proc[s].step \in EarlySteps => session[s].status = "starting" /\ s \notin nested[s]
  /\ proc[s].step \in NestedSteps => session[s].status = "starting" /\ s \in nested[s]
  /\ proc[s].step \in ReadySteps => session[s].status = "ready"
  /\ proc[s].step = "mark_failed" => session[s].status \in {"starting", "ready"}
  /\ proc[s].step \in {"mark_failed", "collect"} => proc[s].outcome # "ok"
  /\ proc[s].outcome = "killed" => proc[s].step = "ended"
  /\ proc[s].step \notin {"mark_failed", "collect", "ended"}
       => proc[s].outcome = "ok"
  /\ session[s].status = "ready" => s \in nested[s]

\* An attach and the session it resolved.
AttachInv(a) ==
  /\ proc[a].step \in AttachSteps
  /\ proc[a].step = "idle" => proc[a].target = None
  /\ proc[a].step \notin {"idle", "ended"} => proc[a].target # None
  /\ proc[a].target # None =>
       /\ session[proc[a].target].status \in {"ready", "failed"}
       /\ proc[a].target \in nested[proc[a].target]
  /\ proc[a].step \in AttachEarlySteps => \A s \in Starts : a \notin nested[s]

\* The processes under a session resolved it, or persisted it.
NestedInv == \A s \in Starts : \A p \in nested[s] : proc[p].target = s

SessionInv ==
  /\ \A s \in Starts : StartInv(s)
  /\ \A a \in Attaches : AttachInv(a)
  /\ NestedInv

Inv == TypeOK /\ SessionInv /\ FailureIsRecorded /\ ArtefactTellsFailure

-----------------------------------------------------------------------------
(* Timestamps. *)

\* The instants that may be stored only become more.
LEMMA TimesGrow ==
  ASSUME now \in Nat, now' \in Nat, now <= now'
  PROVE  Instants \subseteq Instants' /\ Times \subseteq Times'
  BY DEF Times, Instants

\* A reading of the clock may be stored.
LEMMA TimesHoldInstants ==
  ASSUME NEW t \in Instants
  PROVE  formatTimestamp(t) \in Times
  BY DEF Times

\* A set of numbers with a bound has a maximum.
LEMMA MaxOfBounded ==
  ASSUME NEW n \in Nat, NEW S \in SUBSET (0..n), S # {}
  PROVE  Max(S) \in S
<1> DEFINE Less == OpToRel(<, Nat)
           From == {n - x : x \in S}
<1>1. From \subseteq Nat /\ From # {}
  <2>1. \A x \in S : n - x \in Nat
    OBVIOUS
  <2> QED
    BY <2>1
<1>2. PICK m \in From : \A y \in From : ~(<<y, m>> \in Less)
  <2>1. IsWellFoundedOn(Less, Nat)
    BY NatLessThanWellFounded
  <2> HIDE DEF Less, From
  <2> QED
    BY <1>1, <2>1, WFMin
<1>3. \A y \in From : m <= y
  <2> DEFINE Pairs == {pair \in Nat \X Nat : pair[1] < pair[2]}
  <2>1. Less = Pairs
    BY Zenon DEF OpToRel
  <2>2. \A y \in From : y < m => <<y, m>> \in Pairs
    BY <1>1
  <2> HIDE DEF Less, From, Pairs
  <2>3. \A y \in From : ~(y < m)
    BY <1>2, <2>1, <2>2
  <2> QED
    BY <1>1, <2>3
<1>4. PICK x \in S : m = n - x
  OBVIOUS
<1>5. \A y \in S : x >= y
  BY <1>3, <1>4
<1> QED
  BY <1>5 DEF Max

\* The text of an instant begins with its second, whatever becomes of the fraction.
LEMMA TextBeginsWithSecond ==
  ASSUME NEW t \in Nat
  PROVE  /\ Len(formatTimestamp(t)) \in Nat \ {0}
         /\ formatTimestamp(t)[1] = Seconds(t)
         /\ Seconds(t) \in Int
<1> DEFINE digits == Fraction(t)
           last == Max({i \in DOMAIN digits : digits[i] # 0} \union {0})
           S == Int \union {digits[i] : i \in 1..Digits}
           fraction == Trimmed(digits)
           middle == IF fraction = <<>> THEN <<>> ELSE <<Point>> \o fraction
<1>1. Seconds(t) \in Int
  BY SecondAssumption DEF Seconds
<1>2. DOMAIN digits = 1..Digits /\ Digits \in Nat
  BY RadixAssumption DEF Fraction
<1>3. last \in 0..Digits
  <2>1. {i \in DOMAIN digits : digits[i] # 0} \union {0} \in SUBSET (0..Digits)
    BY <1>2
  <2> QED
    BY <1>2, <2>1, MaxOfBounded
<1>4. fraction \in Seq(S)
  <2>1. fraction = SubSeq(digits, 1, last)
    BY DEF Trimmed
  <2>2. \A i \in 1..last : digits[i] \in S
    BY <1>2, <1>3
  <2> HIDE DEF digits, last, S, fraction
  <2> QED
    BY <1>2, <1>3, <2>1, <2>2, SubSeqProperties
<1>5. Point \in S /\ Zulu \in S /\ Seconds(t) \in S
  BY <1>1, RadixAssumption DEF Point, Zulu
<1> HIDE DEF digits, last, S, fraction
<1>6. middle \in Seq(S)
  BY <1>4, <1>5, EmptySeq, ConcatProperties
<1>7. formatTimestamp(t) = <<Seconds(t)>> \o middle \o <<Zulu>>
  BY DEF formatTimestamp, fraction, digits
<1> HIDE DEF middle
<1>8. /\ <<Seconds(t)>> \o middle \in Seq(S)
      /\ Len(<<Seconds(t)>> \o middle) \in Nat \ {0}
      /\ (<<Seconds(t)>> \o middle)[1] = Seconds(t)
  <2>1. /\ <<Seconds(t)>> \in Seq(S) /\ Len(<<Seconds(t)>>) = 1
        /\ <<Seconds(t)>>[1] = Seconds(t) /\ Len(middle) \in Nat
    BY <1>5, <1>6
  <2> QED
    BY <1>6, <2>1, ConcatProperties
<1>9. <<Zulu>> \in Seq(S) /\ Len(<<Zulu>>) = 1
  BY <1>5
<1> QED
  BY <1>1, <1>7, <1>8, <1>9, ConcatProperties

\* A text that is not after another is not of a later second.
LEMMA TextOrdersSeconds ==
  ASSUME NEW i \in Nat, NEW j \in Nat,
         TextBefore(formatTimestamp(j), formatTimestamp(i))
         \/ formatTimestamp(j) = formatTimestamp(i)
  PROVE  Seconds(j) <= Seconds(i)
<1> DEFINE a == formatTimestamp(j)
           b == formatTimestamp(i)
<1>1. /\ Len(a) \in Nat \ {0} /\ a[1] = Seconds(j) /\ Seconds(j) \in Int
      /\ Len(b) \in Nat \ {0} /\ b[1] = Seconds(i) /\ Seconds(i) \in Int
  BY TextBeginsWithSecond
<1> HIDE DEF a, b
<1>2. CASE TextBefore(a, b)
  <2>1. PICK k \in 1..Len(b) : /\ \A l \in 1..(k - 1) : l <= Len(a) /\ a[l] = b[l]
                               /\ k <= Len(a) => a[k] < b[k]
    BY <1>2 DEF TextBefore
  <2>2. CASE k = 1
    BY <1>1, <2>1, <2>2
  <2>3. CASE k # 1
    BY <1>1, <2>1, <2>3
  <2> QED
    BY <2>2, <2>3
<1>3. CASE a = b
  BY <1>1, <1>3
<1> QED
  BY <1>2, <1>3 DEF a, b

-----------------------------------------------------------------------------
(* Type correctness. *)

LEMMA InitType == Init => TypeOK
<1>1. 0 \in 0..0
  OBVIOUS
<1>2. Init => Instants = 0..0
  BY DEF Init, Instants
<1>3. Init => formatTimestamp(0) \in Times
  BY <1>1, <1>2, TimesHoldInstants
<1> QED
  BY <1>1, <1>2, <1>3 DEF Init, TypeOK, NoSession, NewProcess, Process, Steps,
     Outcomes, Statuses, Processes

\* As long as the clock stands still, the types do not change.
LEMMA SameClock ==
  ASSUME UNCHANGED now
  PROVE  Instants' = Instants /\ Times' = Times /\ Process' = Process
  BY DEF Instants, Times, Process

LEMMA MovesType ==
  ASSUME TypeOK, NEW p \in Processes,
         NEW step \in Steps \union {"ended"}, Moves(p, step)
  PROVE  proc' \in [Processes -> Process]
  BY DEF TypeOK, Moves, Process

LEMMA StepFailsType ==
  ASSUME TypeOK, NEW p \in Processes, NEW outcome \in Outcomes, StepFails(p, outcome)
  PROVE  proc' \in [Processes -> Process]
<1>1. proc[p] \in Process /\ OnFailure(p) \in Steps
  BY DEF TypeOK, OnFailure, Steps
<1>2. [proc[p] EXCEPT !.step = OnFailure(p), !.outcome = outcome]
        \in Process
  BY <1>1 DEF Process
<1> QED
  BY <1>2 DEF TypeOK, StepFails

LEMMA EndsType ==
  ASSUME TypeOK, NEW p \in Processes, NEW outcome \in Outcomes, Ends(p, outcome)
  PROVE  proc' \in [Processes -> Process]
<1>1. proc[p] \in Process /\ 0 \in Instants
  BY DEF TypeOK, Instants
<1>2. [proc[p] EXCEPT !.step = "ended", !.outcome = outcome, !.usedAt = 0] \in Process
  BY <1>1 DEF Process
<1> QED
  BY <1>2 DEF TypeOK, Ends

\* What is left to show of a step that does not read the clock.
LEMMA TypeByParts ==
  ASSUME TypeOK, UNCHANGED now,
         session' \in [Starts -> [id : Nat, status : Statuses, lastUsed : Times]],
         nested' \in [Starts -> SUBSET Processes],
         pod' \in Starts \union {None},
         artefact' \in [Starts -> Statuses],
         proc' \in [Processes -> Process]
  PROVE  TypeOK'
<1>1. Times' = Times /\ Process' = Process
  BY SameClock
<1> QED
  BY <1>1 DEF TypeOK

LEMMA ProcessThen ==
  Process' = [step : Steps \union {"ended"}, agent : Agents \union {None},
              target : Starts \union {None}, usedAt : Instants', outcome : Outcomes,
              unmarked : BOOLEAN]
  BY DEF Process

LEMMA ProcessGrows ==
  ASSUME TypeOK, Instants \subseteq Instants'
  PROVE  \A q \in Processes : proc[q] \in Process'
<1>1. \A q \in Processes : proc[q] \in Process
  BY DEF TypeOK
<1> QED
  BY <1>1, ProcessThen DEF Process

LEMMA TypeStep ==
  ASSUME TypeOK, [Next]_vars
  PROVE  TypeOK'
PROOF
<1> USE DEF TypeOK
<1>a. \A p \in Processes : proc[p] \in Process
  OBVIOUS
<1>1. ASSUME NEW p \in Starts, StartPersist(p) PROVE TypeOK'
  <2>1. now' \in Nat /\ now <= now' /\ now' \in Instants'
    BY <1>1 DEF StartPersist, Instants
  <2>2. Instants \subseteq Instants' /\ Times \subseteq Times'
    BY <2>1, TimesGrow
  <2>3. formatTimestamp(now + 1) \in Times'
    BY <1>1, <2>1 DEF StartPersist, Times
  <2>4. 1 + Cardinality({s \in Starts : session[s].status # "none"}) \in Nat
    <3>1. IsFiniteSet({s \in Starts : session[s].status # "none"})
      BY ProcessAssumption, FS_Subset
    <3> QED BY <3>1, FS_CardinalityType
  <2>5. session' \in [Starts -> [id : Nat, status : Statuses, lastUsed : Times']]
    BY <1>1, <2>2, <2>3, <2>4 DEF StartPersist, Statuses
  <2>6. proc' \in [Processes -> Process']
    <3>1. \A q \in Processes : proc[q] \in Process'
      BY <2>2, ProcessGrows
    <3>2. ASSUME NEW agent \in Agents
          PROVE  [proc[p] EXCEPT !.step = "new_forgejo_service", !.agent = agent,
                                 !.target = p] \in Process'
      BY <3>1, ProcessThen DEF Steps, Processes
    <3>3. PICK agent \in Agents :
            proc' = [proc EXCEPT ![p].step = "new_forgejo_service",
                                 ![p].agent = agent, ![p].target = p]
      BY <1>1 DEF StartPersist
    <3>4. [proc[p] EXCEPT !.step = "new_forgejo_service", !.agent = agent,
                          !.target = p] \in Process'
      BY <3>2
    <3> HIDE DEF TypeOK
    <3>5. proc' = [proc EXCEPT ![p] = [proc[p] EXCEPT !.step = "new_forgejo_service",
                                         !.agent = agent, !.target = p]]
      BY <3>3
    <3>6. proc = [q \in Processes |-> proc[q]]
      BY DEF TypeOK
    <3> QED BY <3>1, <3>4, <3>5, <3>6
  <2> QED BY <1>1, <2>1, <2>5, <2>6 DEF StartPersist
<1>2. ASSUME NEW p \in Starts, StartForgejoService(p) PROVE TypeOK'
  <2>1. proc' \in [Processes -> Process]
    BY <1>2, MovesType, StepFailsType
       DEF StartForgejoService, Steps, PlainSteps, Outcomes, Processes
  <2> QED BY <1>2, <2>1, TypeByParts DEF StartForgejoService, storeVars
<1>3. ASSUME NEW p \in Starts, StartResources(p) PROVE TypeOK'
  <2>1. proc' \in [Processes -> Process]
    BY <1>3, MovesType, StepFailsType
       DEF StartResources, Steps, PlainSteps, Outcomes, Processes
  <2> QED BY <1>3, <2>1, TypeByParts DEF StartResources, storeVars
<1>4. ASSUME NEW p \in Starts, MarkReady(p) PROVE TypeOK'
  <2>1. proc' \in [Processes -> Process]
    BY <1>4, MovesType, StepFailsType DEF MarkReady, Steps, Outcomes, Processes
  <2>2. session' \in [Starts -> [id : Nat, status : Statuses, lastUsed : Times]]
    BY <1>4 DEF MarkReady, Statuses
  <2> QED BY <1>4, <2>1, <2>2, TypeByParts DEF MarkReady
<1>5. ASSUME NEW p \in Starts, MarkFailed(p) PROVE TypeOK'
  <2>1. proc' \in [Processes -> Process]
    <3>1. CASE Moves(p, "collect")
      BY <3>1, <1>5, MovesType DEF MarkFailed, Steps, Processes
    <3>2. CASE proc' = [proc EXCEPT ![p].step = "collect", ![p].unmarked = TRUE]
      <4>1. [proc[p] EXCEPT !.step = "collect", !.unmarked = TRUE] \in Process
        BY <1>a DEF Process, Steps, Processes
      <4> QED BY <3>2, <4>1
    <3> QED BY <1>5, <3>1, <3>2 DEF MarkFailed
  <2>2. session' \in [Starts -> [id : Nat, status : Statuses, lastUsed : Times]]
    BY <1>5 DEF MarkFailed, Statuses
  <2> QED BY <1>5, <2>1, <2>2, TypeByParts DEF MarkFailed
<1>6. ASSUME NEW p \in Attaches, AttachStep(p) PROVE TypeOK'
  <2>1. ASSUME NEW agent \in Agents, NEW s \in Starts,
               Resolves(p, agent, s)
        PROVE  proc' \in [Processes -> Process]
    <3>1. [proc[p] EXCEPT !.step = "ensure_runtime", !.agent = agent, !.target = s]
            \in Process
      BY <1>a DEF Process, Steps, PlainSteps, Processes
    <3> QED BY <2>1, <3>1 DEF Resolves
  <2>2. ASSUME NEW agent \in Agents, Refuses(p, agent)
        PROVE  proc' \in [Processes -> Process]
    <3>1. [proc[p] EXCEPT !.step = "ended", !.agent = agent, !.outcome = "refused"]
            \in Process
      BY <1>a DEF Process, Outcomes, Processes
    <3> QED BY <2>2, <3>1 DEF Refuses
  <2>3. CASE AttachResolveById(p)
    BY <2>1, <2>2, <2>3, TypeByParts DEF AttachResolveById, storeVars
  <2>4. CASE AttachResolveDefault(p)
    BY <2>1, <2>2, <2>4, TypeByParts
       DEF AttachResolveDefault, FindMostRecentReady, Ready, storeVars
  <2> QED BY <1>6, <2>3, <2>4 DEF AttachStep
<1>7. ASSUME NEW p \in Processes, PlainStep(p) PROVE TypeOK'
  <2>1. AfterPlain(p) \in Steps
    BY <1>7 DEF PlainStep, PlainSteps, AfterPlain, At, Steps
  <2>2. proc' \in [Processes -> Process]
    BY <1>7, <2>1, MovesType, StepFailsType DEF PlainStep, Outcomes
  <2> QED BY <1>7, <2>2, TypeByParts DEF PlainStep, storeVars
<1>8. ASSUME NEW p \in Processes, Launch(p) \/ Preflight(p) PROVE TypeOK'
  <2>1. proc' \in [Processes -> Process]
    BY <1>8, MovesType, StepFailsType DEF Launch, Preflight, Steps, PlainSteps, Outcomes
  <2> QED BY <1>8, <2>1, TypeByParts DEF Launch, Preflight, storeVars
<1>9. ASSUME NEW p \in Processes, CreateAgentSession(p) PROVE TypeOK'
  <2>1. now' \in Nat /\ now <= now' /\ now + 1 \in Instants'
    BY <1>9 DEF CreateAgentSession, Instants
  <2>2. Instants \subseteq Instants' /\ Times \subseteq Times'
    BY <2>1, TimesGrow
  <2>3. session' \in [Starts -> [id : Nat, status : Statuses, lastUsed : Times']]
    BY <1>9, <2>2 DEF CreateAgentSession
  <2>4. nested' \in [Starts -> SUBSET Processes]
    BY <1>9 DEF CreateAgentSession
  <2>5. proc' \in [Processes -> Process']
    <3>1. \A q \in Processes : proc[q] \in Process'
      BY <2>2, ProcessGrows
    <3>2. [proc[p] EXCEPT !.step = "prepare_agent_state", !.usedAt = now + 1] \in Process'
      BY <2>1, <3>1, ProcessThen DEF Steps
    <3>3. [proc[p] EXCEPT !.step = OnFailure(p), !.outcome = "error"]
            \in Process'
      BY <3>1, ProcessThen DEF OnFailure, Steps, Outcomes
    <3> QED BY <1>9, <3>1, <3>2, <3>3 DEF CreateAgentSession, StepFails
  <2> QED BY <1>9, <2>1, <2>3, <2>4, <2>5 DEF CreateAgentSession
<1>10. ASSUME NEW p \in Processes, PrepareAgentState(p) PROVE TypeOK'
  <2>1. proc' \in [Processes -> Process]
    BY <1>10, MovesType, StepFailsType DEF PrepareAgentState, Steps, Outcomes
  <2> QED BY <1>10, <2>1, TypeByParts DEF PrepareAgentState, storeVars
<1>11. ASSUME NEW p \in Processes, RecordAttach(p) PROVE TypeOK'
  <2>1. proc' \in [Processes -> Process]
    BY <1>11, MovesType, StepFailsType, EndsType DEF RecordAttach, Steps, Outcomes
  <2>2. formatTimestamp(proc[p].usedAt) \in Times
    BY TimesHoldInstants DEF Process
  <2>3. session' \in [Starts -> [id : Nat, status : Statuses, lastUsed : Times]]
    BY <1>11, <2>2 DEF RecordAttach
  <2> QED BY <1>11, <2>1, <2>3, TypeByParts DEF RecordAttach
<1>12. ASSUME NEW p \in Processes, AttachAgent(p) \/ LeaveAgent(p) PROVE TypeOK'
  <2>1. proc' \in [Processes -> Process]
    BY <1>12, MovesType, StepFailsType, EndsType DEF AttachAgent, LeaveAgent, Steps, Outcomes
  <2> QED BY <1>12, <2>1, TypeByParts DEF AttachAgent, LeaveAgent, storeVars
<1>14. ASSUME NEW p \in Processes, Collect(p) PROVE TypeOK'
  <2>1. proc' \in [Processes -> Process]
    <3>1. proc[p].outcome \in Outcomes
      BY <1>a DEF Process
    <3> QED BY <1>14, <3>1, EndsType DEF Collect
  <2>2. artefact' \in [Starts -> Statuses]
    BY <1>14 DEF Collect, Statuses
  <2> QED BY <1>14, <2>1, <2>2, TypeByParts DEF Collect, storeVars
<1>15. ASSUME NEW p \in Processes, Kill(p) PROVE TypeOK'
  <2>1. proc' \in [Processes -> Process]
    BY <1>15, EndsType DEF Kill, Outcomes
  <2> QED BY <1>15, <2>1, TypeByParts DEF Kill, storeVars
<1>16. CASE UNCHANGED vars
  BY <1>16, SameClock DEF vars, storeVars
<1> QED
  BY <1>1, <1>2, <1>3, <1>4, <1>5, <1>6, <1>7, <1>8, <1>9, <1>10, <1>11, <1>12,
     <1>14, <1>15, <1>16 DEF Next, StartStep, AttachStep, SharedStep

\* The rows of the store and the records of the processes are well formed, and
\* nothing is dated later than the clock (session/writes.go, values.go).
THEOREM TypeCorrect == Spec => []TypeOK
<1>1. Init => TypeOK
  BY InitType
<1>2. TypeOK /\ [Next]_vars => TypeOK'
  BY TypeStep
<1> QED
  BY <1>1, <1>2, PTL DEF Spec

-----------------------------------------------------------------------------
(* The invariant. *)

LEMMA InitInv == Init => Inv
<1> SUFFICES ASSUME Init PROVE Inv
  OBVIOUS
<1>1. TypeOK
  BY InitType
<1>2. SessionInv
  BY ProcessAssumption DEF Init, SessionInv, StartInv, AttachInv, NestedInv, NoSession,
     NewProcess, Processes, EarlySteps, NestedSteps, ReadySteps, AttachSteps
<1>3. FailureIsRecorded /\ ArtefactTellsFailure
  BY DEF Init, FailureIsRecorded, ArtefactTellsFailure, NewProcess, Processes
<1> QED
  BY <1>1, <1>2, <1>3 DEF Inv

\* A step of p leaves the other processes alone, and of the rows only the session
\* of p, which it never makes one that cannot be attached to.
Local(p) ==
  /\ \A q \in Processes \ {p} : proc'[q] = proc[q]
  /\ \A s \in Starts :
       /\ s # p => session'[s].status = session[s].status
       /\ session[s].status \in {"ready", "failed"}
            => session'[s].status \in {"ready", "failed"}
       /\ nested[s] \subseteq nested'[s] /\ nested'[s] \subseteq nested[s] \union {p}
       /\ p \in nested'[s] => proc'[p].target = s

\* Of such a step only p is of interest.
LEMMA Others ==
  ASSUME SessionInv, NEW p \in Processes, Local(p),
         p \in Starts => StartInv(p)',
         p \in Attaches => AttachInv(p)',
         TypeOK
  PROVE  SessionInv'
<1>1. ASSUME NEW s \in Starts, s # p PROVE StartInv(s)'
  <2>1. proc'[s] = proc[s] /\ session'[s].status = session[s].status
    BY <1>1 DEF Local, Processes
  <2>2. s \in nested'[s] <=> s \in nested[s]
    BY <1>1 DEF Local
  <2> QED
    BY <2>1, <2>2 DEF SessionInv, StartInv
<1>2. ASSUME NEW a \in Attaches, a # p PROVE AttachInv(a)'
  <2>1. proc'[a] = proc[a] /\ proc[a].target \in Starts \union {None}
    BY <1>2 DEF Local, Processes, TypeOK, Process
  <2>2. \A s \in Starts : a \in nested'[s] => a \in nested[s]
    BY <1>2 DEF Local
  <2>3. AttachInv(a)
    BY DEF SessionInv
  <2>4. proc[a].target # None =>
          /\ session'[proc[a].target].status \in {"ready", "failed"}
          /\ proc[a].target \in nested'[proc[a].target]
    BY <2>1, <2>3 DEF AttachInv, Local
  <2> QED
    BY <2>1, <2>2, <2>3, <2>4 DEF AttachInv
<1>3. NestedInv'
  <2> SUFFICES ASSUME NEW s \in Starts, NEW q \in nested'[s]
               PROVE  proc'[q].target = s
    BY DEF NestedInv
  <2>1. CASE q = p
    BY <2>1 DEF Local
  <2>2. CASE q # p
    <3>1. q \in nested[s] /\ q \in Processes
      BY <2>2 DEF Local, TypeOK
    <3> QED
      BY <2>2, <3>1 DEF Local, SessionInv, NestedInv
  <2> QED
    BY <2>1, <2>2
<1> QED
  BY <1>1, <1>2, <1>3 DEF SessionInv

\* A step that leaves the statuses, the agent sessions and its target alone.
LEMMA Quiet ==
  ASSUME SessionInv, TypeOK, NEW p \in Processes,
         \A q \in Processes \ {p} : proc'[q] = proc[q],
         proc'[p].target = proc[p].target,
         \A s \in Starts : session'[s].status = session[s].status,
         UNCHANGED nested,
         p \in Starts => StartInv(p)',
         p \in Attaches => AttachInv(p)'
  PROVE  SessionInv'
<1>1. Local(p)
  BY DEF Local, SessionInv, NestedInv
<1> QED
  BY <1>1, Others

\* What the three ways to move on do to the record of p.
LEMMA MovesRecord ==
  ASSUME TypeOK, NEW p \in Processes, NEW step, Moves(p, step)
  PROVE  /\ \A q \in Processes \ {p} : proc'[q] = proc[q]
         /\ proc'[p].step = step
         /\ proc'[p].target = proc[p].target
         /\ proc'[p].outcome = proc[p].outcome
         /\ proc'[p].unmarked = proc[p].unmarked
  BY DEF TypeOK, Moves, Process

LEMMA StepFailsRecord ==
  ASSUME TypeOK, NEW p \in Processes, NEW outcome, StepFails(p, outcome)
  PROVE  /\ \A q \in Processes \ {p} : proc'[q] = proc[q]
         /\ proc'[p].step = OnFailure(p)
         /\ proc'[p].target = proc[p].target
         /\ proc'[p].outcome = outcome
         /\ proc'[p].unmarked = proc[p].unmarked
  BY DEF TypeOK, StepFails, Process

LEMMA EndsRecord ==
  ASSUME TypeOK, NEW p \in Processes, NEW outcome, Ends(p, outcome)
  PROVE  /\ \A q \in Processes \ {p} : proc'[q] = proc[q]
         /\ proc'[p].step = "ended"
         /\ proc'[p].target = proc[p].target
         /\ proc'[p].outcome = outcome
         /\ proc'[p].unmarked = proc[p].unmarked
  BY DEF TypeOK, Ends, Process

\* A process that moves on without touching the rows, to a step its session allows.
LEMMA QuietMove ==
  ASSUME SessionInv, TypeOK, NEW p \in Processes,
         \A q \in Processes \ {p} : proc'[q] = proc[q],
         proc'[p].target = proc[p].target,
         \A s \in Starts : session'[s].status = session[s].status,
         UNCHANGED nested,
         proc[p].step \notin {"idle", "ended"},
         \/ proc[p].step \in EarlySteps /\ proc'[p].step \in EarlySteps
         \/ proc[p].step = "ensure_runtime" /\ proc'[p].step = "launch_agent_runtime"
         \/ proc[p].step \in NestedSteps /\ proc'[p].step \in NestedSteps
         \/ proc[p].step \in ReadySteps /\ proc'[p].step \in ReadySteps
         \/ p \in Attaches /\ proc[p].step = "prepare_agent_state"
              /\ proc'[p].step \in ReadySteps
         \/ proc'[p].step = "ended"
         \/ proc'[p].step = "collect" /\ proc'[p].outcome # "ok"
         \/ p \in Starts /\ proc'[p].step = "mark_failed"
              /\ proc[p].step \in EarlySteps \union NestedSteps \union ReadySteps,
         p \in Starts =>
           \/ proc'[p].outcome = proc[p].outcome /\ proc'[p].step # "mark_failed"
           \/ proc'[p].step = "ended"
           \/ proc'[p].step = "mark_failed" /\ proc'[p].outcome \notin {"ok", "killed"},
         p \in Attaches => proc'[p].step \in AttachSteps
  PROVE  SessionInv'
<1>1. ASSUME p \in Starts PROVE StartInv(p)'
  <2>1. StartInv(p) /\ p \notin Attaches /\ UNCHANGED nested
        /\ session'[p].status = session[p].status
    BY <1>1, ProcessAssumption DEF SessionInv
  <2>2. proc[p].step # "ensure_runtime"
    BY <2>1 DEF StartInv, EarlySteps, NestedSteps, ReadySteps
  <2>3. CASE proc'[p].step \in {"ended", "collect"}
    BY <1>1, <2>1, <2>3 DEF StartInv, EarlySteps, NestedSteps, ReadySteps
  <2>4. CASE proc'[p].step = "mark_failed"
    BY <1>1, <2>1, <2>4 DEF StartInv, EarlySteps, NestedSteps, ReadySteps
  <2>5. CASE proc'[p].step \notin {"ended", "collect", "mark_failed"}
    BY <1>1, <2>1, <2>2, <2>5 DEF StartInv, EarlySteps, NestedSteps, ReadySteps
  <2> QED
    BY <2>3, <2>4, <2>5
<1>2. ASSUME p \in Attaches PROVE AttachInv(p)'
  <2>1. AttachInv(p) /\ proc[p].target \in Starts \union {None}
    BY <1>2 DEF SessionInv, TypeOK, Process
  <2>2. proc'[p].step \in AttachEarlySteps => proc[p].step \in AttachEarlySteps
    BY <2>1, <1>2 DEF AttachInv, AttachSteps, AttachEarlySteps, EarlySteps, NestedSteps,
       ReadySteps
  <2> QED
    BY <1>2, <2>1, <2>2 DEF AttachInv, EarlySteps, NestedSteps, ReadySteps
<1> QED
  BY <1>1, <1>2, Quiet

LEMMA SessionStep ==
  ASSUME Inv, [Next]_vars
  PROVE  SessionInv'
<1> USE DEF Inv
<1>t. TypeOK'
  BY TypeStep
<1>1. ASSUME NEW p \in Starts, StartPersist(p) PROVE SessionInv'
  <2>1. PICK agent \in Agents :
          proc' = [proc EXCEPT ![p].step = "new_forgejo_service",
                               ![p].agent = agent, ![p].target = p]
    BY <1>1 DEF StartPersist
  <2>2. /\ p \in Processes /\ p \notin Attaches
        /\ \A q \in Processes \ {p} : proc'[q] = proc[q]
        /\ proc'[p].step = "new_forgejo_service" /\ proc'[p].target = p
        /\ proc'[p].outcome = proc[p].outcome
    BY <2>1, ProcessAssumption DEF TypeOK, Process, Processes
  <2>3. /\ \A s \in Starts : s # p => session'[s] = session[s]
        /\ session'[p].status = "starting"
        /\ UNCHANGED nested
    BY <1>1 DEF StartPersist, TypeOK
  <2>4. StartInv(p) /\ proc[p].step = "idle"
    BY <1>1 DEF SessionInv, StartPersist, At
  <2>5. \A s \in Starts : p \notin nested[s]
    BY <2>4, <2>2, ProcessAssumption DEF SessionInv, NestedInv, StartInv, Processes
  <2>6. Local(p)
    BY <2>2, <2>3, <2>4, <2>5 DEF Local, StartInv
  <2>7. StartInv(p)'
    BY <2>2, <2>3, <2>4, <2>5 DEF StartInv, EarlySteps, NestedSteps, ReadySteps
  <2> QED BY <2>2, <2>6, <2>7, Others
<1>2. ASSUME NEW p \in Starts, StartForgejoService(p) PROVE SessionInv'
  <2>1. p \in Processes /\ p \notin Attaches
    BY ProcessAssumption DEF Processes
  <2> QED BY <1>2, <2>1, MovesRecord, StepFailsRecord, QuietMove
          DEF StartForgejoService, At, OnFailure, EarlySteps, storeVars
<1>3. ASSUME NEW p \in Starts, StartResources(p) PROVE SessionInv'
  BY <1>3, ProcessAssumption, MovesRecord, StepFailsRecord, QuietMove
     DEF StartResources, At, OnFailure, EarlySteps, storeVars, Processes
<1>4. ASSUME NEW p \in Starts, MarkReady(p) PROVE SessionInv'
  <2>1. /\ p \in Processes /\ p \notin Attaches
        /\ StartInv(p) /\ proc[p].step = "mark_ready"
    BY <1>4, ProcessAssumption DEF MarkReady, At, Processes, SessionInv
  <2>2. CASE StepFails(p, "error") /\ UNCHANGED session
    BY <1>4, <2>1, <2>2, StepFailsRecord, QuietMove DEF MarkReady, OnFailure, NestedSteps
  <2>3. CASE session' = [session EXCEPT ![p].status = "ready"] /\ Moves(p, "record_attach")
    <3>1. /\ \A s \in Starts : s # p => session'[s] = session[s]
          /\ session'[p].status = "ready"
          /\ UNCHANGED nested
      BY <1>4, <2>3 DEF MarkReady, TypeOK
    <3>2. Local(p)
      BY <2>1, <2>3, <3>1, MovesRecord DEF Local, SessionInv, NestedInv
    <3>3. StartInv(p)'
      BY <2>1, <2>3, <3>1, MovesRecord DEF StartInv, EarlySteps, NestedSteps, ReadySteps
    <3> QED BY <2>1, <3>2, <3>3, Others
  <2> QED BY <1>4, <2>2, <2>3 DEF MarkReady
<1>5. ASSUME NEW p \in Starts, MarkFailed(p) PROVE SessionInv'
  <2>1. /\ p \in Processes /\ p \notin Attaches
        /\ StartInv(p) /\ proc[p].step = "mark_failed"
    BY <1>5, ProcessAssumption DEF MarkFailed, At, Processes, SessionInv
  <2>2. CASE proc' = [proc EXCEPT ![p].step = "collect", ![p].unmarked = TRUE]
               /\ UNCHANGED session
    <3>1. /\ \A q \in Processes \ {p} : proc'[q] = proc[q]
          /\ proc'[p].step = "collect" /\ proc'[p].target = proc[p].target
          /\ proc'[p].outcome = proc[p].outcome
      BY <2>1, <2>2 DEF TypeOK, Process
    <3>2. proc[p].outcome # "ok"
      BY <2>1 DEF StartInv
    <3> QED BY <1>5, <2>1, <2>2, <3>1, <3>2, QuietMove DEF MarkFailed
  <2>3. CASE session' = [session EXCEPT ![p].status = "failed"] /\ Moves(p, "collect")
    <3>1. /\ \A s \in Starts : s # p => session'[s] = session[s]
          /\ session'[p].status = "failed"
          /\ UNCHANGED nested
      BY <1>5, <2>3 DEF MarkFailed, TypeOK
    <3>2. Local(p)
      BY <2>1, <2>3, <3>1, MovesRecord DEF Local, SessionInv, NestedInv
    <3>3. StartInv(p)'
      BY <2>1, <2>3, <3>1, MovesRecord DEF StartInv, EarlySteps, NestedSteps, ReadySteps
    <3> QED BY <2>1, <3>2, <3>3, Others
  <2> QED BY <1>5, <2>2, <2>3 DEF MarkFailed
<1>6. ASSUME NEW p \in Attaches, AttachStep(p) PROVE SessionInv'
  <2>1. /\ p \in Processes /\ p \notin Starts
        /\ AttachInv(p) /\ proc[p].step = "idle"
        /\ UNCHANGED storeVars
    BY <1>6, ProcessAssumption DEF AttachStep, AttachResolveById, AttachResolveDefault,
       At, Processes, SessionInv
  <2>2. \A s \in Starts : p \notin nested[s]
    BY <2>1 DEF AttachInv, AttachEarlySteps
  <2>3. ASSUME NEW agent \in Agents, NEW s \in Ready, Resolves(p, agent, s)
        PROVE  SessionInv'
    <3>1. /\ \A q \in Processes \ {p} : proc'[q] = proc[q]
          /\ proc'[p].step = "ensure_runtime" /\ proc'[p].target = s
      BY <2>1, <2>3 DEF Resolves, TypeOK, Process
    <3>2. s \in Starts /\ session[s].status = "ready" /\ s \in nested[s]
      BY DEF Ready, SessionInv, StartInv
    <3>3. Local(p)
      BY <2>1, <2>2, <3>1 DEF Local, storeVars
    <3>4. s # None
      BY <3>2, ProcessAssumption DEF Processes
    <3>5. AttachInv(p)'
      BY <2>1, <2>2, <3>1, <3>2, <3>4 DEF AttachInv, AttachSteps, storeVars
    <3> QED BY <2>1, <3>3, <3>5, Others
  <2>4. ASSUME NEW agent \in Agents, Refuses(p, agent) PROVE SessionInv'
    <3>1. /\ \A q \in Processes \ {p} : proc'[q] = proc[q]
          /\ proc'[p].step = "ended" /\ proc'[p].target = proc[p].target
      BY <2>1, <2>4 DEF Refuses, TypeOK, Process
    <3>2. AttachInv(p)'
      BY <2>1, <3>1 DEF AttachInv, AttachSteps, AttachEarlySteps, storeVars
    <3> QED BY <2>1, <3>1, <3>2, Quiet DEF storeVars
  <2>5. CASE AttachResolveById(p)
    BY <2>3, <2>4, <2>5 DEF AttachResolveById, Ready
  <2>6. CASE AttachResolveDefault(p)
    BY <2>3, <2>4, <2>6 DEF AttachResolveDefault, FindMostRecentReady
  <2> QED BY <1>6, <2>5, <2>6 DEF AttachStep
<1>7. ASSUME NEW p \in Processes, SharedStep(p) PROVE SessionInv'
  <2>1. /\ p \in Starts => p \notin Attaches /\ StartInv(p)
        /\ p \in Attaches => p \notin Starts /\ AttachInv(p)
        /\ p \in Starts \/ p \in Attaches
    BY ProcessAssumption DEF Processes, SessionInv
  <2>2. CASE PlainStep(p)
    <3>1. \/ proc[p].step \in EarlySteps /\ AfterPlain(p) \in EarlySteps
          \/ proc[p].step = "ensure_runtime" /\ AfterPlain(p) = "launch_agent_runtime"
      BY <2>2 DEF PlainStep, PlainSteps, AfterPlain, At, EarlySteps
    <3>2. p \in Attaches => AfterPlain(p) \in AttachSteps
      BY <2>1, <2>2 DEF PlainStep, PlainSteps, AfterPlain, At, AttachInv, AttachSteps
    <3>3. p \in Starts => proc[p].step # "ensure_runtime"
      BY <2>1 DEF StartInv, EarlySteps, NestedSteps, ReadySteps
    <3>4. CASE Moves(p, AfterPlain(p))
      BY <2>2, <3>1, <3>2, <3>4, MovesRecord, QuietMove
         DEF PlainStep, PlainSteps, EarlySteps, storeVars
    <3>5. CASE StepFails(p, "error")
      BY <2>1, <2>2, <3>1, <3>3, <3>5, StepFailsRecord, QuietMove
         DEF PlainStep, PlainSteps, OnFailure, AttachSteps, storeVars
    <3> QED BY <2>2, <3>4, <3>5 DEF PlainStep
  <2>3. CASE Launch(p) \/ Preflight(p)
    BY <2>1, <2>3, MovesRecord, StepFailsRecord, QuietMove
       DEF Launch, Preflight, At, OnFailure, EarlySteps, AttachSteps, storeVars
  <2>4. CASE CreateAgentSession(p)
    <3>1. CASE StepFails(p, "error") /\ UNCHANGED nested
      BY <2>1, <2>4, <3>1, StepFailsRecord, QuietMove
         DEF CreateAgentSession, At, OnFailure, EarlySteps, AttachSteps
    <3>2. CASE /\ nested' = [nested EXCEPT ![proc[p].target] = @ \union {p}]
               /\ proc' = [proc EXCEPT ![p].step = "prepare_agent_state",
                                       ![p].usedAt = now + 1]
      <4>1. /\ \A q \in Processes \ {p} : proc'[q] = proc[q]
            /\ proc'[p].step = "prepare_agent_state" /\ proc'[p].target = proc[p].target
            /\ proc'[p].outcome = proc[p].outcome
            /\ proc[p].target \in Starts \union {None}
        BY <3>2 DEF TypeOK, Process
      <4>2. proc[p].step = "create_agent_session" /\ UNCHANGED session
        BY <2>4 DEF CreateAgentSession, At
      <4>3. proc[p].target \in Starts
        BY <2>1, <4>1, <4>2 DEF StartInv, AttachInv
      <4>4. \A s \in Starts : nested'[s] =
              IF s = proc[p].target THEN nested[s] \union {p} ELSE nested[s]
        BY <3>2, <4>3 DEF TypeOK
      <4>5. Local(p)
        BY <4>1, <4>2, <4>4 DEF Local, SessionInv, NestedInv
      <4>6. p \in Starts => StartInv(p)'
        BY <2>1, <4>1, <4>2, <4>4 DEF StartInv, EarlySteps, NestedSteps, ReadySteps
      <4>7. p \in Attaches => AttachInv(p)'
        BY <2>1, <4>1, <4>2, <4>3, <4>4
           DEF AttachInv, AttachSteps, AttachEarlySteps
      <4> QED BY <4>5, <4>6, <4>7, Others
    <3> QED BY <2>4, <3>1, <3>2 DEF CreateAgentSession
  <2>5. CASE PrepareAgentState(p)
    BY <2>1, <2>5, MovesRecord, StepFailsRecord, QuietMove
       DEF PrepareAgentState, At, OnFailure, NestedSteps, ReadySteps, AttachSteps, storeVars
  <2>6. CASE RecordAttach(p)
    <3>1. \A s \in Starts : session'[s].status = session[s].status
      BY <2>6 DEF RecordAttach, TypeOK
    <3> QED BY <2>1, <2>6, <3>1, MovesRecord, StepFailsRecord, EndsRecord, QuietMove
            DEF RecordAttach, At, OnFailure, ReadySteps, AttachSteps
  <2>7. CASE AttachAgent(p) \/ LeaveAgent(p)
    BY <2>1, <2>7, MovesRecord, StepFailsRecord, EndsRecord, QuietMove
       DEF AttachAgent, LeaveAgent, At, OnFailure, ReadySteps, AttachSteps, storeVars
  <2>9. CASE Collect(p)
    BY <2>9, EndsRecord, QuietMove DEF Collect, At, AttachSteps, storeVars
  <2>10. CASE Kill(p)
    BY <2>10, EndsRecord, QuietMove DEF Kill, AttachSteps, storeVars
  <2> QED
    BY <1>7, <2>2, <2>3, <2>4, <2>5, <2>6, <2>7, <2>9, <2>10 DEF SharedStep
<1>8. CASE UNCHANGED vars
  BY <1>8 DEF vars, storeVars, SessionInv, StartInv, AttachInv, NestedInv
<1> QED
  BY <1>1, <1>2, <1>3, <1>4, <1>5, <1>6, <1>7, <1>8 DEF Next, StartStep

-----------------------------------------------------------------------------
(* Failures. *)

\* Of the steps of s itself, and of the steps of others.
FailedStart(s) ==
  /\ proc[s].outcome \notin {"ok", "killed"}
  /\ ~proc[s].unmarked
  /\ proc[s].step \in {"collect", "ended"}

\* A failed session stays failed.
LEMMA FailedStays ==
  ASSUME Inv, [Next]_vars, NEW s \in Starts, session[s].status = "failed"
  PROVE  session'[s].status = "failed"
<1> USE DEF Inv
<1>1. ASSUME NEW p \in Starts, StartPersist(p) PROVE session'[s].status = "failed"
  <2>1. session[p].status = "none"
    BY <1>1 DEF StartPersist, At, SessionInv, StartInv
  <2> QED BY <1>1, <2>1 DEF StartPersist, TypeOK
<1>2. ASSUME NEW p \in Starts, MarkReady(p) PROVE session'[s].status = "failed"
  <2>1. session[p].status = "starting"
    BY <1>2 DEF MarkReady, At, SessionInv, StartInv, NestedSteps
  <2> QED BY <1>2, <2>1 DEF MarkReady, TypeOK
<1>3. ASSUME NEW p \in Starts, MarkFailed(p) PROVE session'[s].status = "failed"
  BY <1>3 DEF MarkFailed, TypeOK
<1>4. ASSUME NEW p \in Processes, RecordAttach(p) PROVE session'[s].status = "failed"
  BY <1>4 DEF RecordAttach, TypeOK
<1>5. CASE UNCHANGED session
  BY <1>5
<1> QED
  BY <1>1, <1>2, <1>3, <1>4, <1>5
     DEF Next, StartStep, AttachStep, SharedStep, StartForgejoService, StartResources,
         AttachResolveById, AttachResolveDefault, PlainStep, Launch, Preflight,
         CreateAgentSession, PrepareAgentState, AttachAgent, LeaveAgent,
         Collect, Kill, storeVars, vars

\* Only the steps of s itself make it a failed start, and it marks its session
\* before; the store refuses to mark it once and for all.
LEMMA FailedStartStep ==
  ASSUME Inv, [Next]_vars, NEW s \in Starts
  PROVE  /\ FailedStart(s)' => FailedStart(s) \/ session'[s].status = "failed"
         /\ proc[s].unmarked => proc'[s].unmarked
<1> DEFINE Goal ==
      /\ FailedStart(s)' => FailedStart(s) \/ session'[s].status = "failed"
      /\ proc[s].unmarked => proc'[s].unmarked
<1> USE DEF Inv
<1>s. s \in Processes /\ s \notin Attaches /\ StartInv(s)
  BY ProcessAssumption DEF Processes, SessionInv
<1>0. ASSUME proc'[s] = proc[s] PROVE Goal
  BY <1>0 DEF FailedStart
<1>1. ASSUME NEW p \in Starts, StartPersist(p) PROVE Goal
  <2>1. CASE p = s
    BY <1>s, <1>1, <2>1 DEF StartPersist, At, TypeOK, Process, FailedStart
  <2>2. CASE p # s
    BY <1>s, <1>0, <1>1, <2>2 DEF StartPersist, TypeOK
  <2> QED BY <2>1, <2>2
<1>3. ASSUME NEW p \in Starts, MarkFailed(p) PROVE Goal
  <2>1. CASE p = s
    BY <1>s, <1>3, <2>1 DEF MarkFailed, Moves, TypeOK, Process, FailedStart
  <2>2. CASE p # s
    BY <1>s, <1>0, <1>3, <2>2 DEF MarkFailed, Moves, TypeOK
  <2> QED BY <2>1, <2>2
<1>4. ASSUME NEW p \in Attaches, AttachStep(p) PROVE Goal
  <2>1. p # s
    BY <1>s
  <2> QED BY <1>s, <1>0, <1>4, <2>1
          DEF AttachStep, AttachResolveById, AttachResolveDefault, Resolves, Refuses,
              TypeOK
<1>5. ASSUME NEW p \in Processes,
             \/ StartForgejoService(p) /\ p \in Starts
             \/ StartResources(p) /\ p \in Starts
             \/ MarkReady(p) /\ p \in Starts
             \/ PlainStep(p) \/ Launch(p) \/ Preflight(p) \/ CreateAgentSession(p)
             \/ PrepareAgentState(p) \/ RecordAttach(p) \/ AttachAgent(p) \/ LeaveAgent(p)
      PROVE  Goal
  <2>1. CASE p = s
    <3>1. proc[s].outcome = "ok"
      BY <1>s, <1>5, <2>1
         DEF StartInv, StartForgejoService, StartResources, MarkReady, PlainStep, PlainSteps, Launch, Preflight,
             CreateAgentSession, PrepareAgentState, RecordAttach, AttachAgent, LeaveAgent, At
    <3>2. /\ \/ proc'[s].outcome = "ok"
             \/ proc'[s].step = "mark_failed"
          /\ proc'[s].unmarked = proc[s].unmarked
      <4>1. ASSUME NEW step, Moves(s, step)
            PROVE  proc'[s].outcome = "ok" /\ proc'[s].unmarked = proc[s].unmarked
        BY <1>s, <3>1, <4>1, MovesRecord
      <4>2. ASSUME NEW outcome, StepFails(s, outcome)
            PROVE  proc'[s].step = "mark_failed" /\ proc'[s].unmarked = proc[s].unmarked
        BY <1>s, <4>2, StepFailsRecord DEF OnFailure
      <4>e. ASSUME Ends(s, "ok")
            PROVE  proc'[s].outcome = "ok" /\ proc'[s].unmarked = proc[s].unmarked
        BY <1>s, <4>e, EndsRecord
      <4>3. CASE CreateAgentSession(s)
        BY <1>s, <3>1, <4>2, <4>3 DEF CreateAgentSession, TypeOK, Process
      <4> QED
        BY <1>5, <2>1, <4>1, <4>2, <4>e, <4>3
           DEF StartForgejoService, StartResources, MarkReady, PlainStep, Launch, Preflight,
               PrepareAgentState, RecordAttach, AttachAgent, LeaveAgent
    <3> QED BY <3>1, <3>2 DEF FailedStart
  <2>2. CASE p # s
    BY <1>s, <1>0, <1>5, <2>2, MovesRecord, StepFailsRecord, EndsRecord
       DEF StartForgejoService, StartResources, MarkReady, PlainStep, Launch, Preflight, CreateAgentSession,
           PrepareAgentState, RecordAttach, AttachAgent, LeaveAgent, TypeOK
  <2> QED BY <2>1, <2>2
<1>6. ASSUME NEW p \in Processes, Collect(p) \/ Kill(p) PROVE Goal
  <2>1. CASE p = s
    BY <1>s, <1>6, <2>1, MovesRecord, EndsRecord DEF Collect, Kill, At, FailedStart
  <2>2. CASE p # s
    BY <1>s, <1>0, <1>6, <2>2, MovesRecord, EndsRecord DEF Collect, Kill
  <2> QED BY <2>1, <2>2
<1>7. CASE UNCHANGED vars
  BY <1>0, <1>7 DEF vars
<1> QED
  BY <1>1, <1>3, <1>4, <1>5, <1>6, <1>7
     DEF Next, StartStep, SharedStep, Processes

LEMMA FailureStep ==
  ASSUME Inv, [Next]_vars
  PROVE  FailureIsRecorded'
<1> SUFFICES ASSUME NEW s \in Starts, FailedStart(s)'
             PROVE  session'[s].status = "failed"
  BY DEF FailureIsRecorded, FailedStart
<1>1. CASE FailedStart(s)
  <2>1. session[s].status = "failed"
    BY <1>1 DEF Inv, FailureIsRecorded, FailedStart
  <2> QED BY <2>1, FailedStays
<1> QED
  BY <1>1, FailedStartStep

LEMMA ArtefactStep ==
  ASSUME Inv, [Next]_vars
  PROVE  ArtefactTellsFailure'
<1> SUFFICES ASSUME NEW s \in Starts, artefact'[s] # "none", ~proc'[s].unmarked
             PROVE  artefact'[s] = "failed"
  BY DEF ArtefactTellsFailure
<1>1. ~proc[s].unmarked
  BY FailedStartStep, ProcessAssumption DEF Inv, TypeOK, Process, Processes
<1>2. CASE artefact'[s] = artefact[s]
  BY <1>1, <1>2 DEF Inv, ArtefactTellsFailure
<1>3. CASE artefact'[s] # artefact[s]
  <2>1. PICK p \in Processes : Collect(p)
    BY <1>3 DEF Next, StartStep, AttachStep, SharedStep, StartPersist,
       StartForgejoService, StartResources, MarkReady, MarkFailed, AttachResolveById,
       AttachResolveDefault, PlainStep, Launch, Preflight, CreateAgentSession,
       PrepareAgentState, RecordAttach, AttachAgent, LeaveAgent, Kill, vars
  <2>2. /\ p \in Starts /\ artefact' = [artefact EXCEPT ![p] = session[p].status]
        /\ proc[p].step = "collect"
    BY <1>3, <2>1 DEF Collect, At
  <2>3. p = s /\ artefact'[s] = session[s].status
    BY <1>3, <2>2 DEF Inv, TypeOK
  <2>4. FailedStart(s)
    BY <1>1, <2>2, <2>3 DEF FailedStart, Inv, SessionInv, StartInv
  <2> QED
    BY <2>3, <2>4 DEF FailedStart, Inv, FailureIsRecorded
<1> QED
  BY <1>2, <1>3

\* The rows of the store say what the steps of the processes suppose, after any
\* interleaving and any death (workflow/session.go, session/writes.go).
THEOREM Invariance == Spec => []Inv
<1>1. Inv /\ [Next]_vars => Inv'
  BY TypeStep, SessionStep, FailureStep, ArtefactStep DEF Inv
<1> QED
  BY <1>1, InitInv, PTL DEF Spec

\* A start that fails has marked its session failed when it reports, and no
\* other process undoes that (failStartSession).
THEOREM FailureIsRecordedHolds == Spec => []FailureIsRecorded
<1>1. Inv => FailureIsRecorded
  BY DEF Inv
<1> QED
  BY <1>1, Invariance, PTL

\* The artefacts of a failed start show the session as failed
\* (captureWorkflowFailure).
THEOREM ArtefactTellsFailureHolds == Spec => []ArtefactTellsFailure
<1>1. Inv => ArtefactTellsFailure
  BY DEF Inv
<1> QED
  BY <1>1, Invariance, PTL

\* An attach works on a session that was ready, under which its start created
\* an agent session (resolveAttachSummary).
THEOREM AttachedWasPreparedHolds == Spec => []AttachedWasPrepared
<1>1. Inv => AttachedWasPrepared
  BY DEF Inv, SessionInv, AttachInv, AttachedWasPrepared
<1> QED
  BY <1>1, Invariance, PTL

-----------------------------------------------------------------------------
(* The workflows implement the life of a session. *)

status == [s \in Starts |-> session[s].status]

LEMMA StatusSet ==
  ASSUME TypeOK, NEW p \in Starts, NEW value,
         session' = [session EXCEPT ![p].status = value]
  PROVE  status' = [status EXCEPT ![p] = value]
<1>1. \A s \in Starts : session'[s].status = IF s = p THEN value ELSE session[s].status
  BY DEF TypeOK
<1> QED
  BY <1>1 DEF status

LEMMA LifecycleInit == Init => Lifecycle!Init
  BY DEF Init, Lifecycle!Init, NoSession

LEMMA LifecycleStep ==
  ASSUME Inv, [Next]_vars
  PROVE  [Lifecycle!Next]_(Lifecycle!vars)
<1> USE DEF Inv
<1>0. ASSUME UNCHANGED nested, \A s \in Starts : session'[s].status = session[s].status
      PROVE  UNCHANGED Lifecycle!vars
  BY <1>0 DEF Lifecycle!vars
<1>1. ASSUME NEW p \in Starts, StartPersist(p) PROVE Lifecycle!Next
  <2>1. session[p].status = "none"
    BY <1>1 DEF StartPersist, At, SessionInv, StartInv
  <2>2. status' = [status EXCEPT ![p] = "starting"] /\ UNCHANGED nested
    BY <1>1 DEF StartPersist, TypeOK, status
  <2>3. Lifecycle!Persist(p)
    BY <2>1, <2>2 DEF Lifecycle!Persist, status
  <2> QED BY <2>3 DEF Lifecycle!Next
<1>2. ASSUME NEW p \in Starts, MarkReady(p)
      PROVE  Lifecycle!Next \/ UNCHANGED Lifecycle!vars
  <2>1. session[p].status = "starting" /\ nested[p] # {}
    BY <1>2 DEF MarkReady, At, SessionInv, StartInv, NestedSteps
  <2>2. CASE UNCHANGED session
    BY <1>0, <1>2, <2>2 DEF MarkReady
  <2>3. CASE session' = [session EXCEPT ![p].status = "ready"]
    <3>1. status' = [status EXCEPT ![p] = "ready"] /\ UNCHANGED nested
      BY <1>2, <2>3, StatusSet DEF MarkReady
    <3>2. Lifecycle!Prepare(p)
      BY <2>1, <3>1 DEF Lifecycle!Prepare, status
    <3> QED BY <3>2 DEF Lifecycle!Next
  <2> QED BY <1>2, <2>2, <2>3 DEF MarkReady
<1>3. ASSUME NEW p \in Starts, MarkFailed(p)
      PROVE  Lifecycle!Next \/ UNCHANGED Lifecycle!vars
  <2>1. session[p].status \in {"starting", "ready"}
    BY <1>3 DEF MarkFailed, At, SessionInv, StartInv
  <2>2. CASE UNCHANGED session
    BY <1>0, <1>3, <2>2 DEF MarkFailed
  <2>3. CASE session' = [session EXCEPT ![p].status = "failed"]
    <3>1. status' = [status EXCEPT ![p] = "failed"] /\ UNCHANGED nested
      BY <1>3, <2>3, StatusSet DEF MarkFailed
    <3>2. Lifecycle!Fail(p)
      BY <2>1, <3>1 DEF Lifecycle!Fail, status
    <3> QED BY <3>2 DEF Lifecycle!Next
  <2> QED BY <1>3, <2>2, <2>3 DEF MarkFailed
<1>4. ASSUME NEW p \in Processes, CreateAgentSession(p)
      PROVE  Lifecycle!Next \/ UNCHANGED Lifecycle!vars
  <2>1. CASE UNCHANGED nested
    BY <1>0, <1>4, <2>1 DEF CreateAgentSession
  <2>2. CASE nested' = [nested EXCEPT ![proc[p].target] = @ \union {p}]
    <3> DEFINE t == proc[p].target
    <3>1. proc[p].step = "create_agent_session" /\ UNCHANGED session
      BY <1>4 DEF CreateAgentSession, At
    <3>2. /\ t \in Starts
          /\ \A s \in Starts : p \notin nested[s]
          /\ \/ session[t].status = "starting" /\ nested[t] = {}
             \/ session[t].status \in {"ready", "failed"} /\ nested[t] # {}
      <4>1. CASE p \in Starts
        <5>1. /\ t = p /\ session[p].status = "starting" /\ p \notin nested[p]
          BY <3>1, <4>1 DEF SessionInv, StartInv, EarlySteps
        <5>2. \A s \in Starts : p \notin nested[s]
          BY <5>1 DEF SessionInv, NestedInv
        <5>3. \A q \in nested[p] : q \notin Starts /\ q \notin Attaches
          <6>1. \A q \in nested[p] : proc[q].target = p
            BY <4>1 DEF SessionInv, NestedInv
          <6>2. \A q \in Starts : proc[q].target = p => q = p
            BY <4>1, ProcessAssumption DEF SessionInv, StartInv, Processes
          <6>3. \A q \in Attaches : proc[q].target # p
            BY <4>1, <5>1, ProcessAssumption DEF SessionInv, AttachInv, Processes
          <6> QED BY <5>1, <6>1, <6>2, <6>3
        <5>4. nested[p] = {}
          BY <4>1, <5>3 DEF TypeOK, Processes
        <5> QED BY <4>1, <5>1, <5>2, <5>4
      <4>2. CASE p \in Attaches
        <5>1. AttachInv(p) /\ t \in Starts \union {None}
          BY <4>2 DEF SessionInv, TypeOK, Process, Processes
        <5> QED BY <3>1, <5>1 DEF AttachInv, AttachEarlySteps
      <4> QED BY <4>1, <4>2 DEF Processes
    <3>3. Lifecycle!Nest(t, p)
      BY <2>2, <3>1, <3>2 DEF Lifecycle!Nest
    <3> QED BY <3>2, <3>3 DEF Lifecycle!Next
  <2> QED BY <1>4, <2>1, <2>2 DEF CreateAgentSession
<1>5. ASSUME NEW p \in Processes, RecordAttach(p) PROVE UNCHANGED Lifecycle!vars
  <2>1. \A s \in Starts : session'[s].status = session[s].status
    BY <1>5 DEF RecordAttach, TypeOK
  <2> QED BY <1>0, <1>5, <2>1 DEF RecordAttach
<1>6. ASSUME UNCHANGED storeVars PROVE UNCHANGED Lifecycle!vars
  BY <1>0, <1>6 DEF storeVars
<1> QED
  BY <1>1, <1>2, <1>3, <1>4, <1>5, <1>6
     DEF Next, StartStep, AttachStep, SharedStep, StartForgejoService, StartResources,
         AttachResolveById, AttachResolveDefault, PlainStep, Launch, Preflight,
         PrepareAgentState, AttachAgent, LeaveAgent, Collect, Kill, vars, storeVars

\* The store shows every session living the life SessionLifecycle describes,
\* whatever starts and attaches run and die (session/writes.go).
THEOREM WorkflowImplementsLifecycle == Spec => ImplementsLifecycle
<1>1. Inv /\ [Next]_vars => [Lifecycle!Next]_(Lifecycle!vars)
  BY LifecycleStep
<1> QED
  BY <1>1, LifecycleInit, Invariance, PTL DEF Spec, ImplementsLifecycle, Lifecycle!Spec

\* What SessionLifecycle promises holds of the store: an agent session stays under one
\* session, however the pods and the commands fare, and no failed session comes back.
THEOREM WorkflowKeepsHistory ==
  Spec => [](Lifecycle!NestedOnce /\ Lifecycle!NestingFollows) /\ Lifecycle!HistoryGrows
<1>1. Spec => Lifecycle!Spec
  BY WorkflowImplementsLifecycle DEF ImplementsLifecycle
<1> QED
  BY <1>1, Lifecycle!NestingHolds, Lifecycle!HistoryGrowsHolds, PTL

-----------------------------------------------------------------------------
(* The session an attach takes by default. *)

\* Among the ready sessions it was last used in the latest second (session/queries.go
\* FindMostRecentReady, session/values.go formatTimestamp).
THEOREM DefaultIsOfTheLastSecondHolds == Spec => DefaultIsOfTheLastSecond
<1> DEFINE Latest ==
      \A p \in Attaches : AttachResolveDefault(p) =>
        \A s, t \in Ready : proc'[p].target = s =>
          \A i, j \in Instants :
            session[s].lastUsed = formatTimestamp(i) /\ session[t].lastUsed = formatTimestamp(j)
              => Seconds(j) <= Seconds(i)
<1>1. TypeOK /\ [Next]_vars => [Latest]_vars
  <2> SUFFICES ASSUME TypeOK,
                      NEW p \in Attaches, AttachResolveDefault(p),
                      NEW s \in Ready, NEW t \in Ready, proc'[p].target = s,
                      NEW i \in Instants, NEW j \in Instants,
                      session[s].lastUsed = formatTimestamp(i),
                      session[t].lastUsed = formatTimestamp(j)
               PROVE  Seconds(j) <= Seconds(i)
    OBVIOUS
  <2>1. i \in Nat /\ j \in Nat
    BY DEF TypeOK, Instants
  <2>2. s \in FindMostRecentReady
    <3>1. PICK agent \in Agents, r \in FindMostRecentReady : Resolves(p, agent, r)
      BY DEF AttachResolveDefault
    <3>2. proc'[p].target = r
      BY <3>1 DEF Resolves, TypeOK, Processes, Process
    <3> QED
      BY <3>2
  <2>3. CASE t = s
    BY <2>1, <2>3, TextOrdersSeconds
  <2>4. CASE t # s
    <3>1. Precedes(s, t)
      BY <2>2, <2>4 DEF FindMostRecentReady
    <3> QED
      BY <2>1, <3>1, TextOrdersSeconds DEF Precedes
  <2> QED
    BY <2>3, <2>4
<1> QED
  BY <1>1, TypeCorrect, PTL DEF Spec, DefaultIsOfTheLastSecond

=============================================================================
