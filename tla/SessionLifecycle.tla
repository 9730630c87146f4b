-------------------------- MODULE SessionLifecycle --------------------------
(***************************************************************************)
(* The life of the persisted kagen sessions and of the agent sessions      *)
(* nested under them, as a reader of the session store sees it, whatever   *)
(* the commands do in between.  SessionWorkflow and CommandRecords are     *)
(* shown to implement it, and inherit the theorems below.                  *)
(***************************************************************************)
EXTENDS TLAPS

CONSTANTS
  Sessions,  \* kagen sessions that may come to be
  Uses       \* agent sessions that may come to be

VARIABLES
  status,  \* of every session
  nested   \* the agent sessions under every session

vars == <<status, nested>>

Statuses == {"none", "starting", "ready", "failed"}

Init ==
  /\ status = [s \in Sessions |-> "none"]
  /\ nested = [s \in Sessions |-> {}]

\* A session is persisted before anything is done for it.
Persist(s) ==
  /\ status[s] = "none"
  /\ status' = [status EXCEPT ![s] = "starting"]
  /\ UNCHANGED nested

\* The first agent session belongs to the start of the session; the others
\* come only once the session was ready.
Nest(s, u) ==
  /\ \A t \in Sessions : u \notin nested[t]
  /\ \/ status[s] = "starting" /\ nested[s] = {}
     \/ status[s] \in {"ready", "failed"} /\ nested[s] # {}
  /\ nested' = [nested EXCEPT ![s] = @ \union {u}]
  /\ UNCHANGED status

Prepare(s) ==
  /\ status[s] = "starting"
  /\ nested[s] # {}
  /\ status' = [status EXCEPT ![s] = "ready"]
  /\ UNCHANGED nested

\* Nothing brings a failed session back.
Fail(s) ==
  /\ status[s] \in {"starting", "ready"}
  /\ status' = [status EXCEPT ![s] = "failed"]
  /\ UNCHANGED nested

Next ==
  \E s \in Sessions :
     \/ Persist(s) \/ Prepare(s) \/ Fail(s)
     \/ \E u \in Uses : Nest(s, u)

Spec == Init /\ [][Next]_vars

-----------------------------------------------------------------------------
(* What follows for every implementation. *)

\* Sessions and their agent sessions are there, in numbers that nobody bounds.
TypeOK ==
  /\ status \in [Sessions -> Statuses]
  /\ nested \in [Sessions -> SUBSET Uses]

\* An agent session belongs to one session.
NestedOnce ==
  \A s, t \in Sessions : s # t => nested[s] \intersect nested[t] = {}

\* A session that may be attached to had an agent session of its own; one that
\* is not persisted has none.
NestingFollows ==
  \A s \in Sessions : /\ status[s] = "ready" => nested[s] # {}
                      /\ status[s] = "none" => nested[s] = {}

\* Agent sessions are not taken away, and a session goes from one status to a later
\* one only.
HistoryGrows ==
  [][\A s \in Sessions :
       /\ nested[s] \subseteq nested'[s]
       /\ status'[s] = "none" => status[s] = "none"
       /\ status'[s] = "starting" => status[s] \in {"none", "starting"}
       /\ status[s] = "failed" => status'[s] = "failed"]_vars

Inv == TypeOK /\ NestedOnce /\ NestingFollows

LEMMA InvInit == Init => Inv
  BY DEF Init, Inv, TypeOK, NestedOnce, NestingFollows, Statuses

LEMMA InvNext == Inv /\ [Next]_vars => Inv'
<1> SUFFICES ASSUME Inv, [Next]_vars PROVE Inv'
  OBVIOUS
<1> USE DEF Inv, TypeOK, NestedOnce, NestingFollows, Statuses
<1>1. CASE \E s \in Sessions : Persist(s) \/ Prepare(s) \/ Fail(s)
  BY <1>1 DEF Persist, Prepare, Fail
<1>2. CASE \E s \in Sessions : \E u \in Uses : Nest(s, u)
  BY <1>2 DEF Nest
<1>3. CASE UNCHANGED vars
  BY <1>3 DEF vars
<1> QED
  BY <1>1, <1>2, <1>3 DEF Next

LEMMA Invariance == Spec => []Inv
  BY InvInit, InvNext, PTL DEF Spec

\* Every implementation keeps an agent session under one session, and lets only
\* sessions be ready that have one.
THEOREM NestingHolds == Spec => [](NestedOnce /\ NestingFollows)
<1>1. Inv => NestedOnce /\ NestingFollows
  BY DEF Inv
<1> QED
  BY <1>1, Invariance, PTL

\* No implementation brings a failed session back or loses an agent session.
THEOREM HistoryGrowsHolds == Spec => HistoryGrows
<1>1. Inv /\ [Next]_vars =>
        [\A s \in Sessions :
           /\ nested[s] \subseteq nested'[s]
           /\ status'[s] = "none" => status[s] = "none"
           /\ status'[s] = "starting" => status[s] \in {"none", "starting"}
           /\ status[s] = "failed" => status'[s] = "failed"]_vars
  BY DEF Inv, TypeOK, Statuses, Next, Persist, Nest, Prepare, Fail, vars
<1> QED
  BY <1>1, Invariance, PTL DEF Spec, HistoryGrows

=============================================================================
