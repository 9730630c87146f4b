------------------------ MODULE ReviewBoundary_proofs ------------------------
(***************************************************************************)
(* The promises of ReviewBoundary, proved for every number of pull         *)
(* processes and every bound.                                              *)
(***************************************************************************)
EXTENDS ReviewBoundary, TLAPS

USE DEF Absent, PullRunning, PullEnded, StartSteps

-----------------------------------------------------------------------------
(* Type correctness: a ref never holds a commit that was not made.         *)

LEMMA InitTypeOK == Init => TypeOK
<1> SUFFICES ASSUME Init PROVE TypeOK
  OBVIOUS
<1>1. Made = {0}
  BY DEF Init, Made
<1>2. pull \in [Pullers -> PullRecord]
  BY DEF Init, Ended, PullRecord
<1>3. fresh \in Nat \ {0} /\ head \subseteq Made /\ resets \in Nat
  BY <1>1 DEF Init
<1>4. /\ agentMade = {} /\ reviewed = {} /\ trackBase = {} /\ trackReview = {}
      /\ base = {} /\ review = {} /\ work = {} /\ pushing = {}
      /\ dirty = FALSE /\ attachable = FALSE /\ pod = "none" /\ start = "idle"
  BY DEF Init
<1> QED
  BY <1>2, <1>3, <1>4 DEF TypeOK

\* The commits made so far are made after every step too.
LEMMA MadeGrows ==
  ASSUME TypeOK, fresh' = fresh \/ fresh' = fresh + 1
  PROVE  /\ Made \subseteq Made' /\ fresh' \in Nat \ {0}
         /\ fresh' = fresh + 1 => fresh \in Made' /\ fresh \notin Made
         /\ pull \in [Pullers -> PullRecord']
BY DEF TypeOK, Made, PullRecord

LEMMA FreshMonotone == Next => fresh' = fresh \/ fresh' = fresh + 1
BY DEF Next, UserNext, UserEdit, UserCommit, UserReset, StartNext,
       StartResources, StartPushBase, StartPushReview, StartPushRetry,
       StartLaunch, StartFail, PodNext, WorkspaceSync, AgentCommit, AgentPush,
       AgentPushBase, PullNext, PullDiscover, PullProtect, PullFetch,
       PullValidate, PullMerge, PullFail

LEMMA UserTypeOK == TypeOK /\ UserNext => TypeOK'
<1>1. ASSUME TypeOK, UserEdit PROVE TypeOK'
  BY <1>1 DEF TypeOK, UserEdit, Made, PullRecord, forgeVars, podVars, startVars
<1>2. ASSUME TypeOK, UserCommit PROVE TypeOK'
  <2>1. fresh' = fresh + 1
    BY <1>2 DEF UserCommit
  <2> QED
    BY <1>2, <2>1, MadeGrows
    DEF TypeOK, UserCommit, forgeVars, podVars, startVars
<1>3. ASSUME TypeOK, UserReset PROVE TypeOK'
  <2>1. resets' \in Nat /\ Made' = Made
    BY <1>3 DEF TypeOK, UserReset, Made
  <2>2. head' \subseteq Made
    BY <1>3 DEF TypeOK, UserReset
  <2> QED
    BY <1>3, <2>1, <2>2 DEF TypeOK, UserReset, PullRecord, forgeVars, podVars, startVars
<1> QED
  BY <1>1, <1>2, <1>3 DEF UserNext

LEMMA StartTypeOK == TypeOK /\ StartNext => TypeOK'
BY DEF TypeOK, StartNext, StartResources, StartPushBase, StartPushReview,
       StartPushRetry, StartLaunch, StartFail, Made, PullRecord,
       hostVars, forgeVars, podVars

LEMMA PodTypeOK == TypeOK /\ PodNext => TypeOK'
<1>1. ASSUME TypeOK, AgentCommit PROVE TypeOK'
  <2>1. fresh' = fresh + 1
    BY <1>1 DEF AgentCommit
  <2> QED
    BY <1>1, <2>1, MadeGrows
    DEF TypeOK, AgentCommit, hostVars, forgeVars, startVars
<1>2. ASSUME TypeOK, WorkspaceSync \/ AgentPush \/ AgentPushBase PROVE TypeOK'
  BY <1>2 DEF TypeOK, WorkspaceSync, AgentPush, AgentPushBase, Made, PullRecord,
              hostVars, forgeVars, podVars, startVars
<1> QED
  BY <1>1, <1>2 DEF PodNext

LEMMA PullTypeOK ==
  ASSUME NEW p \in Pullers, TypeOK, PullNext(p)
  PROVE  TypeOK'
<1>1. CASE PullProtect(p) /\ dirty
  <2>1. fresh' = fresh + 1
    BY <1>1 DEF PullProtect
  <2>2. pull' \in [Pullers -> PullRecord']
    <3>1. pull' = [pull EXCEPT ![p].step = "fetch", ![p].wip = {fresh}]
      BY <1>1 DEF PullProtect
    <3>2. pull[p] \in PullRecord' /\ {fresh} \subseteq Made'
      BY <2>1, MadeGrows
    <3> QED
      BY <2>1, <3>1, <3>2, MadeGrows DEF PullRecord
  <2> QED
    BY <1>1, <2>1, <2>2, MadeGrows
    DEF TypeOK, PullProtect, forgeVars, podVars, startVars
<1>2. CASE ~(PullProtect(p) /\ dirty)
  <2>1. fresh' = fresh
    BY <1>2 DEF PullNext, PullDiscover, PullProtect, PullFetch, PullValidate,
                PullMerge, PullFail
  <2>2. pull' \in [Pullers -> PullRecord]
    BY <1>2 DEF TypeOK, PullNext, PullDiscover, PullProtect, PullFetch,
                PullValidate, PullMerge, PullFail, Ends, Goes, Ended, PullRecord
  <2>3. head' \subseteq Made /\ trackBase' \subseteq Made /\ trackReview' \subseteq Made
    BY <1>2 DEF TypeOK, PullNext, PullDiscover, PullProtect, PullFetch,
                PullValidate, PullMerge, PullFail, Fetched, hostVars
  <2>4. dirty' \in BOOLEAN /\ resets' \in Nat
    BY <1>2 DEF TypeOK, PullNext, PullDiscover, PullProtect, PullFetch,
                PullValidate, PullMerge, PullFail, hostVars
  <2>5. UNCHANGED <<agentMade, forgeVars, podVars, startVars>>
    BY DEF PullNext, PullDiscover, PullProtect, PullFetch,
                PullValidate, PullMerge, PullFail
  <2> QED
    BY <2>1, <2>2, <2>3, <2>4, <2>5
    DEF TypeOK, Made, PullRecord, forgeVars, podVars, startVars
<1> QED
  BY <1>1, <1>2

LEMMA StepTypeOK == TypeOK /\ [Next]_vars => TypeOK'
<1>1. ASSUME TypeOK, UNCHANGED vars PROVE TypeOK'
  BY <1>1 DEF TypeOK, Made, PullRecord, vars, hostVars, forgeVars, podVars, startVars
<1> QED
  BY <1>1, UserTypeOK, StartTypeOK, PodTypeOK, PullTypeOK DEF Next

\* Every ref, clone and variable of a command always names commits that were
\* made, and every history variable is in its range.
THEOREM TypeCorrect == Spec => []TypeOK
<1> QED
  BY InitTypeOK, StepTypeOK, PTL DEF Spec

-----------------------------------------------------------------------------
(* The gate.  OnlyReviewedWork is not inductive: what kagen pull merges is  *)
(* the fetched review ref, which comes from the review branch, which start *)
(* overwrites with the HEAD it holds.  All of them carry reviewed work only.*)

Reviewed(ref) == ref \intersect agentMade \subseteq reviewed

GateInv ==
  /\ Reviewed(head)
  /\ Reviewed(pushing)
  /\ Reviewed(review)
  /\ Reviewed(trackReview)

LEMMA UserGate == TypeOK /\ GateInv /\ UserNext => GateInv'
<1> SUFFICES ASSUME TypeOK, GateInv, UserNext PROVE GateInv'
  OBVIOUS
<1>1. UNCHANGED <<agentMade, reviewed, pushing, review, trackReview>>
  BY DEF UserNext, UserEdit, UserCommit, UserReset, forgeVars, startVars
<1>2. head' \subseteq head \union {fresh}
  BY DEF UserNext, UserEdit, UserCommit, UserReset
<1>3. fresh \notin agentMade
  BY DEF TypeOK, Made
<1> QED
  BY <1>1, <1>2, <1>3 DEF GateInv, Reviewed

LEMMA StartGate == GateInv /\ StartNext => GateInv'
BY DEF GateInv, Reviewed, StartNext, StartResources, StartPushBase,
       StartPushReview, StartPushRetry, StartLaunch, StartFail,
       hostVars, forgeVars, podVars

LEMMA PodGate == TypeOK /\ GateInv /\ PodNext => GateInv'
<1> SUFFICES ASSUME TypeOK, GateInv, PodNext PROVE GateInv'
  OBVIOUS
<1>1. CASE AgentCommit
  <2>1. fresh \notin head \union pushing \union review \union trackReview
    BY DEF TypeOK, Made
  <2> QED
    BY <1>1, <2>1 DEF GateInv, Reviewed, AgentCommit, hostVars, forgeVars, startVars
<1>2. CASE WorkspaceSync \/ AgentPush \/ AgentPushBase
  BY <1>2 DEF GateInv, Reviewed, WorkspaceSync, AgentPush, AgentPushBase,
              hostVars, forgeVars, startVars
<1> QED
  BY <1>1, <1>2 DEF PodNext

LEMMA PullGate ==
  ASSUME NEW p \in Pullers, TypeOK, GateInv, PullNext(p)
  PROVE  GateInv'
<1>1. UNCHANGED <<agentMade, reviewed, pushing, review>>
  BY DEF PullNext, PullDiscover, PullProtect, PullFetch, PullValidate,
         PullMerge, PullFail, forgeVars, startVars
<1>2. trackReview' \in {trackReview, review}
  BY DEF PullNext, PullDiscover, PullProtect, PullFetch, PullValidate,
         PullMerge, PullFail, Fetched, hostVars
<1>3. head' \in {head, head \union {fresh}, trackReview}
  BY DEF PullNext, PullDiscover, PullProtect, PullFetch, PullValidate,
         PullMerge, PullFail, hostVars
<1>4. fresh \notin agentMade
  BY DEF TypeOK, Made
<1> QED
  BY <1>1, <1>2, <1>3, <1>4 DEF GateInv, Reviewed

LEMMA StepGate == TypeOK /\ GateInv /\ [Next]_vars => GateInv'
<1>1. ASSUME GateInv, UNCHANGED vars PROVE GateInv'
  BY <1>1 DEF GateInv, Reviewed, vars, hostVars, forgeVars, startVars
<1> QED
  BY <1>1, UserGate, StartGate, PodGate, PullGate DEF Next

\* Agent commits are on the host branch only if they were on the review branch
\* of Forgejo, whatever the user, the agent, a start and any number of pulls do.
THEOREM OnlyReviewedWorkHolds == Spec => []OnlyReviewedWork
<1>1. Init => GateInv
  BY DEF Init, GateInv, Reviewed
<1>2. GateInv => OnlyReviewedWork
  BY DEF GateInv, Reviewed, OnlyReviewedWork
<1> QED
  BY <1>1, <1>2, TypeCorrect, StepGate, PTL DEF Spec

-----------------------------------------------------------------------------
(* What the host keeps. *)

\* No step but a hard reset by the user takes a commit from the host branch, and
\* edits leave the working tree only as a commit of the host.
THEOREM UserWorkIsKept == Spec => UserWorkKept
<1> DEFINE Keeps == /\ head \subseteq head'
                    /\ dirty /\ ~dirty' => \E c \in head' \ head : c \notin agentMade
<1>1. ASSUME TypeOK, Next PROVE UserReset \/ Keeps
  <2>1. fresh \notin head /\ fresh \notin agentMade
    BY <1>1 DEF TypeOK, Made
  <2>2. CASE UserNext
    BY <2>1, <2>2 DEF UserNext, UserEdit, UserCommit
  <2>3. CASE StartNext \/ PodNext
    <3>1. UNCHANGED <<head, dirty>>
      BY <2>3 DEF StartNext, StartResources, StartPushBase, StartPushReview,
                  StartPushRetry, StartLaunch, StartFail, PodNext, WorkspaceSync,
                  AgentCommit, AgentPush, AgentPushBase, hostVars
    <3> QED
      BY <3>1
  <2>4. ASSUME NEW p \in Pullers, PullNext(p) PROVE Keeps
    <3>1. CASE PullProtect(p)
      BY <2>1, <3>1 DEF PullProtect
    <3>2. CASE ~PullProtect(p)
      <4>1. dirty' = dirty /\ head \subseteq head'
        BY <2>4, <3>2 DEF PullNext, PullDiscover, PullFetch, PullValidate,
                          PullMerge, PullFail, hostVars
      <4> QED
        BY <4>1
    <3> QED
      BY <3>1, <3>2
  <2> QED
    BY <1>1, <2>2, <2>3, <2>4 DEF Next
<1>2. TypeOK /\ [Next]_vars => [UserReset \/ Keeps]_vars
  BY <1>1
<1> QED
  BY <1>2, TypeCorrect, PTL DEF Spec, UserWorkKept

\* A branch that exists in Forgejo is never deleted, so --prune removes nothing.
RefsStay ==
  /\ head # Absent
  /\ start = "pushReview" => pushing # Absent
  /\ base = Absent => trackBase = Absent
  /\ review = Absent => trackReview = Absent

LEMMA StepRefsStay == TypeOK /\ RefsStay /\ [Next]_vars => RefsStay'
<1> SUFFICES ASSUME TypeOK, RefsStay, [Next]_vars PROVE RefsStay'
  OBVIOUS
<1>1. CASE UserNext
  <2>1. ASSUME UserReset PROVE head' # Absent
    <3>1. PICK c \in head : head' = {d \in head : d <= c}
      BY <2>1 DEF UserReset
    <3>2. c <= c
      BY DEF TypeOK, Made
    <3> QED
      BY <3>1, <3>2
  <2>2. UNCHANGED <<trackBase, trackReview, forgeVars, startVars>>
    BY <1>1 DEF UserNext, UserEdit, UserCommit, UserReset
  <2>3. head' # Absent
    BY <1>1, <2>1 DEF RefsStay, UserNext, UserEdit, UserCommit
  <2> QED
    BY <2>2, <2>3 DEF RefsStay, forgeVars, startVars
<1>2. CASE StartNext
  BY <1>2 DEF RefsStay, StartNext, StartResources, StartPushBase,
       StartPushReview, StartPushRetry, StartLaunch, StartFail,
       hostVars, forgeVars
<1>3. CASE PodNext
  BY <1>3 DEF RefsStay, PodNext, WorkspaceSync, AgentCommit, AgentPush,
       AgentPushBase, hostVars, forgeVars, startVars
<1>4. ASSUME NEW p \in Pullers, PullNext(p) PROVE RefsStay'
  <2>1. UNCHANGED <<forgeVars, startVars>>
    BY <1>4 DEF PullNext, PullDiscover, PullProtect, PullFetch, PullValidate,
                PullMerge, PullFail
  <2>2. head' # Absent
    BY <1>4 DEF RefsStay, PullNext, PullDiscover, PullProtect, PullFetch,
                PullValidate, PullMerge, PullFail, hostVars
  <2>3. /\ trackBase' \in {trackBase, base}
        /\ trackReview' \in {trackReview, review}
    BY <1>4 DEF PullNext, PullDiscover, PullProtect, PullFetch, PullValidate,
                PullMerge, PullFail, Fetched, hostVars
  <2> QED
    BY <2>1, <2>2, <2>3 DEF RefsStay, forgeVars, startVars
<1>5. CASE UNCHANGED vars
  BY <1>5 DEF RefsStay, vars, hostVars, forgeVars, startVars
<1> QED
  BY <1>1, <1>2, <1>3, <1>4, <1>5 DEF Next

LEMMA RefsStayHolds == Spec => []RefsStay
<1>1. Init => RefsStay
  BY DEF Init, RefsStay
<1> QED
  BY <1>1, TypeCorrect, StepRefsStay, PTL DEF Spec

\* The fetch of one ref loses nothing that was fetched before.
LEMMA FetchedGrows ==
  ASSUME NEW track, NEW remote, remote = Absent => track = Absent
  PROVE  track \subseteq Fetched(track, remote)
BY DEF Fetched, Rejected

LEMMA StepKeepsFetched ==
  RefsStay /\ [Next]_vars =>
    trackReview \subseteq trackReview' /\ trackBase \subseteq trackBase'
<1> SUFFICES ASSUME RefsStay, [Next]_vars
             PROVE  trackReview \subseteq trackReview' /\ trackBase \subseteq trackBase'
  OBVIOUS
<1>1. CASE \E p \in Pullers : PullFetch(p)
  BY <1>1, FetchedGrows DEF RefsStay, PullFetch
<1>2. CASE ~(\E p \in Pullers : PullFetch(p))
  <2>1. UNCHANGED <<trackBase, trackReview>>
    BY <1>2 DEF Next, UserNext, UserEdit, UserCommit, UserReset, StartNext,
       StartResources, StartPushBase, StartPushReview, StartPushRetry,
       StartLaunch, StartFail, PodNext, WorkspaceSync, AgentCommit, AgentPush,
       AgentPushBase, PullNext, PullDiscover, PullProtect,
       PullValidate, PullMerge, PullFail, hostVars, vars
  <2> QED
    BY <2>1
<1> QED
  BY <1>1, <1>2

\* What a pull ever fetched stays reachable on the host, even when start
\* overwrites the branches of Forgejo.
THEOREM FetchedWorkIsKept == Spec => FetchedWorkKept
<1>1. RefsStay /\ [Next]_vars =>
        [trackReview \subseteq trackReview' /\ trackBase \subseteq trackBase']_vars
  BY StepKeepsFetched
<1> QED
  BY <1>1, RefsStayHolds, PTL DEF Spec, FetchedWorkKept

-----------------------------------------------------------------------------
(* What a pull delivers. *)

\* From its fetch to its end, what a pull fetched is reachable from the
\* tracking ref of the review branch: no other pull takes it away.
FetchedIsTracked ==
  \A p \in Pullers :
    pull[p].step \in {"validate", "merge"} => pull[p].fetched \subseteq trackReview

LEMMA OthersUntouched ==
  ASSUME TypeOK, NEW p \in Pullers, PullNext(p), NEW q \in Pullers, q # p
  PROVE  pull'[q] = pull[q]
BY DEF TypeOK, PullNext, PullDiscover, PullProtect, PullFetch, PullValidate,
       PullMerge, PullFail, Ends, Goes

LEMMA OwnFetchTracked ==
  ASSUME TypeOK, RefsStay, FetchedIsTracked, NEW p \in Pullers, PullNext(p),
         pull'[p].step \in {"validate", "merge"}
  PROVE  pull'[p].fetched \subseteq trackReview'
<1>1. CASE PullFetch(p)
  <2>1. ~Rejected(trackReview, review) /\ pull'[p].fetched = review
    BY <1>1 DEF TypeOK, PullFetch, Ends, Ended, PullRecord
  <2>2. trackReview' = review
    BY <1>1, <2>1 DEF PullFetch, Fetched
  <2> QED
    BY <2>1, <2>2
<1>2. CASE PullValidate(p)
  <2>1. /\ pull[p].step = "validate" /\ pull'[p].fetched = pull[p].fetched
        /\ trackReview' = trackReview
    BY <1>2 DEF TypeOK, PullValidate, Ends, Ended, Goes, PullRecord, hostVars
  <2> QED
    BY <2>1 DEF FetchedIsTracked
<1>3. CASE PullDiscover(p) \/ PullProtect(p)
  BY <1>3 DEF TypeOK, PullDiscover, PullProtect, Goes, PullRecord
<1>4. CASE PullMerge(p) \/ PullFail(p)
  BY <1>4 DEF TypeOK, PullMerge, PullFail, Ends, Ended, PullRecord
<1> QED
  BY <1>1, <1>2, <1>3, <1>4 DEF PullNext

LEMMA StepFetchedIsTracked ==
  TypeOK /\ RefsStay /\ FetchedIsTracked /\ [Next]_vars => FetchedIsTracked'
<1> SUFFICES ASSUME TypeOK, RefsStay, FetchedIsTracked, [Next]_vars,
                    NEW q \in Pullers,
                    pull'[q].step \in {"validate", "merge"}
             PROVE  pull'[q].fetched \subseteq trackReview'
  BY DEF FetchedIsTracked
<1>1. trackReview \subseteq trackReview'
  BY StepKeepsFetched
<1>2. ASSUME NEW p \in Pullers, PullNext(p) PROVE pull'[q].fetched \subseteq trackReview'
  BY <1>1, <1>2, OthersUntouched, OwnFetchTracked DEF FetchedIsTracked
<1>3. CASE UserNext \/ StartNext \/ PodNext \/ UNCHANGED vars
  <2>1. pull' = pull
    BY <1>3 DEF UserNext, UserEdit, UserCommit, UserReset, StartNext,
       StartResources, StartPushBase, StartPushReview, StartPushRetry,
       StartLaunch, StartFail, PodNext, WorkspaceSync, AgentCommit, AgentPush,
       AgentPushBase, vars
  <2> QED
    BY <1>1, <2>1 DEF FetchedIsTracked
<1> QED
  BY <1>2, <1>3 DEF Next

\* A pull that ends well has brought every commit that its fetch saw under
\* review to the host branch, even with other pulls at work on the checkout.
THEOREM PullDeliversHolds == Spec => PullDelivers
<1> DEFINE Delivers ==
      \A p \in Pullers : pull[p].step = "merge" /\ pull'[p].step = "ok" =>
                          pull[p].fetched \subseteq head'
<1>1. Init => FetchedIsTracked
  BY DEF Init, FetchedIsTracked, Ended
<1>2. ASSUME TypeOK, FetchedIsTracked, Next PROVE Delivers
  <2> SUFFICES ASSUME NEW p \in Pullers,
                      pull[p].step = "merge", pull'[p].step = "ok"
               PROVE  pull[p].fetched \subseteq head'
    OBVIOUS
  <2>1. ~(UserNext \/ StartNext \/ PodNext)
    BY DEF UserNext, UserEdit, UserCommit, UserReset, StartNext,
       StartResources, StartPushBase, StartPushReview, StartPushRetry,
       StartLaunch, StartFail, PodNext, WorkspaceSync, AgentCommit, AgentPush,
       AgentPushBase
  <2>2. PullNext(p)
    BY <1>2, <2>1, OthersUntouched DEF Next
  <2>3. PullMerge(p)
    BY <1>2, <2>2 DEF TypeOK, PullNext, PullDiscover, PullProtect, PullFetch,
                      PullValidate, PullFail, Ends, Ended, PullRecord
  <2>4. trackReview \subseteq head'
    BY <1>2, <2>3 DEF TypeOK, PullMerge, Ends, Ended, PullRecord
  <2> QED
    BY <1>2, <2>4 DEF FetchedIsTracked
<1>3. TypeOK /\ FetchedIsTracked /\ [Next]_vars => [Delivers]_vars
  BY <1>2
<1> QED
  BY <1>1, <1>3, TypeCorrect, RefsStayHolds, StepFetchedIsTracked, PTL
  DEF Spec, PullDelivers

-----------------------------------------------------------------------------
(* The refinement of the abstract gate. *)

LEMMA InitGate == Init => Gate!Init
BY DEF Init, Gate!Init

LEMMA StepImplementsGate ==
  TypeOK /\ TypeOK' /\ GateInv /\ [Next]_vars => [Gate!Next]_(Gate!vars)
<1> SUFFICES ASSUME TypeOK, TypeOK', GateInv, [Next]_vars
             PROVE  Gate!Next \/ UNCHANGED <<head, agentMade, reviewed>>
  BY DEF Gate!vars
<1>1. head' \subseteq Nat /\ agentMade' \subseteq Nat /\ reviewed' \subseteq agentMade'
  <2>1. \A i \in Nat : 0..(i - 1) \subseteq Nat
    OBVIOUS
  <2>2. Made' \subseteq Nat
    BY <2>1 DEF Made, TypeOK
  <2>3. head' \subseteq Made' /\ agentMade' \subseteq Made' /\ reviewed' \subseteq agentMade'
    BY DEF TypeOK
  <2> QED
    BY <2>2, <2>3
<1>2. fresh \notin agentMade /\ fresh \notin head
  BY DEF TypeOK, Made
<1>3. CASE UserNext
  <2>1. UNCHANGED <<agentMade, reviewed>>
    BY <1>3 DEF UserNext, UserEdit, UserCommit, UserReset, forgeVars
  <2>2. head' \subseteq head \/ head' = head \union {fresh}
    BY <1>3 DEF UserNext, UserEdit, UserCommit, UserReset
  <2> QED
    BY <1>1, <1>2, <2>1, <2>2 DEF Gate!Next, Gate!HostRewinds, Gate!HostGrows
<1>4. CASE StartNext \/ PodNext
  <2>1. head' = head
    BY <1>4 DEF StartNext, StartResources, StartPushBase, StartPushReview,
       StartPushRetry, StartLaunch, StartFail, PodNext, WorkspaceSync,
       AgentCommit, AgentPush, AgentPushBase, hostVars
  <2>2. CASE AgentCommit
    BY <1>1, <1>2, <2>1, <2>2 DEF AgentCommit, forgeVars, Gate!Next, Gate!AgentWorks
  <2>3. CASE ~AgentCommit
    <3>1. agentMade' = agentMade /\ reviewed \subseteq reviewed'
      BY <1>4, <2>3 DEF StartNext, StartResources, StartPushBase, StartPushReview,
       StartPushRetry, StartLaunch, StartFail, PodNext, WorkspaceSync,
       AgentPush, AgentPushBase, forgeVars
    <3> QED
      BY <1>1, <2>1, <3>1 DEF Gate!Next, Gate!Offer
  <2> QED
    BY <2>2, <2>3
<1>5. ASSUME NEW p \in Pullers, PullNext(p) PROVE Gate!Next
  <2>1. UNCHANGED <<agentMade, reviewed>>
    BY <1>5 DEF PullNext, PullDiscover, PullProtect, PullFetch, PullValidate,
                PullMerge, PullFail, forgeVars
  <2>2. \/ head' \in {head, head \union {fresh}}
        \/ head' = trackReview /\ head \subseteq trackReview
    BY <1>5 DEF PullNext, PullDiscover, PullProtect, PullFetch, PullValidate,
                PullMerge, PullFail, hostVars
  <2>3. (head' \ head) \intersect agentMade \subseteq reviewed
    BY <1>2, <2>2 DEF GateInv, Reviewed
  <2> QED
    BY <1>1, <2>1, <2>2, <2>3 DEF Gate!Next, Gate!HostGrows
<1>6. CASE UNCHANGED vars
  BY <1>6 DEF vars, hostVars, forgeVars
<1> QED
  BY <1>3, <1>4, <1>5, <1>6 DEF Next

\* The commands, the agent and the pod together implement the abstract gate.
THEOREM BoundaryImplementsGate == Spec => ImplementsGate
<1>1. Init => GateInv
  BY DEF Init, GateInv, Reviewed
<1> QED
  BY <1>1, InitGate, TypeCorrect, StepGate, StepImplementsGate, PTL
  DEF Spec, ImplementsGate, Gate!Spec

=============================================================================
