----------------------------- MODULE ReviewGate -----------------------------
(***************************************************************************)
(* What the review boundary promises, without saying how: commits made by  *)
(* the agent reach the branch of the host only after they were offered for *)
(* review, and only by a step that integrates reviewed work.  The module   *)
(* ReviewBoundary is shown to implement it.                                *)
(***************************************************************************)
EXTENDS Naturals

VARIABLES
  host,       \* commits on the checked-out branch of the host repository
  agentWork,  \* commits the agent ever made
  reviewed    \* those of agentWork that were ever on the review branch

vars == <<host, agentWork, reviewed>>

TypeOK ==
  /\ host \subseteq Nat
  /\ agentWork \subseteq Nat
  /\ reviewed \subseteq agentWork

Init ==
  /\ host = {0}
  /\ agentWork = {}
  /\ reviewed = {}

\* The user moves the branch back.
HostRewinds ==
  /\ host' \subseteq host
  /\ UNCHANGED <<agentWork, reviewed>>

\* New commits of the agent exist in the sandbox only.
AgentWorks ==
  /\ agentWork \subseteq agentWork'
  /\ agentWork' \subseteq Nat
  /\ agentWork' \intersect host = agentWork \intersect host
  /\ UNCHANGED <<host, reviewed>>

Offer ==
  /\ reviewed \subseteq reviewed'
  /\ reviewed' \subseteq agentWork
  /\ UNCHANGED <<host, agentWork>>

\* The host branch grows by commits of its own and by reviewed work: what is
\* there stays, and no commit of the agent comes in that was not reviewed.
HostGrows ==
  /\ host \subseteq host'
  /\ host' \subseteq Nat
  /\ (host' \ host) \intersect agentWork \subseteq reviewed
  /\ UNCHANGED <<agentWork, reviewed>>

Next ==
  \/ HostGrows
  \/ HostRewinds
  \/ AgentWorks
  \/ Offer

Spec == Init /\ [][Next]_vars

-----------------------------------------------------------------------------
\* Every commit of the agent that the host branch holds was under review.
Gate == host \intersect agentWork \subseteq reviewed

=============================================================================
