-------------------------- MODULE ForwardLifecycle --------------------------
(***************************************************************************)
(* What Start, Stop and Wait promise to the owner of a port forward,       *)
(* without saying how: a forward is handed out only while it is alive, and *)
(* neither a Start that fails nor a Stop that returns leaves a child or a  *)
(* goroutine of it behind.  The modules PortForward and ReviewTransport    *)
(* together are shown to implement it.                                     *)
(***************************************************************************)
EXTENDS TLAPS

VARIABLES
  phase,  \* as the owner sees it
  alive   \* the child or a goroutine of the forward is there

vars == <<phase, alive>>

Init == phase = "down" /\ alive = FALSE

Opens ==
  /\ phase = "down" /\ phase' = "starting"
  /\ alive' = TRUE

ComesUp ==
  /\ phase = "starting" /\ phase' = "up"
  /\ alive
  /\ UNCHANGED alive

\* The owner gets an error, once everything has ended.
Fails ==
  /\ phase = "starting" /\ phase' = "down"
  /\ ~alive
  /\ UNCHANGED alive

\* At any time while somebody owns it, be it killed or not.
Dies ==
  /\ alive /\ alive' = FALSE
  /\ UNCHANGED phase

Closes ==
  /\ phase = "up" /\ phase' = "closing"
  /\ UNCHANGED alive

Closed ==
  /\ phase = "closing" /\ phase' = "down"
  /\ ~alive
  /\ UNCHANGED alive

Next == Opens \/ ComesUp \/ Fails \/ Dies \/ Closes \/ Closed

Spec == Init /\ [][Next]_vars

-----------------------------------------------------------------------------
\* Without an owner there is nothing to own.
NothingLeft == phase = "down" => ~alive

\* No implementation leaves anything behind, whoever calls Start and Stop how often.
THEOREM NothingLeftHolds == Spec => []NothingLeft
<1>1. Init => NothingLeft
  BY DEF Init, NothingLeft
<1>2. NothingLeft /\ [Next]_vars => NothingLeft'
  BY DEF NothingLeft, Next, Opens, ComesUp, Fails, Dies, Closes, Closed, vars
<1> QED
  BY <1>1, <1>2, PTL DEF Spec

=============================================================================
