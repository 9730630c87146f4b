--------------------------- MODULE PodReplacement ---------------------------
(***************************************************************************)
(* What replacePod promises to the starts of one repository, without       *)
(* saying how: a pod is taken away only by a start that then puts its own,  *)
(* or stops; none is put where another still is; and each start gets its    *)
(* pod once.  Between a taking and the next putting there is no pod.        *)
(* Sandbox is shown to implement it.                                        *)
(***************************************************************************)
EXTENDS TLAPS

CONSTANTS
  Owners,   \* the starts
  NoPod     \* nobody's pod

VARIABLES
  pod,      \* the start whose pod is there, and not being deleted
  between,  \* those that have taken the pod away and put none yet
  served    \* those that have got their pod

vars == <<pod, between, served>>

Init == pod = NoPod /\ between = {} /\ served = {}

\* Whether a pod is there or not.
Take(o) ==
  /\ o \notin served
  /\ pod' = NoPod
  /\ between' = between \union {o}
  /\ UNCHANGED served

Put(o) ==
  /\ o \notin served
  /\ pod = NoPod
  /\ pod' = o
  /\ between' = between \ {o}
  /\ served' = served \union {o}

Next == \E o \in Owners : Take(o) \/ Put(o)

Spec == Init /\ [][Next]_vars

-----------------------------------------------------------------------------
\* A pod that is there is that of a start which got it, and when nobody is between
\* taking and putting, those who got theirs have not lost the pod altogether.
PodIsServed ==
  /\ between \subseteq Owners
  /\ pod # NoPod => pod \in served
  /\ between = {} /\ served # {} => pod \in served

\* However many starts replace the pod, and wherever they stop (replacePod).
THEOREM PodIsServedHolds == Spec => []PodIsServed
<1>1. Init => PodIsServed
  BY DEF Init, PodIsServed
<1>2. PodIsServed /\ [Next]_vars => PodIsServed'
  BY DEF PodIsServed, Next, Take, Put, vars
<1> QED
  BY <1>1, <1>2, PTL DEF Spec

=============================================================================
