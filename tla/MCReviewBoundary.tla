-------------------------- MODULE MCReviewBoundary --------------------------
(* ReviewBoundary on small instances. *)
EXTENDS ReviewBoundary, TLC

\* Two pull processes run the same code; only safety is checked with it.
Symmetry == Permutations(Pullers)

\* What the next step depends on: not on the outcome of a pull that has ended, nor
\* on the clean base and the WIP commit of one that has passed the validation.
PullView(r) ==
  CASE r.step \in PullEnded -> Ended("idle")
    [] r.step = "merge" -> [r EXCEPT !.localBase = Absent, !.wip = {}]
    [] OTHER -> [r EXCEPT !.wip = {}]
View == <<fresh, agentMade, hostVars, forgeVars, podVars, startVars,
          [p \in Pullers |-> PullView(pull[p])]>>

=============================================================================
