------------------------- MODULE MCSessionWorkflow -------------------------
(* SessionWorkflow on small instances. *)
EXTENDS SessionWorkflow, TLC

\* Starts differ by the order they persist in, agents by the pod that has them;
\* neither differs by name.
Symmetry ==
  Permutations(Starts) \union Permutations(Attaches) \union Permutations(Agents)

=============================================================================
