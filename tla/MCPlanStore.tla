----------------------------- MODULE MCPlanStore -----------------------------
(* PlanStore on a few tasks; the bounds are given in the .cfg files. *)
EXTENDS PlanStore, TLC

Symmetry == Permutations(Writers) \cup Permutations(Tasks) \cup Permutations(Phases)
=============================================================================
