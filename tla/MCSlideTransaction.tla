-------------------------- MODULE MCSlideTransaction --------------------------
(* SlideTransaction on one slide; the bounds are given in the .cfg files. *)
EXTENDS SlideTransaction, TLC

Symmetry == Permutations(Writers) \cup Permutations(RequestIDs) \cup Permutations(OtherIDs)
=============================================================================
