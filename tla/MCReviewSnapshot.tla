--------------------------- MODULE MCReviewSnapshot ---------------------------
(* ReviewSnapshot on a few requests; the bounds are given in the .cfg files. *)
EXTENDS ReviewSnapshot, TLC

Symmetry == Permutations(Requests)
=============================================================================
