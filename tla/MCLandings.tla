------------------------------ MODULE MCLandings ------------------------------
(* Two reviews, each of a pull request and following a branch of its own.      *)
EXTENDS Landings, TLC
CONSTANTS r1, r2, b1, b2, n1, n2

MCFollows == r1 :> b1 @@ r2 :> b2
MCNumber == r1 :> n1 @@ r2 :> n2

Budget(c, m, n, x, f) == [commits |-> c, moves |-> m, reads |-> n, cancels |-> x, freezes |-> f]
MCBudgets == {Budget(3, 1, 1, 0, 0), Budget(2, 1, 2, 0, 1), Budget(2, 1, 1, 1, 0), Budget(3, 0, 2, 0, 0)}

Swap == r1 :> r2 @@ r2 :> r1 @@ b1 :> b2 @@ b2 :> b1 @@ n1 :> n2 @@ n2 :> n1
Same == [v \in DOMAIN Swap |-> v]
Symmetry == {Same, Swap}
=============================================================================
