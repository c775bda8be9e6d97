----------------------------- MODULE MCGitSession -----------------------------
(* Two goroutines resolve HEAD, for one session or for two: with mishaps while *)
(* the refs stay, with refs that move while nothing fails, and with some of    *)
(* both.                                                                       *)
EXTENDS GitSession, TLC

Budget(a, m, f) == [asks |-> a, moves |-> m, mishaps |-> f]
MCBudgets == {Budget(3, 0, 2), Budget(2, 0, 3), Budget(2, 2, 0), Budget(2, 1, 1)}

Symmetry == Permutations(Callers) \cup Permutations(Sessions) \cup Permutations(Commits)
              \cup Permutations(Branches)
=============================================================================
