---------------------------- MODULE MCSnapshotCache ----------------------------
(* The snapshot cache on three calls.  A server builds one generation at a     *)
(* time, so each of its calls is a process of its own; of the comparisons two  *)
(* share a process, or a day may pass over each one's stage.                   *)
EXTENDS SnapshotCache, TLC

CONSTANTS a, b, c, p, q, r, before, after

Servers(calls) ==
    [tree |-> FALSE, days |-> FALSE, calls |-> calls,
     store |-> (a :> p) @@ (b :> q) @@ (c :> r)]
Comparisons(calls, days) ==
    [tree |-> TRUE, days |-> days, calls |-> calls,
     store |-> (a :> p) @@ (b :> p) @@ (c :> q)]
TwoClients ==
    {Servers({a, b}), Servers({a, c}), Comparisons(Calls, FALSE), Comparisons({a, c}, TRUE)}
TwoKeys == (a :> after) @@ (b :> after) @@ (c :> before)
=============================================================================
