----------------------------- MODULE MCSagaFiles -----------------------------
(* The cache of the Saga's files over its freshness checks, on a few mixtures. *)
EXTENDS SagaFiles
CONSTANTS a, b, c, records

\* Three pages and a write; two pages and two writes; two pages, of either kind,
\* and a write anywhere; two requests that only ask, with a removal as well; three
\* that only ask, of either kind.
Pages == [callers |-> {a, b}, kinds |-> {FALSE}, pages |-> TRUE, items |-> {records},
          requests |-> 3, writes |-> 1, removals |-> 0]
Either == [Pages EXCEPT !.kinds = {FALSE, TRUE}, !.items = Items, !.requests = 2]
MCBudgets ==
    {Pages,
     [Pages EXCEPT !.requests = 2, !.writes = 2],
     Either,
     [Either EXCEPT !.removals = 1, !.pages = FALSE],
     [Either EXCEPT !.callers = Callers, !.requests = 3, !.pages = FALSE, !.writes = 0]}
=============================================================================
