---------------------------- MODULE MCRequirements ----------------------------
EXTENDS Requirements, TLC

CONSTANTS s, t, w

Calls == [at |-> Clones, of |-> {s}, words |-> Words, types |-> {}, add |-> 0, revise |-> 0,
          state |-> 0, link |-> 0, end |-> 0, consolidate |-> 0, fault |-> 0, merge |-> 0]
Both == [Calls EXCEPT !.of = {s, t}, !.words = {w}, !.types = {"explains"}]

\* A story, or another package, is added, revised and decided on side by side;
\* two stories are linked side by side, revised, and one is given up for the other.
Scenarios ==
    {[Calls EXCEPT !.of = {o}, !.add = 2, !.revise = 1, !.state = 1, !.merge = 1] :
        o \in {s, "persona", "flag", "term", "deprecation"}}
    \cup {[Calls EXCEPT !.of = {o}, !.revise = 1, !.state = 3, !.merge = 2] :
        o \in {"persona", "flag", "term", "deprecation"}}
    \cup {[Calls EXCEPT !.revise = 3, !.merge = 2],
          [Calls EXCEPT !.words = {w}, !.revise = 1, !.state = 3, !.merge = 2],
          [Both EXCEPT !.types = {"refines", "conflicts_with"}, !.link = 2, !.merge = 1],
          [Both EXCEPT !.revise = 1, !.link = 1, !.consolidate = 1, !.merge = 1],
          [Both EXCEPT !.link = 1, !.end = 1, !.consolidate = 1, !.merge = 1],
          [Both EXCEPT !.link = 1, !.consolidate = 2, !.merge = 2]}
    \cup UNION {
         {[Both EXCEPT !.at = {c}, !.types = {"explains", "refines", "conflicts_with"},
                       !.link = 2, !.consolidate = 1, !.fault = 1],
          [Both EXCEPT !.at = {c}, !.link = 2, !.consolidate = 2],
          [Both EXCEPT !.at = {c}, !.words = Words, !.revise = 1, !.link = 1, !.consolidate = 1],
          [Both EXCEPT !.at = {c}, !.state = 2, !.link = 1, !.consolidate = 1]} : c \in Clones}
Alike == Permutations(Clones)
=============================================================================
