----------------------------- MODULE MCTestCases -----------------------------
EXTENDS TestCases, TLC

Calls == [add |-> 0, revise |-> 0, state |-> 0, policy |-> 0, evidence |-> 0, pieces |-> 1,
          run |-> 0, merge |-> 0, under |-> {CHOOSE f \in Features : TRUE}]

\* A behaviour adds the test case in both clones, under one feature or two; or revises and activates it
\* side by side; or writes evidence, torn and repeated, about a test case that is
\* revised; or runs it, or sets its policies, side by side.
Scenarios ==
    {[Calls EXCEPT !.add = 2, !.revise = 1, !.state = 1, !.merge = 2, !.under = Features],
     [Calls EXCEPT !.revise = 3, !.merge = 3],
     [Calls EXCEPT !.revise = 2, !.state = 2, !.merge = 2],
     [Calls EXCEPT !.state = 4, !.merge = 2],
     [Calls EXCEPT !.revise = 1, !.evidence = 2, !.pieces = 2],
     [Calls EXCEPT !.evidence = 2, !.merge = 2],
     [Calls EXCEPT !.revise = 2, !.evidence = 1, !.merge = 2],
     [Calls EXCEPT !.revise = 1, !.evidence = 1, !.run = 1, !.merge = 2],
     [Calls EXCEPT !.evidence = 1, !.run = 2, !.merge = 2],
     [Calls EXCEPT !.policy = 3, !.merge = 2],
     [Calls EXCEPT !.policy = 2, !.merge = 2, !.under = Features]}
Alike == Permutations(Clones)
=============================================================================
