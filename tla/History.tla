------------------------------- MODULE History -------------------------------
(***************************************************************************)
(* What the records with parent heads promise (revisions, lifecycle events *)
(* and runs of internal/quality, internal/requirements): a record is       *)
(* immutable, names every head its author's clone holds, and so has all    *)
(* that clone holds among its ancestors; clones are merged by union.       *)
(***************************************************************************)
CONSTANTS
    Clones,     \* working trees of one repository
    Ids         \* the names a record may have

VARIABLE held   \* the records each clone holds

Names(S) == {r.id : r \in S}

\* The records no record of S names as a parent.
Heads(S) == Names(S) \ UNION {r.parents : r \in S}

Begin(i) == [id |-> i, parents |-> {}, past |-> {}]

\* A record written over S.  past holds its ancestors; no file does.
Succeed(i, S) ==
    [id |-> i, parents |-> Heads(S),
     past |-> Heads(S) \cup UNION {r.past : r \in {x \in S : x.id \in Heads(S)}}]

Fresh(i) == \A c \in Clones : i \notin Names(held[c])

\* Nothing is written yet, or the clones are of a repository with one record.
Init ==
    \/ held = [c \in Clones |-> {}]
    \/ \E i \in Ids : held = [c \in Clones |-> {Begin(i)}]

Write(c, i) ==
    /\ Fresh(i)
    /\ held' = [held EXCEPT ![c] = @ \cup {Succeed(i, @)}]

Merge(c, d) == held' = [held EXCEPT ![c] = @ \cup held[d]]

Next ==
    \/ \E c \in Clones, i \in Ids : Write(c, i)
    \/ \E c, d \in Clones : Merge(c, d)

Spec == Init /\ [][Next]_held
-----------------------------------------------------------------------------
Headed(S) == \A r \in S : r.id \in Heads(S) \/ \E h \in S : h.id \in Heads(S) /\ r.id \in h.past

\* No edit is lost: every record a clone holds is a head, or an ancestor of one.
NothingLost == \A c \in Clones : Headed(held[c])

\* A record written anew has everything its clone held among its ancestors:
\* edits made side by side are reconciled by name, never written over unseen.
ReconciledExplicitly ==
    [][\A c \in Clones : \A r \in held'[c] :
        Fresh(r.id) => r.past = Names(held[c])]_held
=============================================================================
