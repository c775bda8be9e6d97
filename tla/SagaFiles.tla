------------------------------- MODULE SagaFiles -------------------------------
(***************************************************************************)
(* The cache of what documentation pages read from the Saga's files        *)
(* (server/sagafiles.go), over the freshness checks of Freshness.          *)
(*                                                                         *)
(* A request takes the kept entry when its own check fingerprinted the     *)
(* documentation the way the entry's check did, and otherwise puts a new   *)
(* entry in its place.  Each part of an entry is read from disk once, by   *)
(* whichever holder asks first, however long after the fingerprint.  A     *)
(* part here is what one item holds, so its content is that item's stamp.  *)
(***************************************************************************)
EXTENDS Freshness, Sequences

CONSTANT Budgets   \* bound: who asks, for what kind of check, whether requests are
                   \* pages or only ask, what is written, and how often; within
                   \* the bounds of Freshness

ASSUME BudgetsAssumption ==
    \A b \in Budgets :
        b.items \subseteq Items /\ b.callers \subseteq Callers /\ b.kinds \subseteq Kinds

VARIABLES
    entries,    \* every entry made, in order
    current,    \* sagaFilesCache.current, an index into entries
    holds,      \* the entry each caller's request holds
    budget      \* the budget of this behaviour, for TLC

cacheVars == <<entries, current, holds, budget>>
allVars == <<vars, cacheVars>>

NoEntry == 0

\* An entry nothing has been read from.
Entry(fingerprint) ==
    [fingerprint |-> fingerprint, read |-> {}, content |-> [i \in Shell |-> Absent]]

\* What sagaFilesAt compares: the documentation part of a state.
DocumentationKey(state) == [i \in Shell |-> state.seen[i]]

FilesInit ==
    /\ Init
    /\ entries = <<>>
    /\ current = NoEntry
    /\ holds = [c \in Callers |-> NoEntry]
    /\ budget \in Budgets

\* Bug: the kept entry answers whatever the fingerprint.
TakeKeptAnyway(c) ==
    /\ pc[c] = "answered"
    /\ holds[c] = NoEntry
    /\ ~answer[c].err
    /\ current # NoEntry
    /\ holds' = [holds EXCEPT ![c] = current]
    /\ UNCHANGED <<vars, entries, current, budget>>

\* The kept entry answers: its fingerprint is the one this state has.
TakeKept(c) ==
    /\ pc[c] = "answered"
    /\ holds[c] = NoEntry
    /\ ~answer[c].err
    /\ current # NoEntry
    /\ entries[current].fingerprint = DocumentationKey(answer[c])
    /\ holds' = [holds EXCEPT ![c] = current]
    /\ UNCHANGED <<vars, entries, current, budget>>

\* It does not, and a new one replaces it.  Whoever holds the old one keeps it.
TakeNew(c) ==
    /\ pc[c] = "answered"
    /\ holds[c] = NoEntry
    /\ ~answer[c].err
    /\ current # NoEntry => entries[current].fingerprint # DocumentationKey(answer[c])
    /\ entries' = Append(entries, Entry(DocumentationKey(answer[c])))
    /\ current' = Len(entries')
    /\ holds' = [holds EXCEPT ![c] = current']
    /\ UNCHANGED <<vars, budget>>

\* The check failed: the request reads everything itself and nothing is kept.
TakeAfresh(c) ==
    /\ pc[c] = "answered"
    /\ holds[c] = NoEntry
    /\ answer[c].err
    /\ entries' = Append(entries, Entry(DocumentationKey(answer[c])))
    /\ holds' = [holds EXCEPT ![c] = Len(entries')]
    /\ UNCHANGED <<vars, current, budget>>

\* The first holder to need a part reads it for all of them.
ReadPart(c, i) ==
    /\ holds[c] # NoEntry
    /\ i \in Shell \ entries[holds[c]].read
    /\ entries' = [entries EXCEPT ![holds[c]].read = @ \cup {i},
                                  ![holds[c]].content[i] = disk[i]]
    /\ UNCHANGED <<vars, current, holds, budget>>

\* The page is written from the parts it read.
ServePage(c) ==
    /\ holds[c] # NoEntry
    /\ Finish(c)
    /\ holds' = [holds EXCEPT ![c] = NoEntry]
    /\ UNCHANGED <<entries, current, budget>>

Step ==
    \/ \E i \in budget.items :
         \/ writes < budget.writes /\ Write(i)
         \/ removals < budget.removals /\ Remove(i)
    \/ \E c \in budget.callers :
         \/ requests < budget.requests /\ Arrive(c)
         \/ holds[c] = NoEntry /\ \E full \in budget.kinds : Ask(c, full)
         \/ \E i \in Items : List(c, i)
         \/ ListFails(c)
         \/ Publish(c)
         \/ ~budget.pages /\ Finish(c)

FilesNext ==
    \/ Step /\ UNCHANGED cacheVars
    \/ \E c \in Callers :
         \/ budget.pages /\ (TakeKept(c) \/ TakeNew(c) \/ TakeAfresh(c))
         \/ \E i \in Shell : ReadPart(c, i)
         \/ ServePage(c)

FilesSpec == FilesInit /\ [][FilesNext]_allVars

\* A check runs on its first caller's goroutine, detached from that caller's
\* request (context.WithoutCancel), so nothing cuts it short.
Fairness ==
    \A c \in Callers :
        /\ WF_allVars((\E i \in Items : List(c, i)) /\ UNCHANGED cacheVars)
        /\ WF_allVars(Publish(c) /\ UNCHANGED cacheVars)

FairFilesSpec == FilesSpec /\ Fairness
-----------------------------------------------------------------------------
\* What a page shows of a file is what the file held at some moment since the
\* request arrived, though another request may have read it long before, under
\* a fingerprint taken earlier still: "an edit saved before a request arrives
\* is always in its page".
PagesFresh ==
    \A c \in Callers :
        holds[c] # NoEntry /\ removals = 0 =>
            \A i \in entries[holds[c]].read :
                HeldSince(i, floor[c], entries[holds[c]].content[i])
==============================================================================
