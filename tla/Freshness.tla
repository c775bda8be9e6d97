------------------------------ MODULE Freshness ------------------------------
(***************************************************************************)
(* How the review server decides what is on disk (server/freshness.go).    *)
(*                                                                         *)
(* Every page is rendered from caches keyed on fingerprints of the Saga's  *)
(* files.  A caller - a request, or the watcher - needs a freshness check  *)
(* begun no earlier than its own arrival.  It is given the last finished   *)
(* check, or joins the pending one, or begins its own; a check lists the   *)
(* files one after another while writers go on editing them.               *)
(*                                                                         *)
(* An item is anything a check reads: a file, or one of the two repository *)
(* heads.  A check takes from it a stamp (path, size and modification      *)
(* time, or a commit); every write gives an item a stamp of its own, and   *)
(* an item that is not there has the stamp Absent.                         *)
(*                                                                         *)
(* The clock is Go's monotonic clock.  Only its order matters, so it ticks *)
(* when it is read: at an arrival and at the start of a check.             *)
(***************************************************************************)
EXTENDS Naturals, FiniteSets

CONSTANTS
    Callers,       \* goroutines that ask: request handlers and the watcher
    Shell,         \* items every check reads
    Evidence,      \* items only a full check reads
    None,          \* no pending check
    Kinds,         \* the asks callers make: FALSE a shell check, TRUE a full one
    MaxRequests,   \* bound: arrivals
    MaxAsks,       \* bound: checks one request asks for
    MaxWrites,     \* bound: writes by anybody
    MaxRemovals    \* bound: removals by anybody

ASSUME CallersAssumption == None \notin Callers
ASSUME KindsAssumption == Kinds \subseteq BOOLEAN
ASSUME BoundsAssumption ==
    {MaxRequests, MaxAsks, MaxWrites, MaxRemovals} \subseteq Nat

Items == Shell \cup Evidence
Absent == 0

\* The items a check fingerprints.
Covered(full) == IF full THEN Items ELSE Shell

State == [started : Nat, full : BOOLEAN, err : BOOLEAN, seen : [Items -> Nat]]

\* What the server holds before its first check: no clock reads 0, so it
\* answers nobody.
NoState ==
    [started |-> 0, full |-> FALSE, err |-> TRUE, seen |-> [i \in Items |-> Absent]]

VARIABLES
    clock,      \* the clock's last reading
    disk,       \* the stamp each item has on disk
    writes,     \* writes so far; the last stamp given
    removals,   \* removals so far
    requests,   \* arrivals so far
    pc,         \* where each caller is
    floor,      \* when each caller arrived
    want,       \* whether its ask needs every file
    asks,       \* asks of the current request so far
    check,      \* the check each caller last began
    todo,       \* items that check has still to read
    joined,     \* the caller whose check a waiting caller joined
    answer,     \* the state each caller was last given
    pending,    \* freshness.pending: the caller whose check can be joined
    latest,     \* freshness.latest
    held        \* ghost: <<i, t, s>> when item i had stamp s while the clock read t

server == <<clock, pc, floor, want, asks, check, todo, joined, answer, pending, latest>>
files == <<disk, writes, removals>>
vars == <<server, files, requests, held>>

\* Item i had stamp s at some moment since the clock read t.
HeldSince(i, t, s) == \E u \in t..clock : <<i, u, s>> \in held

Init ==
    /\ clock = 0
    /\ disk = [i \in Items |-> Absent]
    /\ writes = 0
    /\ removals = 0
    /\ requests = 0
    /\ pc = [c \in Callers |-> "idle"]
    /\ floor = [c \in Callers |-> 0]
    /\ want = [c \in Callers |-> FALSE]
    /\ asks = [c \in Callers |-> 0]
    /\ check = [c \in Callers |-> NoState]
    /\ todo = [c \in Callers |-> {}]
    /\ joined = [c \in Callers |-> None]
    /\ answer = [c \in Callers |-> NoState]
    /\ pending = None
    /\ latest = NoState
    /\ held = {<<i, 0, Absent>> : i \in Items}

-----------------------------------------------------------------------------
\* Reading the clock: the ghost notes what every item holds at the new reading.
Tick ==
    /\ clock' = clock + 1
    /\ held' = held \cup {<<i, clock + 1, disk[i]>> : i \in Items}

\* Somebody - a command, an editor, git - writes an item.
Write(i) ==
    /\ writes < MaxWrites
    /\ writes' = writes + 1
    /\ disk' = [disk EXCEPT ![i] = writes + 1]
    /\ held' = held \cup {<<i, clock, writes + 1>>}
    /\ UNCHANGED <<server, removals, requests>>

\* Somebody removes an item.
Remove(i) ==
    /\ removals < MaxRemovals
    /\ disk[i] # Absent
    /\ removals' = removals + 1
    /\ disk' = [disk EXCEPT ![i] = Absent]
    /\ held' = held \cup {<<i, clock, Absent>>}
    /\ UNCHANGED <<server, writes, requests>>

\* A request arrives and is stamped with its arrival; the watcher's poll
\* takes its floor the same way.
Arrive(c) ==
    /\ pc[c] = "idle"
    /\ requests < MaxRequests
    /\ Tick
    /\ requests' = requests + 1
    /\ pc' = [pc EXCEPT ![c] = "arrived"]
    /\ floor' = [floor EXCEPT ![c] = clock + 1]
    /\ UNCHANGED <<files, want, asks, check, todo, joined, answer, pending, latest>>

\* Bug: any finished or pending check will do, however old.
AnswersAnyTime(state, c, full) == state.full \/ ~full

\* A state can serve a caller that accepts checks begun at or after its floor.
Answers(state, c, full) ==
    /\ state.started >= floor[c]
    /\ state.full \/ ~full

UsesLatest(c, full) == ~latest.err /\ Answers(latest, c, full)
CanJoin(c, full) == pending # None /\ Answers(check[pending], c, full)

\* The locked part of checkedSince that every ask begins with.
Asking(c, full) ==
    /\ pc[c] \in {"arrived", "answered"}
    /\ asks[c] < MaxAsks
    /\ asks' = [asks EXCEPT ![c] = @ + 1]
    /\ want' = [want EXCEPT ![c] = full]

\* The last finished check is new enough.
AskLatest(c, full) ==
    /\ Asking(c, full)
    /\ UsesLatest(c, full)
    /\ pc' = [pc EXCEPT ![c] = "answered"]
    /\ answer' = [answer EXCEPT ![c] = latest]
    /\ UNCHANGED <<files, requests, held, clock, floor, check, todo, joined, pending, latest>>

\* The pending check is, so the caller waits for it.
AskJoin(c, full) ==
    /\ Asking(c, full)
    /\ ~UsesLatest(c, full)
    /\ CanJoin(c, full)
    /\ pc' = [pc EXCEPT ![c] = "waiting"]
    /\ joined' = [joined EXCEPT ![c] = pending]
    /\ UNCHANGED <<files, requests, held, clock, floor, check, todo, answer, pending, latest>>

\* Neither is: the caller begins a check, which others may join from now on.
\* It takes the place of a check that is still running.
AskBegin(c, full) ==
    /\ Asking(c, full)
    /\ ~UsesLatest(c, full)
    /\ ~CanJoin(c, full)
    /\ Tick
    /\ pc' = [pc EXCEPT ![c] = "checking"]
    /\ check' = [check EXCEPT ![c] =
                   [NoState EXCEPT !.started = clock + 1, !.full = full, !.err = FALSE]]
    /\ todo' = [todo EXCEPT ![c] = Covered(full)]
    /\ pending' = c
    /\ UNCHANGED <<files, requests, floor, joined, answer, latest>>

\* The check reads one item, in whatever order the listers reach it.
List(c, i) ==
    /\ pc[c] = "checking"
    /\ i \in todo[c]
    /\ check' = [check EXCEPT ![c].seen[i] = disk[i]]
    /\ todo' = [todo EXCEPT ![c] = @ \ {i}]
    /\ UNCHANGED <<files, requests, held, clock, pc, floor, want, asks, joined,
                   answer, pending, latest>>

\* A failed check keeps nothing of what it read.
Failed(state) == [NoState EXCEPT !.started = state.started, !.full = state.full]

\* An item cannot be read for a reason other than being gone: the listing fails.
ListFails(c) ==
    /\ pc[c] = "checking"
    /\ todo[c] # {}
    /\ check' = [check EXCEPT ![c] = Failed(check[c])]
    /\ todo' = [todo EXCEPT ![c] = {}]
    /\ UNCHANGED <<files, requests, held, clock, pc, floor, want, asks, joined,
                   answer, pending, latest>>

\* The finished check becomes the latest when it is newer, or when it knows
\* every file and the latest does not.
Supersedes(state) ==
    \/ latest.started < state.started
    \/ state.full /\ ~latest.full

\* Bug: a check whose place was taken is dropped, and nobody hears of it.
PublishIfPending(c) ==
    LET released == {c} \cup {w \in Callers : pc[w] = "waiting" /\ joined[w] = c} IN
    /\ pc[c] = "checking"
    /\ todo[c] = {}
    /\ pending = c
    /\ pending' = None
    /\ latest' = IF Supersedes(check[c]) THEN check[c] ELSE latest
    /\ pc' = [w \in Callers |-> IF w \in released THEN "answered" ELSE pc[w]]
    /\ answer' = [w \in Callers |-> IF w \in released THEN check[c] ELSE answer[w]]
    /\ joined' = [w \in Callers |-> IF w \in released THEN None ELSE joined[w]]
    /\ check' = [check EXCEPT ![c] = NoState]
    /\ UNCHANGED <<files, requests, held, clock, floor, want, asks, todo>>

\* The check ends: it is no longer pending, unless another took its place; it
\* may become the latest; and everyone waiting on it is released.  Closing the
\* channel follows the unlock, and the state handed over never changes again,
\* so releasing the waiters in the same step hides nothing.
Publish(c) ==
    LET released == {c} \cup {w \in Callers : pc[w] = "waiting" /\ joined[w] = c} IN
    /\ pc[c] = "checking"
    /\ todo[c] = {}
    /\ pending' = IF pending = c THEN None ELSE pending
    /\ latest' = IF Supersedes(check[c]) THEN check[c] ELSE latest
    /\ pc' = [w \in Callers |-> IF w \in released THEN "answered" ELSE pc[w]]
    /\ answer' = [w \in Callers |-> IF w \in released THEN check[c] ELSE answer[w]]
    /\ joined' = [w \in Callers |-> IF w \in released THEN None ELSE joined[w]]
    /\ check' = [check EXCEPT ![c] = NoState]
    /\ UNCHANGED <<files, requests, held, clock, floor, want, asks, todo>>

\* The response is written, and what the request held goes out of scope.
Finish(c) ==
    /\ pc[c] = "answered"
    /\ pc' = [pc EXCEPT ![c] = "idle"]
    /\ floor' = [floor EXCEPT ![c] = 0]
    /\ want' = [want EXCEPT ![c] = FALSE]
    /\ asks' = [asks EXCEPT ![c] = 0]
    /\ answer' = [answer EXCEPT ![c] = NoState]
    /\ UNCHANGED <<files, requests, held, clock, check, todo, joined, pending, latest>>

Ask(c, full) == AskLatest(c, full) \/ AskJoin(c, full) \/ AskBegin(c, full)

Next ==
    \/ \E i \in Items : Write(i) \/ Remove(i)
    \/ \E c \in Callers :
         \/ Arrive(c)
         \/ \E full \in Kinds : Ask(c, full)
         \/ \E i \in Items : List(c, i)
         \/ ListFails(c)
         \/ Publish(c)
         \/ Finish(c)

Spec == Init /\ [][Next]_vars

-----------------------------------------------------------------------------
TypeOK ==
    /\ clock \in Nat
    /\ disk \in [Items -> Nat]
    /\ {writes, removals, requests} \subseteq Nat
    /\ pc \in [Callers -> {"idle", "arrived", "checking", "waiting", "answered"}]
    /\ floor \in [Callers -> Nat]
    /\ want \in [Callers -> BOOLEAN]
    /\ asks \in [Callers -> Nat]
    /\ check \in [Callers -> State]
    /\ todo \in [Callers -> SUBSET Items]
    /\ joined \in [Callers -> Callers \cup {None}]
    /\ answer \in [Callers -> State]
    /\ pending \in Callers \cup {None}
    /\ latest \in State
    /\ held \subseteq Items \X Nat \X Nat

\* A request is answered by fingerprints of files as they were at or after its
\* arrival: an edit saved before it arrived is in its page, though the check
\* that answers it may be another caller's and took a while to walk the files.
AnswersFresh ==
    \A c \in Callers :
        pc[c] = "answered" /\ ~answer[c].err =>
            \A i \in Covered(answer[c].full) : HeldSince(i, floor[c], answer[c].seen[i])

\* A caller that needs every file is never given a shell check, whichever
\* check it joined; filesKey would fail on it.
AnswersCover ==
    \A c \in Callers : pc[c] = "answered" => answer[c].full \/ ~want[c]

\* Nobody waits on a check that will not end: a caller that joined is waiting
\* on one still being run, even after that check stopped being the pending one.
JoinedRuns ==
    \A c \in Callers : pc[c] = "waiting" => pc[joined[c]] = "checking"

\* Every ask is answered, on its own check or the one it joined.
AsksAnswered ==
    \A c \in Callers : pc[c] \in {"checking", "waiting"} ~> pc[c] = "answered"
=============================================================================
