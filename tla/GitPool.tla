------------------------------- MODULE GitPool -------------------------------
(***************************************************************************)
(* The long-lived Git processes of a session (internal/gitexec): callers   *)
(* take one from the session's pool (acquire), send it one request and     *)
(* read one answer (batch.roundTrip), and give it back (releaser).         *)
(*                                                                         *)
(* A session is one command's or one request's; its callers are that       *)
(* command's goroutines.  All of them ask one invocation, the cat-file     *)
(* process of one repository, so a session has one pool.  The mutex of the *)
(* session makes one turn of acquire's loop, a release and a close one     *)
(* step each.  What Git knows is the repository's refs, which anybody may  *)
(* move at any time.                                                       *)
(***************************************************************************)
EXTENDS Naturals, Sequences, FiniteSets

CONSTANTS
    Callers,        \* goroutines that ask Git
    Sessions,       \* commands, or requests to the server
    Branches,
    Commits,
    None,
    MaxProcesses,   \* maxBatchProcesses
    MaxFailures,    \* maxBatchFailures
    Budgets         \* bounds: requests made, refs moved, and mishaps (contexts
                    \* cancelled, sessions closed, processes that die, steps
                    \* that fail); a behaviour has one of these budgets

ASSUME PoolAssumption ==
    /\ None \notin Commits \cup Branches \cup Callers \cup Sessions
    /\ MaxProcesses \in Nat \ {0}
    /\ MaxFailures \in Nat \ {0}
    /\ Budgets \subseteq [asks : Nat, moves : Nat, mishaps : Nat]

VARIABLES
    refs,       \* what HEAD names and what every branch names
    moves,      \* how often one of them was moved
    pc,         \* where each caller is
    session,    \* the session each caller works for
    ctx,        \* the context of each caller's request: "live" or "cancelled"
    ticket,     \* the request each caller is making, numbered
    asks,       \* requests made so far, which numbers them
    held,       \* the process each caller has acquired
    got,        \* what its round trip brought: an answer, or None
    alarm,      \* the context's AfterFunc has still to broadcast
    procs,      \* every process started: its session, whether it runs and is
                \* marked broken, a kill on its way, and requests in its pipes
    idle,       \* batchPool.idle
    live,       \* batchPool.live
    failures,   \* Session.failures
    closed,     \* Session.closed
    left        \* what is left of the budget

caller == <<pc, session, ctx, ticket, asks, held, got, alarm>>
pool == <<procs, idle, live, failures, closed>>
poolVars == <<refs, moves, caller, pool, left>>

Session(c) == session[c]

\* The commit HEAD^{commit} names in a state of the refs.
HeadCommit(state) == state.tips[state.head]

Refs == [head : Branches, tips : [Branches -> Commits]]
PoolInit ==
    /\ \E b \in Branches, x \in Commits :
         refs = [head |-> b, tips |-> [d \in Branches |-> x]]
    /\ moves = 0
    /\ pc = [c \in Callers |-> "idle"]
    /\ session = [c \in Callers |-> None]
    /\ ctx = [c \in Callers |-> "live"]
    /\ ticket = [c \in Callers |-> 0]
    /\ asks = 0
    /\ held = [c \in Callers |-> 0]
    /\ got = [c \in Callers |-> None]
    /\ alarm = [c \in Callers |-> FALSE]
    /\ procs = <<>>
    /\ idle = [s \in Sessions |-> <<>>]
    /\ live = [s \in Sessions |-> 0]
    /\ failures = [s \in Sessions |-> 0]
    /\ closed = [s \in Sessions |-> FALSE]
    /\ left \in Budgets

Goto(c, here, there) ==
    /\ pc[c] = here
    /\ pc' = [pc EXCEPT ![c] = there]

\* Something goes wrong, or ends early.
Mishap == left.mishaps > 0 /\ left' = [left EXCEPT !.mishaps = @ - 1]

\* Everyone of the session who sleeps in cond.Wait looks again.
Broadcast(s, places) ==
    [c \in Callers |-> IF Session(c) = s /\ places[c] = "asleep" THEN "acquire" ELSE places[c]]

\* A new request, with a context of its own.
Ask(c, s, there) ==
    /\ Goto(c, "idle", there)
    /\ ~closed[s]
    /\ session' = [session EXCEPT ![c] = s]
    /\ left.asks > 0
    /\ left' = [left EXCEPT !.asks = @ - 1]
    /\ asks' = asks + 1
    /\ ticket' = [ticket EXCEPT ![c] = asks + 1]
    /\ UNCHANGED <<refs, moves, ctx, held, got, alarm, pool>>
-----------------------------------------------------------------------------
\* acquire.  Idle processes are taken from the end; broken ones on the way
\* are retired, and counted.
Usable(s) == {i \in 1..Len(idle[s]) : ~procs[idle[s][i]].broken}
LastUsable(s) ==
    IF Usable(s) = {} THEN 0
    ELSE CHOOSE i \in Usable(s) : \A j \in Usable(s) : j <= i
Retired(s) == Len(idle[s]) - LastUsable(s)

Retire(s) ==
    /\ idle' = [idle EXCEPT ![s] = SubSeq(@, 1, LastUsable(s) - 1)]
    /\ failures' = [failures EXCEPT ![s] = @ + Retired(s)]

GivesUp(c) ==
    LET s == Session(c) IN
    closed[s] \/ failures[s] >= MaxFailures \/ ctx[c] = "cancelled"

AcquireNothing(c) ==
    /\ Goto(c, "acquire", "declined")
    /\ GivesUp(c)
    /\ UNCHANGED <<refs, moves, session, ctx, ticket, asks, held, got, alarm, pool, left>>

AcquireIdle(c) ==
    LET s == Session(c) IN
    /\ Goto(c, "acquire", "send")
    /\ ~GivesUp(c)
    /\ LastUsable(s) > 0
    /\ held' = [held EXCEPT ![c] = idle[s][LastUsable(s)]]
    /\ Retire(s)
    /\ live' = [live EXCEPT ![s] = @ - Retired(s)]
    /\ UNCHANGED <<refs, moves, session, ctx, ticket, asks, got, alarm, procs, closed, left>>

\* Retiring what was broken brought the count to the limit.
AcquireRetires(c) ==
    LET s == Session(c) IN
    /\ Goto(c, "acquire", "declined")
    /\ ~GivesUp(c)
    /\ LastUsable(s) = 0
    /\ failures[s] + Retired(s) >= MaxFailures
    /\ Retire(s)
    /\ live' = [live EXCEPT ![s] = @ - Retired(s)]
    /\ UNCHANGED <<refs, moves, session, ctx, ticket, asks, held, got, alarm, procs, closed, left>>

MayStart(c) ==
    LET s == Session(c) IN
    /\ ~GivesUp(c)
    /\ LastUsable(s) = 0
    /\ failures[s] + Retired(s) < MaxFailures
    /\ live[s] - Retired(s) < MaxProcesses

\* Bug: the processes retired on the way still count as live.
AcquireStartBeside(c) ==
    LET s == Session(c) IN
    /\ Goto(c, "acquire", "send")
    /\ MayStart(c)
    /\ procs' = Append(procs, [session |-> s, up |-> TRUE, broken |-> FALSE,
                               kill |-> FALSE, pipe |-> <<>>])
    /\ held' = [held EXCEPT ![c] = Len(procs) + 1]
    /\ Retire(s)
    /\ live' = [live EXCEPT ![s] = @ + 1]
    /\ UNCHANGED <<refs, moves, session, ctx, ticket, asks, got, alarm, closed, left>>

AcquireStart(c) ==
    LET s == Session(c) IN
    /\ Goto(c, "acquire", "send")
    /\ MayStart(c)
    /\ procs' = Append(procs, [session |-> s, up |-> TRUE, broken |-> FALSE,
                               kill |-> FALSE, pipe |-> <<>>])
    /\ held' = [held EXCEPT ![c] = Len(procs) + 1]
    /\ Retire(s)
    /\ live' = [live EXCEPT ![s] = @ - Retired(s) + 1]
    /\ UNCHANGED <<refs, moves, session, ctx, ticket, asks, got, alarm, closed, left>>

\* Git cannot be started: the invocation is given up for the session.
AcquireStartFails(c) ==
    LET s == Session(c) IN
    /\ Goto(c, "acquire", "declined")
    /\ MayStart(c)
    /\ Mishap
    /\ idle' = [idle EXCEPT ![s] = <<>>]
    /\ failures' = [failures EXCEPT ![s] = MaxFailures]
    /\ live' = [live EXCEPT ![s] = @ - Retired(s)]
    /\ UNCHANGED <<refs, moves, session, ctx, ticket, asks, held, got, alarm, procs, closed>>

AcquireWaits(c) ==
    LET s == Session(c) IN
    /\ Goto(c, "acquire", "asleep")
    /\ ~GivesUp(c)
    /\ LastUsable(s) = 0
    /\ failures[s] + Retired(s) < MaxFailures
    /\ live[s] - Retired(s) >= MaxProcesses
    /\ Retire(s)
    /\ live' = [live EXCEPT ![s] = @ - Retired(s)]
    /\ UNCHANGED <<refs, moves, session, ctx, ticket, asks, held, got, alarm, procs, closed, left>>

\* The context's AfterFunc gets the lock and broadcasts.
AlarmRings(c) ==
    /\ alarm[c]
    /\ alarm' = [alarm EXCEPT ![c] = FALSE]
    /\ pc' = Broadcast(Session(c), pc)
    /\ UNCHANGED <<refs, moves, session, ctx, ticket, asks, held, got, pool, left>>
-----------------------------------------------------------------------------
\* roundTrip, and the release that follows it: the process, as the exchange
\* left it, goes back to the pool, or is stopped once the session is closed.
Proc(c) == procs[held[c]]
Stopped(p) == [p EXCEPT !.up = FALSE]

\* exchange failed: the process is marked broken and killed, and nobody reads
\* from it any more.
Broken(p) == [p EXCEPT !.broken = TRUE, !.up = FALSE, !.kill = FALSE, !.pipe = <<>>]

\* Bug: whoever waits for the process is not woken.
ReleaseQuietly(c, p, there) ==
    LET s == Session(c) IN
    /\ held' = [held EXCEPT ![c] = 0]
    /\ procs' = [procs EXCEPT ![held[c]] = IF closed[s] THEN Stopped(p) ELSE p]
    /\ idle' = IF closed[s] THEN idle ELSE [idle EXCEPT ![s] = Append(@, held[c])]
    /\ live' = IF closed[s] THEN [live EXCEPT ![s] = @ - 1] ELSE live
    /\ pc' = [pc EXCEPT ![c] = there]
    /\ UNCHANGED <<refs, moves, session, ctx, ticket, asks, alarm, failures, closed>>

Release(c, p, there) ==
    LET s == Session(c) IN
    /\ held' = [held EXCEPT ![c] = 0]
    /\ \/ /\ closed[s]
          /\ live' = [live EXCEPT ![s] = @ - 1]
          /\ procs' = [procs EXCEPT ![held[c]] = Stopped(p)]
          /\ pc' = [pc EXCEPT ![c] = there]
          /\ UNCHANGED idle
       \/ /\ ~closed[s]
          /\ procs' = [procs EXCEPT ![held[c]] = p]
          /\ idle' = [idle EXCEPT ![s] = Append(@, held[c])]
          /\ pc' = Broadcast(s, [pc EXCEPT ![c] = there])
          /\ UNCHANGED live
    /\ UNCHANGED <<refs, moves, session, ctx, ticket, asks, alarm, failures, closed>>

\* The context has ended, or the process was broken: nothing is written.
SendNothing(c) ==
    /\ pc[c] = "send"
    /\ ctx[c] = "cancelled" \/ Proc(c).broken
    /\ Release(c, Proc(c), "declined")
    /\ UNCHANGED <<got, left>>

\* A request is written; Git answers requests in their order.
Send(c) ==
    /\ Goto(c, "send", "read")
    /\ ctx[c] = "live" /\ ~Proc(c).broken /\ Proc(c).up
    /\ procs' = [procs EXCEPT ![held[c]].pipe =
                   Append(@, [ticket |-> ticket[c], reply |-> None])]
    /\ UNCHANGED <<refs, moves, session, ctx, ticket, asks, held, got, alarm, idle, live,
                   failures, closed, left>>

SendFails(c) ==
    /\ pc[c] = "send"
    /\ ctx[c] = "live" /\ ~Proc(c).broken /\ ~Proc(c).up
    /\ Release(c, Broken(Proc(c)), "declined")
    /\ UNCHANGED <<got, left>>

HasAnswer(p) == p.pipe # <<>> /\ Head(p.pipe).reply # None

Read(c) ==
    /\ pc[c] = "read"
    /\ HasAnswer(Proc(c))
    /\ got' = [got EXCEPT ![c] = Head(Proc(c).pipe)]
    /\ Release(c, [Proc(c) EXCEPT !.pipe = Tail(@)], "answered")
    /\ UNCHANGED left

\* What the process wrote ends early.
ReadEnds(c) ==
    /\ pc[c] = "read"
    /\ ~Proc(c).up /\ ~HasAnswer(Proc(c))
    /\ Release(c, Broken(Proc(c)), "declined")
    /\ UNCHANGED <<got, left>>

\* Bug: a header that cannot be read does not mark the process broken.
ReadFailsUnmarked(c) ==
    /\ pc[c] = "read"
    /\ Mishap
    /\ Release(c, Proc(c), "declined")
    /\ UNCHANGED got

\* It cannot be read for what it should be, answered or not.
ReadFails(c) ==
    /\ pc[c] = "read"
    /\ Mishap
    /\ Release(c, Broken(Proc(c)), "declined")
    /\ UNCHANGED got
-----------------------------------------------------------------------------
\* Session.close: idle processes are stopped, and nobody waits any longer.
Close(s) ==
    /\ ~closed[s]
    /\ \E c \in Callers : session[c] = s
    /\ Mishap
    /\ closed' = [closed EXCEPT ![s] = TRUE]
    /\ procs' = [p \in DOMAIN procs |->
                   IF \E i \in DOMAIN idle[s] : idle[s][i] = p
                   THEN Stopped(procs[p]) ELSE procs[p]]
    /\ idle' = [idle EXCEPT ![s] = <<>>]
    /\ pc' = Broadcast(s, pc)
    /\ UNCHANGED <<refs, moves, session, ctx, ticket, asks, held, got, alarm, live, failures>>

\* A context ends.  Its AfterFuncs begin: one wakes those who wait for the
\* pool, one kills the process the caller exchanges with.
Cancel(c) ==
    /\ pc[c] \notin {"idle", "closing"}
    /\ ctx[c] = "live"
    /\ Mishap
    /\ ctx' = [ctx EXCEPT ![c] = "cancelled"]
    /\ alarm' = [alarm EXCEPT ![c] = pc[c] = "asleep"]
    /\ procs' = IF pc[c] = "read" THEN [procs EXCEPT ![held[c]].kill = TRUE] ELSE procs
    /\ UNCHANGED <<refs, moves, pc, session, ticket, asks, held, got, idle, live, failures,
                   closed>>

\* The kill arrives, whoever may have the process by now.
KillLands(p) ==
    /\ procs[p].kill
    /\ procs' = [procs EXCEPT ![p].kill = FALSE, ![p].up = FALSE]
    /\ UNCHANGED <<refs, moves, caller, idle, live, failures, closed, left>>

\* Git answers the first request it has not answered.
GitAnswers(p) ==
    /\ procs[p].up
    /\ \E i \in DOMAIN procs[p].pipe :
         /\ procs[p].pipe[i].reply = None
         /\ \A j \in 1..(i - 1) : procs[p].pipe[j].reply # None
         /\ procs' = [procs EXCEPT ![p].pipe[i].reply = HeadCommit(refs)]
    /\ UNCHANGED <<refs, moves, caller, idle, live, failures, closed, left>>

Die(p) ==
    /\ procs[p].up
    /\ Mishap
    /\ procs' = [procs EXCEPT ![p].up = FALSE]
    /\ UNCHANGED <<refs, moves, caller, idle, live, failures, closed>>

\* Anybody checks another branch out, or commits, or takes a commit back.
Move ==
    /\ left.moves > 0
    /\ left' = [left EXCEPT !.moves = @ - 1]
    /\ moves' = moves + 1
    /\ \/ \E b \in Branches \ {refs.head} : refs' = [refs EXCEPT !.head = b]
       \/ \E x \in Commits \ {HeadCommit(refs)} : refs' = [refs EXCEPT !.tips[refs.head] = x]
    /\ UNCHANGED <<caller, pool>>

PoolStep(c) ==
    \/ AcquireNothing(c) \/ AcquireIdle(c) \/ AcquireRetires(c) \/ AcquireStart(c)
    \/ AcquireStartFails(c) \/ AcquireWaits(c) \/ AlarmRings(c)
    \/ SendNothing(c) \/ Send(c) \/ SendFails(c)
    \/ Read(c) \/ ReadEnds(c) \/ ReadFails(c)

ProcessStep(p) == KillLands(p) \/ GitAnswers(p)
-----------------------------------------------------------------------------
\* The callers that have acquired a process.
Using(s) == {c \in Callers : Session(c) = s /\ pc[c] \in {"send", "read"}}

(***************************************************************************)
(* Properties.                                                             *)
(***************************************************************************)

\* The pool's count is right: while a session is open, the processes that
\* count as live are exactly the idle ones and those its callers have, never
\* more than the limit, no process is at two places at once, and none outlives
\* its session once it was released.  The count is kept by hand through
\* retiring, starting, releasing, closing and failing to start.
PoolAccounts ==
  /\ \A p \in DOMAIN procs :
      closed[procs[p].session] /\ procs[p].up => \E c \in Callers : held[c] = p
  /\ \A s \in Sessions :
      /\ ~closed[s] => live[s] = Len(idle[s]) + Cardinality(Using(s))
      /\ live[s] <= MaxProcesses
      /\ \A i, j \in DOMAIN idle[s] : idle[s][i] = idle[s][j] => i = j
      /\ \A c \in Using(s) :
           /\ \A d \in Using(s) : held[c] = held[d] => c = d
           /\ \A i \in DOMAIN idle[s] : idle[s][i] # held[c]

\* A caller is given the answer to its own request, whatever failures and
\* cancellations the process went through before it was acquired.
OwnAnswer == \A c \in Callers : got[c] # None => got[c].ticket = ticket[c]
=============================================================================
