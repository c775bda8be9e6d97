--------------------------- MODULE GitSessionProofs ---------------------------
(***************************************************************************)
(* What holds of the pooled Git processes and of resolving HEAD through    *)
(* them (GitPool, GitSession), for any number of callers, sessions,        *)
(* branches and commits, whatever is cancelled, closed, killed or moved:   *)
(* a caller is given the answer to its own request; the pool's count is    *)
(* right; nobody waits in vain; what is remembered of an answer is true of *)
(* the state it is filed under; and every answer is of the session's time. *)
(*                                                                         *)
(* The inductive invariant has two parts.  PoolInv is about the processes: *)
(* who has which, and what is in its pipes.  SessionInv follows a commit   *)
(* from where Git names it to where it is returned - through a pipe, a     *)
(* call of rev-parse others have joined, or what the process remembers -   *)
(* and a digest through a walk that the refs may move under.               *)
(***************************************************************************)
EXTENDS GitSession, Integers, FiniteSetTheorems, SequenceTheorems, WellFoundedInduction, TLAPS

Places == {"idle", "look", "walk", "lookup", "acquire", "asleep", "send", "read",
           "answered", "declined", "join", "spawn", "settle", "closing"}

Reply == [ticket : Nat, reply : Commits \cup {None}]
Process == [session : Sessions, up : BOOLEAN, broken : BOOLEAN, kill : BOOLEAN,
            pipe : Seq(Reply)]
Budget == [asks : Nat, moves : Nat, mishaps : Nat]

CallersTyped ==
    /\ pc \in [Callers -> Places]
    /\ session \in [Callers -> Sessions \cup {None}]
    /\ ctx \in [Callers -> {"live", "cancelled"}]
    /\ ticket \in [Callers -> Nat]
    /\ asks \in Nat
    /\ held \in [Callers -> Nat]
    /\ got \in [Callers -> Reply \cup {None}]
    /\ alarm \in [Callers -> BOOLEAN]

PoolTyped ==
    /\ refs \in Refs /\ moves \in Nat
    /\ procs \in Seq(Process)
    /\ idle \in [Sessions -> Seq(Nat)]
    /\ live \in [Sessions -> Nat]
    /\ failures \in [Sessions -> Nat]
    /\ closed \in [Sessions -> BOOLEAN]
    /\ left \in Budget

HasProcess(c) == pc[c] \in {"send", "read"}

\* Who works for a session, and has a process of its.
Seated ==
    \A c \in Callers :
      /\ pc[c] # "idle" => session[c] \in Sessions
      /\ ~HasProcess(c) => held[c] = 0
      /\ HasProcess(c) =>
           held[c] \in 1..Len(procs) /\ procs[held[c]].session = session[c]

IdleOwn ==
    \A s \in Sessions : \A i \in 1..Len(idle[s]) :
      idle[s][i] \in 1..Len(procs) /\ procs[idle[s][i]].session = s

\* No process is at two places.
Apart ==
    /\ \A c, d \in Callers : HasProcess(c) /\ HasProcess(d) /\ held[c] = held[d] => c = d
    /\ \A s \in Sessions : \A i, j \in 1..Len(idle[s]) : idle[s][i] = idle[s][j] => i = j
    /\ \A s \in Sessions : \A i \in 1..Len(idle[s]) :
         \A c \in Callers : HasProcess(c) => held[c] # idle[s][i]

\* There is one request in the pipes of a process that is read from, its
\* reader's own, and none in any other's.
Pipes ==
    /\ \A c \in Callers : pc[c] = "read" =>
         /\ Len(procs[held[c]].pipe) = 1
         /\ procs[held[c]].pipe[1].ticket = ticket[c]
    /\ \A p \in 1..Len(procs) :
         procs[p].pipe = <<>> \/ \E c \in Callers : pc[c] = "read" /\ held[c] = p

\* What a round trip brought is the answer to the caller's own request.
Gots ==
    \A c \in Callers :
      /\ pc[c] # "answered" /\ ~(pc[c] = "walk" /\ phase[c] = "after") => got[c] = None
      /\ got[c] # None => got[c].ticket = ticket[c]

Counts ==
    \A s \in Sessions :
      /\ IsFiniteSet(Using(s))
      /\ live[s] <= MaxProcesses
      /\ Len(idle[s]) + Cardinality(Using(s)) <= live[s]
      /\ ~closed[s] => live[s] = Len(idle[s]) + Cardinality(Using(s))
      /\ closed[s] => idle[s] = <<>>

\* A process that runs is one somebody has, or idle; none that is broken runs.
Placed ==
    \A p \in 1..Len(procs) :
      /\ procs[p].broken => ~procs[p].up
      /\ procs[p].up => \/ \E c \in Callers : HasProcess(c) /\ held[c] = p
                        \/ \E i \in 1..Len(idle[procs[p].session]) :
                             idle[procs[p].session][i] = p

Sleepers ==
    \A c \in Callers : pc[c] = "asleep" =>
      /\ ctx[c] = "live" \/ alarm[c]
      /\ ~closed[session[c]]
      /\ idle[session[c]] = <<>>
      /\ \E d \in Callers : HasProcess(d) /\ session[d] = session[c]

PoolInv ==
    /\ CallersTyped /\ PoolTyped
    /\ Seated /\ IdleOwn /\ Apart /\ Pipes /\ Gots /\ Counts /\ Placed /\ Sleepers
-----------------------------------------------------------------------------
Known == [at : Refs \cup {Unknown}, moved : Nat]
Call == [done : BOOLEAN, cancelled : BOOLEAN,
         output : Commits \cup {None, "killed", "failed"}]

SessionTyped ==
    /\ begun \in [Sessions -> BOOLEAN]
    /\ digests \in [Sessions -> Known \cup {None}]
    /\ remembered \in [at : Refs, value : Commits, moved : Nat] \cup {None}
    /\ phase \in [Callers -> {"session", "before", "after", None}]
    /\ walk \in [Callers -> Branches \cup {None}]
    /\ since \in [Callers -> Nat]
    /\ under \in [Callers -> Known \cup {None}]
    /\ before \in [Callers -> Refs \cup {None}]
    /\ memo \in [Sessions -> Nat]
    /\ runs \in Seq(Call)
    /\ join \in [Callers -> Nat]
    /\ seen \in [Sessions -> SUBSET Commits]

\* What HEAD names is noted from a session's first request on.
SeenSound ==
    /\ \A s \in Sessions :
         /\ begun[s] => HeadCommit(refs) \in seen[s]
         /\ ~begun[s] => seen[s] = {} /\ memo[s] = 0 /\ digests[s] = None
    /\ \A c \in Callers : pc[c] # "idle" => begun[session[c]]

\* An answer in a pipe, or read from one, is of the session's time.
ReplySeen(c) ==
    /\ pc[c] = "read" => procs[held[c]].pipe[1].reply \in {None} \cup seen[session[c]]
    /\ pc[c] = "answered" \/ (pc[c] = "walk" /\ phase[c] = "after") =>
         got[c] \in Reply /\ got[c].reply \in seen[session[c]]

\* A walk has read HEAD, and no move since it began went by unless one did.
WalkTrue(c) ==
    /\ since[c] <= moves
    /\ pc[c] = "walk" =>
         /\ phase[c] \in {"session", "before", "after"}
         /\ walk[c] \in Branches
         /\ moves = since[c] => walk[c] = refs.head
         /\ phase[c] = "session" /\ moves <= since[c] + 1 =>
              refs.tips[walk[c]] \in seen[session[c]]

\* A session's digest, read while HEAD or its branch moved at most once, is of a
\* state the refs were in.
DigestSeen(digest, s) ==
    digest.at \in Refs /\ digest.moved <= 1 => HeadCommit(digest.at) \in seen[s]

DigestsSound == \A s \in Sessions : digests[s] # None => DigestSeen(digests[s], s)

LookupTrue(c) ==
    pc[c] = "lookup" => under[c] \in Known /\ under[c].at \in Refs /\ DigestSeen(under[c], session[c])

\* Callers whose answer may be stored are between their two digests.
Window(c) ==
    before[c] # None /\ (pc[c] \in {"acquire", "asleep", "send", "read", "answered"}
                          \/ (pc[c] = "walk" /\ phase[c] = "after"))

\* With at most one move in the window, an answer that differs from what the
\* first digest says has been given after the refs left it; no second digest
\* then equals the first.
Replied(c, commit) == refs = before[c] => commit = HeadCommit(before[c])

WindowTrue(c) ==
    /\ pc[c] \in {"idle", "look", "lookup"} \/ (pc[c] = "walk" /\ phase[c] # "after") =>
         before[c] = None
    /\ pc[c] = "walk" /\ phase[c] = "after" => before[c] \in Refs \ {None}
    /\ Window(c) /\ moves <= since[c] + 1 =>
         /\ moves = since[c] => refs = before[c]
         /\ pc[c] = "read" /\ procs[held[c]].pipe[1].reply # None =>
              Replied(c, procs[held[c]].pipe[1].reply)
         /\ pc[c] = "answered" => Replied(c, got[c].reply)
         /\ pc[c] = "walk" /\ walk[c] = before[c].head /\ refs.tips = before[c].tips =>
              got[c].reply = HeadCommit(before[c])

SoundFor(c) == ReplySeen(c) /\ WalkTrue(c) /\ LookupTrue(c) /\ WindowTrue(c)

Runner(c) == pc[c] \in {"spawn", "settle", "closing"}

\* Who waits for a call of rev-parse, and what it may bring.
RunsSeen ==
    /\ \A c \in Callers : Runner(c) \/ pc[c] = "join" =>
         /\ join[c] \in 1..Len(runs)
         /\ Run(c).output \in Commits => Run(c).output \in seen[session[c]]
    /\ \A s \in Sessions : memo[s] # 0 =>
         /\ memo[s] \in 1..Len(runs)
         /\ runs[memo[s]].output \in Commits => runs[memo[s]].output \in seen[s]

\* A call that has not ended has one caller who makes it.
Runners ==
    /\ \A c, d \in Callers : Runner(c) /\ Runner(d) /\ join[c] = join[d] => c = d
    /\ \A c \in Callers : Runner(c) => ~Run(c).done
    /\ \A c \in Callers : pc[c] \in {"spawn", "settle"} =>
         memo[session[c]] = join[c] /\ ~Run(c).cancelled
    /\ \A r \in 1..Len(runs) :
         runs[r].done \/ \E c \in Callers : Runner(c) /\ join[c] = r

\* A cancelled call is nobody's to join, and only a cancelled call was killed.
CancelledCalls ==
    /\ \A r \in 1..Len(runs) : runs[r].cancelled => \A s \in Sessions : memo[s] # r
    /\ \A s, t \in Sessions : memo[s] = memo[t] /\ memo[s] # 0 => s = t
    /\ \A c \in Callers : Runner(c) /\ Run(c).output = "killed" => ctx[c] = "cancelled"
    /\ \A r \in 1..Len(runs) :
         runs[r].output = "killed" =>
           \/ runs[r].cancelled
           \/ \E c \in Callers : pc[c] = "settle" /\ join[c] = r

SessionInv ==
    /\ SessionTyped /\ SeenSound
    /\ \A c \in Callers : SoundFor(c)
    /\ DigestsSound /\ FiledWhereTrue
    /\ RunsSeen /\ Runners /\ CancelledCalls

IInv == PoolInv /\ SessionInv
-----------------------------------------------------------------------------
LEMMA PoolInit1 == Init => PoolInv
<1> SUFFICES ASSUME Init PROVE PoolInv
  OBVIOUS
<1> USE PoolAssumption DEF Init, PoolInit
<1>1. CallersTyped
  BY DEF CallersTyped, Places
<1>2. PoolTyped
  BY DEF PoolTyped, Refs, Budget
<1>3. Seated /\ Apart /\ Pipes /\ Gots /\ Sleepers
  BY DEF Seated, Apart, Pipes, Gots, Sleepers, HasProcess
<1>4. IdleOwn /\ Placed
  BY DEF IdleOwn, Placed
<1>5. Counts
  <2>1. \A s \in Sessions : Using(s) = {}
    BY DEF Using
  <2>2. IsFiniteSet({}) /\ Cardinality({}) = 0
    BY FS_EmptySet
  <2>3. \A s \in Sessions : Len(idle[s]) = 0 /\ live[s] = 0 /\ ~closed[s] /\ idle[s] = <<>>
    OBVIOUS
  <2>4. \A s \in Sessions : Cardinality(Using(s)) = 0 /\ IsFiniteSet(Using(s))
    BY <2>1, <2>2
  <2> QED BY <2>3, <2>4 DEF Counts
<1> QED BY <1>1, <1>2, <1>3, <1>4, <1>5 DEF PoolInv

LEMMA SessionInit == Init => SessionInv
<1> SUFFICES ASSUME Init PROVE SessionInv
  OBVIOUS
<1> USE PoolAssumption DEF Init, PoolInit
<1>1. SessionTyped
  BY DEF SessionTyped
<1>2. SeenSound /\ DigestsSound /\ FiledWhereTrue
  BY DEF SeenSound, DigestsSound, FiledWhereTrue
<1>4. \A c \in Callers : SoundFor(c)
  BY DEF SoundFor, ReplySeen, WalkTrue, LookupTrue, WindowTrue, Window
<1>3. RunsSeen /\ Runners /\ CancelledCalls
  BY DEF RunsSeen, Runners, CancelledCalls, Runner
<1> QED BY <1>1, <1>2, <1>3, <1>4 DEF SessionInv
-----------------------------------------------------------------------------
(***************************************************************************)
(* Steps that have nothing to do with the pool.                            *)
(***************************************************************************)

Calm == Places \ {"asleep", "send", "read"}

\* Caller c moves on, between places where it has no process and waits for none.
Beside(c) ==
    /\ pc[c] \in Calm /\ pc'[c] \in Calm
    /\ pc' = [pc EXCEPT ![c] = pc'[c]]
    /\ pc'[c] # "idle" => session'[c] \in Sessions
    /\ \A d \in Callers \ {c} : /\ session'[d] = session[d] /\ ticket'[d] = ticket[d]
                                /\ ctx'[d] = ctx[d] /\ got'[d] = got[d] /\ phase'[d] = phase[d]
    /\ pc'[c] # "answered" /\ ~(pc'[c] = "walk" /\ phase'[c] = "after") => got'[c] = None
    /\ got'[c] # None => got'[c].ticket = ticket'[c]
    /\ UNCHANGED <<held, alarm, pool>>
    /\ CallersTyped' /\ PoolTyped'

LEMMA BesideKeeps == ASSUME PoolInv, NEW c \in Callers, Beside(c) PROVE PoolInv'
<1> USE DEF Beside, pool
<1>0. CallersTyped /\ CallersTyped' /\ PoolTyped /\ PoolTyped'
  BY DEF PoolInv
<1>1. /\ \A d \in Callers : HasProcess(d)' <=> HasProcess(d)
      /\ ~HasProcess(c)
      /\ \A d \in Callers : HasProcess(d) => session'[d] = session[d]
      /\ \A d \in Callers : d # c => pc'[d] = pc[d]
  BY <1>0 DEF HasProcess, Calm, CallersTyped
<1>2. \A s \in Sessions : Using(s)' = Using(s)
  BY <1>1 DEF Using, HasProcess, Session
<1>3. Seated'
  BY <1>0, <1>1 DEF PoolInv, Seated, HasProcess, Calm
<1>4. IdleOwn' /\ Counts'
  BY <1>2 DEF PoolInv, IdleOwn, Counts
<1>5. Apart' /\ Placed'
  BY <1>1 DEF PoolInv, Apart, Placed
<1>6. Pipes'
  BY <1>0, <1>1 DEF PoolInv, Pipes, Calm
<1>7. Gots'
  BY <1>1 DEF PoolInv, Gots
<1>8. Sleepers'
  BY <1>0, <1>1 DEF PoolInv, Sleepers, Seated, Calm
<1> QED BY <1>0, <1>3, <1>4, <1>5, <1>6, <1>7, <1>8 DEF PoolInv
-----------------------------------------------------------------------------
(***************************************************************************)
(* Taking a process (acquire).                                             *)
(***************************************************************************)

\* Of finitely many places in a sequence one is the last.
LEMMA LastPlace ==
    ASSUME NEW n \in Nat, NEW D \in SUBSET (1..n), D # {}
    PROVE  \E i \in D : \A j \in D : j <= i
<1> DEFINE R == OpToRel(<, Nat)
           T == {n - i : i \in D}
<1>1. T \subseteq Nat /\ T # {}
  <2> HIDE DEF R
  <2>1. \A i \in D : i \in Nat /\ i <= n /\ n - i \in Nat
    OBVIOUS
  <2> QED BY <2>1
<1>2. IsWellFoundedOn(R, Nat)
  BY NatLessThanWellFounded
<1>3. PICK m \in T : \A k \in T : ~ (<<k, m>> \in R)
  <2> HIDE DEF R, T
  <2> QED BY <1>1, <1>2, WFMin
<1>4. \A k \in T : ~ (k < m)
  BY <1>1, <1>3 DEF OpToRel
<1>5. PICK i \in D : m = n - i
  OBVIOUS
<1>6. ASSUME NEW j \in D PROVE j <= i
  <2>1. ~ (n - j < n - i)
    BY <1>4, <1>5
  <2> HIDE DEF T
  <2> QED BY <2>1
<1> QED BY <1>6

LEMMA MishapTyped == ASSUME PoolTyped, Mishap PROVE left' \in Budget
<1>1. left \in Budget
  BY DEF PoolTyped
<1> QED BY <1>1 DEF Mishap, Budget

LEMMA ProcessTyped ==
    ASSUME PoolTyped, NEW p \in 1..Len(procs)
    PROVE  /\ procs[p] \in Process
           /\ procs[p].session \in Sessions /\ procs[p].pipe \in Seq(Reply)
           /\ procs[p].up \in BOOLEAN /\ procs[p].broken \in BOOLEAN
<1>1. procs[p] \in Process
  BY DEF PoolTyped
<1> QED BY <1>1 DEF Process

\* What acquire finds at the end of the idle processes.
LEMMA LastUsableFound ==
    ASSUME PoolTyped, NEW s \in Sessions
    PROVE  /\ LastUsable(s) \in 0..Len(idle[s])
           /\ Retired(s) = Len(idle[s]) - LastUsable(s)
           /\ Retired(s) \in Nat
           /\ \A i \in 1..Len(idle[s]) : i > LastUsable(s) => procs[idle[s][i]].broken
<1>1. Len(idle[s]) \in Nat /\ Usable(s) \in SUBSET (1..Len(idle[s]))
  BY DEF PoolTyped, Usable
<1>2. CASE Usable(s) = {}
  <2>1. LastUsable(s) = 0
    BY <1>2 DEF LastUsable
  <2>2. \A i \in 1..Len(idle[s]) : procs[idle[s][i]].broken
    BY <1>2 DEF Usable
  <2> QED BY <1>1, <2>1, <2>2 DEF Retired
<1>3. CASE Usable(s) # {}
  <2>1. \E i \in Usable(s) : \A j \in Usable(s) : j <= i
    BY <1>1, <1>3, LastPlace
  <2>2. LastUsable(s) \in Usable(s)
    BY <1>3, <2>1 DEF LastUsable
  <2>3. \A i \in 1..Len(idle[s]) : i \notin Usable(s) => procs[idle[s][i]].broken
    BY DEF Usable
  <2>4. \A j \in Usable(s) : j <= LastUsable(s)
    BY <1>3, <2>1 DEF LastUsable
  <2>5. LastUsable(s) \in 1..Len(idle[s])
    BY <1>1, <2>2
  <2>6. ASSUME NEW i \in 1..Len(idle[s]), i > LastUsable(s) PROVE procs[idle[s][i]].broken
    <3>1. i \notin Usable(s)
      BY <2>4, <2>5, <2>6, <1>1
    <3> QED BY <2>3, <3>1
  <2> QED BY <1>1, <2>5, <2>6 DEF Retired
<1> QED BY <1>2, <1>3

\* What stays idle when those behind the last usable one have been retired.
LEMMA RetireKeeps ==
    ASSUME PoolTyped, NEW s \in Sessions, Retire(s)
    PROVE  /\ idle' \in [Sessions -> Seq(Nat)]
           /\ \A t \in Sessions \ {s} : idle'[t] = idle[t]
           /\ LastUsable(s) = 0 => idle'[s] = <<>>
           /\ LastUsable(s) > 0 => /\ Len(idle'[s]) = LastUsable(s) - 1
                                   /\ \A i \in 1..Len(idle'[s]) : idle'[s][i] = idle[s][i]
           /\ failures' \in [Sessions -> Nat]
<1> DEFINE n == LastUsable(s)
           q == idle[s]
<1>1. n \in 0..Len(q) /\ Retired(s) \in Nat /\ Len(q) \in Nat
  BY LastUsableFound DEF PoolTyped
<1>2. q \in Seq(Nat) /\ \A i \in 1..(n - 1) : q[i] \in Nat
  BY <1>1 DEF PoolTyped
<1>3. idle' = [idle EXCEPT ![s] = SubSeq(q, 1, n - 1)]
  BY DEF Retire
<1>4. failures' \in [Sessions -> Nat]
  BY <1>1 DEF Retire, PoolTyped
<1> HIDE DEF n, q
<1>5. /\ SubSeq(q, 1, n - 1) \in Seq(Nat)
      /\ Len(SubSeq(q, 1, n - 1)) = IF 1 <= n - 1 THEN n - 1 - 1 + 1 ELSE 0
      /\ \A i \in 1..(n - 1 - 1 + 1) : SubSeq(q, 1, n - 1)[i] = q[1 + i - 1]
  <2>1. 1 \in Int /\ n - 1 \in Int
    BY <1>1
  <2> DEFINE m == n - 1
  <2>2. \A i \in 1..m : q[i] \in Nat
    BY <1>2
  <2> HIDE DEF m
  <2>3. /\ SubSeq(q, 1, m) \in Seq(Nat)
        /\ Len(SubSeq(q, 1, m)) = IF 1 <= m THEN m - 1 + 1 ELSE 0
        /\ \A i \in 1..(m - 1 + 1) : SubSeq(q, 1, m)[i] = q[1 + i - 1]
    BY <2>1, <2>2, SubSeqProperties DEF m
  <2> QED BY <2>3 DEF m
<1>6. n = 0 => SubSeq(q, 1, n - 1) = <<>>
  <2> SUFFICES ASSUME n = 0 PROVE SubSeq(q, 1, n - 1) = <<>>
    OBVIOUS
  <2> QED BY SubSeqEmpty
<1>7. idle'[s] = SubSeq(q, 1, n - 1)
  BY <1>3 DEF PoolTyped
<1>8. n > 0 => Len(idle'[s]) = n - 1 /\ \A i \in 1..(n - 1) : idle'[s][i] = q[i]
  <2> SUFFICES ASSUME n > 0 PROVE Len(idle'[s]) = n - 1 /\ \A i \in 1..(n - 1) : idle'[s][i] = q[i]
    OBVIOUS
  <2>1. Len(idle'[s]) = n - 1
    BY <1>1, <1>5, <1>7
  <2>2. ASSUME NEW i \in 1..(n - 1) PROVE idle'[s][i] = q[i]
    <3>1. 1 + i - 1 = i /\ i \in 1..(n - 1 - 1 + 1)
      BY <1>1
    <3> QED BY <3>1, <1>5, <1>7
  <2> QED BY <2>1, <2>2
<1>9. idle' \in [Sessions -> Seq(Nat)] /\ \A t \in Sessions \ {s} : idle'[t] = idle[t]
  BY <1>3, <1>5 DEF PoolTyped
<1> QED BY <1>4, <1>6, <1>7, <1>8, <1>9 DEF n, q

\* Callers who have a process are finitely many.
LEMMA UsingFinite ==
    ASSUME PoolInv, NEW s \in Sessions
    PROVE  IsFiniteSet(Using(s)) /\ Cardinality(Using(s)) \in Nat
BY FS_CardinalityType DEF PoolInv, Counts

\* Caller c finds no process it can use, and does not start one: all that were
\* idle have been retired.
Emptied(c, there) ==
    /\ Goto(c, "acquire", there)
    /\ ~GivesUp(c)
    /\ \A i \in 1..Len(idle[session[c]]) : procs[idle[session[c]][i]].broken
    /\ idle' \in [Sessions -> Seq(Nat)]
    /\ \A t \in Sessions : idle'[t] = IF t = session[c] THEN <<>> ELSE idle[t]
    /\ live' = [live EXCEPT ![session[c]] = @ - Len(idle[session[c]])]
    /\ failures' \in [Sessions -> Nat]
    /\ left' \in Budget
    /\ there = "asleep" => live'[session[c]] >= MaxProcesses
    /\ UNCHANGED <<refs, moves, session, ctx, ticket, asks, held, got, alarm, procs, closed,
                   phase>>

LEMMA EmptiedKeeps ==
    ASSUME PoolInv, NEW c \in Callers, NEW there \in {"declined", "asleep"},
           Emptied(c, there)
    PROVE  PoolInv'
<1> DEFINE s == session[c]
<1>0. CallersTyped /\ PoolTyped /\ pc[c] = "acquire" /\ s \in Sessions
  BY DEF PoolInv, Seated, Emptied, Goto
<1>1. /\ pc' = [pc EXCEPT ![c] = there]
      /\ ~closed[s] /\ ctx[c] = "live"
      /\ live' = [live EXCEPT ![s] = @ - Len(idle[s])]
      /\ failures' \in [Sessions -> Nat] /\ left' \in Budget
      /\ there = "asleep" => live'[s] >= MaxProcesses
      /\ UNCHANGED <<refs, moves, session, ctx, ticket, asks, held, got, alarm, procs, closed,
                     phase>>
  BY <1>0 DEF Emptied, Goto, GivesUp, Session, CallersTyped
<1>14. \A i \in 1..Len(idle[s]) : procs[idle[s][i]].broken
  BY DEF Emptied
<1>2. /\ \A d \in Callers : HasProcess(d)' <=> HasProcess(d)
      /\ \A d \in Callers : pc'[d] = IF d = c THEN there ELSE pc[d]
  BY <1>0, <1>1 DEF HasProcess, CallersTyped
<1>3. \A t \in Sessions : Using(t)' = Using(t)
  BY <1>1, <1>2 DEF Using, HasProcess, Session
<1>4. \A t \in Sessions : idle'[t] = IF t = s THEN <<>> ELSE idle[t]
  BY DEF Emptied
<1>5. /\ \A t \in Sessions \ {s} : live'[t] = live[t]
      /\ live'[s] = Cardinality(Using(s)) /\ Len(idle'[s]) = 0
  <2>1. live[s] = Len(idle[s]) + Cardinality(Using(s)) /\ Len(idle[s]) \in Nat
    BY <1>0, <1>1 DEF PoolInv, Counts, PoolTyped
  <2>2. /\ \A t \in Sessions \ {s} : live'[t] = live[t]
        /\ live'[s] = live[s] - Len(idle[s])
    BY <1>0, <1>1 DEF PoolTyped
  <2> QED BY <2>1, <2>2, <1>0, <1>4, UsingFinite
<1> HIDE DEF s
<1>6. CallersTyped' /\ PoolTyped'
  <2>1. CallersTyped'
    BY <1>0, <1>1 DEF CallersTyped, Places
  <2>2. live' \in [Sessions -> Nat]
    BY <1>0, <1>1, <1>5, UsingFinite DEF PoolTyped
  <2>3. idle' \in [Sessions -> Seq(Nat)]
    BY DEF Emptied
  <2> QED BY <1>0, <1>1, <2>1, <2>2, <2>3 DEF PoolTyped
<1>7. Seated'
  BY <1>0, <1>1, <1>2 DEF PoolInv, Seated, s
<1>15. \A t \in Sessions : \A i \in 1..Len(idle'[t]) :
         idle'[t] = idle[t] /\ i \in 1..Len(idle[t])
  BY <1>4, <1>5
<1>8. IdleOwn' /\ Apart'
  BY <1>1, <1>2, <1>15, SMTT(30) DEF PoolInv, IdleOwn, Apart
<1>9. Pipes'
  BY <1>0, <1>1, <1>2 DEF PoolInv, Pipes
<1>13. Placed'
  <2> SUFFICES ASSUME NEW p \in 1..Len(procs)
               PROVE  /\ procs[p].broken => ~procs[p].up
                      /\ procs[p].up =>
                           \/ \E d \in Callers : HasProcess(d)' /\ held'[d] = p
                           \/ \E i \in 1..Len(idle'[procs[p].session]) :
                                idle'[procs[p].session][i] = p
    BY <1>1 DEF Placed
  <2>1. /\ procs[p].broken => ~procs[p].up
        /\ procs[p].up => \/ \E d \in Callers : HasProcess(d) /\ held[d] = p
                          \/ \E i \in 1..Len(idle[procs[p].session]) :
                               idle[procs[p].session][i] = p
    BY DEF PoolInv, Placed
  <2>2. procs[p].session \in Sessions
    BY <1>0, ProcessTyped
  <2>3. ASSUME procs[p].up, NEW i \in 1..Len(idle[procs[p].session]),
               idle[procs[p].session][i] = p
        PROVE  idle'[procs[p].session] = idle[procs[p].session]
    BY <2>1, <2>2, <2>3, <1>4, <1>14
  <2> QED BY <2>1, <2>3, <1>1, <1>2
<1>10. Gots'
  BY <1>0, <1>1, <1>2 DEF PoolInv, Gots
<1>11. Counts'
  <2> SUFFICES ASSUME NEW t \in Sessions
               PROVE  /\ IsFiniteSet(Using(t)')
                      /\ live'[t] <= MaxProcesses
                      /\ Len(idle'[t]) + Cardinality(Using(t)') <= live'[t]
                      /\ ~closed'[t] => live'[t] = Len(idle'[t]) + Cardinality(Using(t)')
                      /\ closed'[t] => idle'[t] = <<>>
    BY DEF Counts
  <2>1. CASE t # s
    BY <2>1, <1>1, <1>3, <1>4, <1>5 DEF PoolInv, Counts
  <2>2. CASE t = s
    <3>1. live[s] = Len(idle[s]) + Cardinality(Using(s)) /\ Len(idle[s]) \in Nat
          /\ live[s] <= MaxProcesses /\ live[s] \in Nat
      BY <1>0, <1>1 DEF PoolInv, Counts, PoolTyped
    <3> QED BY <2>2, <3>1, <1>0, <1>1, <1>3, <1>4, <1>5, UsingFinite, PoolAssumption
  <2> QED BY <2>1, <2>2
<1>12. Sleepers'
  <2> SUFFICES ASSUME NEW d \in Callers, pc'[d] = "asleep"
               PROVE  /\ ctx'[d] = "live" \/ alarm'[d]
                      /\ ~closed'[session'[d]]
                      /\ idle'[session'[d]] = <<>>
                      /\ \E e \in Callers : HasProcess(e)' /\ session'[e] = session'[d]
    BY DEF Sleepers
  <2>1. CASE d # c
    BY <2>1, <1>0, <1>1, <1>2, <1>3, <1>4 DEF PoolInv, Sleepers, Seated
  <2>2. CASE d = c
    <3>1. Cardinality(Using(s)) >= MaxProcesses
      BY <2>2, <1>2, <1>1, <1>5
    <3>2. Using(s) # {}
      BY <3>1, FS_EmptySet, PoolAssumption
    <3>3. \E e \in Callers : HasProcess(e) /\ session[e] = s
      BY <3>2 DEF Using, HasProcess, Session
    <3> QED BY <2>2, <3>3, <1>0, <1>1, <1>2, <1>4 DEF s
  <2> QED BY <2>1, <2>2
<1> QED BY <1>6, <1>7, <1>8, <1>9, <1>10, <1>11, <1>12, <1>13 DEF PoolInv

LEMMA AcquireRetiresKeeps ==
    ASSUME PoolInv, NEW c \in Callers, phase' = phase,
           AcquireRetires(c) \/ AcquireStartFails(c) \/ AcquireWaits(c)
    PROVE  PoolInv'
<1> DEFINE s == session[c]
<1>0. CallersTyped /\ PoolTyped /\ s \in Sessions
  BY DEF PoolInv, Seated, AcquireRetires, AcquireStartFails, AcquireWaits, Goto
<1>1. /\ LastUsable(s) = 0
      /\ Retired(s) = Len(idle[s]) /\ Len(idle[s]) \in Nat
      /\ \A i \in 1..Len(idle[s]) : procs[idle[s][i]].broken
  <2>1. LastUsable(s) = 0
    BY DEF AcquireRetires, AcquireStartFails, AcquireWaits, MayStart, Session
  <2>2. Len(idle[s]) \in Nat
    BY <1>0 DEF PoolTyped
  <2> QED BY <1>0, <2>1, <2>2, LastUsableFound
<1>2. left \in Budget /\ (Mishap => left' \in Budget)
  BY <1>0, MishapTyped DEF PoolTyped
<1>3. CASE AcquireStartFails(c)
  <2>1. /\ idle' = [idle EXCEPT ![s] = <<>>]
        /\ failures' = [failures EXCEPT ![s] = MaxFailures]
    BY <1>3 DEF AcquireStartFails, Session
  <2>2. /\ idle' \in [Sessions -> Seq(Nat)]
        /\ \A t \in Sessions : idle'[t] = IF t = s THEN <<>> ELSE idle[t]
        /\ failures' \in [Sessions -> Nat]
    BY <1>0, <2>1, PoolAssumption DEF PoolTyped
  <2>3. Emptied(c, "declined")
    BY <1>1, <1>2, <1>3, <2>2 DEF AcquireStartFails, MayStart, Emptied, Session
  <2> QED BY <2>3, EmptiedKeeps
<1>4. CASE AcquireRetires(c)
  <2>1. Retire(s)
    BY <1>4 DEF AcquireRetires, Session
  <2>2. /\ idle' \in [Sessions -> Seq(Nat)]
        /\ \A t \in Sessions : idle'[t] = IF t = s THEN <<>> ELSE idle[t]
        /\ failures' \in [Sessions -> Nat]
    BY <1>0, <1>1, <2>1, RetireKeeps
  <2>3. Emptied(c, "declined")
    BY <1>1, <1>2, <1>4, <2>2 DEF AcquireRetires, Emptied, Session
  <2> QED BY <2>3, EmptiedKeeps
<1>5. CASE AcquireWaits(c)
  <2>1. Retire(s)
    BY <1>5 DEF AcquireWaits, Session
  <2>2. /\ idle' \in [Sessions -> Seq(Nat)]
        /\ \A t \in Sessions : idle'[t] = IF t = s THEN <<>> ELSE idle[t]
        /\ failures' \in [Sessions -> Nat]
    BY <1>0, <1>1, <2>1, RetireKeeps
  <2>3. live'[s] = live[s] - Len(idle[s])
    BY <1>0, <1>1, <1>5 DEF AcquireWaits, Session, PoolTyped
  <2>4. Emptied(c, "asleep")
    BY <1>1, <1>2, <1>5, <2>2, <2>3 DEF AcquireWaits, Emptied, Session
  <2> QED BY <2>4, EmptiedKeeps
<1> QED BY <1>3, <1>4, <1>5

\* An idle process is taken.
LEMMA AcquireIdleKeeps ==
    ASSUME PoolInv, NEW c \in Callers, AcquireIdle(c), phase' = phase
    PROVE  PoolInv'
<1>a. PICK s \in Sessions : s = session[c]
  BY DEF PoolInv, Seated, AcquireIdle, Goto
<1>0. CallersTyped /\ PoolTyped /\ pc[c] = "acquire"
  BY DEF PoolInv, AcquireIdle, Goto
<1>b. PICK n \in 0..Len(idle[s]) : n = LastUsable(s)
  BY <1>0, LastUsableFound
<1>1. /\ pc' = [pc EXCEPT ![c] = "send"]
      /\ ~closed[s]
      /\ n > 0 /\ n \in 1..Len(idle[s])
      /\ held' = [held EXCEPT ![c] = idle[s][n]]
      /\ Retire(s)
      /\ live' = [live EXCEPT ![s] = @ - (Len(idle[s]) - n)]
      /\ UNCHANGED <<refs, moves, session, ctx, ticket, asks, got, alarm, procs, closed, left,
                     phase>>
  BY <1>0, <1>a, <1>b DEF AcquireIdle, Goto, GivesUp, Session, Retired, PoolTyped
<1>2. /\ \A d \in Callers : HasProcess(d)' <=> HasProcess(d) \/ d = c
      /\ \A d \in Callers : pc'[d] = IF d = c THEN "send" ELSE pc[d]
      /\ ~HasProcess(c)
      /\ \A d \in Callers : held'[d] = IF d = c THEN idle[s][n] ELSE held[d]
  BY <1>0, <1>1 DEF HasProcess, CallersTyped
<1>3. /\ \A t \in Sessions : Using(t)' = IF t = s THEN Using(t) \cup {c} ELSE Using(t)
      /\ c \notin Using(s)
  BY <1>a, <1>0, <1>1, <1>2 DEF Using, HasProcess, Session
<1>4. /\ idle' \in [Sessions -> Seq(Nat)]
      /\ \A t \in Sessions \ {s} : idle'[t] = idle[t]
      /\ Len(idle'[s]) = n - 1
      /\ \A t \in Sessions : \A i \in 1..Len(idle'[t]) :
           i \in 1..Len(idle[t]) /\ idle'[t][i] = idle[t][i] /\ (t = s => i # n)
      /\ failures' \in [Sessions -> Nat]
  <2>1. Len(idle[s]) \in Nat
    BY <1>0 DEF PoolTyped
  <2> QED BY <1>0, <1>1, <1>b, <2>1, RetireKeeps
<1>5. /\ \A t \in Sessions \ {s} : live'[t] = live[t]
      /\ live'[s] = n + Cardinality(Using(s))
      /\ live'[s] <= live[s]
  <2>1. /\ live[s] = Len(idle[s]) + Cardinality(Using(s)) /\ Len(idle[s]) \in Nat
        /\ IsFiniteSet(Using(s))
    BY <1>0, <1>1 DEF PoolInv, Counts, PoolTyped
  <2>2. /\ \A t \in Sessions \ {s} : live'[t] = live[t]
        /\ live'[s] = live[s] - (Len(idle[s]) - n)
    BY <1>0, <1>1 DEF PoolTyped
  <2> QED BY <2>1, <2>2, <1>0, <1>1, UsingFinite
<1>6. CallersTyped' /\ PoolTyped'
  <2>1. idle[s][n] \in Nat
    BY <1>0, <1>1 DEF PoolTyped
  <2>2. CallersTyped'
    BY <1>0, <1>1, <2>1 DEF CallersTyped, Places
  <2>3. live' \in [Sessions -> Nat]
    BY <1>0, <1>1, <1>5, UsingFinite DEF PoolTyped
  <2> QED BY <1>0, <1>1, <1>4, <2>2, <2>3 DEF PoolTyped
<1>7. Seated'
  <2>1. idle[s][n] \in 1..Len(procs) /\ procs[idle[s][n]].session = s
    BY <1>0, <1>1 DEF PoolInv, IdleOwn
  <2> QED BY <1>0, <1>1, <1>2, <2>1, <1>a DEF PoolInv, Seated
<1>8. IdleOwn'
  <2> SUFFICES ASSUME NEW t \in Sessions, NEW i \in 1..Len(idle'[t])
               PROVE  idle'[t][i] \in 1..Len(procs') /\ procs'[idle'[t][i]].session = t
    BY DEF IdleOwn
  <2>1. i \in 1..Len(idle[t]) /\ idle'[t][i] = idle[t][i]
    BY <1>4
  <2>2. procs' = procs
    BY <1>1
  <2> QED BY <2>1, <2>2 DEF PoolInv, IdleOwn
<1>9. Apart'
  <2>1. \A d \in Callers, t \in Sessions : \A i \in 1..Len(idle[t]) :
          HasProcess(d) => held[d] # idle[t][i]
    BY DEF PoolInv, Apart
  <2>2. \A t \in Sessions : \A i, j \in 1..Len(idle[t]) : idle[t][i] = idle[t][j] => i = j
    BY DEF PoolInv, Apart
  <2>3. \A t \in Sessions \ {s} : \A i \in 1..Len(idle[t]) : idle[t][i] # idle[s][n]
    <3>1. n \in 1..Len(idle[s])
      BY <1>1
    <3>2. \A t \in Sessions : \A i \in 1..Len(idle[t]) : procs[idle[t][i]].session = t
      BY DEF PoolInv, IdleOwn
    <3>3. procs[idle[s][n]].session = s
      BY <3>1, <3>2
    <3> QED BY <3>2, <3>3
  <2>4. ASSUME NEW d \in Callers, NEW e \in Callers, HasProcess(d)', HasProcess(e)',
               held'[d] = held'[e]
        PROVE  d = e
    BY <2>4, <2>1, <1>0, <1>1, <1>2 DEF PoolInv, Apart
  <2>5. ASSUME NEW t \in Sessions, NEW i \in 1..Len(idle'[t]), NEW j \in 1..Len(idle'[t]),
               idle'[t][i] = idle'[t][j]
        PROVE  i = j
    BY <2>5, <2>2, <1>4, SMTT(30)
  <2>6. ASSUME NEW t \in Sessions, NEW i \in 1..Len(idle'[t]), NEW d \in Callers,
               HasProcess(d)'
        PROVE  held'[d] # idle'[t][i]
    BY <2>6, <2>1, <2>2, <2>3, <1>0, <1>1, <1>2, <1>4
  <2> QED BY <2>4, <2>5, <2>6 DEF Apart
<1>10. Pipes'
  BY <1>0, <1>1, <1>2 DEF PoolInv, Pipes
<1>11. Gots'
  BY <1>0, <1>1, <1>2 DEF PoolInv, Gots
<1>14. Placed'
  <2> SUFFICES ASSUME NEW p \in 1..Len(procs)
               PROVE  /\ procs[p].broken => ~procs[p].up
                      /\ procs[p].up =>
                           \/ \E d \in Callers : HasProcess(d)' /\ held'[d] = p
                           \/ \E i \in 1..Len(idle'[procs[p].session]) :
                                idle'[procs[p].session][i] = p
    BY <1>1 DEF Placed
  <2>1. /\ procs[p].broken => ~procs[p].up
        /\ procs[p].up => \/ \E d \in Callers : HasProcess(d) /\ held[d] = p
                          \/ \E i \in 1..Len(idle[procs[p].session]) :
                               idle[procs[p].session][i] = p
    BY DEF PoolInv, Placed
  <2>2. procs[p].session \in Sessions
    BY <1>0, ProcessTyped
  <2>3. ASSUME procs[p].up, NEW i \in 1..Len(idle[procs[p].session]),
               idle[procs[p].session][i] = p
        PROVE  \/ \E d \in Callers : HasProcess(d)' /\ held'[d] = p
               \/ \E j \in 1..Len(idle'[procs[p].session]) : idle'[procs[p].session][j] = p
    <3>1. CASE procs[p].session # s
      BY <3>1, <2>2, <2>3, <1>4
    <3>2. CASE procs[p].session = s /\ i > n
      <4>1. procs[idle[s][i]].broken
        BY <3>2, <2>3, <1>0, <1>b, LastUsableFound
      <4> QED BY <4>1, <3>2, <2>1, <2>3
    <3>3. CASE procs[p].session = s /\ i = n
      BY <3>3, <2>3, <1>2
    <3>4. CASE procs[p].session = s /\ i < n
      <4>1. i \in 1..Len(idle'[s])
        BY <3>4, <1>4
      <4>2. idle'[s][i] = idle[s][i]
        BY <4>1, <1>4
      <4> QED BY <4>1, <4>2, <3>4, <2>3
    <3> QED BY <3>1, <3>2, <3>3, <3>4
  <2>4. ASSUME NEW d \in Callers, HasProcess(d), held[d] = p
        PROVE  HasProcess(d)' /\ held'[d] = p
    BY <2>4, <1>2
  <2> QED BY <2>1, <2>3, <2>4
<1>12. Counts'
  <2> SUFFICES ASSUME NEW t \in Sessions
               PROVE  /\ IsFiniteSet(Using(t)')
                      /\ live'[t] <= MaxProcesses
                      /\ Len(idle'[t]) + Cardinality(Using(t)') <= live'[t]
                      /\ ~closed'[t] => live'[t] = Len(idle'[t]) + Cardinality(Using(t)')
                      /\ closed'[t] => idle'[t] = <<>>
    BY DEF Counts
  <2>1. CASE t # s
    BY <2>1, <1>1, <1>3, <1>4, <1>5 DEF PoolInv, Counts
  <2>2. CASE t = s
    <3>1. live[s] <= MaxProcesses /\ live[s] \in Nat
      BY <1>0 DEF PoolInv, Counts, PoolTyped
    <3>2. Cardinality(Using(s)') = Cardinality(Using(s)) + 1 /\ IsFiniteSet(Using(s)')
      BY <1>3, UsingFinite, FS_AddElement
    <3>3. Cardinality(Using(s)) \in Nat /\ MaxProcesses \in Nat
      BY UsingFinite, PoolAssumption
    <3>4. Len(idle'[s]) = n - 1 /\ live'[s] = n + Cardinality(Using(s)) /\ live'[s] <= live[s]
          /\ ~closed'[s] /\ n \in Int
      BY <1>1, <1>4, <1>5
    <3> HIDE DEF Counts
    <3> QED BY <2>2, <3>1, <3>2, <3>3, <3>4
  <2> QED BY <2>1, <2>2
<1>13. Sleepers'
  <2>1. idle[s] # <<>>
    BY <1>1
  <2> SUFFICES ASSUME NEW d \in Callers, pc'[d] = "asleep"
               PROVE  /\ ctx'[d] = "live" \/ alarm'[d]
                      /\ ~closed'[session'[d]]
                      /\ idle'[session'[d]] = <<>>
                      /\ \E e \in Callers : HasProcess(e)' /\ session'[e] = session'[d]
    BY DEF Sleepers
  <2>2. pc[d] = "asleep" /\ session[d] \in Sessions
    BY <1>2 DEF PoolInv, Seated
  <2>3. /\ ctx[d] = "live" \/ alarm[d]
        /\ ~closed[session[d]]
        /\ idle[session[d]] = <<>>
        /\ \E e \in Callers : HasProcess(e) /\ session[e] = session[d]
    BY <2>2 DEF PoolInv, Sleepers
  <2>4. idle'[session[d]] = <<>>
    BY <2>1, <2>2, <2>3, <1>4
  <2> QED BY <2>2, <2>3, <2>4, <1>1, <1>2
<1> QED BY <1>6, <1>7, <1>8, <1>9, <1>10, <1>11, <1>12, <1>13, <1>14 DEF PoolInv

\* A process is started.
LEMMA AcquireStartKeeps ==
    ASSUME PoolInv, NEW c \in Callers, AcquireStart(c), phase' = phase
    PROVE  PoolInv'
<1>a. PICK s \in Sessions : s = session[c]
  BY DEF PoolInv, Seated, AcquireStart, Goto
<1>0. CallersTyped /\ PoolTyped /\ pc[c] = "acquire"
  BY DEF PoolInv, AcquireStart, Goto
<1>b. PICK n \in Nat : n = Len(procs)
  BY <1>0 DEF PoolTyped
<1>c. PICK q \in Process : q = [session |-> s, up |-> TRUE, broken |-> FALSE, kill |-> FALSE,
                                pipe |-> <<>>]
  <2>1. <<>> \in Seq(Reply)
    OBVIOUS
  <2> QED BY <2>1 DEF Process
<1>1. /\ pc' = [pc EXCEPT ![c] = "send"]
      /\ ~closed[s]
      /\ live[s] - Len(idle[s]) < MaxProcesses
      /\ held' = [held EXCEPT ![c] = n + 1]
      /\ procs' = Append(procs, q)
      /\ Retire(s) /\ LastUsable(s) = 0
      /\ live' = [live EXCEPT ![s] = @ - Len(idle[s]) + 1]
      /\ UNCHANGED <<refs, moves, session, ctx, ticket, asks, got, alarm, closed, left, phase>>
  <2>1. LastUsable(s) = 0 /\ Retired(s) = Len(idle[s])
    BY <1>0, <1>a, LastUsableFound DEF AcquireStart, MayStart, Session, PoolTyped
  <2> QED BY <2>1, <1>0, <1>a, <1>b, <1>c DEF AcquireStart, MayStart, Goto, GivesUp, Session
<1>2. /\ \A d \in Callers : HasProcess(d)' <=> HasProcess(d) \/ d = c
      /\ \A d \in Callers : pc'[d] = IF d = c THEN "send" ELSE pc[d]
      /\ ~HasProcess(c)
      /\ \A d \in Callers : held'[d] = IF d = c THEN n + 1 ELSE held[d]
  BY <1>0, <1>1 DEF HasProcess, CallersTyped
<1>3. /\ \A t \in Sessions : Using(t)' = IF t = s THEN Using(t) \cup {c} ELSE Using(t)
      /\ c \notin Using(s)
  BY <1>a, <1>0, <1>1, <1>2 DEF Using, HasProcess, Session
<1>4. /\ \A t \in Sessions : idle'[t] = IF t = s THEN <<>> ELSE idle[t]
      /\ idle' \in [Sessions -> Seq(Nat)]
      /\ failures' \in [Sessions -> Nat]
  BY <1>0, <1>1, RetireKeeps
<1>5. /\ procs' \in Seq(Process) /\ Len(procs') = n + 1
      /\ \A p \in 1..n : procs'[p] = procs[p]
      /\ procs'[n + 1] = q
  BY <1>0, <1>1, <1>b, AppendProperties DEF PoolTyped
<1>6. /\ \A t \in Sessions \ {s} : live'[t] = live[t]
      /\ live'[s] = Cardinality(Using(s)) + 1 /\ live'[s] <= MaxProcesses
  <2>1. live[s] = Len(idle[s]) + Cardinality(Using(s)) /\ Len(idle[s]) \in Nat
    BY <1>0, <1>1 DEF PoolInv, Counts, PoolTyped
  <2>2. /\ \A t \in Sessions \ {s} : live'[t] = live[t]
        /\ live'[s] = live[s] - Len(idle[s]) + 1
    BY <1>0, <1>1 DEF PoolTyped
  <2>3. live[s] - Len(idle[s]) < MaxProcesses
    BY <1>1
  <2> QED BY <2>1, <2>2, <2>3, UsingFinite, PoolAssumption
<1>7. CallersTyped' /\ PoolTyped'
  <2>1. CallersTyped'
    BY <1>0, <1>1 DEF CallersTyped, Places
  <2>2. live' \in [Sessions -> Nat]
    BY <1>0, <1>1, <1>6, UsingFinite DEF PoolTyped
  <2> QED BY <1>0, <1>1, <1>4, <1>5, <2>1, <2>2 DEF PoolTyped
<1>8. Seated'
  <2> SUFFICES ASSUME NEW d \in Callers
               PROVE  /\ pc'[d] # "idle" => session'[d] \in Sessions
                      /\ ~HasProcess(d)' => held'[d] = 0
                      /\ HasProcess(d)' => /\ held'[d] \in 1..Len(procs')
                                           /\ procs'[held'[d]].session = session'[d]
    BY DEF Seated
  <2>1. CASE d = c
    BY <2>1, <1>a, <1>1, <1>2, <1>5, <1>c
  <2>2. CASE d # c
    BY <2>2, <1>b, <1>1, <1>2, <1>5 DEF PoolInv, Seated
  <2> QED BY <2>1, <2>2
<1>9. \A t \in Sessions : \A i \in 1..Len(idle'[t]) :
        t # s /\ idle'[t] = idle[t] /\ i \in 1..Len(idle[t]) /\ idle[t][i] \in 1..n
  BY <1>4, <1>b DEF PoolInv, IdleOwn
<1>10. IdleOwn'
  BY <1>9, <1>5, SMTT(30) DEF PoolInv, IdleOwn
<1>11. Apart'
  <2>1. \A d \in Callers : HasProcess(d) => held[d] \in 1..n
    BY <1>b DEF PoolInv, Seated
  <2>2. ASSUME NEW d \in Callers, NEW e \in Callers, HasProcess(d)', HasProcess(e)',
               held'[d] = held'[e]
        PROVE  d = e
    BY <2>2, <2>1, <1>2 DEF PoolInv, Apart
  <2>3. \A t \in Sessions : \A i, j \in 1..Len(idle'[t]) : idle'[t][i] = idle'[t][j] => i = j
    BY <1>9 DEF PoolInv, Apart
  <2>4. ASSUME NEW t \in Sessions, NEW i \in 1..Len(idle'[t]), NEW d \in Callers,
               HasProcess(d)'
        PROVE  held'[d] # idle'[t][i]
    <3>1. t # s /\ idle'[t] = idle[t] /\ i \in 1..Len(idle[t]) /\ idle[t][i] \in 1..n
      BY <1>9
    <3> QED BY <3>1, <2>4, <1>2 DEF PoolInv, Apart
  <2> QED BY <2>2, <2>3, <2>4 DEF Apart
<1>12. Pipes'
  <2>1. \A d \in Callers : pc'[d] = "read" => pc[d] = "read" /\ d # c /\ held[d] \in 1..n
    BY <1>2, <1>b DEF PoolInv, Seated, HasProcess
  <2>2. \A d \in Callers : pc'[d] = "read" =>
          Len(procs'[held'[d]].pipe) = 1 /\ procs'[held'[d]].pipe[1].ticket = ticket'[d]
    BY <2>1, <1>1, <1>2, <1>5 DEF PoolInv, Pipes
  <2>3. ASSUME NEW p \in 1..Len(procs')
        PROVE  procs'[p].pipe = <<>> \/ \E d \in Callers : pc'[d] = "read" /\ held'[d] = p
    <3>1. CASE p = n + 1
      BY <3>1, <1>5, <1>c
    <3>2. CASE p \in 1..n
      BY <3>2, <1>0, <1>2, <1>5, <1>b DEF PoolInv, Pipes
    <3> QED BY <3>1, <3>2, <1>5
  <2> QED BY <2>2, <2>3 DEF Pipes
<1>13. Placed' /\ Gots'
  <2>1. ASSUME NEW p \in 1..Len(procs')
        PROVE  /\ procs'[p].broken => ~procs'[p].up
               /\ procs'[p].up => \/ \E d \in Callers : HasProcess(d)' /\ held'[d] = p
                                  \/ \E i \in 1..Len(idle'[procs'[p].session]) :
                                       idle'[procs'[p].session][i] = p
    <3>1. CASE p = n + 1
      BY <3>1, <1>2, <1>5, <1>c
    <3>2. CASE p \in 1..n
      <4> DEFINE t == procs[p].session
      <4>1. procs'[p] = procs[p] /\ t \in Sessions
        BY <3>2, <1>0, <1>5, <1>b, ProcessTyped
      <4>2. /\ procs[p].broken => ~procs[p].up
            /\ procs[p].up => \/ \E d \in Callers : HasProcess(d) /\ held[d] = p
                              \/ \E i \in 1..Len(idle[t]) : idle[t][i] = p
        BY <3>2, <1>b DEF PoolInv, Placed
      <4>3. ASSUME procs[p].up, NEW i \in 1..Len(idle[t]), idle[t][i] = p PROVE t # s
        <5>1. LastUsable(s) = 0
          BY <1>1
        <5>2. \A j \in 1..Len(idle[s]) : procs[idle[s][j]].broken
          BY <5>1, <1>0, LastUsableFound
        <5> QED BY <5>2, <4>2, <4>3
      <4>4. ASSUME NEW d \in Callers, HasProcess(d), held[d] = p
            PROVE  HasProcess(d)' /\ held'[d] = p
        BY <4>4, <1>2
      <4> HIDE DEF t
      <4>5. ASSUME procs[p].up, NEW i \in 1..Len(idle[t]), idle[t][i] = p
            PROVE  idle'[t] = idle[t]
        BY <4>1, <4>3, <4>5, <1>4
      <4>6. procs[p].up => \/ \E d \in Callers : HasProcess(d)' /\ held'[d] = p
                           \/ \E i \in 1..Len(idle'[t]) : idle'[t][i] = p
        BY <4>2, <4>4, <4>5
      <4> QED BY <4>1, <4>2, <4>6 DEF t
    <3> QED BY <3>1, <3>2, <1>5
  <2>2. Gots'
    BY <1>0, <1>1, <1>2 DEF PoolInv, Gots
  <2> QED BY <2>1, <2>2 DEF Placed
<1>14. Counts'
  <2> SUFFICES ASSUME NEW t \in Sessions
               PROVE  /\ IsFiniteSet(Using(t)')
                      /\ live'[t] <= MaxProcesses
                      /\ Len(idle'[t]) + Cardinality(Using(t)') <= live'[t]
                      /\ ~closed'[t] => live'[t] = Len(idle'[t]) + Cardinality(Using(t)')
                      /\ closed'[t] => idle'[t] = <<>>
    BY DEF Counts
  <2>1. CASE t # s
    BY <2>1, <1>1, <1>3, <1>4, <1>6 DEF PoolInv, Counts
  <2>2. CASE t = s
    <3>1. Cardinality(Using(t)') = Cardinality(Using(s)) + 1 /\ IsFiniteSet(Using(t)')
      BY <2>2, <1>3, UsingFinite, FS_AddElement
    <3>2. Len(idle'[s]) = 0 /\ idle'[s] = <<>>
      BY <1>4
    <3>3. Cardinality(Using(s)) \in Nat
      BY UsingFinite
    <3> QED BY <2>2, <3>1, <3>2, <3>3, <1>6
  <2> QED BY <2>1, <2>2
<1>15. Sleepers'
  <2> SUFFICES ASSUME NEW d \in Callers, pc'[d] = "asleep"
               PROVE  /\ ctx'[d] = "live" \/ alarm'[d]
                      /\ ~closed'[session'[d]]
                      /\ idle'[session'[d]] = <<>>
                      /\ \E e \in Callers : HasProcess(e)' /\ session'[e] = session'[d]
    BY DEF Sleepers
  <2>1. pc[d] = "asleep" /\ session[d] \in Sessions
    BY <1>2 DEF PoolInv, Seated
  <2>2. /\ ctx[d] = "live" \/ alarm[d]
        /\ ~closed[session[d]]
        /\ idle[session[d]] = <<>>
        /\ \E e \in Callers : HasProcess(e) /\ session[e] = session[d]
    BY <2>1 DEF PoolInv, Sleepers
  <2>3. idle'[session[d]] = <<>>
    BY <2>1, <2>2, <1>4
  <2> QED BY <2>1, <2>2, <2>3, <1>1, <1>2
<1> QED BY <1>7, <1>8, <1>10, <1>11, <1>12, <1>13, <1>14, <1>15 DEF PoolInv
-----------------------------------------------------------------------------
(***************************************************************************)
(* Waking, sending, reading and giving a process back.                     *)
(***************************************************************************)

LEMMA AlarmRingsKeeps ==
    ASSUME PoolInv, NEW c \in Callers, AlarmRings(c), phase' = phase
    PROVE  PoolInv'
<1>0. CallersTyped /\ PoolTyped
  BY DEF PoolInv
<1>1. /\ alarm' = [alarm EXCEPT ![c] = FALSE]
      /\ pc' = [d \in Callers |-> IF session[d] = session[c] /\ pc[d] = "asleep" THEN "acquire"
                                  ELSE pc[d]]
      /\ UNCHANGED <<refs, moves, session, ctx, ticket, asks, held, got, procs, idle, live,
                     failures, closed, left, phase>>
  BY DEF AlarmRings, Broadcast, Session, pool
<1>2. /\ \A d \in Callers : HasProcess(d)' <=> HasProcess(d)
      /\ \A d \in Callers : pc'[d] # pc[d] => pc[d] = "asleep" /\ pc'[d] = "acquire"
      /\ \A d \in Callers : pc'[d] = "asleep" => pc[d] = "asleep" /\ d # c /\ alarm'[d] = alarm[d]
  BY <1>0, <1>1 DEF HasProcess, CallersTyped
<1>3. \A t \in Sessions : Using(t)' = Using(t)
  BY <1>1, <1>2 DEF Using, HasProcess, Session
<1>4. CallersTyped' /\ PoolTyped'
  BY <1>0, <1>1 DEF CallersTyped, PoolTyped, Places
<1>5. Seated' /\ IdleOwn' /\ Apart'
  BY <1>1, <1>2 DEF PoolInv, Seated, IdleOwn, Apart
<1>6. Pipes' /\ Gots'
  BY <1>1, <1>2 DEF PoolInv, Pipes, Gots
<1>7. Counts' /\ Placed'
  BY <1>1, <1>2, <1>3 DEF PoolInv, Counts, Placed
<1>8. Sleepers'
  BY <1>1, <1>2 DEF PoolInv, Sleepers
<1> QED BY <1>4, <1>5, <1>6, <1>7, <1>8 DEF PoolInv

\* A session is closed.
LEMMA CloseKeeps ==
    ASSUME PoolInv, NEW s \in Sessions, Close(s), phase' = phase
    PROVE  PoolInv'
<1>0. CallersTyped /\ PoolTyped
  BY DEF PoolInv
<1>1. /\ closed' = [closed EXCEPT ![s] = TRUE]
      /\ idle' = [idle EXCEPT ![s] = <<>>]
      /\ pc' = [d \in Callers |-> IF session[d] = s /\ pc[d] = "asleep" THEN "acquire"
                                  ELSE pc[d]]
      /\ UNCHANGED <<refs, moves, session, ctx, ticket, asks, held, got, alarm, live, failures,
                     phase>>
      /\ left' \in Budget
  <2>1. Mishap => left' \in Budget
    BY <1>0, MishapTyped
  <2> QED BY <2>1 DEF Close, Broadcast, Session
<1>2. /\ \A d \in Callers : HasProcess(d)' <=> HasProcess(d)
      /\ \A d \in Callers : pc'[d] # pc[d] => pc[d] = "asleep" /\ pc'[d] = "acquire"
      /\ \A d \in Callers : pc'[d] = "asleep" => pc[d] = "asleep" /\ session[d] # s
  BY <1>0, <1>1 DEF HasProcess, CallersTyped
<1>3. \A t \in Sessions : Using(t)' = Using(t)
  BY <1>1, <1>2 DEF Using, HasProcess, Session
<1>4. /\ \A t \in Sessions : idle'[t] = IF t = s THEN <<>> ELSE idle[t]
      /\ \A t \in Sessions : closed'[t] <=> t = s \/ closed[t]
  BY <1>0, <1>1 DEF PoolTyped
<1>5. PICK n \in Nat : n = Len(procs)
  BY <1>0 DEF PoolTyped
<1>6. /\ procs' = [p \in 1..n |-> IF \E i \in 1..Len(idle[s]) : idle[s][i] = p
                                  THEN Stopped(procs[p]) ELSE procs[p]]
      /\ procs \in Seq(Process) /\ \A p \in 1..n : procs[p] \in Process
  <2>1. DOMAIN procs = 1..n /\ DOMAIN idle[s] = 1..Len(idle[s])
    BY <1>0, <1>5 DEF PoolTyped
  <2> QED BY <1>0, <1>5, <2>1 DEF Close, PoolTyped
<1>7. \A p \in 1..n :
        /\ procs'[p].session = procs[p].session
        /\ procs'[p].pipe = procs[p].pipe
        /\ procs'[p].broken = procs[p].broken
        /\ procs'[p].up => procs[p].up
        /\ procs'[p].up => \A i \in 1..Len(idle[s]) : idle[s][i] # p
  <2> SUFFICES ASSUME NEW p \in 1..n
               PROVE  /\ procs'[p].session = procs[p].session
                      /\ procs'[p].pipe = procs[p].pipe
                      /\ procs'[p].broken = procs[p].broken
                      /\ procs'[p].up => procs[p].up
                      /\ procs'[p].up => \A i \in 1..Len(idle[s]) : idle[s][i] # p
    OBVIOUS
  <2>1. procs[p] \in Process
    BY <1>6
  <2>2. CASE \E i \in 1..Len(idle[s]) : idle[s][i] = p
    BY <1>6, <2>1, <2>2 DEF Stopped, Process
  <2>3. CASE ~ \E i \in 1..Len(idle[s]) : idle[s][i] = p
    BY <1>6, <2>1, <2>3
  <2> QED BY <2>2, <2>3
<1>8. procs' \in Seq(Process) /\ Len(procs') = n
  <2>1. ASSUME NEW p \in 1..n PROVE Stopped(procs[p]) \in Process
    BY <1>6 DEF Stopped, Process
  <2>2. \A p \in 1..n : procs'[p] \in Process
    BY <1>6, <2>1
  <2> QED BY <1>6, <2>2
<1>9. CallersTyped' /\ PoolTyped'
  <2>1. CallersTyped'
    BY <1>0, <1>1 DEF CallersTyped, Places
  <2>2. idle' \in [Sessions -> Seq(Nat)] /\ closed' \in [Sessions -> BOOLEAN]
    BY <1>0, <1>1 DEF PoolTyped
  <2> QED BY <1>0, <1>1, <1>8, <2>1, <2>2 DEF PoolTyped
<1>10. Seated'
  <2>1. \A d \in Callers : HasProcess(d) => held[d] \in 1..n
    BY <1>5 DEF PoolInv, Seated
  <2> QED BY <2>1, <1>1, <1>2, <1>5, <1>7, <1>8 DEF PoolInv, Seated
<1>11. \A t \in Sessions : \A i \in 1..Len(idle'[t]) :
        t # s /\ idle'[t] = idle[t] /\ i \in 1..Len(idle[t]) /\ idle[t][i] \in 1..n
  BY <1>4, <1>5 DEF PoolInv, IdleOwn
<1>12. IdleOwn' /\ Apart'
  <2>1. IdleOwn'
    BY <1>7, <1>8, <1>11 DEF PoolInv, IdleOwn
  <2>2. \A d, e \in Callers : HasProcess(d)' /\ HasProcess(e)' /\ held'[d] = held'[e] => d = e
    BY <1>1, <1>2 DEF PoolInv, Apart
  <2>3. \A t \in Sessions : \A i, j \in 1..Len(idle'[t]) : idle'[t][i] = idle'[t][j] => i = j
    BY <1>11 DEF PoolInv, Apart
  <2>4. ASSUME NEW t \in Sessions, NEW i \in 1..Len(idle'[t]), NEW d \in Callers,
               HasProcess(d)'
        PROVE  held'[d] # idle'[t][i]
    <3>1. idle'[t] = idle[t] /\ i \in 1..Len(idle[t])
      BY <1>11
    <3> QED BY <3>1, <2>4, <1>1, <1>2 DEF PoolInv, Apart
  <2> QED BY <2>1, <2>2, <2>3, <2>4 DEF Apart
<1>13. Pipes'
  <2>1. \A d \in Callers : pc'[d] = "read" => pc[d] = "read" /\ held[d] \in 1..n
    BY <1>2, <1>5 DEF PoolInv, Seated, HasProcess
  <2>2. \A d \in Callers : pc'[d] = "read" =>
          Len(procs'[held'[d]].pipe) = 1 /\ procs'[held'[d]].pipe[1].ticket = ticket'[d]
    BY <2>1, <1>1, <1>7 DEF PoolInv, Pipes
  <2>3. \A p \in 1..Len(procs') :
          procs'[p].pipe = <<>> \/ \E d \in Callers : pc'[d] = "read" /\ held'[d] = p
    <3>1. \A p \in 1..n : procs[p].pipe = <<>> \/ \E d \in Callers : pc[d] = "read" /\ held[d] = p
      BY <1>5 DEF PoolInv, Pipes
    <3> QED BY <3>1, <1>1, <1>2, <1>7, <1>8
  <2> QED BY <2>2, <2>3 DEF Pipes
<1>14. Gots'
  BY <1>1, <1>2 DEF PoolInv, Gots
<1>15. Counts'
  <2>1. Len(<<>>) = 0 /\ \A t \in Sessions : Cardinality(Using(t)) \in Nat /\ Len(idle[t]) \in Nat
                                          /\ live[t] \in Nat
    BY <1>0, UsingFinite DEF PoolTyped
  <2> QED BY <2>1, <1>1, <1>3, <1>4 DEF PoolInv, Counts
<1>16. Placed'
  <2> SUFFICES ASSUME NEW p \in 1..n
               PROVE  /\ procs'[p].broken => ~procs'[p].up
                      /\ procs'[p].up =>
                           \/ \E d \in Callers : HasProcess(d)' /\ held'[d] = p
                           \/ \E i \in 1..Len(idle'[procs'[p].session]) :
                                idle'[procs'[p].session][i] = p
    BY <1>8 DEF Placed
  <2> DEFINE t == procs[p].session
  <2>1. procs'[p].session = t /\ t \in Sessions
    BY <1>0, <1>5, <1>7, ProcessTyped
  <2>2. /\ procs[p].broken => ~procs[p].up
        /\ procs[p].up => \/ \E d \in Callers : HasProcess(d) /\ held[d] = p
                          \/ \E i \in 1..Len(idle[t]) : idle[t][i] = p
    BY <1>5 DEF PoolInv, Placed
  <2>3. /\ procs'[p].up => procs[p].up /\ \A i \in 1..Len(idle[s]) : idle[s][i] # p
        /\ procs'[p].broken = procs[p].broken
    BY <1>7
  <2> HIDE DEF t
  <2>4. ASSUME procs'[p].up, NEW i \in 1..Len(idle[t]), idle[t][i] = p
        PROVE  idle'[t] = idle[t]
    BY <2>1, <2>3, <2>4, <1>4
  <2> QED BY <2>1, <2>2, <2>3, <2>4, <1>1, <1>2
<1>17. Sleepers'
  <2>1. \A d \in Callers : pc'[d] = "asleep" =>
          pc[d] = "asleep" /\ session[d] \in Sessions /\ session[d] # s
    BY <1>2 DEF PoolInv, Seated
  <2> QED BY <2>1, <1>1, <1>2, <1>4 DEF PoolInv, Sleepers
<1> QED BY <1>9, <1>10, <1>12, <1>13, <1>14, <1>15, <1>16, <1>17 DEF PoolInv

\* Caller c gives its process back, nothing in its pipes, and goes there.
LEMMA ReleaseKeeps ==
    ASSUME PoolInv, NEW c \in Callers, HasProcess(c), phase' = phase, left' \in Budget,
           NEW p \in Process, p.session = session[c], p.pipe = <<>>, p.broken => ~p.up,
           NEW there \in {"declined", "answered"}, Release(c, p, there),
           got' \in [Callers -> Reply \cup {None}],
           \A d \in Callers \ {c} : got'[d] = got[d],
           got'[c] # None => there = "answered" /\ got'[c].ticket = ticket[c]
    PROVE  PoolInv'
<1>0. CallersTyped /\ PoolTyped
  BY DEF PoolInv
<1>a. PICK s \in Sessions : s = session[c]
  BY DEF PoolInv, Seated, HasProcess
<1>c. PICK n \in Nat : n = Len(procs)
  BY <1>0 DEF PoolTyped
<1>b. PICK h \in 1..n : h = held[c]
  BY <1>c DEF PoolInv, Seated
<1>d. PICK r : r = IF closed[s] THEN Stopped(p) ELSE p
  OBVIOUS
<1>1. r.session = s /\ r.pipe = <<>> /\ (r.broken => ~r.up) /\ (closed[s] => ~r.up)
  BY <1>a, <1>d DEF Stopped, Process
<1>2. r \in Process
  BY <1>d DEF Stopped, Process
<1>3. /\ held' = [held EXCEPT ![c] = 0]
      /\ procs' = [procs EXCEPT ![h] = r]
      /\ UNCHANGED <<refs, moves, session, ctx, ticket, asks, alarm, failures, closed>>
      /\ closed[s] => /\ live' = [live EXCEPT ![s] = @ - 1]
                      /\ idle' = idle
                      /\ pc' = [pc EXCEPT ![c] = there]
      /\ ~closed[s] => /\ live' = live
                       /\ idle' = [idle EXCEPT ![s] = Append(@, h)]
                       /\ pc' = Broadcast(s, [pc EXCEPT ![c] = there])
  BY <1>a, <1>b, <1>d DEF Release, Session
<1>4. /\ pc'[c] = there
      /\ \A d \in Callers : d # c /\ pc'[d] # pc[d] => pc[d] = "asleep" /\ pc'[d] = "acquire"
      /\ \A d \in Callers : pc'[d] = "asleep" /\ ~closed[s] => session[d] # s
      /\ pc' \in [Callers -> Places]
  <2>1. CASE closed[s]
    <3>1. pc' = [pc EXCEPT ![c] = there] /\ pc \in [Callers -> Places]
      BY <2>1, <1>0, <1>3 DEF CallersTyped
    <3>2. /\ pc'[c] = there /\ pc' \in [Callers -> Places]
          /\ \A d \in Callers : d # c => pc'[d] = pc[d]
      BY <1>0, <3>1 DEF Places
    <3> QED BY <2>1, <1>0, <3>2
  <2>2. CASE ~closed[s]
    <3>1. pc' = [d \in Callers |->
                  IF session[d] = s /\ [pc EXCEPT ![c] = there][d] = "asleep" THEN "acquire"
                  ELSE [pc EXCEPT ![c] = there][d]]
      BY <2>2, <1>3 DEF Broadcast, Session
    <3> QED BY <3>1, <1>0 DEF CallersTyped, Places
  <2> QED BY <2>1, <2>2
<1>5. /\ \A d \in Callers : HasProcess(d)' <=> HasProcess(d) /\ d # c
      /\ \A d \in Callers : held'[d] = IF d = c THEN 0 ELSE held[d]
      /\ \A d \in Callers : HasProcess(d) => held[d] \in 1..n
      /\ \A d \in Callers : HasProcess(d) /\ held[d] = h => d = c
  <2>1. \A d \in Callers : HasProcess(d)' <=> HasProcess(d) /\ d # c
    BY <1>4 DEF HasProcess
  <2>2. \A d \in Callers : held'[d] = IF d = c THEN 0 ELSE held[d]
    BY <1>0, <1>3 DEF CallersTyped
  <2>3. \A d \in Callers : HasProcess(d) => held[d] \in 1..n
    BY <1>c DEF PoolInv, Seated
  <2>4. \A d \in Callers : HasProcess(d) /\ held[d] = h => d = c
    BY <1>b DEF PoolInv, Apart
  <2> QED BY <2>1, <2>2, <2>3, <2>4
<1>6. /\ \A t \in Sessions : Using(t)' = IF t = s THEN Using(t) \ {c} ELSE Using(t)
      /\ c \in Using(s)
  <2>1. \A d \in Callers : session'[d] = session[d]
    BY <1>3
  <2> QED BY <2>1, <1>a, <1>5 DEF Using, HasProcess, Session
<1>7. /\ procs' \in Seq(Process) /\ Len(procs') = n
      /\ \A q \in 1..n : procs'[q] = IF q = h THEN r ELSE procs[q]
  BY <1>0, <1>2, <1>3, <1>c, ExceptSeq DEF PoolTyped
<1>8. \A q \in 1..n : procs'[q].session = procs[q].session
  <2>1. procs[h].session = s
    BY <1>a, <1>b DEF PoolInv, Seated
  <2> QED BY <2>1, <1>1, <1>7
<1>9. /\ \A t \in Sessions \ {s} : idle'[t] = idle[t] /\ live'[t] = live[t]
      /\ closed[s] => idle'[s] = idle[s] /\ live'[s] = live[s] - 1
      /\ ~closed[s] => /\ live'[s] = live[s]
                       /\ Len(idle'[s]) = Len(idle[s]) + 1
                       /\ \A i \in 1..Len(idle[s]) : idle'[s][i] = idle[s][i]
                       /\ idle'[s][Len(idle[s]) + 1] = h
  <2>1. idle[s] \in Seq(Nat)
    BY <1>0 DEF PoolTyped
  <2>2. /\ Len(Append(idle[s], h)) = Len(idle[s]) + 1
        /\ \A i \in 1..Len(idle[s]) : Append(idle[s], h)[i] = idle[s][i]
        /\ Append(idle[s], h)[Len(idle[s]) + 1] = h
    BY <2>1, AppendProperties
  <2>3. DOMAIN idle = Sessions /\ DOMAIN live = Sessions
    BY <1>0 DEF PoolTyped
  <2>4. CASE closed[s]
    BY <2>3, <2>4, <1>3
  <2>5. CASE ~closed[s]
    <3>1. idle'[s] = Append(idle[s], h) /\ \A t \in Sessions \ {s} : idle'[t] = idle[t]
      BY <2>3, <2>5, <1>3
    <3>2. live' = live
      BY <2>5, <1>3
    <3> QED BY <2>2, <2>5, <3>1, <3>2
  <2> QED BY <2>4, <2>5
<1>10. idle' \in [Sessions -> Seq(Nat)]
  <2>1. CASE closed[s]
    BY <2>1, <1>0, <1>3 DEF PoolTyped
  <2>2. CASE ~closed[s]
    <3>1. Append(idle[s], h) \in Seq(Nat)
      BY <1>0 DEF PoolTyped
    <3> QED BY <2>2, <3>1, <1>0, <1>3 DEF PoolTyped
  <2> QED BY <2>1, <2>2
<1>11. /\ Cardinality(Using(s)) \in Nat \ {0}
       /\ \A t \in Sessions : /\ IsFiniteSet(Using(t)')
                              /\ Cardinality(Using(t)') = IF t = s THEN Cardinality(Using(t)) - 1
                                                         ELSE Cardinality(Using(t))
  <2>1. \A t \in Sessions : IsFiniteSet(Using(t)) /\ Cardinality(Using(t)) \in Nat
    BY UsingFinite
  <2>2. Using(s) # {}
    BY <1>6
  <2>3. Cardinality(Using(s)) # 0
    BY <2>1, <2>2, FS_EmptySet
  <2>4. IsFiniteSet(Using(s) \ {c}) /\ Cardinality(Using(s) \ {c}) = Cardinality(Using(s)) - 1
    BY <2>1, <1>6, FS_RemoveElement
  <2> QED BY <2>1, <2>3, <2>4, <1>6
<1>12. \A t \in Sessions : Len(idle[t]) \in Nat /\ live[t] \in Nat
  BY <1>0 DEF PoolTyped
<1>13. Counts'
  <2> SUFFICES ASSUME NEW t \in Sessions
               PROVE  /\ IsFiniteSet(Using(t)')
                      /\ live'[t] <= MaxProcesses
                      /\ Len(idle'[t]) + Cardinality(Using(t)') <= live'[t]
                      /\ ~closed'[t] => live'[t] = Len(idle'[t]) + Cardinality(Using(t)')
                      /\ closed'[t] => idle'[t] = <<>>
    BY DEF Counts
  <2>1. /\ live[t] <= MaxProcesses
        /\ Len(idle[t]) + Cardinality(Using(t)) <= live[t]
        /\ ~closed[t] => live[t] = Len(idle[t]) + Cardinality(Using(t))
        /\ closed[t] => idle[t] = <<>>
        /\ closed' = closed
        /\ MaxProcesses \in Nat
    BY <1>3, PoolAssumption DEF PoolInv, Counts
  <2>2. CASE t # s
    BY <2>1, <2>2, <1>9, <1>11
  <2>3. CASE t = s
    BY <2>1, <2>3, <1>9, <1>11, <1>12
  <2> QED BY <2>2, <2>3
<1>14. CallersTyped' /\ PoolTyped'
  <2>1. CallersTyped'
    BY <1>0, <1>3, <1>4 DEF CallersTyped
  <2>2. live' \in [Sessions -> Nat]
    <3>1. closed[s] => live[s] - 1 \in Nat
      <4>1. live[s] >= Cardinality(Using(s))
        BY <1>11, <1>12 DEF PoolInv, Counts
      <4> QED BY <4>1, <1>11, <1>12
    <3>2. live \in [Sessions -> Nat]
      BY <1>0 DEF PoolTyped
    <3> QED BY <3>1, <3>2, <1>3
  <2> QED BY <1>0, <1>3, <1>7, <1>10, <2>1, <2>2 DEF PoolTyped
<1>15. Seated'
  <2> SUFFICES ASSUME NEW d \in Callers
               PROVE  /\ pc'[d] # "idle" => session'[d] \in Sessions
                      /\ ~HasProcess(d)' => held'[d] = 0
                      /\ HasProcess(d)' => /\ held'[d] \in 1..n
                                           /\ procs'[held'[d]].session = session'[d]
    BY <1>7 DEF Seated
  <2>1. session'[d] = session[d]
    BY <1>3
  <2>2. CASE d = c
    BY <2>1, <2>2, <1>a, <1>5
  <2>3. CASE d # c
    <3>1. /\ pc[d] # "idle" => session[d] \in Sessions
          /\ ~HasProcess(d) => held[d] = 0
          /\ HasProcess(d) => held[d] \in 1..n /\ procs[held[d]].session = session[d]
      BY <1>c DEF PoolInv, Seated
    <3>2. pc'[d] # "idle" => pc[d] # "idle"
      BY <2>3, <1>4
    <3> QED BY <2>1, <2>3, <3>1, <3>2, <1>5, <1>8
  <2> QED BY <2>2, <2>3
<1>16. \A t \in Sessions : \A i \in 1..Len(idle'[t]) :
         \/ i \in 1..Len(idle[t]) /\ idle'[t][i] = idle[t][i]
         \/ t = s /\ i = Len(idle[s]) + 1 /\ idle'[s][i] = h
  <2> SUFFICES ASSUME NEW t \in Sessions, NEW i \in 1..Len(idle'[t])
               PROVE  \/ i \in 1..Len(idle[t]) /\ idle'[t][i] = idle[t][i]
                      \/ t = s /\ i = Len(idle[s]) + 1 /\ idle'[s][i] = h
    OBVIOUS
  <2>1. CASE t # s \/ closed[s]
    BY <2>1, <1>9
  <2>2. CASE t = s /\ ~closed[s]
    BY <2>2, <1>9, <1>12
  <2> QED BY <2>1, <2>2
<1>17. /\ \A t \in Sessions : \A i \in 1..Len(idle[t]) : idle[t][i] \in 1..n /\ idle[t][i] # h
       /\ \A t \in Sessions : \A i \in 1..Len(idle[t]) : procs[idle[t][i]].session = t
  BY <1>b, <1>c DEF PoolInv, IdleOwn, Apart
<1>18. IdleOwn'
  <2> SUFFICES ASSUME NEW t \in Sessions, NEW i \in 1..Len(idle'[t])
               PROVE  idle'[t][i] \in 1..n /\ procs'[idle'[t][i]].session = t
    BY <1>7 DEF IdleOwn
  <2>1. CASE i \in 1..Len(idle[t]) /\ idle'[t][i] = idle[t][i]
    BY <2>1, <1>8, <1>17
  <2>2. CASE t = s /\ idle'[s][i] = h
    BY <2>2, <1>1, <1>7
  <2> QED BY <2>1, <2>2, <1>16
<1>19. Apart'
  <2>1. ASSUME NEW d \in Callers, NEW e \in Callers, HasProcess(d)', HasProcess(e)',
               held'[d] = held'[e]
        PROVE  d = e
    BY <2>1, <1>5 DEF PoolInv, Apart
  <2>2. ASSUME NEW t \in Sessions, NEW i \in 1..Len(idle'[t]), NEW j \in 1..Len(idle'[t]),
               idle'[t][i] = idle'[t][j]
        PROVE  i = j
    <3>1. \A k, m \in 1..Len(idle[t]) : idle[t][k] = idle[t][m] => k = m
      BY DEF PoolInv, Apart
    <3>2. \/ i \in 1..Len(idle[t]) /\ idle'[t][i] = idle[t][i]
          \/ t = s /\ i = Len(idle[s]) + 1 /\ idle'[s][i] = h
      BY <1>16
    <3>3. \/ j \in 1..Len(idle[t]) /\ idle'[t][j] = idle[t][j]
          \/ t = s /\ j = Len(idle[s]) + 1 /\ idle'[s][j] = h
      BY <1>16
    <3>4. \A k \in 1..Len(idle[t]) : idle[t][k] # h
      BY <1>17
    <3> QED BY <2>2, <3>1, <3>2, <3>3, <3>4
  <2>3. ASSUME NEW t \in Sessions, NEW i \in 1..Len(idle'[t]), NEW d \in Callers,
               HasProcess(d)'
        PROVE  held'[d] # idle'[t][i]
    <3>1. HasProcess(d) /\ d # c /\ held'[d] = held[d] /\ held[d] # h
      BY <2>3, <1>5
    <3>2. CASE i \in 1..Len(idle[t]) /\ idle'[t][i] = idle[t][i]
      BY <3>1, <3>2 DEF PoolInv, Apart
    <3>3. CASE t = s /\ idle'[s][i] = h
      BY <3>1, <3>3
    <3> QED BY <3>2, <3>3, <1>16
  <2> QED BY <2>1, <2>2, <2>3 DEF Apart
<1>20. Pipes'
  <2>1. \A d \in Callers : pc'[d] = "read" => pc[d] = "read" /\ d # c
    BY <1>4
  <2>2. ASSUME NEW d \in Callers, pc'[d] = "read"
        PROVE  Len(procs'[held'[d]].pipe) = 1 /\ procs'[held'[d]].pipe[1].ticket = ticket'[d]
    <3>1. HasProcess(d) /\ d # c /\ held'[d] = held[d] /\ held[d] \in 1..n /\ held[d] # h
      BY <2>1, <2>2, <1>5 DEF HasProcess
    <3>2. procs'[held'[d]] = procs[held[d]] /\ ticket'[d] = ticket[d]
      BY <3>1, <1>3, <1>7
    <3> QED BY <2>1, <2>2, <3>2 DEF PoolInv, Pipes
  <2>3. ASSUME NEW q \in 1..n
        PROVE  procs'[q].pipe = <<>> \/ \E d \in Callers : pc'[d] = "read" /\ held'[d] = q
    <3>1. CASE q = h
      BY <3>1, <1>1, <1>7
    <3>2. CASE q # h
      <4>1. procs'[q] = procs[q]
        BY <3>2, <1>7
      <4>2. procs[q].pipe = <<>> \/ \E d \in Callers : pc[d] = "read" /\ held[d] = q
        BY <1>c DEF PoolInv, Pipes
      <4>3. ASSUME NEW d \in Callers, pc[d] = "read", held[d] = q
            PROVE  pc'[d] = "read" /\ held'[d] = q
        BY <3>2, <4>3, <1>b, <1>4, <1>5
      <4> QED BY <4>1, <4>2, <4>3
    <3> QED BY <3>1, <3>2
  <2> QED BY <2>2, <2>3, <1>7 DEF Pipes
<1>21. Gots'
  <2> SUFFICES ASSUME NEW d \in Callers
               PROVE  /\ pc'[d] # "answered" /\ ~(pc'[d] = "walk" /\ phase'[d] = "after") =>
                           got'[d] = None
                      /\ got'[d] # None => got'[d].ticket = ticket'[d]
    BY DEF Gots
  <2>1. ticket'[d] = ticket[d]
    BY <1>3
  <2>2. CASE d = c
    BY <2>1, <2>2, <1>4
  <2>3. CASE d # c
    BY <2>1, <2>3, <1>4 DEF PoolInv, Gots
  <2> QED BY <2>2, <2>3
<1>22. Placed'
  <2> SUFFICES ASSUME NEW q \in 1..n
               PROVE  /\ procs'[q].broken => ~procs'[q].up
                      /\ procs'[q].up =>
                           \/ \E d \in Callers : HasProcess(d)' /\ held'[d] = q
                           \/ \E i \in 1..Len(idle'[procs'[q].session]) :
                                idle'[procs'[q].session][i] = q
    BY <1>7 DEF Placed
  <2>1. CASE q = h
    <3>1. procs'[q] = r
      BY <2>1, <1>7
    <3>2. ~closed[s] => \E i \in 1..Len(idle'[s]) : idle'[s][i] = h
      <4>1. ~closed[s] => Len(idle[s]) + 1 \in 1..Len(idle'[s])
        BY <1>9, <1>12
      <4> QED BY <4>1, <1>9
    <3> QED BY <2>1, <3>1, <3>2, <1>1
  <2>2. CASE q # h
    <3> DEFINE t == procs[q].session
    <3>1. procs'[q] = procs[q] /\ t \in Sessions
      BY <2>2, <1>0, <1>c, <1>7, ProcessTyped
    <3>2. /\ procs[q].broken => ~procs[q].up
          /\ procs[q].up => \/ \E d \in Callers : HasProcess(d) /\ held[d] = q
                            \/ \E i \in 1..Len(idle[t]) : idle[t][i] = q
      BY <1>c DEF PoolInv, Placed
    <3> HIDE DEF t
    <3>3. ASSUME NEW i \in 1..Len(idle[t]), idle[t][i] = q
          PROVE  i \in 1..Len(idle'[t]) /\ idle'[t][i] = q
      <4>1. CASE t # s \/ closed[s]
        BY <4>1, <3>1, <3>3, <1>9
      <4>2. CASE t = s /\ ~closed[s]
        BY <4>2, <3>3, <1>9, <1>12
      <4> QED BY <4>1, <4>2
    <3>4. ASSUME NEW d \in Callers, HasProcess(d), held[d] = q
          PROVE  HasProcess(d)' /\ held'[d] = q
      BY <2>2, <3>4, <1>b, <1>5
    <3>5. procs[q].up => \/ \E d \in Callers : HasProcess(d)' /\ held'[d] = q
                         \/ \E i \in 1..Len(idle'[t]) : idle'[t][i] = q
      BY <3>2, <3>3, <3>4
    <3> QED BY <3>1, <3>2, <3>5 DEF t
  <2> QED BY <2>1, <2>2
<1>23. Sleepers'
  <2> SUFFICES ASSUME NEW d \in Callers, pc'[d] = "asleep"
               PROVE  /\ ctx'[d] = "live" \/ alarm'[d]
                      /\ ~closed'[session'[d]]
                      /\ idle'[session'[d]] = <<>>
                      /\ \E e \in Callers : HasProcess(e)' /\ session'[e] = session'[d]
    BY DEF Sleepers
  <2>1. pc[d] = "asleep" /\ d # c
    BY <1>4
  <2>2. /\ session[d] \in Sessions
        /\ ctx[d] = "live" \/ alarm[d]
        /\ ~closed[session[d]]
        /\ idle[session[d]] = <<>>
        /\ \E e \in Callers : HasProcess(e) /\ session[e] = session[d]
    BY <2>1 DEF PoolInv, Sleepers, Seated
  <2>3. session[d] # s
    BY <2>2, <1>4
  <2>4. idle'[session[d]] = <<>>
    BY <2>2, <2>3, <1>9
  <2>5. \E e \in Callers : HasProcess(e)' /\ session[e] = session[d]
    BY <2>2, <2>3, <1>a, <1>5
  <2> QED BY <2>2, <2>4, <2>5, <1>3
<1> QED BY <1>13, <1>14, <1>15, <1>18, <1>19, <1>20, <1>21, <1>22, <1>23 DEF PoolInv

\* The process a caller has.
LEMMA HeldProcess ==
    ASSUME PoolInv, NEW c \in Callers, HasProcess(c)
    PROVE  /\ Proc(c) \in Process /\ Proc(c).session = session[c]
           /\ Proc(c).broken => ~Proc(c).up
           /\ pc[c] = "send" => Proc(c).pipe = <<>>
           /\ pc[c] = "read" => /\ Proc(c).pipe \in Seq(Reply)
                                /\ Len(Proc(c).pipe) = 1
                                /\ Proc(c).pipe[1].ticket = ticket[c]
<1>0. PoolTyped
  BY DEF PoolInv
<1>1. held[c] \in 1..Len(procs) /\ procs[held[c]].session = session[c]
  BY DEF PoolInv, Seated
<1>2. procs[held[c]] \in Process /\ procs[held[c]].pipe \in Seq(Reply)
  BY <1>0, <1>1, ProcessTyped
<1>3. procs[held[c]].broken => ~procs[held[c]].up
  BY <1>1 DEF PoolInv, Placed
<1>4. pc[c] = "send" => procs[held[c]].pipe = <<>>
  <2>1. procs[held[c]].pipe = <<>> \/ \E d \in Callers : pc[d] = "read" /\ held[d] = held[c]
    BY <1>1 DEF PoolInv, Pipes
  <2>2. \A d \in Callers : pc[d] = "read" /\ held[d] = held[c] => d = c
    BY DEF PoolInv, Apart, HasProcess
  <2> QED BY <2>1, <2>2
<1>5. pc[c] = "read" => Len(procs[held[c]].pipe) = 1 /\ procs[held[c]].pipe[1].ticket = ticket[c]
  BY DEF PoolInv, Pipes
<1> QED BY <1>1, <1>2, <1>3, <1>4, <1>5 DEF Proc

LEMMA BrokenTyped ==
    ASSUME NEW p \in Process
    PROVE  /\ Broken(p) \in Process /\ Broken(p).session = p.session
           /\ Broken(p).pipe = <<>> /\ ~Broken(p).up
<1>1. <<>> \in Seq(Reply)
  OBVIOUS
<1> QED BY <1>1 DEF Broken, Process

\* A request that is given up leaves nothing in the pipes.
LEMMA GivesBack ==
    ASSUME PoolInv, NEW c \in Callers, phase' = phase,
           SendNothing(c) \/ SendFails(c) \/ ReadEnds(c) \/ ReadFails(c)
    PROVE  PoolInv'
<1>0. CallersTyped /\ PoolTyped
  BY DEF PoolInv
<1>1. HasProcess(c)
  BY DEF SendNothing, SendFails, ReadEnds, ReadFails, HasProcess
<1>2. /\ Proc(c) \in Process /\ Proc(c).session = session[c]
      /\ Proc(c).broken => ~Proc(c).up
      /\ pc[c] = "send" => Proc(c).pipe = <<>>
  BY <1>1, HeldProcess
<1>3. got' = got /\ left' \in Budget
  <2>1. left \in Budget /\ (Mishap => left' \in Budget)
    BY <1>0, MishapTyped DEF PoolTyped
  <2> QED BY <2>1 DEF SendNothing, SendFails, ReadEnds, ReadFails
<1>4. got[c] = None
  BY <1>1 DEF PoolInv, Gots, HasProcess
<1>5. got' \in [Callers -> Reply \cup {None}]
  BY <1>0, <1>3 DEF CallersTyped
<1>6. CASE SendNothing(c)
  <2>1. Proc(c).pipe = <<>> /\ Release(c, Proc(c), "declined")
    BY <1>2, <1>6 DEF SendNothing
  <2> QED BY <2>1, <1>1, <1>2, <1>3, <1>4, <1>5, ReleaseKeeps
<1>7. CASE SendFails(c) \/ ReadEnds(c) \/ ReadFails(c)
  <2>1. Release(c, Broken(Proc(c)), "declined")
    BY <1>7 DEF SendFails, ReadEnds, ReadFails
  <2>2. PICK p \in Process : p = Broken(Proc(c))
    BY <1>2, BrokenTyped
  <2>3. p.session = session[c] /\ p.pipe = <<>> /\ ~p.up
    BY <2>2, <1>2, BrokenTyped
  <2> QED BY <2>1, <2>2, <2>3, <1>1, <1>3, <1>4, <1>5, ReleaseKeeps
<1> QED BY <1>6, <1>7

\* An answer is read.
LEMMA ReadKeeps ==
    ASSUME PoolInv, NEW c \in Callers, Read(c), phase' = phase
    PROVE  PoolInv'
<1>0. CallersTyped /\ PoolTyped
  BY DEF PoolInv
<1>1. HasProcess(c) /\ pc[c] = "read"
  BY DEF Read, HasProcess
<1>2. PICK q \in Process : q = Proc(c)
  BY <1>1, HeldProcess
<1>3. /\ q.session = session[c] /\ (q.broken => ~q.up)
      /\ q.pipe \in Seq(Reply) /\ Len(q.pipe) = 1 /\ q.pipe[1].ticket = ticket[c]
  BY <1>1, <1>2, HeldProcess
<1>4. Head(q.pipe) = q.pipe[1] /\ Head(q.pipe) \in Reply /\ Tail(q.pipe) = <<>>
  <2>1. q.pipe # <<>>
    BY <1>3
  <2>2. Tail(q.pipe) \in Seq(Reply) /\ Len(Tail(q.pipe)) = 0 /\ Head(q.pipe) \in Reply
    BY <1>3, <2>1, HeadTailProperties
  <2>3. Tail(q.pipe) = <<>>
    BY <2>2, EmptySeq
  <2>4. Head(q.pipe) = q.pipe[1]
    BY <1>3
  <2> QED BY <2>2, <2>3, <2>4
<1>5. PICK p \in Process : p = [q EXCEPT !.pipe = Tail(@)]
  <2>1. <<>> \in Seq(Reply)
    OBVIOUS
  <2> QED BY <2>1, <1>4 DEF Process
<1>6. p.session = session[c] /\ p.pipe = <<>> /\ (p.broken => ~p.up)
  BY <1>3, <1>4, <1>5 DEF Process
<1>7. /\ got' = [got EXCEPT ![c] = Head(q.pipe)]
      /\ Release(c, p, "answered")
      /\ left' = left
  BY <1>2, <1>5 DEF Read
<1>8. /\ got' \in [Callers -> Reply \cup {None}]
      /\ \A d \in Callers \ {c} : got'[d] = got[d]
      /\ got'[c].ticket = ticket[c]
  BY <1>0, <1>3, <1>4, <1>7 DEF CallersTyped
<1>9. left' \in Budget /\ ticket' = ticket
  BY <1>0, <1>7 DEF PoolTyped, Release
<1> QED BY <1>1, <1>6, <1>7, <1>8, <1>9, ReleaseKeeps

\* A request is written.
LEMMA SendKeeps ==
    ASSUME PoolInv, NEW c \in Callers, Send(c), phase' = phase
    PROVE  PoolInv'
<1>0. CallersTyped /\ PoolTyped /\ HasProcess(c) /\ pc[c] = "send"
  BY DEF PoolInv, Send, Goto, HasProcess
<1>a. PICK n \in Nat : n = Len(procs)
  BY <1>0 DEF PoolTyped
<1>b. PICK h \in 1..n : h = held[c]
  BY <1>0, <1>a DEF PoolInv, Seated
<1>c. PICK q \in Process : q = procs[h]
  BY <1>0, <1>a, ProcessTyped
<1>d. q.pipe = <<>>
  BY <1>0, <1>b, <1>c, HeldProcess DEF Proc
<1>e. PICK m \in Reply : m = [ticket |-> ticket[c], reply |-> None]
  BY <1>0 DEF CallersTyped, Reply
<1>f. PICK r : r = [q EXCEPT !.pipe = Append(<<>>, m)]
  OBVIOUS
<1>1. /\ r.session = q.session /\ r.broken = q.broken /\ r.up = q.up
      /\ Len(r.pipe) = 1 /\ r.pipe[1].ticket = ticket[c]
  <2>1. r.pipe = Append(<<>>, m)
    BY <1>f DEF Process
  <2>2. <<>> \in Seq(Reply) /\ Len(<<>>) = 0
    OBVIOUS
  <2>3. Len(r.pipe) = 1 /\ r.pipe[1] = m
    BY <2>1, <2>2, AppendProperties
  <2>4. m.ticket = ticket[c]
    BY <1>e
  <2> QED BY <2>3, <2>4, <1>f DEF Process
<1>2. r \in Process
  <2>1. <<>> \in Seq(Reply)
    OBVIOUS
  <2>2. Append(<<>>, m) \in Seq(Reply)
    BY <2>1
  <2> QED BY <2>2, <1>f DEF Process
<1>3. /\ pc' = [pc EXCEPT ![c] = "read"]
      /\ procs' = [procs EXCEPT ![h] = r]
      /\ UNCHANGED <<refs, moves, session, ctx, ticket, asks, held, got, alarm, idle, live,
                     failures, closed, left, phase>>
  <2>1. procs' = [procs EXCEPT ![h].pipe = Append(procs[h].pipe,
                                 [ticket |-> ticket[c], reply |-> None])]
    BY <1>b DEF Send
  <2>2. [procs EXCEPT ![h].pipe = Append(procs[h].pipe, [ticket |-> ticket[c], reply |-> None])]
          = [procs EXCEPT ![h] = [procs[h] EXCEPT !.pipe = Append(procs[h].pipe,
                                    [ticket |-> ticket[c], reply |-> None])]]
    OBVIOUS
  <2> QED BY <2>1, <2>2, <1>c, <1>d, <1>e, <1>f DEF Send, Goto
<1>4. /\ \A d \in Callers : HasProcess(d)' <=> HasProcess(d)
      /\ \A d \in Callers : pc'[d] = IF d = c THEN "read" ELSE pc[d]
      /\ \A d \in Callers : HasProcess(d) => held[d] \in 1..n
      /\ \A d \in Callers : HasProcess(d) /\ held[d] = h => d = c
  <2>1. \A d \in Callers : pc'[d] = IF d = c THEN "read" ELSE pc[d]
    BY <1>0, <1>3 DEF CallersTyped
  <2>2. \A d \in Callers : HasProcess(d)' <=> HasProcess(d)
    BY <2>1, <1>0 DEF HasProcess
  <2>3. \A d \in Callers : HasProcess(d) => held[d] \in 1..n
    BY <1>a DEF PoolInv, Seated
  <2>4. \A d \in Callers : HasProcess(d) /\ held[d] = h => d = c
    BY <1>0, <1>b DEF PoolInv, Apart
  <2> QED BY <2>1, <2>2, <2>3, <2>4
<1>5. \A t \in Sessions : Using(t)' = Using(t)
  <2>1. \A d \in Callers : session'[d] = session[d]
    BY <1>3
  <2> QED BY <2>1, <1>4 DEF Using, HasProcess, Session
<1>6. /\ procs' \in Seq(Process) /\ Len(procs') = n
      /\ \A p \in 1..n : procs'[p] = IF p = h THEN r ELSE procs[p]
  BY <1>0, <1>2, <1>3, <1>a, ExceptSeq DEF PoolTyped
<1>7. \A p \in 1..n : /\ procs'[p].session = procs[p].session
                      /\ procs'[p].broken = procs[p].broken
                      /\ procs'[p].up = procs[p].up
  BY <1>1, <1>6, <1>c
<1>8. CallersTyped' /\ PoolTyped'
  <2>1. CallersTyped'
    BY <1>0, <1>3 DEF CallersTyped, Places
  <2> QED BY <1>0, <1>3, <1>6, <2>1 DEF PoolTyped
<1>9. Seated'
  <2> SUFFICES ASSUME NEW d \in Callers
               PROVE  /\ pc'[d] # "idle" => session[d] \in Sessions
                      /\ ~HasProcess(d)' => held[d] = 0
                      /\ HasProcess(d)' => held[d] \in 1..n /\ procs'[held[d]].session = session[d]
    BY <1>3, <1>6 DEF Seated
  <2>1. /\ pc[d] # "idle" => session[d] \in Sessions
        /\ ~HasProcess(d) => held[d] = 0
        /\ HasProcess(d) => held[d] \in 1..n /\ procs[held[d]].session = session[d]
    BY <1>a DEF PoolInv, Seated
  <2> QED BY <2>1, <1>0, <1>4, <1>7
<1>10. IdleOwn' /\ Placed'
  <2>1. \A t \in Sessions : \A i \in 1..Len(idle[t]) :
          idle[t][i] \in 1..n /\ procs'[idle[t][i]].session = t
    BY <1>7, <1>a DEF PoolInv, IdleOwn
  <2>2. ASSUME NEW p \in 1..n
        PROVE  /\ procs'[p].broken => ~procs'[p].up
               /\ procs'[p].up =>
                    \/ \E d \in Callers : HasProcess(d)' /\ held[d] = p
                    \/ \E i \in 1..Len(idle[procs'[p].session]) : idle[procs'[p].session][i] = p
    BY <1>4, <1>7, <1>a DEF PoolInv, Placed
  <2>3. idle' = idle /\ held' = held
    BY <1>3
  <2> QED BY <2>1, <2>2, <2>3, <1>6 DEF IdleOwn, Placed
<1>13. Apart' /\ Counts'
  BY <1>3, <1>4, <1>5 DEF PoolInv, Apart, Counts
<1>14. Gots'
  BY <1>0, <1>3, <1>4 DEF PoolInv, Gots
<1>11. Sleepers'
  BY <1>3, <1>4 DEF PoolInv, Sleepers
<1>12. Pipes'
  <2>1. ASSUME NEW d \in Callers, pc'[d] = "read"
        PROVE  Len(procs'[held[d]].pipe) = 1 /\ procs'[held[d]].pipe[1].ticket = ticket[d]
    <3>1. CASE d = c
      BY <3>1, <1>1, <1>6, <1>b
    <3>2. CASE d # c
      <4>1. HasProcess(d) /\ pc[d] = "read"
        BY <3>2, <2>1, <1>4 DEF HasProcess
      <4>2. procs'[held[d]] = procs[held[d]]
        BY <3>2, <4>1, <1>4, <1>6
      <4> QED BY <4>1, <4>2 DEF PoolInv, Pipes
    <3> QED BY <3>1, <3>2
  <2>2. ASSUME NEW p \in 1..n
        PROVE  procs'[p].pipe = <<>> \/ \E d \in Callers : pc'[d] = "read" /\ held[d] = p
    <3>1. CASE p = h
      BY <3>1, <1>4, <1>b
    <3>2. CASE p # h
      <4>1. procs'[p] = procs[p]
        BY <3>2, <1>6
      <4>2. procs[p].pipe = <<>> \/ \E d \in Callers : pc[d] = "read" /\ held[d] = p
        BY <1>a DEF PoolInv, Pipes
      <4>3. \A d \in Callers : pc[d] = "read" => pc'[d] = "read"
        BY <1>4
      <4> QED BY <4>1, <4>2, <4>3
    <3> QED BY <3>1, <3>2
  <2>3. held' = held /\ ticket' = ticket
    BY <1>3
  <2> QED BY <2>1, <2>2, <2>3, <1>6 DEF Pipes
<1> QED BY <1>8, <1>9, <1>10, <1>11, <1>12, <1>13, <1>14 DEF PoolInv
-----------------------------------------------------------------------------
(***************************************************************************)
(* What happens to a process, a context or the refs, whoever is where.     *)
(***************************************************************************)

\* No process starts again, loses a request or is marked broken.
InPlace ==
    /\ procs' \in Seq(Process) /\ Len(procs') = Len(procs)
    /\ \A p \in 1..Len(procs) :
         /\ procs'[p].session = procs[p].session
         /\ procs'[p].broken = procs[p].broken
         /\ procs'[p].up => procs[p].up
         /\ Len(procs'[p].pipe) = Len(procs[p].pipe)
         /\ \A i \in 1..Len(procs[p].pipe) :
              procs'[p].pipe[i].ticket = procs[p].pipe[i].ticket
    /\ \A c \in Callers : pc[c] = "asleep" => ctx'[c] = "live" \/ alarm'[c]
    /\ ctx' \in [Callers -> {"live", "cancelled"}] /\ alarm' \in [Callers -> BOOLEAN]
    /\ refs' \in Refs /\ moves' \in Nat /\ left' \in Budget
    /\ UNCHANGED <<pc, session, ticket, asks, held, got, idle, live, failures, closed, phase>>

LEMMA InPlaceKeeps == ASSUME PoolInv, InPlace PROVE PoolInv'
<1>0. CallersTyped /\ PoolTyped
  BY DEF PoolInv
<1>1. UNCHANGED <<pc, session, ticket, asks, held, got, idle, live, failures, closed, phase>>
  BY DEF InPlace
<1>2. \A d \in Callers : HasProcess(d)' <=> HasProcess(d)
  BY <1>1 DEF HasProcess
<1>3. \A t \in Sessions : Using(t)' = Using(t)
  BY <1>1 DEF Using, Session
<1>4. PICK n \in Nat : n = Len(procs) /\ n = Len(procs')
  BY <1>0 DEF PoolTyped, InPlace
<1>5. \A p \in 1..n :
        /\ procs'[p].session = procs[p].session
        /\ procs'[p].broken = procs[p].broken
        /\ procs'[p].up => procs[p].up
        /\ Len(procs'[p].pipe) = Len(procs[p].pipe)
        /\ \A i \in 1..Len(procs[p].pipe) : procs'[p].pipe[i].ticket = procs[p].pipe[i].ticket
  BY <1>4 DEF InPlace
<1>6. CallersTyped' /\ PoolTyped'
  BY <1>0, <1>1 DEF CallersTyped, PoolTyped, InPlace
<1>7. Seated' /\ IdleOwn'
  BY <1>1, <1>2, <1>4, <1>5 DEF PoolInv, Seated, IdleOwn
<1>8. Apart' /\ Gots' /\ Counts'
  BY <1>1, <1>2, <1>3 DEF PoolInv, Apart, Gots, Counts
<1>9. Placed'
  <2> SUFFICES ASSUME NEW p \in 1..n
               PROVE  /\ procs'[p].broken => ~procs'[p].up
                      /\ procs'[p].up =>
                           \/ \E d \in Callers : HasProcess(d)' /\ held[d] = p
                           \/ \E i \in 1..Len(idle[procs'[p].session]) :
                                idle[procs'[p].session][i] = p
    BY <1>1, <1>4 DEF Placed
  <2> QED BY <1>2, <1>4, <1>5 DEF PoolInv, Placed
<1>10. Pipes'
  <2>1. \A d \in Callers : pc[d] = "read" =>
          Len(procs'[held[d]].pipe) = 1 /\ procs'[held[d]].pipe[1].ticket = ticket[d]
    <3>1. \A d \in Callers : pc[d] = "read" =>
            held[d] \in 1..n /\ Len(procs[held[d]].pipe) = 1 /\ procs[held[d]].pipe[1].ticket = ticket[d]
      BY <1>4 DEF PoolInv, Seated, HasProcess, Pipes
    <3> QED BY <3>1, <1>5
  <2>2. ASSUME NEW p \in 1..n, procs[p].pipe = <<>> PROVE procs'[p].pipe = <<>>
    <3>1. PoolTyped' /\ p \in 1..Len(procs')
      BY <1>4, <1>6
    <3>2. procs'[p] \in Process
      BY <1>4 DEF InPlace
    <3>3. procs'[p].pipe \in Seq(Reply)
      BY <3>2 DEF Process
    <3>4. Len(procs'[p].pipe) = 0
      BY <2>2, <1>5
    <3> QED BY <3>3, <3>4, EmptySeq
  <2>3. \A p \in 1..n : procs[p].pipe = <<>> \/ \E d \in Callers : pc[d] = "read" /\ held[d] = p
    BY <1>4 DEF PoolInv, Pipes
  <2> QED BY <2>1, <2>2, <2>3, <1>1, <1>4 DEF Pipes
<1>11. Sleepers'
  <2>1. \A d \in Callers : pc[d] = "asleep" => ctx'[d] = "live" \/ alarm'[d]
    BY DEF InPlace
  <2> QED BY <2>1, <1>1, <1>2 DEF PoolInv, Sleepers
<1> QED BY <1>6, <1>7, <1>8, <1>9, <1>10, <1>11 DEF PoolInv

LEMMA CancelKeeps ==
    ASSUME PoolInv, NEW c \in Callers, Cancel(c), phase' = phase
    PROVE  PoolInv'
<1>0. CallersTyped /\ PoolTyped
  BY DEF PoolInv
<1>1. /\ ctx' = [ctx EXCEPT ![c] = "cancelled"]
      /\ alarm' = [alarm EXCEPT ![c] = pc[c] = "asleep"]
      /\ UNCHANGED <<refs, moves, pc, session, ticket, asks, held, got, idle, live, failures,
                     closed, phase>>
      /\ left' \in Budget
  BY <1>0, MishapTyped DEF Cancel
<1>2. /\ ctx' \in [Callers -> {"live", "cancelled"}] /\ alarm' \in [Callers -> BOOLEAN]
      /\ \A d \in Callers : pc[d] = "asleep" => ctx'[d] = "live" \/ alarm'[d]
  <2>1. \A d \in Callers : pc[d] = "asleep" => ctx[d] = "live" \/ alarm[d]
    BY DEF PoolInv, Sleepers
  <2> QED BY <2>1, <1>0, <1>1 DEF CallersTyped
<1>3. /\ procs' \in Seq(Process) /\ Len(procs') = Len(procs)
      /\ \A p \in 1..Len(procs) :
           /\ procs'[p].session = procs[p].session
           /\ procs'[p].broken = procs[p].broken
           /\ procs'[p].up => procs[p].up
           /\ procs'[p].pipe = procs[p].pipe
  <2>1. procs \in Seq(Process)
    BY <1>0 DEF PoolTyped
  <2>2. CASE pc[c] # "read"
    BY <2>1, <2>2 DEF Cancel
  <2>3. CASE pc[c] = "read"
    <3>1. PICK h \in 1..Len(procs) : h = held[c]
      BY <2>3 DEF PoolInv, Seated, HasProcess
    <3>2. PICK q \in Process : q = procs[h]
      BY <1>0, ProcessTyped
    <3>3. PICK r \in Process : r = [q EXCEPT !.kill = TRUE]
      BY DEF Process
    <3>4. procs' = [procs EXCEPT ![h] = r]
      <4>1. procs' = [procs EXCEPT ![h].kill = TRUE]
        BY <2>3, <3>1 DEF Cancel
      <4> QED BY <4>1, <3>2, <3>3
    <3>5. r.session = q.session /\ r.broken = q.broken /\ r.up = q.up /\ r.pipe = q.pipe
      BY <3>3 DEF Process
    <3>6. /\ procs' \in Seq(Process) /\ Len(procs') = Len(procs)
          /\ \A p \in 1..Len(procs) : procs'[p] = IF p = h THEN r ELSE procs[p]
      BY <2>1, <3>4, ExceptSeq
    <3> QED BY <3>2, <3>5, <3>6
  <2> QED BY <2>2, <2>3
<1>4. refs' \in Refs /\ moves' \in Nat
  BY <1>0, <1>1 DEF PoolTyped
<1>5. InPlace
  BY <1>1, <1>2, <1>3, <1>4 DEF InPlace
<1> QED BY <1>5, InPlaceKeeps

\* A process is killed, answers, or dies.
LEMMA ProcessKeeps ==
    ASSUME PoolInv, NEW p \in DOMAIN procs, ProcessStep(p) \/ Die(p), phase' = phase
    PROVE  PoolInv'
<1>0. CallersTyped /\ PoolTyped
  BY DEF PoolInv
<1>1. /\ p \in 1..Len(procs) /\ procs \in Seq(Process)
      /\ left' \in Budget
      /\ UNCHANGED <<refs, moves, pc, session, ctx, ticket, asks, held, got, alarm, idle, live,
                     failures, closed, phase>>
  <2>1. left \in Budget /\ (Mishap => left' \in Budget)
    BY <1>0, MishapTyped DEF PoolTyped
  <2>2. p \in 1..Len(procs) /\ procs \in Seq(Process)
    BY <1>0 DEF PoolTyped
  <2> QED BY <2>1, <2>2 DEF ProcessStep, Die, KillLands, GitAnswers, caller
<1>2. PICK q \in Process : q = procs[p]
  BY <1>0, <1>1, ProcessTyped
<1>3. PICK r \in Process :
        /\ procs' = [procs EXCEPT ![p] = r]
        /\ r.session = q.session /\ r.broken = q.broken /\ (r.up => q.up)
        /\ Len(r.pipe) = Len(q.pipe)
        /\ \A i \in 1..Len(q.pipe) : r.pipe[i].ticket = q.pipe[i].ticket
  <2>1. CASE KillLands(p)
    <3>1. PICK r \in Process : r = [q EXCEPT !.kill = FALSE, !.up = FALSE]
      BY DEF Process
    <3>2. procs' = [procs EXCEPT ![p] = r]
      BY <2>1, <3>1, <1>1, <1>2 DEF KillLands
    <3>3. r.session = q.session /\ r.broken = q.broken /\ ~r.up /\ r.pipe = q.pipe
      BY <3>1 DEF Process
    <3> QED BY <3>2, <3>3
  <2>2. CASE Die(p)
    <3>1. PICK r \in Process : r = [q EXCEPT !.up = FALSE]
      BY DEF Process
    <3>2. procs' = [procs EXCEPT ![p] = r]
      BY <2>2, <3>1, <1>1, <1>2 DEF Die
    <3>3. r.session = q.session /\ r.broken = q.broken /\ ~r.up /\ r.pipe = q.pipe
      BY <3>1 DEF Process
    <3> QED BY <3>2, <3>3
  <2>3. CASE GitAnswers(p)
    <3>1. q.pipe \in Seq(Reply) /\ DOMAIN q.pipe = 1..Len(q.pipe)
      BY DEF Process
    <3>2. PICK i \in 1..Len(q.pipe) : procs' = [procs EXCEPT ![p].pipe[i].reply = HeadCommit(refs)]
      BY <2>3, <3>1, <1>2 DEF GitAnswers
    <3>3. PICK m \in Reply : m = q.pipe[i]
      BY <3>1
    <3>4. HeadCommit(refs) \in Commits
      BY <1>0 DEF PoolTyped, Refs, HeadCommit
    <3>5. PICK a \in Reply : a = [m EXCEPT !.reply = HeadCommit(refs)]
      BY <3>4 DEF Reply
    <3>6. PICK z \in Seq(Reply) : z = [q.pipe EXCEPT ![i] = a]
      BY <3>1, ExceptSeq
    <3>7. Len(z) = Len(q.pipe) /\ \A j \in 1..Len(q.pipe) : z[j] = IF j = i THEN a ELSE q.pipe[j]
      BY <3>1, <3>6, ExceptSeq
    <3>8. PICK r \in Process : r = [q EXCEPT !.pipe = z]
      BY DEF Process
    <3>9. procs' = [procs EXCEPT ![p] = r]
      BY <3>2, <3>3, <3>5, <3>6, <3>8, <1>2
    <3>10. r.session = q.session /\ r.broken = q.broken /\ r.up = q.up /\ r.pipe = z
      BY <3>8 DEF Process
    <3>11. a.ticket = m.ticket
      BY <3>5 DEF Reply
    <3> QED BY <3>3, <3>7, <3>9, <3>10, <3>11
  <2> QED BY <2>1, <2>2, <2>3 DEF ProcessStep
<1>4. /\ procs' \in Seq(Process) /\ Len(procs') = Len(procs)
      /\ \A k \in 1..Len(procs) : procs'[k] = IF k = p THEN r ELSE procs[k]
  BY <1>1, <1>3, ExceptSeq
<1>5. \A k \in 1..Len(procs) :
        /\ procs'[k].session = procs[k].session
        /\ procs'[k].broken = procs[k].broken
        /\ procs'[k].up => procs[k].up
        /\ Len(procs'[k].pipe) = Len(procs[k].pipe)
        /\ \A i \in 1..Len(procs[k].pipe) : procs'[k].pipe[i].ticket = procs[k].pipe[i].ticket
  BY <1>2, <1>3, <1>4
<1>6. /\ ctx' \in [Callers -> {"live", "cancelled"}] /\ alarm' \in [Callers -> BOOLEAN]
      /\ refs' \in Refs /\ moves' \in Nat
      /\ \A d \in Callers : pc[d] = "asleep" => ctx'[d] = "live" \/ alarm'[d]
  BY <1>0, <1>1 DEF CallersTyped, PoolTyped, PoolInv, Sleepers
<1>7. InPlace
  <2>1. procs' \in Seq(Process) /\ Len(procs') = Len(procs)
    BY <1>4
  <2> QED BY <2>1, <1>1, <1>5, <1>6 DEF InPlace
<1> QED BY <1>7, InPlaceKeeps

\* The refs move.
LEMMA MoveKeeps ==
    ASSUME PoolInv, Move, phase' = phase
    PROVE  PoolInv'
<1>0. CallersTyped /\ PoolTyped
  BY DEF PoolInv
<1>1. UNCHANGED <<procs, pc, session, ctx, ticket, asks, held, got, alarm, idle, live, failures,
                  closed, phase>>
  BY DEF Move, caller, pool
<1>2. refs' \in Refs /\ moves' \in Nat /\ left' \in Budget
  <2>1. refs \in Refs /\ moves \in Nat /\ left \in Budget
    BY <1>0 DEF PoolTyped
  <2> QED BY <2>1 DEF Move, Refs, Budget
<1>3. /\ procs \in Seq(Process)
      /\ ctx \in [Callers -> {"live", "cancelled"}] /\ alarm \in [Callers -> BOOLEAN]
      /\ \A d \in Callers : pc[d] = "asleep" => ctx[d] = "live" \/ alarm[d]
  BY <1>0 DEF CallersTyped, PoolTyped, PoolInv, Sleepers
<1>4. InPlace
  BY <1>1, <1>2, <1>3 DEF InPlace
<1> QED BY <1>4, InPlaceKeeps

LEMMA PoolStepKeeps ==
    ASSUME PoolInv, NEW c \in Callers, PoolStep(c), phase' = phase
    PROVE  PoolInv'
<1>0. CallersTyped /\ PoolTyped
  BY DEF PoolInv
<1>1. ASSUME AcquireNothing(c) PROVE PoolInv'
  <2>1. /\ pc[c] = "acquire" /\ pc' = [pc EXCEPT ![c] = "declined"]
        /\ UNCHANGED <<refs, moves, session, ctx, ticket, asks, held, got, alarm, pool, left>>
    BY <1>1 DEF AcquireNothing, Goto
  <2>2. session[c] \in Sessions /\ got[c] = None
    BY <2>1 DEF PoolInv, Seated, Gots
  <2>3. pc' \in [Callers -> Places] /\ pc'[c] = "declined" /\ pc' = [pc EXCEPT ![c] = pc'[c]]
    BY <1>0, <2>1 DEF CallersTyped, Places
  <2>4. CallersTyped' /\ PoolTyped'
    BY <1>0, <2>1, <2>3 DEF CallersTyped, PoolTyped, pool
  <2>5. Beside(c)
    BY <2>1, <2>2, <2>3, <2>4 DEF Beside, Calm, Places
  <2> QED BY <2>5, BesideKeeps
<1>2. ASSUME AcquireIdle(c) PROVE PoolInv'
  BY <1>2, AcquireIdleKeeps
<1>3. ASSUME AcquireRetires(c) \/ AcquireStartFails(c) \/ AcquireWaits(c) PROVE PoolInv'
  BY <1>3, AcquireRetiresKeeps
<1>4. ASSUME AcquireStart(c) PROVE PoolInv'
  BY <1>4, AcquireStartKeeps
<1>5. ASSUME AlarmRings(c) PROVE PoolInv'
  BY <1>5, AlarmRingsKeeps
<1>6. ASSUME SendNothing(c) \/ SendFails(c) \/ ReadEnds(c) \/ ReadFails(c) PROVE PoolInv'
  BY <1>6, GivesBack
<1>7. ASSUME Send(c) PROVE PoolInv'
  BY <1>7, SendKeeps
<1>8. ASSUME Read(c) PROVE PoolInv'
  BY <1>8, ReadKeeps
<1> QED BY <1>1, <1>2, <1>3, <1>4, <1>5, <1>6, <1>7, <1>8 DEF PoolStep
-----------------------------------------------------------------------------
(***************************************************************************)
(* The steps of a request that do not touch the pool.                      *)
(***************************************************************************)

LEMMA MovesOn ==
    ASSUME PoolInv, NEW c \in Callers, pc[c] \in Calm, pc[c] # "idle",
           NEW there \in Calm \ {"idle", "answered"},
           pc' = [pc EXCEPT ![c] = there], UNCHANGED poolRest, left' \in Budget,
           \A d \in Callers \ {c} : phase'[d] = phase[d],
           got[c] = None \/ (there = "walk" /\ phase'[c] = "after")
    PROVE  Beside(c)
<1>0. CallersTyped /\ PoolTyped
  BY DEF PoolInv
<1>1. /\ session[c] \in Sessions
      /\ got[c] # None => got[c].ticket = ticket[c]
  BY DEF PoolInv, Seated, Gots
<1>2. UNCHANGED <<refs, moves, session, ctx, ticket, asks, held, got, alarm, pool>>
  BY DEF poolRest
<1>3. pc' \in [Callers -> Places] /\ pc'[c] = there /\ pc' = [pc EXCEPT ![c] = pc'[c]]
  BY <1>0 DEF CallersTyped, Calm, Places
<1>4. CallersTyped' /\ PoolTyped'
  BY <1>0, <1>2, <1>3 DEF CallersTyped, PoolTyped, pool
<1> QED BY <1>1, <1>2, <1>3, <1>4 DEF Beside

LEMMA Returns ==
    ASSUME PoolInv, SessionTyped, NEW c \in Callers, pc[c] \in Calm, NEW v, NEW sure,
           Return(c, v, sure), left' \in Budget
    PROVE  Beside(c)
<1>0. CallersTyped /\ PoolTyped
  BY DEF PoolInv
<1>1. /\ pc' = [pc EXCEPT ![c] = "idle"]
      /\ ctx' = [ctx EXCEPT ![c] = "live"]
      /\ session' = [session EXCEPT ![c] = None]
      /\ ticket' = [ticket EXCEPT ![c] = 0]
      /\ got' = [got EXCEPT ![c] = None]
      /\ phase' = [phase EXCEPT ![c] = None]
      /\ UNCHANGED <<refs, moves, asks, held, alarm, pool>>
  BY DEF Return
<1>2. pc' \in [Callers -> Places] /\ pc'[c] = "idle" /\ pc' = [pc EXCEPT ![c] = pc'[c]]
  BY <1>0, <1>1 DEF CallersTyped, Places
<1>3. CallersTyped'
  BY <1>0, <1>1, <1>2 DEF CallersTyped
<1>4. PoolTyped'
  BY <1>0, <1>1 DEF PoolTyped, pool
<1>5. /\ got'[c] = None
      /\ \A d \in Callers \ {c} : /\ session'[d] = session[d] /\ ticket'[d] = ticket[d]
                                  /\ ctx'[d] = ctx[d] /\ got'[d] = got[d] /\ phase'[d] = phase[d]
  BY <1>0, <1>1 DEF CallersTyped, SessionTyped
<1> QED BY <1>1, <1>2, <1>3, <1>4, <1>5 DEF Beside, Calm, Places

\* The steps of a caller that leave the pool alone.
Looks(c) ==
    \/ DigestKnown(c) \/ DigestAfresh(c)
    \/ WalkedSession(c) \/ WalkedBefore(c) \/ WalkedAfter(c) \/ WalkFails(c)
    \/ ServeRemembered(c) \/ DigestBefore(c) \/ Answered(c)
    \/ RunJoin(c) \/ RunStart(c) \/ Spawned(c) \/ Settle(c) \/ RunEnds(c)
    \/ JoinEnds(c) \/ JoinGivesUp(c)

LEMMA LooksBeside ==
    ASSUME PoolInv, SessionTyped, NEW c \in Callers, Looks(c)
    PROVE  Beside(c)
<1>0. CallersTyped /\ PoolTyped
  BY DEF PoolInv
<1>1. left \in Budget /\ (Mishap => left' \in Budget)
  BY <1>0, MishapTyped DEF PoolTyped
<1>2. pc[c] # "answered" /\ ~(pc[c] = "walk" /\ phase[c] = "after") => got[c] = None
  BY DEF PoolInv, Gots
<1>3. phase \in [Callers -> {"session", "before", "after", None}]
  BY DEF SessionTyped
<1>4. ASSUME DigestKnown(c) PROVE Beside(c)
  <2>1. PICK there \in {"acquire", "lookup"} : pc' = [pc EXCEPT ![c] = there]
    BY <1>4 DEF DigestKnown
  <2> QED BY <2>1, <1>1, <1>2, <1>4, MovesOn DEF DigestKnown, Calm, Places
<1>5. ASSUME DigestAfresh(c) \/ DigestBefore(c) PROVE Beside(c)
  <2>1. /\ pc[c] \in {"look", "lookup"} /\ pc' = [pc EXCEPT ![c] = "walk"]
        /\ \E kind \in {"session", "before"} : phase' = [phase EXCEPT ![c] = kind]
        /\ UNCHANGED poolRest /\ left' = left
    BY <1>5 DEF DigestAfresh, DigestBefore, WalkHead
  <2>2. \A d \in Callers \ {c} : phase'[d] = phase[d]
    BY <2>1, <1>3
  <2> QED BY <2>1, <2>2, <1>1, <1>2, MovesOn DEF Calm, Places
<1>6. ASSUME WalkedSession(c) \/ WalkedBefore(c) PROVE Beside(c)
  <2>1. /\ pc[c] = "walk" /\ phase[c] # "after"
        /\ \E there \in {"lookup", "acquire"} : pc' = [pc EXCEPT ![c] = there]
        /\ phase' = [phase EXCEPT ![c] = None]
        /\ UNCHANGED poolRest /\ left' = left
    BY <1>6 DEF WalkedSession, WalkedBefore, Walked, Goto
  <2>2. \A d \in Callers \ {c} : phase'[d] = phase[d]
    BY <2>1, <1>3
  <2> QED BY <2>1, <2>2, <1>1, <1>2, MovesOn DEF Calm, Places
<1>7. ASSUME WalkedAfter(c) PROVE Beside(c)
  BY <1>7, <1>1, Returns DEF WalkedAfter, Calm, Places
<1>8. ASSUME WalkFails(c) PROVE Beside(c)
  <2>1. pc[c] = "walk" /\ left' \in Budget
    BY <1>1, <1>8 DEF WalkFails
  <2>2. CASE Return(c, got[c].reply, TRUE)
    BY <2>1, <2>2, Returns DEF Calm, Places
  <2>3. CASE /\ phase[c] \in {"session", "before"}
             /\ pc' = [pc EXCEPT ![c] = "acquire"]
             /\ phase' = [phase EXCEPT ![c] = None]
             /\ UNCHANGED poolRest
    <3>1. \A d \in Callers \ {c} : phase'[d] = phase[d]
      BY <2>3, <1>3
    <3> QED BY <3>1, <2>1, <2>3, <1>2, MovesOn DEF Calm, Places
  <2> QED BY <2>2, <2>3, <1>8 DEF WalkFails
<1>9. ASSUME ServeRemembered(c) PROVE Beside(c)
  BY <1>9, <1>1, Returns DEF ServeRemembered, Calm, Places
<1>10. ASSUME Answered(c) PROVE Beside(c)
  <2>1. pc[c] = "answered" /\ left' = left
    BY <1>10 DEF Answered
  <2>2. CASE Return(c, got[c].reply, TRUE)
    BY <2>1, <2>2, <1>1, Returns DEF Calm, Places
  <2>3. CASE WalkHead(c, "after") /\ UNCHANGED poolRest
    <3>1. pc' = [pc EXCEPT ![c] = "walk"] /\ phase' = [phase EXCEPT ![c] = "after"]
      BY <2>3 DEF WalkHead
    <3>2. phase'[c] = "after" /\ \A d \in Callers \ {c} : phase'[d] = phase[d]
      BY <3>1, <1>3
    <3> QED BY <2>1, <2>3, <3>1, <3>2, <1>1, MovesOn DEF Calm, Places
  <2> QED BY <2>2, <2>3, <1>10 DEF Answered
<1>11. ASSUME RunJoin(c) \/ RunStart(c) \/ Spawned(c) \/ Settle(c) PROVE Beside(c)
  <2>1. /\ pc[c] \in {"declined", "spawn", "settle"}
        /\ \E there \in {"join", "spawn", "settle", "closing"} : pc' = [pc EXCEPT ![c] = there]
        /\ phase' = phase
        /\ UNCHANGED poolRest
        /\ left' \in Budget
    <3>1. CASE RunJoin(c)
      BY <3>1, <1>1 DEF RunJoin, Goto, memory
    <3>2. CASE RunStart(c)
      BY <3>2, <1>1 DEF RunStart, Goto, memory
    <3>3. CASE Spawned(c)
      BY <3>3, <1>1 DEF Spawned, Goto, memory
    <3>4. CASE Settle(c)
      BY <3>4, <1>1 DEF Settle, Goto, memory
    <3> QED BY <3>1, <3>2, <3>3, <3>4, <1>11
  <2> QED BY <2>1, <1>2, MovesOn DEF Calm, Places
<1>12. ASSUME RunEnds(c) PROVE Beside(c)
  BY <1>12, <1>1, Returns DEF RunEnds, Calm, Places
<1>13. ASSUME JoinEnds(c) PROVE Beside(c)
  <2>1. pc[c] = "join" /\ left' = left
    BY <1>13 DEF JoinEnds
  <2>2. CASE Return(c, Run(c).output, TRUE)
    BY <2>1, <2>2, <1>1, Returns DEF Calm, Places
  <2>3. CASE pc' = [pc EXCEPT ![c] = "declined"] /\ UNCHANGED <<poolRest, phase>>
    BY <2>1, <2>3, <1>1, <1>2, MovesOn DEF Calm, Places
  <2> QED BY <2>2, <2>3, <1>13 DEF JoinEnds
<1>14. ASSUME JoinGivesUp(c) PROVE Beside(c)
  BY <1>14, <1>1, Returns DEF JoinGivesUp, Calm, Places
<1> QED BY <1>4, <1>5, <1>6, <1>7, <1>8, <1>9, <1>10, <1>11, <1>12, <1>13, <1>14 DEF Looks

LEMMA ResolveBeside ==
    ASSUME PoolInv, NEW c \in Callers, NEW s \in Sessions, Resolve(c, s)
    PROVE  Beside(c)
<1>0. CallersTyped /\ PoolTyped
  BY DEF PoolInv
<1>1. /\ pc[c] = "idle" /\ pc' = [pc EXCEPT ![c] = "look"]
      /\ session' = [session EXCEPT ![c] = s]
      /\ asks' = asks + 1
      /\ ticket' = [ticket EXCEPT ![c] = asks + 1]
      /\ left.asks > 0 /\ left' = [left EXCEPT !.asks = @ - 1]
      /\ UNCHANGED <<refs, moves, ctx, held, got, alarm, pool, phase>>
  BY DEF Resolve, Ask, Goto, memory
<1>2. got[c] = None
  BY <1>1 DEF PoolInv, Gots
<1>3. pc' \in [Callers -> Places] /\ pc'[c] = "look" /\ pc' = [pc EXCEPT ![c] = pc'[c]]
  BY <1>0, <1>1 DEF CallersTyped, Places
<1>4. /\ session' \in [Callers -> Sessions \cup {None}] /\ ticket' \in [Callers -> Nat]
      /\ session'[c] = s
      /\ \A d \in Callers \ {c} : session'[d] = session[d] /\ ticket'[d] = ticket[d]
  BY <1>0, <1>1 DEF CallersTyped
<1>5. CallersTyped'
  BY <1>0, <1>1, <1>3, <1>4 DEF CallersTyped
<1>6. PoolTyped'
  <2>1. left \in Budget
    BY <1>0 DEF PoolTyped
  <2>2. left' \in Budget
    BY <2>1, <1>1 DEF Budget
  <2> QED BY <2>2, <1>0, <1>1 DEF PoolTyped, pool
<1> QED BY <1>1, <1>2, <1>3, <1>4, <1>5, <1>6 DEF Beside, Calm, Places

\* Every step keeps what holds of the pool.
LEMMA PoolNext == ASSUME PoolInv, SessionTyped, [Next]_vars PROVE PoolInv'
<1>1. ASSUME NEW c \in Callers, Looks(c) PROVE PoolInv'
  BY <1>1, LooksBeside, BesideKeeps
<1>2. ASSUME NEW c \in Callers, NEW s \in Sessions, Resolve(c, s) PROVE PoolInv'
  BY <1>2, ResolveBeside, BesideKeeps
<1>3. ASSUME NEW c \in Callers, PoolStep(c), UNCHANGED others PROVE PoolInv'
  BY <1>3, PoolStepKeeps DEF others, memory
<1>4. ASSUME NEW s \in Sessions, Close(s), UNCHANGED others PROVE PoolInv'
  BY <1>4, CloseKeeps DEF others, memory
<1>5. ASSUME NEW c \in Callers, Cancel(c), UNCHANGED others PROVE PoolInv'
  BY <1>5, CancelKeeps DEF others, memory
<1>6. ASSUME NEW p \in DOMAIN procs, ProcessStep(p) \/ Die(p), UNCHANGED others PROVE PoolInv'
  BY <1>6, ProcessKeeps DEF others, memory
<1>7. ASSUME MoveSeen PROVE PoolInv'
  BY <1>7, MoveKeeps DEF MoveSeen, memory
<1>8. CASE UNCHANGED vars
  <2>1. UNCHANGED <<refs, moves, pc, session, ctx, ticket, asks, held, got, alarm, procs, idle, live,
                    failures, closed, left, phase>>
    BY <1>8 DEF vars, poolVars, caller, pool, memory
  <2>2. /\ refs \in Refs /\ moves \in Nat /\ left \in Budget /\ procs \in Seq(Process)
        /\ ctx \in [Callers -> {"live", "cancelled"}] /\ alarm \in [Callers -> BOOLEAN]
        /\ \A d \in Callers : pc[d] = "asleep" => ctx[d] = "live" \/ alarm[d]
    BY DEF PoolInv, CallersTyped, PoolTyped, Sleepers
  <2>3. InPlace
    BY <2>1, <2>2 DEF InPlace
  <2> QED BY <2>3, InPlaceKeeps
<1> QED BY <1>1, <1>2, <1>3, <1>4, <1>5, <1>6, <1>7, <1>8 DEF Next, Step, Looks
-----------------------------------------------------------------------------
(***************************************************************************)
(* What the session knows: steps that leave most of it as it is.           *)
(***************************************************************************)

\* Nothing about caller c changes.
Alike(c) ==
    /\ pc'[c] = pc[c] /\ session'[c] = session[c] /\ got'[c] = got[c] /\ phase'[c] = phase[c]
    /\ walk'[c] = walk[c] /\ since'[c] = since[c] /\ under'[c] = under[c] /\ before'[c] = before[c]
    /\ pc[c] = "read" => procs'[held'[c]].pipe = procs[held[c]].pipe

LEMMA AlikeSound ==
    ASSUME NEW c \in Callers, SoundFor(c), Alike(c), refs' = refs, moves' = moves, seen' = seen
    PROVE  SoundFor(c)'
<1>1. ReplySeen(c)'
  BY DEF SoundFor, ReplySeen, Alike
<1>2. WalkTrue(c)' /\ LookupTrue(c)'
  BY DEF SoundFor, WalkTrue, LookupTrue, DigestSeen, HeadCommit, Alike
<1>3. WindowTrue(c)'
  BY DEF SoundFor, WindowTrue, Window, Replied, HeadCommit, Alike
<1> QED BY <1>1, <1>2, <1>3 DEF SoundFor

AtPool == {"acquire", "asleep", "send", "read", "answered", "declined"}

\* Caller c moves within the pool, where it may read the answer in its pipe.
WithinPool(c) ==
    /\ pc[c] \in AtPool /\ pc'[c] \in AtPool
    /\ session'[c] = session[c] /\ phase'[c] = phase[c]
    /\ walk'[c] = walk[c] /\ since'[c] = since[c] /\ under'[c] = under[c] /\ before'[c] = before[c]
    /\ pc'[c] = "read" => procs'[held'[c]].pipe[1].reply = None
    /\ pc'[c] = "answered" => /\ pc[c] = "read" /\ got'[c] \in Reply
                              /\ procs[held[c]].pipe[1].reply # None
                              /\ got'[c].reply = procs[held[c]].pipe[1].reply
    /\ pc[c] = "declined" => pc'[c] = "declined"

LEMMA WithinPoolSound ==
    ASSUME NEW c \in Callers, SoundFor(c), WithinPool(c), refs' = refs, moves' = moves, seen' = seen
    PROVE  SoundFor(c)'
<1>1. ReplySeen(c)'
  BY DEF SoundFor, ReplySeen, WithinPool, AtPool
<1>2. WalkTrue(c)' /\ LookupTrue(c)'
  BY DEF SoundFor, WalkTrue, LookupTrue, WithinPool, AtPool
<1>3. WindowTrue(c)'
  BY DEF SoundFor, WindowTrue, Window, Replied, HeadCommit, WithinPool, AtPool
<1> QED BY <1>1, <1>2, <1>3 DEF SoundFor

AtRuns == {"join", "spawn", "settle", "closing"}

\* Nobody starts or ends a call of rev-parse, or begins to wait for one.
RunsRest ==
    /\ UNCHANGED <<memo, runs>>
    /\ \A c \in Callers : Runner(c) \/ pc'[c] \in AtRuns =>
         /\ pc'[c] = pc[c] /\ session'[c] = session[c] /\ session[c] \in Sessions
         /\ join'[c] = join[c]
         /\ ctx'[c] = ctx[c] \/ ctx'[c] = "cancelled"
    /\ \A s \in Sessions : seen[s] \subseteq seen'[s]

LEMMA RunsRestKeeps ==
    ASSUME RunsSeen, Runners, CancelledCalls, RunsRest
    PROVE  RunsSeen' /\ Runners' /\ CancelledCalls'
<1>1. /\ \A c \in Callers : Runner(c)' <=> Runner(c)
      /\ \A c \in Callers : Runner(c) \/ pc'[c] = "join" =>
           /\ pc'[c] = pc[c] /\ session'[c] = session[c] /\ session[c] \in Sessions
           /\ join'[c] = join[c]
           /\ ctx'[c] = ctx[c] \/ ctx'[c] = "cancelled"
      /\ \A c \in Callers : pc'[c] \in {"spawn", "settle"} => pc[c] = pc'[c] /\ Runner(c)
      /\ \A c \in Callers : pc[c] \in {"spawn", "settle"} => pc[c] = pc'[c] /\ Runner(c)
      /\ \A s \in Sessions : seen[s] \subseteq seen'[s]
      /\ runs' = runs /\ memo' = memo
  BY DEF RunsRest, Runner, AtRuns
<1>2. RunsSeen'
  BY <1>1 DEF RunsSeen, Run
<1>3. Runners'
  BY <1>1 DEF Runners, Run
<1>4. CancelledCalls'
  BY <1>1 DEF CancelledCalls, Run
<1> QED BY <1>2, <1>3, <1>4

\* A step of the pool: what the session knows stays.
LEMMA PoolSide ==
    ASSUME IInv, UNCHANGED others, seen' = seen, refs' = refs, moves' = moves, session' = session,
           \A c \in Callers : SoundFor(c)',
           \A c \in Callers : pc'[c] = pc[c] \/ (pc[c] \in AtPool /\ pc'[c] \in AtPool),
           \A c \in Callers : ctx'[c] = ctx[c] \/ ctx'[c] = "cancelled"
    PROVE  SessionInv'
<1>1. UNCHANGED <<begun, digests, remembered, phase, walk, since, under, before, memo, runs, join>>
  BY DEF others, memory, flight
<1>2. SessionTyped' /\ FiledWhereTrue' /\ DigestsSound'
  BY <1>1 DEF IInv, SessionInv, SessionTyped, FiledWhereTrue, HeadCommit, DigestsSound, DigestSeen
<1>3. \A c \in Callers : pc'[c] # "idle" => pc[c] # "idle"
  BY DEF AtPool
<1>4. SeenSound'
  BY <1>1, <1>3 DEF IInv, SessionInv, SeenSound, HeadCommit
<1>5. \A c \in Callers : pc[c] # "idle" => session[c] \in Sessions
  BY DEF IInv, PoolInv, Seated
<1>6. RunsRest
  BY <1>1, <1>5 DEF RunsRest, Runner, AtRuns, AtPool
<1>7. RunsSeen' /\ Runners' /\ CancelledCalls'
  BY <1>6, RunsRestKeeps DEF IInv, SessionInv
<1> QED BY <1>2, <1>4, <1>7 DEF SessionInv

\* What a step of the pool leaves alone.
LEMMA PoolStepRest ==
    ASSUME NEW c \in Callers, PoolStep(c)
    PROVE  UNCHANGED <<refs, moves, session, ctx, ticket, asks>>
BY DEF PoolStep, AcquireNothing, AcquireIdle, AcquireRetires, AcquireStart, AcquireStartFails,
       AcquireWaits, AlarmRings, SendNothing, Send, SendFails, Read, ReadEnds, ReadFails, Release

\* Where the caller of the step goes, and which others are woken.
LEMMA PoolStepGoes ==
    ASSUME PoolInv, NEW c \in Callers, PoolStep(c)
    PROVE  /\ pc'[c] # pc[c] => pc[c] \in AtPool /\ pc'[c] \in AtPool /\ pc[c] # "declined"
           /\ pc'[c] = "read" => pc[c] \in {"send", "read"}
           /\ pc'[c] = "answered" => pc[c] \in {"read", "answered"}
           /\ pc[c] = "send" /\ pc'[c] = "read" => Send(c)
           /\ pc[c] = "read" /\ pc'[c] = "answered" => Read(c)
           /\ pc[c] = "read" /\ pc'[c] = "read" => AlarmRings(c)
           /\ \A d \in Callers \ {c} :
                pc'[d] = pc[d] \/ (pc[d] = "asleep" /\ pc'[d] = "acquire")
<1>0. pc \in [Callers -> Places]
  BY DEF PoolInv, CallersTyped
<1>1. CASE AcquireNothing(c) \/ AcquireIdle(c) \/ AcquireRetires(c) \/ AcquireStart(c)
             \/ AcquireStartFails(c) \/ AcquireWaits(c)
  <2>1. /\ pc[c] = "acquire"
        /\ \E there \in {"declined", "send", "asleep"} : pc' = [pc EXCEPT ![c] = there]
    BY <1>1 DEF AcquireNothing, AcquireIdle, AcquireRetires, AcquireStart, AcquireStartFails,
                AcquireWaits, Goto
  <2> QED BY <2>1, <1>0 DEF AtPool
<1>2. CASE AlarmRings(c)
  BY <1>0, <1>2 DEF AlarmRings, Broadcast, AtPool
<1>3. CASE Send(c)
  <2>1. pc[c] = "send" /\ pc' = [pc EXCEPT ![c] = "read"]
    BY <1>3 DEF Send, Goto
  <2> QED BY <2>1, <1>0, <1>3 DEF AtPool
<1>4. CASE SendNothing(c) \/ SendFails(c) \/ Read(c) \/ ReadEnds(c) \/ ReadFails(c)
  <2>1. PICK there \in {"declined", "answered"} :
          /\ \E p : Release(c, p, there)
          /\ pc[c] \in {"send", "read"}
          /\ there = "answered" => pc[c] = "read" /\ Read(c)
    <3>1. CASE SendNothing(c)
      <4>1. Release(c, Proc(c), "declined") /\ pc[c] = "send"
        BY <3>1 DEF SendNothing
      <4> QED BY <4>1
    <3>2. CASE SendFails(c) \/ ReadEnds(c) \/ ReadFails(c)
      <4>1. Release(c, Broken(Proc(c)), "declined") /\ pc[c] \in {"send", "read"}
        BY <3>2 DEF SendFails, ReadEnds, ReadFails
      <4> QED BY <4>1
    <3>3. CASE Read(c)
      <4>1. Release(c, [Proc(c) EXCEPT !.pipe = Tail(@)], "answered") /\ pc[c] = "read"
        BY <3>3 DEF Read
      <4> QED BY <3>3, <4>1
    <3> QED BY <1>4, <3>1, <3>2, <3>3
  <2>2. /\ pc'[c] = there
        /\ \A d \in Callers \ {c} : pc'[d] = pc[d] \/ (pc[d] = "asleep" /\ pc'[d] = "acquire")
    <3>1. \/ pc' = [pc EXCEPT ![c] = there]
          \/ pc' = [d \in Callers |->
                     IF session[d] = session[c] /\ [pc EXCEPT ![c] = there][d] = "asleep"
                     THEN "acquire" ELSE [pc EXCEPT ![c] = there][d]]
      BY <2>1 DEF Release, Broadcast, Session
    <3> QED BY <3>1, <1>0
  <2> QED BY <2>1, <2>2 DEF AtPool
<1> QED BY <1>1, <1>2, <1>3, <1>4 DEF PoolStep

\* What others have read, and what is in their pipes.
LEMMA PoolStepOthers ==
    ASSUME PoolInv, NEW c \in Callers, PoolStep(c), NEW d \in Callers, d # c
    PROVE  /\ got'[d] = got[d]
           /\ pc[d] = "read" => held'[d] = held[d] /\ procs'[held[d]].pipe = procs[held[d]].pipe
<1>0. CallersTyped /\ PoolTyped
  BY DEF PoolInv
<1>1. /\ got \in [Callers -> Reply \cup {None}] /\ held \in [Callers -> Nat]
  BY <1>0 DEF CallersTyped
<1>a. PICK n \in Nat : n = Len(procs) /\ DOMAIN procs = 1..n
  BY <1>0 DEF PoolTyped
<1>b. pc[d] = "read" => held[d] \in 1..n
  BY <1>a DEF PoolInv, Seated, HasProcess
<1>c. pc[c] \in {"send", "read"} /\ pc[d] = "read" => held[d] # held[c]
  BY DEF PoolInv, Apart, HasProcess
<1>2. CASE AcquireNothing(c) \/ AcquireIdle(c) \/ AcquireRetires(c) \/ AcquireStartFails(c)
             \/ AcquireWaits(c) \/ AlarmRings(c)
  <2>1. procs' = procs /\ got' = got /\ (held' = held \/ \E h : held' = [held EXCEPT ![c] = h])
    BY <1>2 DEF AcquireNothing, AcquireIdle, AcquireRetires, AcquireStartFails, AcquireWaits,
                AlarmRings, pool
  <2> QED BY <2>1, <1>1
<1>3. CASE AcquireStart(c)
  <2>1. /\ got' = got /\ \E h : held' = [held EXCEPT ![c] = h]
        /\ \E q : procs' = Append(procs, q)
    BY <1>3 DEF AcquireStart
  <2>2. pc[d] = "read" => procs'[held[d]] = procs[held[d]]
    <3>1. procs \in Seq(Process)
      BY <1>0 DEF PoolTyped
    <3> QED BY <2>1, <3>1, <1>a, <1>b
  <2> QED BY <2>1, <2>2, <1>1
<1>4. CASE Send(c)
  <2>1. pc[c] = "send" /\ got' = got /\ held' = held
    BY <1>4 DEF Send, Goto
  <2>2. \E v : procs' = [procs EXCEPT ![held[c]].pipe = v]
    BY <1>4 DEF Send
  <2>3. pc[d] = "read" => procs'[held[d]] = procs[held[d]]
    BY <2>1, <2>2, <1>a, <1>b, <1>c
  <2> QED BY <2>1, <2>3
<1>5. CASE SendNothing(c) \/ SendFails(c) \/ Read(c) \/ ReadEnds(c) \/ ReadFails(c)
  <2>1. /\ \E p, there : Release(c, p, there)
        /\ pc[c] \in {"send", "read"}
        /\ got' = got \/ \E v : got' = [got EXCEPT ![c] = v]
    BY <1>5 DEF SendNothing, SendFails, Read, ReadEnds, ReadFails
  <2>2. /\ held' = [held EXCEPT ![c] = 0]
        /\ \E r : procs' = [procs EXCEPT ![held[c]] = r]
    BY <2>1 DEF Release
  <2>3. pc[d] = "read" => procs'[held[d]] = procs[held[d]]
    BY <2>1, <2>2, <1>a, <1>b, <1>c
  <2> QED BY <2>1, <2>2, <2>3, <1>1
<1> QED BY <1>2, <1>3, <1>4, <1>5 DEF PoolStep

\* The caller of the step is where it was, or has gone on within the pool.
LEMMA PoolStepSound ==
    ASSUME IInv, NEW c \in Callers, PoolStep(c), UNCHANGED others, seen' = seen
    PROVE  SessionInv'
<1>0. PoolInv /\ PoolInv' /\ CallersTyped /\ PoolTyped
  <2>1. phase' = phase
    BY DEF others, memory
  <2> QED BY <2>1, PoolStepKeeps DEF IInv, PoolInv
<1>1. UNCHANGED <<refs, moves, session, ctx>>
  BY PoolStepRest
<1>2. UNCHANGED <<phase, walk, since, under, before>>
  BY DEF others, memory
<1>3. \A d \in Callers \ {c} : Alike(d) \/ WithinPool(d)
  <2> SUFFICES ASSUME NEW d \in Callers \ {c} PROVE Alike(d) \/ WithinPool(d)
    OBVIOUS
  <2>1. pc'[d] = pc[d] \/ (pc[d] = "asleep" /\ pc'[d] = "acquire")
    BY <1>0, PoolStepGoes
  <2>2. /\ got'[d] = got[d]
        /\ pc[d] = "read" => held'[d] = held[d] /\ procs'[held[d]].pipe = procs[held[d]].pipe
    BY <1>0, PoolStepOthers
  <2> QED BY <2>1, <2>2, <1>1, <1>2 DEF Alike, WithinPool, AtPool
<1>4. Alike(c) \/ WithinPool(c)
  <2>1. CASE pc'[c] = pc[c]
    <3>1. AlarmRings(c)
      <4>1. pc \in [Callers -> Places]
        BY <1>0 DEF CallersTyped
      <4>2. \A p : \A there \in {"declined", "answered"} : Release(c, p, there) => pc'[c] = there
        BY <4>1 DEF Release, Broadcast, Session
      <4>3. ~AcquireNothing(c) /\ ~AcquireIdle(c) /\ ~AcquireRetires(c) /\ ~AcquireStart(c)
              /\ ~AcquireStartFails(c) /\ ~AcquireWaits(c) /\ ~Send(c)
        BY <2>1, <4>1 DEF AcquireNothing, AcquireIdle, AcquireRetires, AcquireStart,
                          AcquireStartFails, AcquireWaits, Send, Goto
      <4>4. ~SendNothing(c) /\ ~SendFails(c) /\ ~Read(c) /\ ~ReadEnds(c) /\ ~ReadFails(c)
        <5>1. ~ (Release(c, Proc(c), "declined") /\ pc[c] = "send")
          BY <2>1, <4>2
        <5>2. ~ (Release(c, Broken(Proc(c)), "declined") /\ pc[c] \in {"send", "read"})
          BY <2>1, <4>2
        <5>3. ~ (Release(c, [Proc(c) EXCEPT !.pipe = Tail(@)], "answered") /\ pc[c] = "read")
          BY <2>1, <4>2
        <5> QED BY <5>1, <5>2, <5>3 DEF SendNothing, SendFails, Read, ReadEnds, ReadFails
      <4> QED BY <4>3, <4>4 DEF PoolStep
    <3>2. got' = got /\ held' = held /\ procs' = procs
      BY <3>1 DEF AlarmRings, pool
    <3> QED BY <2>1, <3>2, <1>1, <1>2 DEF Alike
  <2>2. CASE pc'[c] # pc[c]
    <3>1. pc[c] \in AtPool /\ pc'[c] \in AtPool /\ pc[c] # "declined"
      BY <2>2, <1>0, PoolStepGoes
    <3>2. ASSUME pc'[c] = "read" PROVE procs'[held'[c]].pipe[1].reply = None
      <4>1. Send(c) /\ HasProcess(c) /\ pc[c] = "send"
        BY <2>2, <3>2, <1>0, PoolStepGoes DEF HasProcess
      <4>2. Proc(c).pipe = <<>>
        BY <4>1, <1>0, HeldProcess
      <4>3. PICK h \in DOMAIN procs : h = held[c]
        BY <4>1, <1>0 DEF PoolInv, Seated, PoolTyped
      <4>4. PICK m : m = [ticket |-> ticket[c], reply |-> None]
        OBVIOUS
      <4>5. procs' = [procs EXCEPT ![h].pipe = Append(<<>>, m)] /\ held' = held
        BY <4>1, <4>2, <4>3, <4>4 DEF Send, Proc
      <4>6. procs[h] \in Process
        BY <4>3, <1>0, ProcessTyped DEF PoolTyped
      <4>7. procs'[h].pipe = Append(<<>>, m)
        BY <4>5, <4>3, <4>6 DEF Process
      <4>8. Append(<<>>, m)[1] = m
        OBVIOUS
      <4> QED BY <4>3, <4>4, <4>5, <4>7, <4>8
    <3>3. ASSUME pc'[c] = "answered"
          PROVE  /\ pc[c] = "read" /\ got'[c] \in Reply
                 /\ procs[held[c]].pipe[1].reply # None
                 /\ got'[c].reply = procs[held[c]].pipe[1].reply
      <4>1. Read(c) /\ HasProcess(c) /\ pc[c] = "read"
        BY <2>2, <3>3, <1>0, PoolStepGoes DEF HasProcess
      <4>2. Proc(c).pipe \in Seq(Reply) /\ Len(Proc(c).pipe) = 1
        BY <4>1, <1>0, HeldProcess
      <4>3. Head(Proc(c).pipe) = Proc(c).pipe[1] /\ Proc(c).pipe[1] \in Reply
        BY <4>2
      <4>4. got'[c] = Head(Proc(c).pipe) /\ Head(Proc(c).pipe).reply # None
        BY <4>1, <1>0 DEF Read, HasAnswer, CallersTyped
      <4> QED BY <4>1, <4>3, <4>4 DEF Proc
    <3> QED BY <3>1, <3>2, <3>3, <1>1, <1>2 DEF WithinPool
  <2> QED BY <2>1, <2>2
<1>5. \A d \in Callers : SoundFor(d)'
  BY <1>1, <1>3, <1>4, AlikeSound, WithinPoolSound DEF IInv, SessionInv
<1>6. \A d \in Callers : pc'[d] = pc[d] \/ (pc[d] \in AtPool /\ pc'[d] \in AtPool)
  BY <1>3, <1>4 DEF Alike, WithinPool
<1> QED BY <1>1, <1>5, <1>6, PoolSide

LEMMA CloseSound ==
    ASSUME IInv, NEW s \in Sessions, Close(s), UNCHANGED others, seen' = seen
    PROVE  SessionInv'
<1>0. CallersTyped /\ PoolTyped
  BY DEF IInv, PoolInv
<1>1. UNCHANGED <<refs, moves, session, ctx, got, held, phase, walk, since, under, before>>
  BY DEF Close, others, memory
<1>2. \A d \in Callers : pc'[d] = pc[d] \/ (pc[d] = "asleep" /\ pc'[d] = "acquire")
  BY <1>0 DEF Close, Broadcast, Session, CallersTyped
<1>3. \A p \in 1..Len(procs) : procs'[p].pipe = procs[p].pipe
  <2> SUFFICES ASSUME NEW p \in 1..Len(procs) PROVE procs'[p].pipe = procs[p].pipe
    OBVIOUS
  <2>1. procs[p] \in Process /\ p \in DOMAIN procs
    BY <1>0, ProcessTyped DEF PoolTyped
  <2>2. procs'[p] = Stopped(procs[p]) \/ procs'[p] = procs[p]
    BY <2>1 DEF Close
  <2>3. Stopped(procs[p]).pipe = procs[p].pipe
    BY <2>1 DEF Stopped, Process
  <2> QED BY <2>2, <2>3
<1>4. \A d \in Callers : pc[d] = "read" => held[d] \in 1..Len(procs)
  BY DEF IInv, PoolInv, Seated, HasProcess
<1>5. \A d \in Callers : Alike(d) \/ WithinPool(d)
  BY <1>1, <1>2, <1>3, <1>4 DEF Alike, WithinPool, AtPool
<1>6. \A d \in Callers : SoundFor(d)'
  BY <1>1, <1>5, AlikeSound, WithinPoolSound DEF IInv, SessionInv
<1>7. \A d \in Callers : pc'[d] = pc[d] \/ (pc[d] \in AtPool /\ pc'[d] \in AtPool)
  BY <1>2 DEF AtPool
<1> QED BY <1>1, <1>6, <1>7, PoolSide

LEMMA CancelSound ==
    ASSUME IInv, NEW c \in Callers, Cancel(c), UNCHANGED others, seen' = seen
    PROVE  SessionInv'
<1>0. CallersTyped /\ PoolTyped
  BY DEF IInv, PoolInv
<1>1. UNCHANGED <<refs, moves, session, pc, got, held, phase, walk, since, under, before>>
  BY DEF Cancel, others, memory
<1>2. \A d \in Callers : ctx'[d] = ctx[d] \/ ctx'[d] = "cancelled"
  BY <1>0 DEF Cancel, CallersTyped
<1>3. \A p \in 1..Len(procs) : procs'[p].pipe = procs[p].pipe
  <2> SUFFICES ASSUME NEW p \in 1..Len(procs) PROVE procs'[p].pipe = procs[p].pipe
    OBVIOUS
  <2>1. procs[p] \in Process /\ p \in DOMAIN procs
    BY <1>0, ProcessTyped DEF PoolTyped
  <2>2. procs' = procs \/ procs' = [procs EXCEPT ![held[c]].kill = TRUE]
    BY DEF Cancel
  <2> QED BY <2>1, <2>2 DEF Process
<1>4. \A d \in Callers : pc[d] = "read" => held[d] \in 1..Len(procs)
  BY DEF IInv, PoolInv, Seated, HasProcess
<1>5. \A d \in Callers : Alike(d)
  BY <1>1, <1>3, <1>4 DEF Alike
<1>6. \A d \in Callers : SoundFor(d)'
  BY <1>1, <1>5, AlikeSound DEF IInv, SessionInv
<1> QED BY <1>1, <1>2, <1>6, PoolSide

\* Git names a commit: it is of the time of every session that has begun.
LEMMA ProcessSound ==
    ASSUME IInv, NEW p \in DOMAIN procs, ProcessStep(p) \/ Die(p), UNCHANGED others, seen' = seen
    PROVE  SessionInv'
<1>0. PoolInv /\ CallersTyped /\ PoolTyped /\ p \in 1..Len(procs)
  BY DEF IInv, PoolInv, PoolTyped
<1>1. UNCHANGED <<refs, moves, session, pc, ctx, got, held, phase, walk, since, under, before>>
  BY DEF ProcessStep, Die, KillLands, GitAnswers, caller, others, memory
<1>2. \A d \in Callers : pc[d] = "read" => held[d] \in 1..Len(procs)
  BY DEF IInv, PoolInv, Seated, HasProcess
<1>3. CASE KillLands(p) \/ Die(p)
  <2>1. \A k \in 1..Len(procs) : procs'[k].pipe = procs[k].pipe
    <3> SUFFICES ASSUME NEW k \in 1..Len(procs) PROVE procs'[k].pipe = procs[k].pipe
      OBVIOUS
    <3>1. procs[k] \in Process /\ k \in DOMAIN procs
      BY <1>0, ProcessTyped DEF PoolTyped
    <3>2. \/ procs' = [procs EXCEPT ![p].kill = FALSE, ![p].up = FALSE]
          \/ procs' = [procs EXCEPT ![p].up = FALSE]
      BY <1>3 DEF KillLands, Die
    <3> QED BY <3>1, <3>2 DEF Process
  <2>2. \A d \in Callers : Alike(d)
    BY <2>1, <1>1, <1>2 DEF Alike
  <2>3. \A d \in Callers : SoundFor(d)'
    BY <2>2, <1>1, AlikeSound DEF IInv, SessionInv
  <2> QED BY <2>3, <1>1, PoolSide
<1>4. CASE GitAnswers(p)
  <2>1. PICK i \in DOMAIN procs[p].pipe :
          procs' = [procs EXCEPT ![p].pipe[i].reply = HeadCommit(refs)]
    BY <1>4 DEF GitAnswers
  <2>2. \A k \in 1..Len(procs) : k # p => procs'[k] = procs[k]
    BY <2>1, <1>0 DEF PoolTyped
  <2>3. ASSUME NEW d \in Callers, pc[d] = "read", held[d] = p
        PROVE  procs'[p].pipe[1].reply = HeadCommit(refs)
    <3>1. HasProcess(d) /\ Proc(d) = procs[p]
      BY <2>3 DEF HasProcess, Proc
    <3>2. procs[p].pipe \in Seq(Reply) /\ Len(procs[p].pipe) = 1
      BY <3>1, <2>3, <1>0, HeldProcess
    <3>3. i = 1 /\ procs[p].pipe[1] \in Reply /\ 1 \in DOMAIN procs[p].pipe
      BY <3>2
    <3>4. procs[p] \in Process /\ p \in DOMAIN procs
      BY <1>0, ProcessTyped
    <3>5. PICK q \in Process : q = procs[p]
      BY <3>4
    <3>6. PICK m \in Reply : m = q.pipe[1]
      BY <3>3, <3>5
    <3>7. procs'[p] = [q EXCEPT !.pipe = [q.pipe EXCEPT ![1] = [m EXCEPT !.reply = HeadCommit(refs)]]]
      BY <2>1, <3>3, <3>4, <3>5, <3>6
    <3>8. procs'[p].pipe = [q.pipe EXCEPT ![1] = [m EXCEPT !.reply = HeadCommit(refs)]]
      BY <3>7 DEF Process
    <3>9. procs'[p].pipe[1] = [m EXCEPT !.reply = HeadCommit(refs)]
      BY <3>3, <3>5, <3>8
    <3> QED BY <3>9 DEF Reply
  <2>4. ASSUME NEW d \in Callers PROVE SoundFor(d)'
    <3>1. SoundFor(d)
      BY DEF IInv, SessionInv
    <3>2. CASE pc[d] # "read" \/ held[d] # p
      <4>1. Alike(d)
        BY <3>2, <2>2, <1>1, <1>2 DEF Alike
      <4> QED BY <3>1, <4>1, <1>1, AlikeSound
    <3>3. CASE pc[d] = "read" /\ held[d] = p
      <4>1. procs'[p].pipe[1].reply = HeadCommit(refs)
        BY <3>3, <2>3
      <4>2. HeadCommit(refs) \in seen[session[d]]
        BY <3>3, <1>0 DEF IInv, SessionInv, SeenSound, PoolInv, Seated
      <4>3. ReplySeen(d)'
        BY <3>3, <4>1, <4>2, <1>1 DEF ReplySeen
      <4>4. WalkTrue(d)' /\ LookupTrue(d)'
        BY <3>1, <3>3, <1>1 DEF SoundFor, WalkTrue, LookupTrue
      <4>5. Replied(d, HeadCommit(refs))'
        BY <1>1 DEF Replied, HeadCommit
      <4>6. WindowTrue(d)'
        BY <3>1, <3>3, <4>1, <4>5, <1>1 DEF SoundFor, WindowTrue, Window, Replied, HeadCommit
      <4> QED BY <4>3, <4>4, <4>6 DEF SoundFor
    <3> QED BY <3>2, <3>3
  <2>5. \A d \in Callers : SoundFor(d)'
    BY <2>4
  <2> QED BY <2>5, <1>1, PoolSide
<1> QED BY <1>3, <1>4 DEF ProcessStep

\* The refs move: what HEAD names now is noted; a window that had no move before
\* this one has its first digest behind it.
LEMMA MoveSound == ASSUME IInv, PoolInv', MoveSeen PROVE SessionInv'
<1>0. CallersTyped /\ PoolTyped /\ PoolTyped' /\ SessionTyped /\ refs \in Refs /\ refs' \in Refs
      /\ moves \in Nat
  BY DEF IInv, PoolInv, SessionInv, PoolTyped
<1>1. /\ UNCHANGED <<pc, session, ctx, got, held, procs>>
      /\ UNCHANGED <<begun, digests, remembered, phase, walk, since, under, before, memo, runs, join>>
      /\ moves' = moves + 1
  BY DEF MoveSeen, Move, caller, pool, memory, flight
<1>2. \/ refs'.tips = refs.tips /\ refs'.head # refs.head
      \/ refs'.head = refs.head /\ refs'.tips[refs.head] # refs.tips[refs.head]
  <2>1. CASE \E b \in Branches \ {refs.head} : refs' = [refs EXCEPT !.head = b]
    BY <2>1, <1>0 DEF Refs
  <2>2. CASE \E x \in Commits \ {HeadCommit(refs)} : refs' = [refs EXCEPT !.tips[refs.head] = x]
    BY <2>2, <1>0 DEF Refs, HeadCommit
  <2> QED BY <2>1, <2>2 DEF MoveSeen, Move
<1>3. /\ \A s \in Sessions : seen[s] \subseteq seen'[s]
      /\ \A s \in Sessions : begun[s] => HeadCommit(refs') \in seen'[s]
      /\ \A s \in Sessions : ~begun[s] => seen'[s] = {}
  BY <1>0 DEF MoveSeen, IInv, SessionInv, SeenSound, SessionTyped
<1>4. HeadCommit(refs') \in Commits
  BY <1>0 DEF Refs, HeadCommit
<1>5. seen' \in [Sessions -> SUBSET Commits]
  <2>1. \A s \in Sessions : seen[s] \cup {HeadCommit(refs')} \in SUBSET Commits
    BY <1>0, <1>4 DEF SessionTyped
  <2> QED BY <2>1 DEF MoveSeen
<1>6. SessionTyped'
  BY <1>0, <1>1, <1>5 DEF SessionTyped
<1>7. SeenSound'
  BY <1>1, <1>3 DEF IInv, SessionInv, SeenSound
<1>8. DigestsSound' /\ FiledWhereTrue'
  BY <1>1, <1>3 DEF IInv, SessionInv, DigestsSound, DigestSeen, FiledWhereTrue, HeadCommit
<1>9. \A d \in Callers : pc[d] # "idle" =>
        session[d] \in Sessions /\ begun[session[d]] /\ seen[session[d]] \subseteq seen'[session[d]]
  BY <1>3 DEF IInv, PoolInv, Seated, SessionInv, SeenSound
<1>10. ASSUME NEW d \in Callers PROVE SoundFor(d)'
  <2>0. SoundFor(d) /\ since[d] \in Nat /\ since[d] <= moves
    BY <1>0 DEF IInv, SessionInv, SoundFor, WalkTrue, SessionTyped
  <2>1. moves' # since[d] /\ (moves' <= since[d] + 1 => moves = since[d])
    BY <2>0, <1>0, <1>1
  <2>2. ReplySeen(d)'
    BY <2>0, <1>1, <1>9 DEF SoundFor, ReplySeen
  <2>3. LookupTrue(d)'
    BY <2>0, <1>1, <1>9 DEF SoundFor, LookupTrue, DigestSeen
  <2>4. WalkTrue(d)'
    <3>1. ASSUME pc[d] = "walk", phase[d] = "session", moves = since[d]
          PROVE  refs'.tips[walk[d]] \in seen'[session[d]]
      <4>1. walk[d] = refs.head
        BY <2>0, <3>1 DEF SoundFor, WalkTrue
      <4>2. HeadCommit(refs) \in seen[session[d]] /\ HeadCommit(refs') \in seen'[session[d]]
        BY <3>1, <1>3, <1>9 DEF IInv, SessionInv, SeenSound
      <4> QED BY <3>1, <4>1, <4>2, <1>2, <1>9 DEF HeadCommit
    <3>3. since[d] <= moves'
      BY <2>0, <1>0, <1>1
    <3> QED BY <2>0, <2>1, <3>1, <3>3, <1>1 DEF SoundFor, WalkTrue
  <2>5. WindowTrue(d)'
    <3>1. ASSUME Window(d), moves = since[d]
          PROVE  /\ refs' # before[d]
                 /\ pc[d] = "walk" => got[d].reply = HeadCommit(before[d])
      <4>1. moves <= since[d] + 1
        BY <3>1, <1>0
      <4>2. refs = before[d]
        BY <2>0, <3>1, <4>1 DEF SoundFor, WindowTrue
      <4>3. pc[d] = "walk" => walk[d] = refs.head
        BY <2>0, <3>1 DEF SoundFor, WalkTrue
      <4> QED BY <2>0, <3>1, <4>1, <4>2, <4>3, <1>2 DEF SoundFor, WindowTrue
    <3>2. Window(d)' <=> Window(d)
      BY <1>1 DEF Window
    <3> QED BY <2>0, <2>1, <3>1, <3>2, <1>1 DEF SoundFor, WindowTrue, Replied, HeadCommit
  <2> QED BY <2>2, <2>3, <2>4, <2>5 DEF SoundFor
<1>11. RunsRest
  BY <1>1, <1>3, <1>9 DEF RunsRest, Runner, AtRuns
<1>12. RunsSeen' /\ Runners' /\ CancelledCalls'
  BY <1>11, RunsRestKeeps DEF IInv, SessionInv
<1> QED BY <1>6, <1>7, <1>8, <1>10, <1>12 DEF SessionInv
-----------------------------------------------------------------------------
(***************************************************************************)
(* The steps of a request, and what the session knows.                     *)
(***************************************************************************)

\* What such a step leaves alone.
LEMMA LooksFrame ==
    ASSUME IInv, NEW c \in Callers, Looks(c)
    PROVE  /\ UNCHANGED <<refs, moves, begun, seen>>
           /\ pc[c] # "idle"
           /\ pc'[c] = "idle" \/ session'[c] = session[c]
           /\ \A d \in Callers \ {c} :
                /\ walk'[d] = walk[d] /\ since'[d] = since[d] /\ under'[d] = under[d]
                /\ before'[d] = before[d] /\ join'[d] = join[d]
           /\ \A s \in Sessions \ {session[c]} : memo'[s] = memo[s] /\ digests'[s] = digests[s]
<1>0. SessionTyped /\ CallersTyped
  BY DEF IInv, SessionInv, PoolInv
<1>1. ASSUME NEW v, NEW sure, Return(c, v, sure)
      PROVE  /\ UNCHANGED <<refs, moves, begun, memo, seen>> /\ pc'[c] = "idle"
             /\ \A d \in Callers \ {c} :
                  /\ walk'[d] = walk[d] /\ since'[d] = since[d] /\ under'[d] = under[d]
                  /\ before'[d] = before[d] /\ join'[d] = join[d]
  BY <1>0, <1>1 DEF Return, SessionTyped, CallersTyped
<1>2. CASE WalkedAfter(c) \/ ServeRemembered(c) \/ RunEnds(c) \/ JoinGivesUp(c)
  <2>1. /\ \E v, sure : Return(c, v, sure)
        /\ pc[c] # "idle" /\ digests' = digests
    BY <1>2 DEF WalkedAfter, ServeRemembered, RunEnds, JoinGivesUp
  <2> QED BY <1>1, <2>1
<1>3. CASE DigestKnown(c) \/ DigestAfresh(c) \/ DigestBefore(c)
  BY <1>3, <1>0 DEF DigestKnown, DigestAfresh, DigestBefore, WalkHead, poolRest, flight, Silent,
                    SessionTyped
<1>4. CASE WalkedSession(c) \/ WalkedBefore(c)
  BY <1>4, <1>0 DEF WalkedSession, WalkedBefore, Walked, Goto, poolRest, flight, Silent,
                    SessionTyped, Session
<1>5. CASE WalkFails(c)
  <2>1. pc[c] # "idle"
    BY <1>5 DEF WalkFails
  <2>2. CASE Return(c, got[c].reply, TRUE) /\ digests' = digests
    BY <1>1, <2>1, <2>2
  <2>3. CASE /\ walk' = [walk EXCEPT ![c] = None]
             /\ digests' = IF phase[c] = "session"
                           THEN [digests EXCEPT ![Session(c)] = [at |-> Unknown, moved |-> 0]]
                           ELSE digests
             /\ UNCHANGED <<poolRest, begun, remembered, since, under, before, flight>>
             /\ Silent
    BY <2>1, <2>3, <1>0 DEF poolRest, flight, Silent, SessionTyped, Session
  <2> QED BY <2>2, <2>3, <1>5 DEF WalkFails
<1>6. CASE Answered(c)
  <2>1. pc[c] # "idle" /\ digests' = digests
    BY <1>6 DEF Answered
  <2>2. CASE Return(c, got[c].reply, TRUE)
    BY <1>1, <2>1, <2>2
  <2>3. CASE /\ WalkHead(c, "after")
             /\ UNCHANGED <<poolRest, begun, since, under, before, flight>>
             /\ Silent
    BY <2>1, <2>3, <1>0 DEF WalkHead, poolRest, flight, Silent, SessionTyped
  <2> QED BY <2>2, <2>3, <1>6 DEF Answered
<1>7. CASE RunJoin(c) \/ RunStart(c) \/ Spawned(c) \/ Settle(c)
  <2>1. /\ UNCHANGED <<poolRest, begun, memory>> /\ Silent
        /\ pc[c] # "idle"
        /\ join' = join \/ \E r : join' = [join EXCEPT ![c] = r]
        /\ memo' = memo \/ \E r : memo' = [memo EXCEPT ![session[c]] = r]
    <3>1. CASE RunJoin(c)
      BY <3>1 DEF RunJoin, Goto
    <3>2. CASE RunStart(c)
      BY <3>2 DEF RunStart, Goto, Session
    <3>3. CASE Spawned(c)
      BY <3>3 DEF Spawned, Goto
    <3>4. CASE Settle(c)
      BY <3>4 DEF Settle, Goto, Session
    <3> QED BY <3>1, <3>2, <3>3, <3>4, <1>7
  <2>2. UNCHANGED <<refs, moves, begun, seen, session, digests, walk, since, under, before>>
    BY <2>1 DEF poolRest, memory, Silent
  <2>3. \A d \in Callers \ {c} : join'[d] = join[d]
    BY <2>1, <1>0 DEF SessionTyped
  <2>4. \A s \in Sessions \ {session[c]} : memo'[s] = memo[s]
    BY <2>1, <1>0 DEF SessionTyped
  <2> QED BY <2>1, <2>2, <2>3, <2>4
<1>8. CASE JoinEnds(c)
  <2>1. pc[c] # "idle" /\ digests' = digests
    BY <1>8 DEF JoinEnds
  <2>2. CASE Return(c, Run(c).output, TRUE)
    BY <1>1, <2>1, <2>2
  <2>3. CASE UNCHANGED <<poolRest, begun, phase, walk, since, under, before, memo, join>> /\ Silent
    BY <2>1, <2>3 DEF poolRest, Silent
  <2> QED BY <2>2, <2>3, <1>8 DEF JoinEnds
<1> QED BY <1>2, <1>3, <1>4, <1>5, <1>6, <1>7, <1>8 DEF Looks

\* It is enough to look at the caller itself, and at what is remembered and run.
LEMMA LooksSide ==
    ASSUME IInv, NEW c \in Callers, Looks(c), SessionTyped', SoundFor(c)', DigestsSound',
           FiledWhereTrue', RunsSeen', Runners', CancelledCalls'
    PROVE  SessionInv'
<1>0. PoolInv /\ SessionTyped /\ Beside(c)
  BY LooksBeside DEF IInv, SessionInv
<1>1. /\ UNCHANGED <<refs, moves, begun, seen>>
      /\ pc[c] # "idle"
      /\ pc'[c] = "idle" \/ session'[c] = session[c]
      /\ \A d \in Callers \ {c} :
           /\ walk'[d] = walk[d] /\ since'[d] = since[d] /\ under'[d] = under[d]
           /\ before'[d] = before[d] /\ join'[d] = join[d]
      /\ \A s \in Sessions \ {session[c]} : memo'[s] = memo[s] /\ digests'[s] = digests[s]
  BY LooksFrame
<1>2. \A d \in Callers \ {c} : pc'[d] = pc[d]
  BY <1>0 DEF Beside, PoolInv, CallersTyped
<1>3. \A d \in Callers \ {c} : Alike(d)
  BY <1>0, <1>1, <1>2 DEF Alike, Beside, pool
<1>4. \A d \in Callers : SoundFor(d)'
  BY <1>1, <1>3, AlikeSound DEF IInv, SessionInv
<1>5. begun[session[c]]
  BY <1>1 DEF IInv, SessionInv, SeenSound
<1>6. SeenSound'
  <2>1. \A s \in Sessions : ~begun[s] => memo'[s] = 0 /\ digests'[s] = None
    BY <1>1, <1>5 DEF IInv, SessionInv, SeenSound
  <2>2. \A d \in Callers : pc'[d] # "idle" => pc[d] # "idle" /\ session'[d] = session[d]
    BY <1>0, <1>1, <1>2 DEF Beside
  <2> QED BY <2>1, <2>2, <1>1 DEF IInv, SessionInv, SeenSound, HeadCommit
<1> QED BY <1>4, <1>6 DEF SessionInv

LEMMA RunsAside ==
    ASSUME IInv, NEW c \in Callers, Looks(c), UNCHANGED <<memo, runs>>, ~Runner(c),
           pc'[c] \notin AtRuns
    PROVE  RunsSeen' /\ Runners' /\ CancelledCalls'
<1>0. PoolInv /\ SessionTyped /\ Beside(c)
  BY LooksBeside DEF IInv, SessionInv
<1>1. seen' = seen /\ \A d \in Callers \ {c} : join'[d] = join[d]
  BY LooksFrame
<1>2. \A d \in Callers \ {c} : pc'[d] = pc[d] /\ session'[d] = session[d] /\ ctx'[d] = ctx[d]
  BY <1>0 DEF Beside, PoolInv, CallersTyped
<1>3. \A d \in Callers : pc[d] # "idle" => session[d] \in Sessions
  BY <1>0 DEF PoolInv, Seated
<1>4. RunsRest
  BY <1>1, <1>2, <1>3 DEF RunsRest, Runner, AtRuns
<1> QED BY <1>4, RunsRestKeeps DEF IInv, SessionInv

\* A request that returns keeps nothing of its own.
LEMMA ReturnSound ==
    ASSUME IInv, PoolInv', NEW c \in Callers, NEW v, NEW sure, Return(c, v, sure)
    PROVE  /\ SoundFor(c)' /\ pc'[c] = "idle" /\ pc'[c] \notin AtRuns /\ memo' = memo /\ seen' = seen
           /\ DigestsSound /\ digests' = digests => DigestsSound'
           /\ (/\ digests' = digests /\ runs' \in Seq(Call)
               /\ remembered' \in [at : Refs, value : Commits, moved : Nat] \cup {None})
                 => SessionTyped'
<1>0. CallersTyped /\ SessionTyped /\ moves' \in Nat
  BY DEF IInv, PoolInv, SessionInv, PoolTyped
<1>1. /\ pc' = [pc EXCEPT ![c] = "idle"]
      /\ since' = [since EXCEPT ![c] = 0]
      /\ under' = [under EXCEPT ![c] = None]
      /\ before' = [before EXCEPT ![c] = None]
      /\ walk' = [walk EXCEPT ![c] = None]
      /\ phase' = [phase EXCEPT ![c] = None]
      /\ join' = [join EXCEPT ![c] = 0]
      /\ UNCHANGED <<begun, memo, seen>>
  BY DEF Return
<1>2. pc'[c] = "idle" /\ since'[c] = 0 /\ before'[c] = None
  BY <1>0, <1>1 DEF CallersTyped, SessionTyped
<1>3. SoundFor(c)'
  <2>1. ReplySeen(c)' /\ LookupTrue(c)' /\ WindowTrue(c)'
    BY <1>2 DEF ReplySeen, LookupTrue, WindowTrue, Window
  <2>2. WalkTrue(c)'
    BY <1>0, <1>2 DEF WalkTrue
  <2> QED BY <2>1, <2>2 DEF SoundFor
<1>4. DigestsSound /\ digests' = digests => DigestsSound'
  BY <1>1 DEF DigestsSound, DigestSeen, HeadCommit
<1>5. (/\ digests' = digests /\ runs' \in Seq(Call)
       /\ remembered' \in [at : Refs, value : Commits, moved : Nat] \cup {None})
        => SessionTyped'
  BY <1>0, <1>1 DEF SessionTyped
<1> QED BY <1>1, <1>2, <1>3, <1>4, <1>5 DEF AtRuns

\* A request that is answered from what was kept, or whose answer is, or not.
LEMMA ServesSound ==
    ASSUME IInv, PoolInv', NEW c \in Callers,
           \/ ServeRemembered(c) \/ WalkedAfter(c) \/ JoinGivesUp(c)
           \/ /\ WalkFails(c) \/ Answered(c) \/ JoinEnds(c)
              /\ \E v, sure : Return(c, v, sure)
              /\ UNCHANGED <<digests, remembered, runs>>
    PROVE  SessionInv'
<1>0. PoolInv /\ SessionTyped /\ CallersTyped /\ refs \in Refs /\ moves \in Nat
  BY DEF IInv, PoolInv, SessionInv, PoolTyped
<1>1. /\ Looks(c) /\ ~Runner(c) /\ UNCHANGED <<digests, runs>>
      /\ \E v, sure : Return(c, v, sure)
  BY DEF Looks, ServeRemembered, WalkedAfter, JoinGivesUp, WalkFails, Answered, JoinEnds, Runner
<1>2. /\ SoundFor(c)' /\ pc'[c] \notin AtRuns /\ memo' = memo /\ seen' = seen
      /\ DigestsSound'
      /\ remembered' \in [at : Refs, value : Commits, moved : Nat] \cup {None} => SessionTyped'
  BY <1>0, <1>1, ReturnSound DEF IInv, SessionInv, SessionTyped
<1>3. RunsSeen' /\ Runners' /\ CancelledCalls'
  BY <1>1, <1>2, RunsAside
<1>4. /\ FiledWhereTrue'
      /\ remembered' \in [at : Refs, value : Commits, moved : Nat] \cup {None}
  <2>1. CASE remembered' = remembered
    BY <2>1, <1>0 DEF IInv, SessionInv, FiledWhereTrue, HeadCommit, SessionTyped
  <2>2. CASE WalkedAfter(c) /\ remembered' # remembered
    <3>1. /\ pc[c] = "walk" /\ phase[c] = "after"
          /\ Digest(c) = before[c]
          /\ remembered' = [at |-> before[c], value |-> got[c].reply, moved |-> moves - since[c]]
      BY <2>2 DEF WalkedAfter
    <3>2. SoundFor(c) /\ session[c] \in Sessions
      BY <3>1, <1>0 DEF IInv, SessionInv, PoolInv, Seated
    <3>3. before[c] \in Refs /\ before[c] # None
      BY <3>1, <3>2 DEF SoundFor, WindowTrue
    <3>4. got[c] \in Reply /\ got[c].reply \in Commits
      <4>1. got[c] \in Reply /\ got[c].reply \in seen[session[c]]
        BY <3>1, <3>2 DEF SoundFor, ReplySeen
      <4> QED BY <4>1, <3>2, <1>0 DEF SessionTyped
    <3>5. since[c] \in Nat /\ since[c] <= moves
      BY <1>0, <3>2 DEF SessionTyped, SoundFor, WalkTrue
    <3>6. moves - since[c] \in Nat /\ (moves - since[c] <= 1 <=> moves <= since[c] + 1)
      BY <1>0, <3>5
    <3>7. walk[c] = before[c].head /\ refs.tips = before[c].tips
      BY <3>1, <3>3 DEF Digest
    <3>8. moves <= since[c] + 1 => got[c].reply = HeadCommit(before[c])
      BY <3>1, <3>2, <3>3, <3>7 DEF SoundFor, WindowTrue, Window
    <3> QED BY <3>1, <3>3, <3>4, <3>6, <3>8 DEF FiledWhereTrue, HeadCommit
  <2> QED BY <2>1, <2>2 DEF ServeRemembered, JoinGivesUp
<1> QED BY <1>1, <1>2, <1>3, <1>4, LooksSide

LEMMA StaysSound ==
    ASSUME IInv, NEW c \in Callers, Looks(c), ~Runner(c), pc'[c] \notin AtRuns,
           UNCHANGED <<memo, runs, remembered>>, SessionTyped', SoundFor(c)', DigestsSound'
    PROVE  SessionInv'
<1>1. RunsSeen' /\ Runners' /\ CancelledCalls'
  BY RunsAside
<1>2. FiledWhereTrue'
  BY DEF IInv, SessionInv, FiledWhereTrue, HeadCommit
<1> QED BY <1>1, <1>2, LooksSide

\* A request that goes on to another place, or to another digest.
LEMMA LooksFor ==
    ASSUME IInv, NEW c \in Callers, UNCHANGED poolRest, UNCHANGED flight, Silent
    PROVE  /\ CallersTyped /\ SessionTyped /\ refs \in Refs /\ moves \in Nat
           /\ UNCHANGED <<refs, moves, session, got, memo, runs, join, seen>>
           /\ SoundFor(c) /\ since[c] \in Nat /\ since[c] <= moves
           /\ pc[c] # "idle" =>
                session[c] \in Sessions /\ HeadCommit(refs) \in seen[session[c]]
BY DEF IInv, PoolInv, PoolTyped, Seated, SessionInv, SeenSound, SessionTyped, SoundFor, WalkTrue,
       poolRest, flight, Silent

LEMMA DigestKnownSound ==
    ASSUME IInv, NEW c \in Callers, DigestKnown(c) PROVE SessionInv'
<1>1. /\ Looks(c) /\ pc[c] = "look" /\ digests[session[c]] # None
      /\ pc' = [pc EXCEPT ![c] = IF digests[session[c]].at = Unknown THEN "acquire" ELSE "lookup"]
      /\ under' = [under EXCEPT ![c] = digests[session[c]]]
      /\ UNCHANGED <<poolRest, left, begun, digests, remembered, phase, walk, since, before, flight>>
      /\ Silent
  BY DEF DigestKnown, Looks, Session
<1>2. /\ CallersTyped /\ SessionTyped /\ refs \in Refs /\ moves \in Nat
      /\ UNCHANGED <<refs, moves, session, got, memo, runs, join, seen>>
      /\ SoundFor(c) /\ since[c] \in Nat /\ since[c] <= moves
      /\ session[c] \in Sessions
  BY <1>1, LooksFor
<1>3. PICK known \in Known : known = digests[session[c]] /\ DigestSeen(known, session[c])
  BY <1>1, <1>2 DEF SessionTyped, IInv, SessionInv, DigestsSound
<1>4. /\ pc'[c] \in {"acquire", "lookup"} /\ under'[c] = known
      /\ pc'[c] = "lookup" => known.at # Unknown
  BY <1>1, <1>2, <1>3 DEF SessionTyped, CallersTyped
<1>5. SessionTyped'
  BY <1>1, <1>2, <1>3 DEF SessionTyped
<1>6. before'[c] = None
  BY <1>1, <1>2 DEF SoundFor, WindowTrue
<1>7. ReplySeen(c)' /\ WalkTrue(c)'
  BY <1>1, <1>2, <1>4 DEF ReplySeen, WalkTrue
<1>8. LookupTrue(c)'
  BY <1>2, <1>3, <1>4 DEF LookupTrue, DigestSeen, HeadCommit, Known
<1>9. WindowTrue(c)'
  BY <1>4, <1>6 DEF WindowTrue, Window
<1>10. DigestsSound'
  BY <1>1, <1>2 DEF IInv, SessionInv, DigestsSound, DigestSeen, HeadCommit
<1> QED BY <1>1, <1>2, <1>4, <1>5, <1>7, <1>8, <1>9, <1>10, StaysSound DEF SoundFor, Runner, AtRuns

LEMMA DigestBegins ==
    ASSUME IInv, NEW c \in Callers, DigestAfresh(c) \/ DigestBefore(c) PROVE SessionInv'
<1>1. PICK kind \in {"session", "before"} :
        /\ pc[c] \in {"look", "lookup"} /\ pc' = [pc EXCEPT ![c] = "walk"]
        /\ phase' = [phase EXCEPT ![c] = kind] /\ walk' = [walk EXCEPT ![c] = refs.head]
        /\ since' = [since EXCEPT ![c] = moves]
        /\ UNCHANGED <<poolRest, left, begun, digests, remembered, under, before, flight>>
        /\ Silent
  BY DEF DigestAfresh, DigestBefore, WalkHead
<1>2. /\ CallersTyped /\ SessionTyped /\ refs \in Refs /\ moves \in Nat
      /\ UNCHANGED <<refs, moves, session, got, memo, runs, join, seen>>
      /\ SoundFor(c)
      /\ session[c] \in Sessions /\ HeadCommit(refs) \in seen[session[c]]
  BY <1>1, LooksFor
<1>3. /\ pc'[c] = "walk" /\ phase'[c] = kind /\ walk'[c] = refs.head /\ since'[c] = moves
      /\ refs.head \in Branches
  BY <1>1, <1>2 DEF SessionTyped, CallersTyped, Refs
<1>4. SessionTyped'
  BY <1>1, <1>2, <1>3 DEF SessionTyped
<1>5. before'[c] = None
  BY <1>1, <1>2 DEF SoundFor, WindowTrue
<1>6. ReplySeen(c)' /\ LookupTrue(c)'
  BY <1>1, <1>3 DEF ReplySeen, LookupTrue
<1>7. WalkTrue(c)'
  BY <1>2, <1>3 DEF WalkTrue, HeadCommit
<1>8. WindowTrue(c)'
  BY <1>3, <1>5 DEF WindowTrue, Window
<1>9. DigestsSound'
  BY <1>1, <1>2 DEF IInv, SessionInv, DigestsSound, DigestSeen, HeadCommit
<1>10. Looks(c)
  BY DEF Looks
<1> QED BY <1>1, <1>2, <1>3, <1>4, <1>6, <1>7, <1>8, <1>9, <1>10, StaysSound DEF SoundFor, Runner, AtRuns

LEMMA WalkedSessionSound ==
    ASSUME IInv, NEW c \in Callers, WalkedSession(c) PROVE SessionInv'
<1>1. PICK digest :
        /\ digest = [at |-> Digest(c), moved |-> moves - since[c]]
        /\ pc[c] = "walk" /\ phase[c] = "session" /\ pc' = [pc EXCEPT ![c] = "lookup"]
        /\ walk' = [walk EXCEPT ![c] = None] /\ phase' = [phase EXCEPT ![c] = None]
        /\ digests' = [digests EXCEPT ![session[c]] = digest]
        /\ under' = [under EXCEPT ![c] = digest]
        /\ UNCHANGED <<poolRest, left, begun, remembered, since, before, flight>>
        /\ Silent
  BY DEF WalkedSession, Walked, Goto, Session
<1>2. /\ CallersTyped /\ SessionTyped /\ refs \in Refs /\ moves \in Nat
      /\ UNCHANGED <<refs, moves, session, got, memo, runs, join, seen>>
      /\ SoundFor(c) /\ since[c] \in Nat /\ since[c] <= moves
      /\ session[c] \in Sessions
  BY <1>1, LooksFor
<1>3. walk[c] \in Branches /\ (moves <= since[c] + 1 => refs.tips[walk[c]] \in seen[session[c]])
  BY <1>1, <1>2 DEF SoundFor, WalkTrue
<1>4. /\ digest.at \in Refs /\ digest \in Known
      /\ HeadCommit(digest.at) = refs.tips[walk[c]]
      /\ digest.moved <= 1 <=> moves <= since[c] + 1
  <2>1. Digest(c) \in Refs /\ HeadCommit(Digest(c)) = refs.tips[walk[c]]
    BY <1>2, <1>3 DEF Digest, Refs, HeadCommit
  <2>2. moves - since[c] \in Nat /\ (moves - since[c] <= 1 <=> moves <= since[c] + 1)
    BY <1>2
  <2> QED BY <2>1, <2>2, <1>1 DEF Known
<1>5. DigestSeen(digest, session[c])
  BY <1>3, <1>4 DEF DigestSeen
<1>6. pc'[c] = "lookup" /\ under'[c] = digest
  BY <1>1, <1>2 DEF SessionTyped, CallersTyped
<1>7. SessionTyped'
  BY <1>1, <1>2, <1>4 DEF SessionTyped
<1>8. before'[c] = None
  BY <1>1, <1>2 DEF SoundFor, WindowTrue
<1>9. ReplySeen(c)' /\ WalkTrue(c)'
  BY <1>1, <1>2, <1>6 DEF ReplySeen, WalkTrue
<1>10. LookupTrue(c)'
  BY <1>2, <1>4, <1>5, <1>6 DEF LookupTrue, DigestSeen, HeadCommit
<1>11. WindowTrue(c)'
  BY <1>6, <1>8 DEF WindowTrue, Window
<1>12. DigestsSound'
  <2>1. \A s \in Sessions : digests'[s] = IF s = session[c] THEN digest ELSE digests[s]
    BY <1>1, <1>2 DEF SessionTyped
  <2> QED BY <2>1, <1>2, <1>5 DEF IInv, SessionInv, DigestsSound, DigestSeen, HeadCommit
<1>13. Looks(c)
  BY DEF Looks
<1> QED BY <1>1, <1>2, <1>6, <1>7, <1>9, <1>10, <1>11, <1>12, <1>13, StaysSound
        DEF SoundFor, Runner, AtRuns

LEMMA WalkedBeforeSound ==
    ASSUME IInv, NEW c \in Callers, WalkedBefore(c) PROVE SessionInv'
<1>1. /\ pc[c] = "walk" /\ phase[c] = "before" /\ pc' = [pc EXCEPT ![c] = "acquire"]
      /\ walk' = [walk EXCEPT ![c] = None] /\ phase' = [phase EXCEPT ![c] = None]
      /\ before' = [before EXCEPT ![c] = Digest(c)]
      /\ UNCHANGED <<poolRest, left, begun, digests, remembered, since, under, flight>>
      /\ Silent /\ Looks(c)
  BY DEF WalkedBefore, Walked, Goto, Looks
<1>2. /\ CallersTyped /\ SessionTyped /\ refs \in Refs /\ moves \in Nat
      /\ UNCHANGED <<refs, moves, session, got, memo, runs, join, seen>>
      /\ SoundFor(c) /\ since[c] \in Nat /\ since[c] <= moves
  BY <1>1, LooksFor
<1>3. /\ walk[c] \in Branches /\ Digest(c) \in Refs
      /\ moves = since[c] => refs = Digest(c)
  BY <1>1, <1>2 DEF SoundFor, WalkTrue, Digest, Refs
<1>4. pc'[c] = "acquire" /\ before'[c] = Digest(c)
  BY <1>1, <1>2 DEF SessionTyped, CallersTyped
<1>5. SessionTyped'
  BY <1>1, <1>2, <1>3 DEF SessionTyped
<1>6. ReplySeen(c)' /\ WalkTrue(c)' /\ LookupTrue(c)'
  BY <1>1, <1>2, <1>4 DEF ReplySeen, WalkTrue, LookupTrue
<1>7. WindowTrue(c)'
  BY <1>1, <1>2, <1>3, <1>4 DEF WindowTrue, Window
<1>8. DigestsSound'
  BY <1>1, <1>2 DEF IInv, SessionInv, DigestsSound, DigestSeen, HeadCommit
<1> QED BY <1>1, <1>2, <1>4, <1>5, <1>6, <1>7, <1>8, StaysSound DEF SoundFor, Runner, AtRuns

LEMMA WalkFailsSound ==
    ASSUME IInv, PoolInv', NEW c \in Callers, WalkFails(c) PROVE SessionInv'
<1>1. CASE Return(c, got[c].reply, TRUE) /\ UNCHANGED <<digests, remembered, runs>>
  BY <1>1, ServesSound
<1>2. CASE /\ phase[c] \in {"session", "before"}
           /\ pc' = [pc EXCEPT ![c] = "acquire"]
           /\ walk' = [walk EXCEPT ![c] = None]
           /\ phase' = [phase EXCEPT ![c] = None]
           /\ digests' = IF phase[c] = "session"
                         THEN [digests EXCEPT ![Session(c)] = [at |-> Unknown, moved |-> 0]]
                         ELSE digests
           /\ UNCHANGED <<poolRest, begun, remembered, since, under, before, flight>>
           /\ Silent
  <2>0. pc[c] = "walk" /\ Looks(c)
    BY DEF WalkFails, Looks
  <2>1. /\ CallersTyped /\ SessionTyped /\ refs \in Refs /\ moves \in Nat
        /\ UNCHANGED <<refs, moves, session, got, memo, runs, join, seen>>
        /\ SoundFor(c) /\ since[c] \in Nat /\ since[c] <= moves
        /\ session[c] \in Sessions
    BY <1>2, <2>0, LooksFor
  <2>2. PICK digest : digest = [at |-> Unknown, moved |-> 0]
    OBVIOUS
  <2>3. digest \in Known /\ DigestSeen(digest, session[c])
    <3>1. None \notin Branches
      BY PoolAssumption
    <3>2. Unknown \notin Refs
      BY <3>1 DEF Unknown, Refs
    <3> QED BY <2>2, <3>2 DEF Known, DigestSeen
  <2>4. \A s \in Sessions : digests'[s] = IF phase[c] = "session" /\ s = session[c]
                                          THEN digest ELSE digests[s]
    BY <1>2, <2>1, <2>2 DEF SessionTyped, Session
  <2>5. pc'[c] = "acquire" /\ before'[c] = None
    BY <1>2, <2>0, <2>1 DEF SoundFor, WindowTrue, CallersTyped
  <2>6. SessionTyped'
    BY <1>2, <2>1, <2>2, <2>3 DEF SessionTyped, Session
  <2>7. ReplySeen(c)' /\ WalkTrue(c)' /\ LookupTrue(c)'
    BY <1>2, <2>1, <2>5 DEF ReplySeen, WalkTrue, LookupTrue
  <2>8. WindowTrue(c)'
    BY <2>5 DEF WindowTrue, Window
  <2>9. DigestsSound'
    BY <2>1, <2>3, <2>4 DEF IInv, SessionInv, DigestsSound, DigestSeen, HeadCommit
  <2> QED BY <1>2, <2>0, <2>1, <2>5, <2>6, <2>7, <2>8, <2>9, StaysSound DEF SoundFor, Runner, AtRuns
<1> QED BY <1>1, <1>2 DEF WalkFails

LEMMA AnsweredSound ==
    ASSUME IInv, PoolInv', NEW c \in Callers, Answered(c) PROVE SessionInv'
<1>1. CASE Return(c, got[c].reply, TRUE) /\ UNCHANGED runs
  BY <1>1, ServesSound DEF Answered
<1>2. CASE /\ before[c] # None
           /\ WalkHead(c, "after")
           /\ UNCHANGED <<poolRest, begun, since, under, before, flight>>
           /\ Silent
  <2>0. pc[c] = "answered" /\ Looks(c) /\ UNCHANGED <<digests, remembered>>
    BY DEF Answered, Looks
  <2>1. /\ CallersTyped /\ SessionTyped /\ refs \in Refs /\ moves \in Nat
        /\ UNCHANGED <<refs, moves, session, got, memo, runs, join, seen>>
        /\ SoundFor(c) /\ since[c] \in Nat /\ since[c] <= moves
    BY <1>2, <2>0, LooksFor
  <2>2. /\ pc'[c] = "walk" /\ phase'[c] = "after" /\ walk'[c] = refs.head
        /\ refs.head \in Branches /\ before[c] \in Refs \ {None}
        /\ since'[c] = since[c] /\ before'[c] = before[c]
    BY <1>2, <2>1 DEF WalkHead, SessionTyped, CallersTyped, Refs
  <2>3. SessionTyped'
    BY <1>2, <2>0, <2>1, <2>2 DEF WalkHead, SessionTyped
  <2>4. ReplySeen(c)'
    BY <2>0, <2>1, <2>2 DEF SoundFor, ReplySeen
  <2>5. WalkTrue(c)' /\ LookupTrue(c)'
    BY <2>1, <2>2 DEF WalkTrue, LookupTrue
  <2>6. WindowTrue(c)'
    <3>1. refs.head = before[c].head /\ refs.tips = before[c].tips => refs = before[c]
      BY <2>1, <2>2 DEF Refs
    <3> QED BY <2>0, <2>1, <2>2, <3>1 DEF SoundFor, WindowTrue, Window, Replied, HeadCommit
  <2>7. DigestsSound'
    BY <2>0, <2>1 DEF IInv, SessionInv, DigestsSound, DigestSeen, HeadCommit
  <2> QED BY <2>0, <2>1, <2>2, <2>3, <2>4, <2>5, <2>6, <2>7, StaysSound DEF SoundFor, Runner, AtRuns
<1> QED BY <1>1, <1>2 DEF Answered

LEMMA JoinEndsSound ==
    ASSUME IInv, PoolInv', NEW c \in Callers, JoinEnds(c) PROVE SessionInv'
<1>1. CASE Return(c, Run(c).output, TRUE)
  BY <1>1, ServesSound DEF JoinEnds
<1>2. CASE /\ pc' = [pc EXCEPT ![c] = "declined"]
           /\ UNCHANGED <<poolRest, begun, phase, walk, since, under, before, memo, join>>
           /\ Silent
  <2>0. pc[c] = "join" /\ Looks(c) /\ UNCHANGED <<digests, remembered, runs>>
    BY DEF JoinEnds, Looks
  <2>1. /\ CallersTyped /\ SessionTyped /\ refs \in Refs /\ moves \in Nat
        /\ UNCHANGED <<refs, moves, session, got, memo, runs, join, seen>>
        /\ SoundFor(c) /\ since[c] \in Nat /\ since[c] <= moves
    BY <1>2, <2>0, LooksFor DEF flight
  <2>2. pc'[c] = "declined"
    BY <1>2, <2>1 DEF CallersTyped
  <2>3. SessionTyped'
    BY <1>2, <2>0, <2>1 DEF SessionTyped
  <2>4. ReplySeen(c)' /\ WalkTrue(c)' /\ LookupTrue(c)'
    BY <1>2, <2>1, <2>2 DEF ReplySeen, WalkTrue, LookupTrue
  <2>5. WindowTrue(c)'
    BY <2>2 DEF WindowTrue, Window
  <2>6. DigestsSound'
    BY <2>0, <2>1 DEF IInv, SessionInv, DigestsSound, DigestSeen, HeadCommit
  <2> QED BY <2>0, <2>1, <2>2, <2>3, <2>4, <2>5, <2>6, StaysSound DEF SoundFor, Runner, AtRuns
<1> QED BY <1>1, <1>2 DEF JoinEnds
-----------------------------------------------------------------------------
(***************************************************************************)
(* The calls of rev-parse.                                                 *)
(***************************************************************************)

\* What such a step leaves alone: what is remembered, and every other caller.
LEMMA CallsFrame ==
    ASSUME IInv, NEW c \in Callers, RunJoin(c) \/ RunStart(c) \/ Spawned(c) \/ Settle(c) \/ RunEnds(c)
    PROVE  /\ Looks(c) /\ SessionTyped /\ CallersTyped /\ session[c] \in Sessions /\ seen' = seen
           /\ pc[c] \in {"declined", "spawn", "settle", "closing"}
           /\ UNCHANGED <<digests, remembered, refs, begun>>
           /\ \A d \in Callers \ {c} :
                /\ pc'[d] = pc[d] /\ session'[d] = session[d] /\ ctx'[d] = ctx[d]
                /\ join'[d] = join[d]
<1>0. PoolInv /\ SessionTyped /\ CallersTyped /\ Looks(c)
  BY DEF IInv, SessionInv, PoolInv, Looks
<1>1. Beside(c) /\ UNCHANGED <<refs, begun, seen>> /\ \A d \in Callers \ {c} : join'[d] = join[d]
  BY <1>0, LooksBeside, LooksFrame
<1>2. \A d \in Callers \ {c} : pc'[d] = pc[d] /\ session'[d] = session[d] /\ ctx'[d] = ctx[d]
  BY <1>0, <1>1 DEF Beside, CallersTyped
<1>3. pc[c] \in {"declined", "spawn", "settle", "closing"} /\ UNCHANGED <<digests, remembered>>
  BY DEF RunJoin, RunStart, Spawned, Settle, RunEnds, Goto, memory
<1> QED BY <1>0, <1>1, <1>2, <1>3 DEF PoolInv, Seated

\* It is enough to look at the calls.
LEMMA CallsSide ==
    ASSUME IInv, NEW c \in Callers, RunJoin(c) \/ RunStart(c) \/ Spawned(c) \/ Settle(c),
           memo' \in [Sessions -> Nat], runs' \in Seq(Call), join' \in [Callers -> Nat],
           RunsSeen', Runners', CancelledCalls'
    PROVE  SessionInv'
<1>1. /\ Looks(c) /\ SessionTyped /\ CallersTyped /\ seen' = seen
      /\ UNCHANGED <<digests, remembered, refs, begun>>
  BY CallsFrame
<1>2. pc[c] # "idle" /\ moves' = moves
  BY <1>1, LooksFrame
<1>3. UNCHANGED memory /\ \E there \in AtRuns : pc' = [pc EXCEPT ![c] = there]
  BY DEF RunJoin, RunStart, Spawned, Settle, Goto, AtRuns
<1>4. UNCHANGED <<phase, walk, since, under, before>> /\ pc'[c] \in AtRuns
  BY <1>1, <1>3 DEF memory, CallersTyped
<1>5. SessionTyped'
  BY <1>1, <1>4 DEF SessionTyped
<1>6. DigestsSound' /\ FiledWhereTrue'
  BY <1>1 DEF IInv, SessionInv, DigestsSound, DigestSeen, FiledWhereTrue, HeadCommit
<1>7. since[c] <= moves
  BY DEF IInv, SessionInv, SoundFor, WalkTrue
<1>8. SoundFor(c)'
  BY <1>2, <1>4, <1>7 DEF SoundFor, ReplySeen, WalkTrue, LookupTrue, WindowTrue, Window, AtRuns
<1> QED BY <1>1, <1>5, <1>6, <1>8, LooksSide

LEMMA RunJoinSound ==
    ASSUME IInv, NEW c \in Callers, RunJoin(c) PROVE SessionInv'
<1>1. /\ SessionTyped /\ CallersTyped /\ session[c] \in Sessions /\ seen' = seen
      /\ \A d \in Callers \ {c} :
           /\ pc'[d] = pc[d] /\ session'[d] = session[d] /\ ctx'[d] = ctx[d]
           /\ join'[d] = join[d]
  BY CallsFrame
<1>2. /\ pc[c] = "declined" /\ pc' = [pc EXCEPT ![c] = "join"] /\ memo[session[c]] # 0
      /\ join' = [join EXCEPT ![c] = memo[session[c]]]
      /\ UNCHANGED <<memo, runs, session>>
  BY DEF RunJoin, Goto, Session, poolRest
<1>3. /\ pc'[c] = "join" /\ join'[c] = memo[session[c]]
      /\ \A d \in Callers : Runner(d)' <=> Runner(d)
      /\ ~Runner(c)
  BY <1>1, <1>2 DEF Runner, SessionTyped, CallersTyped
<1>4. join' \in [Callers -> Nat]
  BY <1>1, <1>2 DEF SessionTyped
<1>5. RunsSeen'
  BY <1>1, <1>2, <1>3 DEF IInv, SessionInv, RunsSeen, Run
<1>6. Runners' /\ CancelledCalls'
  BY <1>1, <1>2, <1>3 DEF IInv, SessionInv, Runners, CancelledCalls, Run, Runner
<1> QED BY <1>1, <1>2, <1>4, <1>5, <1>6, CallsSide DEF SessionTyped

LEMMA RunStartSound ==
    ASSUME IInv, NEW c \in Callers, RunStart(c) PROVE SessionInv'
<1>1. /\ SessionTyped /\ CallersTyped /\ session[c] \in Sessions /\ seen' = seen
      /\ \A d \in Callers \ {c} :
           /\ pc'[d] = pc[d] /\ session'[d] = session[d] /\ ctx'[d] = ctx[d]
           /\ join'[d] = join[d]
  BY CallsFrame
<1>a. PICK call : call = [done |-> FALSE, cancelled |-> FALSE, output |-> None]
  OBVIOUS
<1>b. PICK n \in Nat : n = Len(runs)
  BY <1>1 DEF SessionTyped
<1>2. /\ call = [done |-> FALSE, cancelled |-> FALSE, output |-> None] /\ n = Len(runs)
      /\ pc[c] = "declined" /\ pc' = [pc EXCEPT ![c] = "spawn"] /\ memo[session[c]] = 0
      /\ runs' = Append(runs, call)
      /\ memo' = [memo EXCEPT ![session[c]] = n + 1]
      /\ join' = [join EXCEPT ![c] = n + 1]
      /\ UNCHANGED session
  BY <1>a, <1>b DEF RunStart, Goto, Session, poolRest
<1>3. /\ pc'[c] = "spawn" /\ join'[c] = n + 1 /\ ~Runner(c)
      /\ \A d \in Callers \ {c} : Runner(d)' <=> Runner(d)
      /\ \A s \in Sessions : memo'[s] = IF s = session[c] THEN n + 1 ELSE memo[s]
  BY <1>1, <1>2 DEF Runner, SessionTyped, CallersTyped
<1>4. /\ call \in Call /\ call.output = None /\ ~call.done /\ ~call.cancelled
      /\ None \notin Commits /\ None # "killed"
  BY <1>2, PoolAssumption, SessionAssumption DEF Call
<1>5. /\ join' \in [Callers -> Nat] /\ memo' \in [Sessions -> Nat]
      /\ runs' \in Seq(Call)
  BY <1>1, <1>2, <1>4 DEF SessionTyped
<1>6. /\ Len(runs') = n + 1 /\ runs'[n + 1] = call
      /\ \A r \in 1..n : runs'[r] = runs[r]
      /\ \A r \in 1..(n + 1) : r \in 1..n \/ r = n + 1
  BY <1>1, <1>2, <1>4 DEF SessionTyped
<1>7. /\ \A r \in 1..n : r # n + 1 /\ r \in 1..(n + 1)
      /\ n + 1 # 0 /\ n + 1 \in 1..(n + 1)
  BY <1>2
<1>8. /\ \A d \in Callers : Runner(d) \/ pc[d] = "join" => join[d] \in 1..n
      /\ \A s \in Sessions : memo[s] # 0 => memo[s] \in 1..n
  BY <1>2 DEF IInv, SessionInv, RunsSeen
<1>9. RunsSeen'
  <2>1. ASSUME NEW d \in Callers, (Runner(d) \/ pc[d] = "join")'
        PROVE  /\ join'[d] \in 1..(n + 1)
               /\ runs'[join'[d]].output \in Commits =>
                    runs'[join'[d]].output \in seen[session[d]]
    <3>1. CASE d = c
      BY <3>1, <1>3, <1>4, <1>6, <1>7
    <3>2. CASE d # c
      BY <3>2, <2>1, <1>1, <1>3, <1>6, <1>7, <1>8 DEF IInv, SessionInv, RunsSeen, Run
    <3> QED BY <3>1, <3>2
  <2>2. \A s \in Sessions : memo'[s] # 0 =>
          /\ memo'[s] \in 1..(n + 1)
          /\ runs'[memo'[s]].output \in Commits => runs'[memo'[s]].output \in seen[s]
    BY <1>3, <1>4, <1>6, <1>7, <1>8 DEF IInv, SessionInv, RunsSeen
  <2> QED BY <2>1, <2>2, <1>1, <1>2, <1>6 DEF RunsSeen, Run
<1>10. Runners'
  <2>1. \A d, e \in Callers : Runner(d)' /\ Runner(e)' /\ join'[d] = join'[e] => d = e
    BY <1>1, <1>3, <1>7, <1>8 DEF IInv, SessionInv, Runners
  <2>2. \A d \in Callers : Runner(d)' => ~runs'[join'[d]].done
    BY <1>1, <1>3, <1>4, <1>6, <1>8 DEF IInv, SessionInv, Runners, Run
  <2>3. ASSUME NEW d \in Callers, pc'[d] \in {"spawn", "settle"}
        PROVE  memo'[session'[d]] = join'[d] /\ ~runs'[join'[d]].cancelled
    <3>1. CASE d = c
      BY <3>1, <1>1, <1>2, <1>3, <1>4, <1>6
    <3>2. CASE d # c
      <4>1. memo[session[d]] = join[d] /\ ~runs[join[d]].cancelled /\ join[d] \in 1..n
            /\ session[d] \in Sessions
        BY <3>2, <2>3, <1>1, <1>8 DEF IInv, SessionInv, Runners, Run, Runner, PoolInv, Seated
      <4>2. session[d] # session[c]
        BY <4>1, <1>2
      <4> QED BY <3>2, <4>1, <4>2, <1>1, <1>3, <1>6
    <3> QED BY <3>1, <3>2
  <2>4. \A r \in 1..(n + 1) : runs'[r].done \/ \E d \in Callers : Runner(d)' /\ join'[d] = r
    <3>1. \A r \in 1..n : runs[r].done \/ \E d \in Callers : Runner(d) /\ join[d] = r
      BY <1>2 DEF IInv, SessionInv, Runners
    <3> QED BY <3>1, <1>1, <1>3, <1>6 DEF Runner
  <2> QED BY <2>1, <2>2, <2>3, <2>4, <1>6 DEF Runners, Run
<1>11. CancelledCalls'
  <2>1. \A r \in 1..(n + 1) : runs'[r].cancelled => \A s \in Sessions : memo'[s] # r
    BY <1>2, <1>3, <1>4, <1>6, <1>7 DEF IInv, SessionInv, CancelledCalls
  <2>2. \A s, t \in Sessions : memo'[s] = memo'[t] /\ memo'[s] # 0 => s = t
    BY <1>3, <1>7, <1>8 DEF IInv, SessionInv, CancelledCalls
  <2>3. \A d \in Callers : Runner(d)' /\ runs'[join'[d]].output = "killed" => ctx'[d] = "cancelled"
    BY <1>1, <1>3, <1>4, <1>6, <1>8 DEF IInv, SessionInv, CancelledCalls, Run
  <2>4. \A r \in 1..(n + 1) : runs'[r].output = "killed" =>
          runs'[r].cancelled \/ \E d \in Callers : pc'[d] = "settle" /\ join'[d] = r
    <3>1. \A r \in 1..n : runs[r].output = "killed" =>
            runs[r].cancelled \/ \E d \in Callers \ {c} : pc[d] = "settle" /\ join[d] = r
      BY <1>2 DEF IInv, SessionInv, CancelledCalls
    <3> QED BY <3>1, <1>1, <1>4, <1>6
  <2> QED BY <2>1, <2>2, <2>3, <2>4, <1>6 DEF CancelledCalls, Run
<1> QED BY <1>5, <1>9, <1>10, <1>11, CallsSide

\* Who makes a call is the only one to change it.
LEMMA CallsTyped ==
    ASSUME SessionTyped, NEW r \in 1..Len(runs),
           \/ \E out \in Commits \cup {None, "killed", "failed"} :
                runs' = [runs EXCEPT ![r].output = out]
           \/ runs' = [runs EXCEPT ![r].cancelled = TRUE]
           \/ runs' = [runs EXCEPT ![r].done = TRUE]
    PROVE  /\ runs' \in Seq(Call) /\ Len(runs') = Len(runs)
           /\ \A k \in 1..Len(runs) : k # r => runs'[k] = runs[k]
<1>1. runs \in Seq(Call) /\ runs[r] \in Call /\ DOMAIN runs = 1..Len(runs)
  BY DEF SessionTyped
<1>2. PICK call \in Call : runs' = [runs EXCEPT ![r] = call]
  <2>1. CASE \E out \in Commits \cup {None, "killed", "failed"} :
               runs' = [runs EXCEPT ![r].output = out]
    <3>1. PICK out \in Commits \cup {None, "killed", "failed"} :
            runs' = [runs EXCEPT ![r].output = out]
      BY <2>1
    <3>2. [runs[r] EXCEPT !.output = out] \in Call
      BY <1>1 DEF Call
    <3> QED BY <3>1, <3>2, <1>1
  <2>2. CASE runs' = [runs EXCEPT ![r].cancelled = TRUE]
    <3>1. [runs[r] EXCEPT !.cancelled = TRUE] \in Call
      BY <1>1 DEF Call
    <3> QED BY <2>2, <3>1, <1>1
  <2>3. CASE runs' = [runs EXCEPT ![r].done = TRUE]
    <3>1. [runs[r] EXCEPT !.done = TRUE] \in Call
      BY <1>1 DEF Call
    <3> QED BY <2>3, <3>1, <1>1
  <2> QED BY <2>1, <2>2, <2>3
<1> QED BY <1>1, <1>2

LEMMA SpawnedSound ==
    ASSUME IInv, NEW c \in Callers, Spawned(c) PROVE SessionInv'
<1>1. /\ SessionTyped /\ CallersTyped /\ session[c] \in Sessions /\ seen' = seen
      /\ \A d \in Callers \ {c} :
           /\ pc'[d] = pc[d] /\ session'[d] = session[d] /\ ctx'[d] = ctx[d]
           /\ join'[d] = join[d]
  BY CallsFrame
<1>2. PICK out \in {HeadCommit(refs), "killed", "failed"} :
        /\ out = "killed" => ctx[c] = "cancelled"
        /\ runs' = [runs EXCEPT ![join[c]].output = out]
  BY DEF Spawned
<1>3. /\ pc[c] = "spawn" /\ pc' = [pc EXCEPT ![c] = "settle"]
      /\ UNCHANGED <<memo, join, session, ctx>>
  BY DEF Spawned, Goto, poolRest
<1>4. PICK k \in 1..Len(runs) : k = join[c]
  BY <1>3 DEF IInv, SessionInv, RunsSeen, Runner
<1>5. out \in Commits \cup {None, "killed", "failed"}
  BY DEF HeadCommit, IInv, PoolInv, PoolTyped, Refs
<1>6. /\ runs' \in Seq(Call) /\ Len(runs') = Len(runs)
      /\ \A r \in 1..Len(runs) : r # k => runs'[r] = runs[r]
  <2>1. runs' = [runs EXCEPT ![k].output = out]
    BY <1>2, <1>4
  <2> QED BY <2>1, <1>1, <1>4, <1>5, CallsTyped
<1>7. runs'[k].output = out /\ runs'[k].done = runs[k].done /\ runs'[k].cancelled = runs[k].cancelled
  <2>1. runs[k] \in Call /\ k \in DOMAIN runs
    BY <1>1 DEF SessionTyped
  <2> QED BY <2>1, <1>2, <1>4 DEF Call
<1>8. /\ pc'[c] = "settle"
      /\ \A d \in Callers : Runner(d)' <=> Runner(d)
      /\ \A d \in Callers : pc'[d] = "join" <=> pc[d] = "join"
      /\ \A d \in Callers : pc'[d] \in {"spawn", "settle"} <=> pc[d] \in {"spawn", "settle"}
      /\ \A d \in Callers : pc[d] = "settle" => pc'[d] = "settle"
      /\ Runner(c)
  BY <1>1, <1>3 DEF Runner, CallersTyped
<1>9. RunsSeen'
  <2>1. ASSUME NEW s \in Sessions, begun[s], out \in Commits PROVE out \in seen[s]
    <3>1. out = HeadCommit(refs)
      BY <2>1, <1>2, SessionAssumption
    <3> QED BY <2>1, <3>1 DEF IInv, SessionInv, SeenSound
  <2>2. /\ \A d \in Callers : pc[d] # "idle" => session[d] \in Sessions /\ begun[session[d]]
        /\ \A s \in Sessions : memo[s] # 0 => begun[s]
    BY DEF IInv, SessionInv, SeenSound, PoolInv, Seated
  <2>3. ASSUME NEW d \in Callers, Runner(d) \/ pc[d] = "join"
        PROVE  /\ join[d] \in 1..Len(runs)
               /\ runs'[join[d]].output \in Commits => runs'[join[d]].output \in seen[session[d]]
    <3>1. session[d] \in Sessions /\ begun[session[d]]
      BY <2>2, <2>3 DEF Runner
    <3>2. /\ join[d] \in 1..Len(runs)
          /\ runs[join[d]].output \in Commits => runs[join[d]].output \in seen[session[d]]
      BY <2>3 DEF IInv, SessionInv, RunsSeen, Run
    <3> QED BY <3>1, <3>2, <2>1, <1>6, <1>7
  <2>4. ASSUME NEW s \in Sessions, memo[s] # 0
        PROVE  /\ memo[s] \in 1..Len(runs)
               /\ runs'[memo[s]].output \in Commits => runs'[memo[s]].output \in seen[s]
    <3>1. /\ memo[s] \in 1..Len(runs)
          /\ runs[memo[s]].output \in Commits => runs[memo[s]].output \in seen[s]
      BY <2>4 DEF IInv, SessionInv, RunsSeen
    <3> QED BY <3>1, <2>1, <2>2, <2>4, <1>6, <1>7
  <2> QED BY <2>3, <2>4, <1>1, <1>3, <1>6, <1>8 DEF RunsSeen, Run
<1>10. \A d \in Callers : Runner(d) => join[d] \in 1..Len(runs) /\ (join[d] = k => d = c)
  BY <1>4, <1>8 DEF IInv, SessionInv, RunsSeen, Runners
<1>11. Runners'
  <2>1. \A r \in 1..Len(runs) : runs'[r].done = runs[r].done /\ runs'[r].cancelled = runs[r].cancelled
    BY <1>6, <1>7
  <2>2. \A d \in Callers : pc[d] \in {"spawn", "settle"} => Runner(d)
    BY DEF Runner
  <2> QED BY <2>1, <2>2, <1>3, <1>6, <1>8, <1>10 DEF IInv, SessionInv, Runners, Run
<1>12. CancelledCalls'
  <2>1. \A r \in 1..Len(runs) : runs'[r].cancelled => \A s \in Sessions : memo[s] # r
    BY <1>6, <1>7 DEF IInv, SessionInv, CancelledCalls
  <2>2. \A d \in Callers : Runner(d) /\ runs'[join[d]].output = "killed" => ctx[d] = "cancelled"
    <3> SUFFICES ASSUME NEW d \in Callers, Runner(d), runs'[join[d]].output = "killed"
                 PROVE  ctx[d] = "cancelled"
      OBVIOUS
    <3>1. CASE d = c
      BY <3>1, <1>2, <1>4, <1>7
    <3>2. CASE d # c
      <4>1. runs'[join[d]] = runs[join[d]]
        BY <3>2, <1>6, <1>10
      <4> QED BY <4>1 DEF IInv, SessionInv, CancelledCalls, Run
    <3> QED BY <3>1, <3>2
  <2>3. \A r \in 1..Len(runs) : runs'[r].output = "killed" =>
          runs'[r].cancelled \/ \E d \in Callers : pc'[d] = "settle" /\ join[d] = r
    BY <1>4, <1>6, <1>7, <1>8 DEF IInv, SessionInv, CancelledCalls
  <2>4. \A s, t \in Sessions : memo[s] = memo[t] /\ memo[s] # 0 => s = t
    BY DEF IInv, SessionInv, CancelledCalls
  <2> QED BY <2>1, <2>2, <2>3, <2>4, <1>3, <1>6, <1>8 DEF CancelledCalls, Run
<1> QED BY <1>1, <1>3, <1>6, <1>9, <1>11, <1>12, CallsSide DEF SessionTyped

LEMMA SettleSound ==
    ASSUME IInv, NEW c \in Callers, Settle(c) PROVE SessionInv'
<1>1. /\ SessionTyped /\ CallersTyped /\ session[c] \in Sessions /\ seen' = seen
      /\ \A d \in Callers \ {c} :
           /\ pc'[d] = pc[d] /\ session'[d] = session[d] /\ ctx'[d] = ctx[d]
           /\ join'[d] = join[d]
  BY CallsFrame
<1>2. /\ pc[c] = "settle" /\ pc' = [pc EXCEPT ![c] = "closing"]
      /\ UNCHANGED <<join, session, ctx>>
      /\ \/ /\ ctx[c] = "cancelled"
            /\ runs' = [runs EXCEPT ![join[c]].cancelled = TRUE]
            /\ memo' = [memo EXCEPT ![session[c]] = 0]
         \/ ctx[c] = "live" /\ UNCHANGED <<runs, memo>>
  BY DEF Settle, Goto, poolRest, Session
<1>3. PICK k \in 1..Len(runs) : k = join[c]
  BY <1>2 DEF IInv, SessionInv, RunsSeen, Runner
<1>4. memo[session[c]] = k /\ k # 0
  <2>1. k # 0
    BY <1>1, <1>3 DEF SessionTyped
  <2> QED BY <2>1, <1>2, <1>3 DEF IInv, SessionInv, Runners
<1>5. /\ pc'[c] = "closing" /\ Runner(c)
      /\ \A d \in Callers : Runner(d)' <=> Runner(d)
      /\ \A d \in Callers : pc'[d] = "join" <=> pc[d] = "join"
      /\ \A d \in Callers : pc'[d] \in {"spawn", "settle"} <=>
                              pc[d] \in {"spawn", "settle"} /\ d # c
  BY <1>1, <1>2 DEF Runner, CallersTyped
<1>6. /\ \A d \in Callers : pc[d] \in {"spawn", "settle"} => Runner(d)
      /\ \A d \in Callers : Runner(d) => join[d] \in 1..Len(runs) /\ (join[d] = k => d = c)
  BY <1>3, <1>5 DEF IInv, SessionInv, RunsSeen, Runners, Runner
<1>7. CASE ctx[c] = "cancelled" /\ runs' = [runs EXCEPT ![k].cancelled = TRUE]
           /\ memo' = [memo EXCEPT ![session[c]] = 0]
  <2>1. /\ runs' \in Seq(Call) /\ Len(runs') = Len(runs)
        /\ \A r \in 1..Len(runs) : r # k => runs'[r] = runs[r]
    BY <1>1, <1>3, <1>7, CallsTyped
  <2>2. runs'[k].output = runs[k].output /\ runs'[k].done = runs[k].done /\ runs'[k].cancelled
    <3>1. runs[k] \in Call /\ k \in DOMAIN runs
      BY <1>1, <1>3 DEF SessionTyped
    <3> QED BY <3>1, <1>7 DEF Call
  <2>3. \A r \in 1..Len(runs) : runs'[r].done = runs[r].done /\ runs'[r].output = runs[r].output
    BY <2>1, <2>2
  <2>4. /\ \A s \in Sessions : memo'[s] = IF s = session[c] THEN 0 ELSE memo[s]
        /\ memo' \in [Sessions -> Nat]
    BY <1>1, <1>7 DEF SessionTyped
  <2>5. RunsSeen'
    <3>1. \A d \in Callers : Runner(d) \/ pc[d] = "join" =>
            /\ join[d] \in 1..Len(runs)
            /\ runs'[join[d]].output \in Commits => runs'[join[d]].output \in seen[session[d]]
      BY <2>3 DEF IInv, SessionInv, RunsSeen, Run
    <3>2. \A s \in Sessions : memo'[s] # 0 =>
            /\ memo'[s] \in 1..Len(runs)
            /\ runs'[memo'[s]].output \in Commits => runs'[memo'[s]].output \in seen[s]
      BY <2>3, <2>4 DEF IInv, SessionInv, RunsSeen
    <3> QED BY <3>1, <3>2, <2>1, <1>1, <1>2, <1>5 DEF RunsSeen, Run
  <2>6. Runners'
    <3>1. /\ \A d \in Callers : Runner(d) => ~runs'[join[d]].done
          /\ \A r \in 1..Len(runs) : runs'[r].done \/ \E d \in Callers : Runner(d) /\ join[d] = r
      BY <2>3, <1>6 DEF IInv, SessionInv, Runners, Run
    <3>2. ASSUME NEW d \in Callers, d # c, pc[d] \in {"spawn", "settle"}
          PROVE  memo'[session[d]] = join[d] /\ ~runs'[join[d]].cancelled
      <4>1. memo[session[d]] = join[d] /\ ~runs[join[d]].cancelled /\ session[d] \in Sessions
        BY <3>2 DEF IInv, SessionInv, Runners, Run, PoolInv, Seated
      <4>2. join[d] # k /\ join[d] \in 1..Len(runs)
        BY <3>2, <1>6
      <4>3. session[d] # session[c]
        BY <4>1, <4>2, <1>4
      <4> QED BY <4>1, <4>2, <4>3, <2>1, <2>4
    <3> QED BY <3>1, <3>2, <2>1, <1>2, <1>5 DEF IInv, SessionInv, Runners, Run
  <2>7. CancelledCalls'
    <3>1. \A s \in Sessions : memo'[s] # k
      BY <2>4, <1>1, <1>4 DEF IInv, SessionInv, CancelledCalls
    <3>2. \A r \in 1..Len(runs) : runs'[r].cancelled => \A s \in Sessions : memo'[s] # r
      <4> SUFFICES ASSUME NEW r \in 1..Len(runs), runs'[r].cancelled, NEW s \in Sessions
                   PROVE  memo'[s] # r
        OBVIOUS
      <4>1. CASE r = k
        BY <4>1, <3>1
      <4>2. CASE r # k
        <5>1. memo[s] # r /\ r # 0
          BY <4>2, <2>1 DEF IInv, SessionInv, CancelledCalls
        <5> QED BY <5>1, <2>4
      <4> QED BY <4>1, <4>2
    <3>3. \A s, t \in Sessions : memo'[s] = memo'[t] /\ memo'[s] # 0 => s = t
      BY <2>4 DEF IInv, SessionInv, CancelledCalls
    <3>4. \A d \in Callers : Runner(d) /\ runs'[join[d]].output = "killed" => ctx[d] = "cancelled"
      BY <2>3, <1>6 DEF IInv, SessionInv, CancelledCalls, Run
    <3>5. \A r \in 1..Len(runs) : runs'[r].output = "killed" =>
            runs'[r].cancelled \/ \E d \in Callers : pc'[d] = "settle" /\ join[d] = r
      <4> SUFFICES ASSUME NEW r \in 1..Len(runs), r # k, runs'[r].output = "killed"
                   PROVE  runs'[r].cancelled \/ \E d \in Callers : pc'[d] = "settle" /\ join[d] = r
        BY <2>2
      <4>1. runs[r].cancelled \/ \E d \in Callers : pc[d] = "settle" /\ join[d] = r
        BY <2>1 DEF IInv, SessionInv, CancelledCalls
      <4> QED BY <4>1, <2>1, <1>1, <1>3
    <3> QED BY <3>2, <3>3, <3>4, <3>5, <2>1, <1>2, <1>5 DEF CancelledCalls, Run
  <2> QED BY <2>1, <2>4, <2>5, <2>6, <2>7, <1>1, <1>2, CallsSide DEF SessionTyped
<1>8. CASE ctx[c] = "live" /\ UNCHANGED <<runs, memo>>
  <2>1. RunsSeen' /\ Runners'
    BY <1>1, <1>2, <1>5, <1>8 DEF IInv, SessionInv, RunsSeen, Runners, Run
  <2>2. \A r \in 1..Len(runs) : runs[r].output = "killed" =>
          runs[r].cancelled \/ \E d \in Callers : pc'[d] = "settle" /\ join[d] = r
    <3>1. runs[k].output # "killed"
      BY <1>3, <1>5, <1>8 DEF IInv, SessionInv, CancelledCalls, Run
    <3> QED BY <3>1, <1>1, <1>3 DEF IInv, SessionInv, CancelledCalls
  <2>3. CancelledCalls'
    BY <2>2, <1>2, <1>5, <1>8 DEF IInv, SessionInv, CancelledCalls, Run
  <2> QED BY <2>1, <2>3, <1>1, <1>2, <1>8, CallsSide DEF SessionTyped
<1> QED BY <1>2, <1>3, <1>7, <1>8

LEMMA RunEndsSound ==
    ASSUME IInv, PoolInv', NEW c \in Callers, RunEnds(c) PROVE SessionInv'
<1>1. /\ Looks(c) /\ SessionTyped /\ CallersTyped /\ session[c] \in Sessions /\ seen' = seen
      /\ UNCHANGED <<digests, remembered, refs>>
      /\ \A d \in Callers \ {c} :
           /\ pc'[d] = pc[d] /\ session'[d] = session[d] /\ ctx'[d] = ctx[d]
           /\ join'[d] = join[d]
  BY CallsFrame
<1>2. /\ pc[c] = "closing" /\ runs' = [runs EXCEPT ![join[c]].done = TRUE]
      /\ Return(c, Run(c).output, TRUE)
  BY DEF RunEnds
<1>3. PICK k \in 1..Len(runs) : k = join[c]
  BY <1>2 DEF IInv, SessionInv, RunsSeen, Runner
<1>4. /\ runs' \in Seq(Call) /\ Len(runs') = Len(runs)
      /\ \A r \in 1..Len(runs) : r # k => runs'[r] = runs[r]
  <2>1. runs' = [runs EXCEPT ![k].done = TRUE]
    BY <1>2, <1>3
  <2> QED BY <2>1, <1>1, <1>3, CallsTyped
<1>5. runs'[k].output = runs[k].output /\ runs'[k].cancelled = runs[k].cancelled /\ runs'[k].done
  <2>1. runs[k] \in Call /\ k \in DOMAIN runs
    BY <1>1, <1>3 DEF SessionTyped
  <2> QED BY <2>1, <1>2, <1>3 DEF Call
<1>6. \A r \in 1..Len(runs) : runs'[r].cancelled = runs[r].cancelled /\ runs'[r].output = runs[r].output
  BY <1>4, <1>5
<1>7. /\ SoundFor(c)' /\ pc'[c] = "idle" /\ memo' = memo
      /\ DigestsSound' /\ SessionTyped' /\ FiledWhereTrue'
  <2>1. remembered' \in [at : Refs, value : Commits, moved : Nat] \cup {None}
    BY <1>1 DEF SessionTyped
  <2>2. FiledWhereTrue'
    BY <1>1 DEF IInv, SessionInv, FiledWhereTrue, HeadCommit
  <2> QED BY <2>1, <2>2, <1>1, <1>2, <1>4, ReturnSound DEF IInv, SessionInv
<1>8. /\ \A d \in Callers : Runner(d)' <=> Runner(d) /\ d # c
      /\ \A d \in Callers : pc'[d] \in {"join", "spawn", "settle"} =>
           pc[d] = pc'[d] /\ d # c
      /\ \A d \in Callers : pc[d] = "settle" => pc'[d] = "settle"
      /\ Runner(c)
  BY <1>1, <1>2, <1>7 DEF Runner
<1>9. \A d \in Callers : Runner(d) => join[d] \in 1..Len(runs) /\ (join[d] = k => d = c)
  BY <1>3, <1>8 DEF IInv, SessionInv, RunsSeen, Runners
<1>10. RunsSeen'
  <2>1. \A d \in Callers : Runner(d) \/ pc[d] = "join" =>
          /\ join[d] \in 1..Len(runs)
          /\ runs'[join[d]].output \in Commits => runs'[join[d]].output \in seen[session[d]]
    BY <1>6 DEF IInv, SessionInv, RunsSeen, Run
  <2>2. \A s \in Sessions : memo[s] # 0 =>
          /\ memo[s] \in 1..Len(runs)
          /\ runs'[memo[s]].output \in Commits => runs'[memo[s]].output \in seen[s]
    BY <1>6 DEF IInv, SessionInv, RunsSeen
  <2> QED BY <2>1, <2>2, <1>1, <1>4, <1>7, <1>8 DEF RunsSeen, Run
<1>11. Runners'
  <2>1. \A d \in Callers \ {c} : Runner(d) => ~runs'[join[d]].done
    <3>1. \A d \in Callers \ {c} : Runner(d) => runs'[join[d]] = runs[join[d]]
      BY <1>4, <1>9
    <3> QED BY <3>1 DEF IInv, SessionInv, Runners, Run
  <2>2. \A r \in 1..Len(runs) :
          runs'[r].done \/ \E d \in Callers \ {c} : Runner(d) /\ join[d] = r
    <3> SUFFICES ASSUME NEW r \in 1..Len(runs), r # k
                 PROVE  runs'[r].done \/ \E d \in Callers \ {c} : Runner(d) /\ join[d] = r
      BY <1>5
    <3>1. runs[r].done \/ \E d \in Callers : Runner(d) /\ join[d] = r
      BY DEF IInv, SessionInv, Runners
    <3> QED BY <3>1, <1>3, <1>4
  <2>3. \A d \in Callers \ {c} : pc[d] \in {"spawn", "settle"} =>
          memo[session[d]] = join[d] /\ ~runs'[join[d]].cancelled
    <3>1. \A d \in Callers : pc[d] \in {"spawn", "settle"} => Runner(d)
      BY DEF Runner
    <3> QED BY <3>1, <1>6, <1>9 DEF IInv, SessionInv, Runners, Run
  <2>4. \A d, e \in Callers : Runner(d) /\ Runner(e) /\ join[d] = join[e] => d = e
    BY DEF IInv, SessionInv, Runners
  <2> QED BY <2>1, <2>2, <2>3, <2>4, <1>1, <1>4, <1>7, <1>8 DEF Runners, Run
<1>12. CancelledCalls'
  <2>1. \A r \in 1..Len(runs) : runs'[r].cancelled => \A s \in Sessions : memo[s] # r
    BY <1>6 DEF IInv, SessionInv, CancelledCalls
  <2>2. \A d \in Callers : Runner(d) /\ runs'[join[d]].output = "killed" => ctx[d] = "cancelled"
    BY <1>6, <1>9 DEF IInv, SessionInv, CancelledCalls, Run
  <2>3. \A r \in 1..Len(runs) : runs'[r].output = "killed" =>
          runs'[r].cancelled \/ \E d \in Callers \ {c} : pc[d] = "settle" /\ join[d] = r
    BY <1>2, <1>6 DEF IInv, SessionInv, CancelledCalls
  <2>4. \A s, t \in Sessions : memo[s] = memo[t] /\ memo[s] # 0 => s = t
    BY DEF IInv, SessionInv, CancelledCalls
  <2> QED BY <2>1, <2>2, <2>3, <2>4, <1>1, <1>4, <1>7, <1>8 DEF CancelledCalls, Run
<1> QED BY <1>1, <1>7, <1>10, <1>11, <1>12, LooksSide
-----------------------------------------------------------------------------
(***************************************************************************)
(* The invariant.                                                          *)
(***************************************************************************)

LEMMA LooksSound ==
    ASSUME IInv, PoolInv', NEW c \in Callers, Looks(c) PROVE SessionInv'
<1>1. CASE DigestKnown(c)
  BY <1>1, DigestKnownSound
<1>2. CASE DigestAfresh(c) \/ DigestBefore(c)
  BY <1>2, DigestBegins
<1>3. CASE WalkedSession(c)
  BY <1>3, WalkedSessionSound
<1>4. CASE WalkedBefore(c)
  BY <1>4, WalkedBeforeSound
<1>5. CASE WalkedAfter(c) \/ ServeRemembered(c) \/ JoinGivesUp(c)
  BY <1>5, ServesSound
<1>6. CASE WalkFails(c)
  BY <1>6, WalkFailsSound
<1>7. CASE Answered(c)
  BY <1>7, AnsweredSound
<1>8. CASE RunJoin(c)
  BY <1>8, RunJoinSound
<1>9. CASE RunStart(c)
  BY <1>9, RunStartSound
<1>10. CASE Spawned(c)
  BY <1>10, SpawnedSound
<1>11. CASE Settle(c)
  BY <1>11, SettleSound
<1>12. CASE RunEnds(c)
  BY <1>12, RunEndsSound
<1>13. CASE JoinEnds(c)
  BY <1>13, JoinEndsSound
<1> QED BY <1>1, <1>2, <1>3, <1>4, <1>5, <1>6, <1>7, <1>8, <1>9, <1>10, <1>11, <1>12, <1>13 DEF Looks

\* A first request begins its session; others go on with theirs.
LEMMA ResolveSound ==
    ASSUME IInv, PoolInv', NEW c \in Callers, NEW s \in Sessions, Resolve(c, s) PROVE SessionInv'
<1>0. CallersTyped /\ SessionTyped /\ refs \in Refs
  BY DEF IInv, PoolInv, PoolTyped, SessionInv
<1>1. /\ pc[c] = "idle" /\ pc' = [pc EXCEPT ![c] = "look"]
      /\ session' = [session EXCEPT ![c] = s]
      /\ begun' = [begun EXCEPT ![s] = TRUE]
      /\ seen' = IF begun[s] THEN seen ELSE [seen EXCEPT ![s] = {HeadCommit(refs)}]
      /\ UNCHANGED <<refs, moves, ctx, held, got, procs>>
      /\ UNCHANGED <<digests, remembered, phase, walk, since, under, before, memo, runs, join>>
  BY DEF Resolve, Ask, Goto, pool, memory, flight
<1>2. /\ \A t \in Sessions : seen[t] \subseteq seen'[t]
      /\ begun'[s] /\ HeadCommit(refs) \in seen'[s]
      /\ \A t \in Sessions \ {s} : seen'[t] = seen[t] /\ begun'[t] = begun[t]
  BY <1>0, <1>1 DEF IInv, SessionInv, SeenSound, SessionTyped
<1>3. HeadCommit(refs) \in Commits
  BY <1>0 DEF Refs, HeadCommit
<1>4. SessionTyped'
  BY <1>0, <1>1, <1>3 DEF SessionTyped
<1>5. /\ pc'[c] = "look" /\ session'[c] = s
      /\ \A d \in Callers \ {c} : pc'[d] = pc[d] /\ session'[d] = session[d]
  BY <1>0, <1>1 DEF CallersTyped
<1>6. SeenSound'
  BY <1>1, <1>2, <1>5 DEF IInv, SessionInv, SeenSound, PoolInv, Seated
<1>7. DigestsSound' /\ FiledWhereTrue'
  BY <1>1, <1>2 DEF IInv, SessionInv, DigestsSound, DigestSeen, FiledWhereTrue, HeadCommit
<1>8. \A d \in Callers : pc[d] # "idle" =>
        session[d] \in Sessions /\ seen[session[d]] \subseteq seen'[session[d]]
  BY <1>2 DEF IInv, PoolInv, Seated
<1>9. ASSUME NEW d \in Callers PROVE SoundFor(d)'
  <2>0. SoundFor(d)
    BY DEF IInv, SessionInv
  <2>1. CASE d = c
    <3>1. before[c] = None
      BY <2>0, <2>1, <1>1 DEF SoundFor, WindowTrue
    <3>2. ReplySeen(c)' /\ LookupTrue(c)'
      BY <1>5 DEF ReplySeen, LookupTrue
    <3>3. WalkTrue(c)'
      BY <2>0, <2>1, <1>1, <1>5 DEF SoundFor, WalkTrue
    <3>4. WindowTrue(c)'
      BY <3>1, <1>1, <1>5 DEF WindowTrue, Window
    <3> QED BY <2>1, <3>2, <3>3, <3>4 DEF SoundFor
  <2>2. CASE d # c
    <3>1. ReplySeen(d)'
      BY <2>0, <2>2, <1>1, <1>5, <1>8 DEF SoundFor, ReplySeen
    <3>2. WalkTrue(d)' /\ LookupTrue(d)'
      BY <2>0, <2>2, <1>1, <1>5, <1>8 DEF SoundFor, WalkTrue, LookupTrue, DigestSeen, HeadCommit
    <3>3. WindowTrue(d)'
      BY <2>0, <2>2, <1>1, <1>5 DEF SoundFor, WindowTrue, Window, Replied, HeadCommit
    <3> QED BY <3>1, <3>2, <3>3 DEF SoundFor
  <2> QED BY <2>1, <2>2
<1>10. RunsRest
  BY <1>1, <1>2, <1>5, <1>8 DEF RunsRest, Runner, AtRuns
<1>11. RunsSeen' /\ Runners' /\ CancelledCalls'
  BY <1>10, RunsRestKeeps DEF IInv, SessionInv
<1> QED BY <1>4, <1>6, <1>7, <1>9, <1>11 DEF SessionInv

\* Every step keeps what the sessions know.
LEMMA SessionNext == ASSUME IInv, PoolInv', [Next]_vars PROVE SessionInv'
<1>1. ASSUME NEW c \in Callers, Looks(c) PROVE SessionInv'
  BY <1>1, LooksSound
<1>2. ASSUME NEW c \in Callers, NEW s \in Sessions, Resolve(c, s) PROVE SessionInv'
  BY <1>2, ResolveSound
<1>3. ASSUME NEW c \in Callers, PoolStep(c), UNCHANGED others, Silent PROVE SessionInv'
  BY <1>3, PoolStepSound DEF Silent
<1>4. ASSUME NEW s \in Sessions, Close(s), UNCHANGED others, Silent PROVE SessionInv'
  BY <1>4, CloseSound DEF Silent
<1>5. ASSUME NEW c \in Callers, Cancel(c), UNCHANGED others, Silent PROVE SessionInv'
  BY <1>5, CancelSound DEF Silent
<1>6. ASSUME NEW p \in DOMAIN procs, ProcessStep(p) \/ Die(p), UNCHANGED others, Silent
      PROVE  SessionInv'
  BY <1>6, ProcessSound DEF Silent
<1>7. ASSUME MoveSeen PROVE SessionInv'
  BY <1>7, MoveSound
<1>8. CASE UNCHANGED vars
  <2>1. /\ UNCHANGED others /\ seen' = seen
        /\ UNCHANGED <<refs, moves, pc, session, ctx, got, held, procs>>
        /\ UNCHANGED <<phase, walk, since, under, before>>
    BY <1>8 DEF vars, poolVars, caller, pool, others, memory
  <2>2. \A d \in Callers : Alike(d)
    BY <2>1 DEF Alike
  <2>3. \A d \in Callers : SoundFor(d)'
    BY <2>1, <2>2, AlikeSound DEF IInv, SessionInv
  <2> QED BY <2>1, <2>3, PoolSide
<1> QED BY <1>1, <1>2, <1>3, <1>4, <1>5, <1>6, <1>7, <1>8 DEF Next, Step, Looks

\* The invariant holds in every reachable state.
THEOREM Invariance == Spec => []IInv
<1>1. Init => IInv
  BY PoolInit1, SessionInit DEF IInv
<1>2. ASSUME IInv, [Next]_vars PROVE IInv'
  <2>1. PoolInv'
    BY <1>2, PoolNext DEF IInv, SessionInv
  <2> QED BY <2>1, <1>2, SessionNext DEF IInv
<1> QED BY <1>1, <1>2, PTL DEF Spec

\* A caller is given the answer to its own request, whatever the process it has
\* went through before it was acquired (roundTrip, releaser).
THEOREM AnswersAreOwn == Spec => []OwnAnswer
<1>1. IInv => OwnAnswer
  BY DEF IInv, PoolInv, Gots, OwnAnswer
<1> QED BY <1>1, Invariance, PTL

\* While a session is open, the processes that count as live are the idle ones
\* and those its callers have, at most MaxProcesses; none is at two places, and
\* none that was released runs on once the session is closed (acquire, close).
THEOREM PoolIsAccounted == Spec => []PoolAccounts
<1>1. ASSUME IInv PROVE PoolAccounts
  <2>1. ASSUME NEW p \in DOMAIN procs, closed[procs[p].session], procs[p].up
        PROVE  \E c \in Callers : held[c] = p
    <3>1. p \in 1..Len(procs) /\ procs[p] \in Process
      BY <1>1, <2>1, ProcessTyped DEF IInv, PoolInv, PoolTyped
    <3>2. procs[p].session \in Sessions
      BY <3>1 DEF Process
    <3>3. ~ \E i \in 1..Len(idle[procs[p].session]) : idle[procs[p].session][i] = p
      BY <1>1, <2>1, <3>2 DEF IInv, PoolInv, Counts
    <3> QED BY <1>1, <2>1, <3>1, <3>3 DEF IInv, PoolInv, Placed
  <2>2. ASSUME NEW s \in Sessions
        PROVE  /\ ~closed[s] => live[s] = Len(idle[s]) + Cardinality(Using(s))
               /\ live[s] <= MaxProcesses
               /\ \A i, j \in DOMAIN idle[s] : idle[s][i] = idle[s][j] => i = j
               /\ \A c \in Using(s) :
                    /\ \A d \in Using(s) : held[c] = held[d] => c = d
                    /\ \A i \in DOMAIN idle[s] : idle[s][i] # held[c]
    <3>1. DOMAIN idle[s] = 1..Len(idle[s])
      BY <1>1 DEF IInv, PoolInv, PoolTyped
    <3>2. \A c \in Using(s) : c \in Callers /\ HasProcess(c)
      BY DEF Using, HasProcess
    <3>3. ~closed[s] => live[s] = Len(idle[s]) + Cardinality(Using(s))
      BY <1>1 DEF IInv, PoolInv, Counts
    <3>4. live[s] <= MaxProcesses
      BY <1>1 DEF IInv, PoolInv, Counts
    <3> QED BY <1>1, <3>1, <3>2, <3>3, <3>4 DEF IInv, PoolInv, Apart
  <2> QED BY <2>1, <2>2 DEF PoolAccounts
<1> QED BY <1>1, Invariance, PTL

\* What rememberRefs keeps is the commit HEAD names in the state it is filed
\* under, unless the refs moved twice while it was asked for.
THEOREM AnswersAreFiledWhereTrue == Spec => []FiledWhereTrue
<1>1. IInv => FiledWhereTrue
  BY DEF IInv, SessionInv
<1> QED BY <1>1, Invariance, PTL

\* Who sleeps in cond.Wait has somebody to wake it; who joined a call of
\* rev-parse has somebody who makes it; and no session keeps a cancelled call
\* that has ended (acquire, run).
THEOREM WaitsAreNotInVain == Spec => []NobodyWaitsInVain
<1>1. ASSUME IInv PROVE NobodyWaitsInVain
  <2> SUFFICES ASSUME NEW c \in Callers
               PROVE  /\ pc[c] = "asleep" =>
                           LET s == Session(c) IN
                           /\ ctx[c] = "live" \/ alarm[c]
                           /\ ~closed[s]
                           /\ idle[s] = <<>> /\ Using(s) # {}
                      /\ pc[c] = "join" /\ ~Run(c).done =>
                           \E d \in Callers \ {c} :
                             join[d] = join[c] /\ pc[d] \in {"spawn", "settle", "closing"}
                      /\ \A s \in Sessions : memo[s] # 0 =>
                           ~(runs[memo[s]].done /\ runs[memo[s]].cancelled)
    BY DEF NobodyWaitsInVain
  <2>1. ASSUME pc[c] = "asleep"
        PROVE  /\ ctx[c] = "live" \/ alarm[c]
               /\ ~closed[session[c]] /\ idle[session[c]] = <<>> /\ Using(session[c]) # {}
    <3>1. PICK d \in Callers : HasProcess(d) /\ session[d] = session[c]
      BY <1>1, <2>1 DEF IInv, PoolInv, Sleepers
    <3>2. d \in Using(session[c])
      BY <3>1 DEF Using, HasProcess, Session
    <3> QED BY <1>1, <2>1, <3>2 DEF IInv, PoolInv, Sleepers
  <2>2. ASSUME pc[c] = "join", ~Run(c).done
        PROVE  \E d \in Callers \ {c} :
                 join[d] = join[c] /\ pc[d] \in {"spawn", "settle", "closing"}
    <3>1. join[c] \in 1..Len(runs)
      BY <1>1, <2>2 DEF IInv, SessionInv, RunsSeen
    <3>2. PICK d \in Callers : Runner(d) /\ join[d] = join[c]
      BY <1>1, <2>2, <3>1 DEF IInv, SessionInv, Runners, Run
    <3> QED BY <2>2, <3>2 DEF Runner
  <2>3. ASSUME NEW s \in Sessions, memo[s] # 0
        PROVE  ~(runs[memo[s]].done /\ runs[memo[s]].cancelled)
    BY <1>1, <2>3 DEF IInv, SessionInv, RunsSeen, CancelledCalls
  <2> QED BY <2>1, <2>2, <2>3 DEF Session
<1> QED BY <1>1, Invariance, PTL
-----------------------------------------------------------------------------
(***************************************************************************)
(* What is returned.                                                       *)
(***************************************************************************)

\* A commit that is returned as sure is of the session's time, and who is told
\* that Git was killed has been cancelled.
Truthful(c, v, sure) ==
    /\ sure /\ v \in Commits => v \in seen[session[c]]
    /\ v = "killed" => ctx[c] = "cancelled"

LEMMA ReturnTruthful ==
    ASSUME NEW c \in Callers, NEW v, NEW sure, Return(c, v, sure), Truthful(c, v, sure)
    PROVE  AnswersSinceBegin' /\ NotCancelledByOthers'
<1>1. /\ answer' = [value |-> v, sure |-> sure, ctx |-> ctx[c], since |-> session[c]]
      /\ seen' = seen
  BY DEF Return, Session
<1>2. answer'.value = v /\ answer'.sure = sure /\ answer'.ctx = ctx[c] /\ answer'.since = session[c]
  BY <1>1
<1> QED BY <1>1, <1>2 DEF Truthful, AnswersSinceBegin, NotCancelledByOthers

LEMMA LooksTruthful ==
    ASSUME IInv, NEW c \in Callers, Looks(c)
    PROVE  answer' = None \/ \E v, sure : Return(c, v, sure) /\ Truthful(c, v, sure)
<1>0. /\ "killed" \notin Commits
      /\ pc[c] # "idle" => session[c] \in Sessions /\ seen[session[c]] \subseteq Commits
  BY SessionAssumption DEF IInv, PoolInv, Seated, SessionInv, SessionTyped
<1>1. ASSUME pc[c] = "answered" \/ (pc[c] = "walk" /\ phase[c] = "after")
      PROVE  Truthful(c, got[c].reply, TRUE)
  <2>1. got[c].reply \in seen[session[c]]
    BY <1>1 DEF IInv, SessionInv, SoundFor, ReplySeen
  <2> QED BY <1>0, <1>1, <2>1 DEF Truthful
<1>2. CASE WalkedAfter(c)
  BY <1>1, <1>2 DEF WalkedAfter
<1>3. CASE WalkFails(c)
  <2>1. answer' = None \/ (Return(c, got[c].reply, TRUE) /\ pc[c] = "walk" /\ phase[c] = "after")
    BY <1>3 DEF WalkFails, Silent
  <2> QED BY <1>1, <2>1
<1>4. CASE Answered(c)
  <2>1. answer' = None \/ (Return(c, got[c].reply, TRUE) /\ pc[c] = "answered")
    BY <1>4 DEF Answered, Silent
  <2> QED BY <1>1, <2>1
<1>5. CASE ServeRemembered(c)
  <2>1. /\ pc[c] = "lookup" /\ remembered # None /\ remembered.at = under[c].at
        /\ Return(c, remembered.value, under[c].moved <= 1 /\ remembered.moved <= 1)
    BY <1>5 DEF ServeRemembered, Current
  <2>2. remembered.value \in Commits
    BY <2>1 DEF IInv, SessionInv, SessionTyped
  <2>3. remembered.moved <= 1 => remembered.value = HeadCommit(under[c].at)
    BY <2>1 DEF IInv, SessionInv, FiledWhereTrue
  <2>4. under[c].moved <= 1 => HeadCommit(under[c].at) \in seen[session[c]]
    BY <2>1 DEF IInv, SessionInv, SoundFor, LookupTrue, DigestSeen
  <2>5. Truthful(c, remembered.value, under[c].moved <= 1 /\ remembered.moved <= 1)
    BY <2>2, <2>3, <2>4, <1>0 DEF Truthful
  <2> QED BY <2>1, <2>5
<1>6. CASE RunEnds(c)
  <2>1. pc[c] = "closing" /\ Runner(c) /\ Return(c, Run(c).output, TRUE)
    BY <1>6 DEF RunEnds, Runner
  <2>2. Truthful(c, Run(c).output, TRUE)
    BY <2>1 DEF IInv, SessionInv, RunsSeen, CancelledCalls, Truthful
  <2> QED BY <2>1, <2>2
<1>7. CASE JoinEnds(c)
  <2>1. CASE answer' = None
    BY <2>1
  <2>2. CASE Return(c, Run(c).output, TRUE) /\ ~Run(c).cancelled
    <3>1. pc[c] = "join" /\ Run(c).done
      BY <1>7 DEF JoinEnds
    <3>2. /\ join[c] \in 1..Len(runs)
          /\ Run(c).output \in Commits => Run(c).output \in seen[session[c]]
      BY <3>1 DEF IInv, SessionInv, RunsSeen
    <3>3. ~ \E d \in Callers : pc[d] = "settle" /\ join[d] = join[c]
      BY <3>1 DEF IInv, SessionInv, Runners, Runner, Run
    <3>4. Run(c).output # "killed"
      BY <2>2, <3>2, <3>3 DEF IInv, SessionInv, CancelledCalls, Run
    <3> QED BY <2>2, <3>2, <3>4 DEF Truthful
  <2> QED BY <2>1, <2>2, <1>7 DEF JoinEnds, Silent
<1>8. CASE JoinGivesUp(c)
  BY <1>0, <1>8 DEF JoinGivesUp, Truthful
<1>9. CASE \/ DigestKnown(c) \/ DigestAfresh(c) \/ WalkedSession(c) \/ WalkedBefore(c)
           \/ DigestBefore(c) \/ RunJoin(c) \/ RunStart(c) \/ Spawned(c) \/ Settle(c)
  BY <1>9 DEF DigestKnown, DigestAfresh, WalkedSession, WalkedBefore, DigestBefore, RunJoin,
              RunStart, Spawned, Settle, Silent
<1> QED BY <1>2, <1>3, <1>4, <1>5, <1>6, <1>7, <1>8, <1>9 DEF Looks

LEMMA AnswersTruthful == Spec => [](AnswersSinceBegin /\ NotCancelledByOthers)
<1> DEFINE Answers == AnswersSinceBegin /\ NotCancelledByOthers
<1>1. Init => Answers
  BY DEF Init, AnswersSinceBegin, NotCancelledByOthers
<1>2. ASSUME IInv, Answers, [Next]_vars PROVE Answers'
  <2>1. ASSUME answer' = None PROVE Answers'
    BY <2>1 DEF AnswersSinceBegin, NotCancelledByOthers
  <2>2. ASSUME NEW c \in Callers, Looks(c) PROVE Answers'
    <3>1. CASE answer' = None
      BY <3>1, <2>1
    <3>2. CASE \E v, sure : Return(c, v, sure) /\ Truthful(c, v, sure)
      BY <3>2, ReturnTruthful
    <3> QED BY <1>2, <2>2, <3>1, <3>2, LooksTruthful
  <2>3. CASE UNCHANGED vars
    BY <1>2, <2>3 DEF vars, AnswersSinceBegin, NotCancelledByOthers
  <2>4. ASSUME Next PROVE answer' = None \/ \E c \in Callers : Looks(c)
    BY <2>4 DEF Next, Step, Looks, Silent, MoveSeen, Resolve
  <2> QED BY <1>2, <2>1, <2>2, <2>3, <2>4
<1> QED BY <1>1, <1>2, Invariance, PTL DEF Spec

\* A commit that a request is given for HEAD is one that HEAD named at some time
\* since its session began, also when it comes out of memory (ResolveCommit).
THEOREM AnswersAreOfTheSession == Spec => []AnswersSinceBegin
BY AnswersTruthful, PTL

\* A caller whose own context lives is never told that Git was killed: who
\* joined a call of another, cancelled caller asks once more (run).
THEOREM CancelledByThemselves == Spec => []NotCancelledByOthers
BY AnswersTruthful, PTL
=============================================================================
