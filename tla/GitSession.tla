------------------------------ MODULE GitSession ------------------------------
(***************************************************************************)
(* How a revision is resolved to a commit (internal/gitexec): gitdiff's    *)
(* ResolveCommit asks gitexec.ResolveCommit, which may answer from what    *)
(* the process remembers under a digest of the refs (rememberRefs), and    *)
(* otherwise asks a pooled Git process (GitPool); if that cannot answer,   *)
(* it runs rev-parse, once for all callers of the session (Output).        *)
(*                                                                         *)
(* The revision is HEAD.  A digest is read file by file, HEAD before the   *)
(* refs, while others move them; locate and the configuration, which the   *)
(* digest covers too, stay as they are.                                    *)
(***************************************************************************)
EXTENDS GitPool

\* What rev-parse prints is a commit, or it was killed, or it failed.
ASSUME SessionAssumption == {"killed", "failed"} \cap (Commits \cup {None}) = {}

VARIABLES
    begun,      \* sessions that have been asked for something
    digests,    \* Session.digests
    remembered, \* refAnswers, shared by all sessions of the process
    phase,      \* the digest a caller reads: "session", "before" or "after"
    walk,       \* the part of it that has been read
    since,      \* the moves there had been when it, or its window, began
    under,      \* the digest the caller has been given for its session
    before,     \* the digest before Git's answer, if it may be stored
    memo,       \* Session.memo: the call of rev-parse, or 0
    runs,       \* every such call: its output, and whether it was cancelled
    join,       \* the call a caller waits for, or makes
    answer,     \* what the last step returned to a caller, or None
    seen        \* what HEAD has named since each session's first request

memory == <<digests, remembered, phase, walk, since, under, before>>
flight == <<memo, runs, join>>
vars == <<poolVars, begun, memory, flight, answer, seen>>

Unknown == [head |-> None, tips |-> None]

Init ==
    /\ PoolInit
    /\ begun = [s \in Sessions |-> FALSE]
    /\ digests = [s \in Sessions |-> None]
    /\ remembered = None
    /\ phase = [c \in Callers |-> None]
    /\ walk = [c \in Callers |-> None]
    /\ since = [c \in Callers |-> 0]
    /\ under = [c \in Callers |-> None]
    /\ before = [c \in Callers |-> None]
    /\ memo = [s \in Sessions |-> 0]
    /\ runs = <<>>
    /\ join = [c \in Callers |-> 0]
    /\ answer = None
    /\ seen = [s \in Sessions |-> {}]

\* A request, which may be the first of its session.
Resolve(c, s) ==
    /\ Ask(c, s, "look")
    /\ begun' = [begun EXCEPT ![s] = TRUE]
    /\ seen' = IF begun[s] THEN seen ELSE [seen EXCEPT ![s] = {HeadCommit(refs)}]
    /\ answer' = None
    /\ UNCHANGED <<memory, flight>>

\* A step that returns nothing.
Silent == answer' = None /\ UNCHANGED seen

\* A request returns; what its calls kept in variables of their own is gone.
Return(c, v, sure) ==
    /\ pc' = [pc EXCEPT ![c] = "idle"]
    /\ answer' = [value |-> v, sure |-> sure, ctx |-> ctx[c], since |-> Session(c)]
    /\ ctx' = [ctx EXCEPT ![c] = "live"]
    /\ session' = [session EXCEPT ![c] = None]
    /\ ticket' = [ticket EXCEPT ![c] = 0]
    /\ got' = [got EXCEPT ![c] = None]
    /\ since' = [since EXCEPT ![c] = 0]
    /\ under' = [under EXCEPT ![c] = None]
    /\ before' = [before EXCEPT ![c] = None]
    /\ walk' = [walk EXCEPT ![c] = None]
    /\ phase' = [phase EXCEPT ![c] = None]
    /\ join' = [join EXCEPT ![c] = 0]
    /\ UNCHANGED <<refs, moves, asks, held, alarm, pool, begun, memo, seen>>

poolRest == <<refs, moves, session, ctx, ticket, asks, held, got, alarm, pool>>
-----------------------------------------------------------------------------
\* rememberRefs.  A digest begins with HEAD.
WalkHead(c, kind) ==
    /\ pc' = [pc EXCEPT ![c] = "walk"]
    /\ phase' = [phase EXCEPT ![c] = kind]
    /\ walk' = [walk EXCEPT ![c] = refs.head]

\* stateDigest: once per session.
DigestKnown(c) ==
    LET known == digests[Session(c)] IN
    /\ pc[c] = "look"
    /\ known # None
    /\ pc' = [pc EXCEPT ![c] = IF known.at = Unknown THEN "acquire" ELSE "lookup"]
    /\ under' = [under EXCEPT ![c] = known]
    /\ UNCHANGED <<poolRest, left, begun, digests, remembered, phase, walk, since, before,
                   flight>>
    /\ Silent

DigestAfresh(c) ==
    /\ pc[c] = "look"
    /\ digests[Session(c)] = None
    /\ WalkHead(c, "session")
    /\ since' = [since EXCEPT ![c] = moves]
    /\ UNCHANGED <<poolRest, left, begun, digests, remembered, under, before, flight>>
    /\ Silent

\* A walk is complete.
Walked(c, kind, there) ==
    /\ Goto(c, "walk", there)
    /\ phase[c] = kind
    /\ walk' = [walk EXCEPT ![c] = None]
    /\ phase' = [phase EXCEPT ![c] = None]

Digest(c) == [head |-> walk[c], tips |-> refs.tips]

WalkedSession(c) ==
    LET digest == [at |-> Digest(c), moved |-> moves - since[c]] IN
    /\ Walked(c, "session", "lookup")
    /\ digests' = [digests EXCEPT ![Session(c)] = digest]
    /\ under' = [under EXCEPT ![c] = digest]
    /\ UNCHANGED <<poolRest, left, begun, remembered, since, before, flight>>
    /\ Silent

WalkedBefore(c) ==
    /\ Walked(c, "before", "acquire")
    /\ before' = [before EXCEPT ![c] = Digest(c)]
    /\ UNCHANGED <<poolRest, left, begun, digests, remembered, since, under, flight>>
    /\ Silent

\* Git's answer is kept if the digest is what it was before.
WalkedAfter(c) ==
    /\ pc[c] = "walk" /\ phase[c] = "after"
    /\ remembered' = IF Digest(c) = before[c]
                     THEN [at |-> before[c], value |-> got[c].reply, moved |-> moves - since[c]]
                     ELSE remembered
    /\ Return(c, got[c].reply, TRUE)
    /\ UNCHANGED <<left, digests, runs>>

\* Something cannot be read: nothing will be stored.
WalkFails(c) ==
    /\ pc[c] = "walk"
    /\ Mishap
    /\ \/ /\ phase[c] = "after"
          /\ Return(c, got[c].reply, TRUE)
          /\ UNCHANGED <<digests, remembered, runs>>
       \/ /\ phase[c] \in {"session", "before"}
          /\ pc' = [pc EXCEPT ![c] = "acquire"]
          /\ walk' = [walk EXCEPT ![c] = None]
          /\ phase' = [phase EXCEPT ![c] = None]
          /\ digests' = IF phase[c] = "session"
                        THEN [digests EXCEPT ![Session(c)] = [at |-> Unknown, moved |-> 0]]
                        ELSE digests
          /\ UNCHANGED <<poolRest, begun, remembered, since, under, before, flight>>
          /\ Silent

\* Bug: an answer is served whatever state it was given in.
CurrentAnyway(c) == remembered # None

\* The answer kept was given in the state the session's digest describes.
Current(c) == remembered # None /\ remembered.at = under[c].at

ServeRemembered(c) ==
    /\ pc[c] = "lookup"
    /\ Current(c)
    /\ Return(c, remembered.value, under[c].moved <= 1 /\ remembered.moved <= 1)
    /\ UNCHANGED <<left, digests, remembered, runs>>

\* Bug: the session's digest stands in for one read before Git answers.
DigestBeforeOfSession(c) ==
    /\ Goto(c, "lookup", "acquire")
    /\ ~Current(c)
    /\ since' = [since EXCEPT ![c] = moves]
    /\ before' = [before EXCEPT ![c] = under[c].at]
    /\ UNCHANGED <<poolRest, left, begun, digests, remembered, phase, walk, under, flight>>
    /\ Silent

DigestBefore(c) ==
    /\ pc[c] = "lookup"
    /\ ~Current(c)
    /\ WalkHead(c, "before")
    /\ since' = [since EXCEPT ![c] = moves]
    /\ UNCHANGED <<poolRest, left, begun, digests, remembered, under, before, flight>>
    /\ Silent

\* The pooled process has answered: returned at once if nothing is to be stored.
Answered(c) ==
    /\ pc[c] = "answered"
    /\ \/ /\ before[c] # None
          /\ WalkHead(c, "after")
          /\ UNCHANGED <<poolRest, begun, since, under, before, flight>>
          /\ Silent
       \/ /\ before[c] = None
          /\ Return(c, got[c].reply, TRUE)
          /\ UNCHANGED runs
    /\ UNCHANGED <<left, digests, remembered>>

-----------------------------------------------------------------------------
\* It has not (errUnanswered), and the caller runs rev-parse itself; run makes
\* one call of it for all who ask.
Run(c) == runs[join[c]]

RunJoin(c) ==
    /\ Goto(c, "declined", "join")
    /\ memo[Session(c)] # 0
    /\ join' = [join EXCEPT ![c] = memo[Session(c)]]
    /\ UNCHANGED <<poolRest, left, begun, memory, memo, runs>>
    /\ Silent

RunStart(c) ==
    /\ Goto(c, "declined", "spawn")
    /\ memo[Session(c)] = 0
    /\ runs' = Append(runs, [done |-> FALSE, cancelled |-> FALSE, output |-> None])
    /\ memo' = [memo EXCEPT ![Session(c)] = Len(runs) + 1]
    /\ join' = [join EXCEPT ![c] = Len(runs) + 1]
    /\ UNCHANGED <<poolRest, left, begun, memory>>
    /\ Silent

\* Git answers, or was killed with its context, or fails.
Spawned(c) ==
    /\ Goto(c, "spawn", "settle")
    /\ \E out \in {HeadCommit(refs), "killed", "failed"} :
         /\ out = "killed" => ctx[c] = "cancelled"
         /\ IF out = "failed" THEN Mishap ELSE UNCHANGED left
         /\ runs' = [runs EXCEPT ![join[c]].output = out]
    /\ UNCHANGED <<poolRest, begun, memory, memo, join>>
    /\ Silent

\* Bug: a cancelled call is taken off the memo and not marked.
SettleUnmarked(c) ==
    /\ Goto(c, "settle", "closing")
    /\ memo' = IF ctx[c] = "cancelled" THEN [memo EXCEPT ![Session(c)] = 0] ELSE memo
    /\ UNCHANGED <<poolRest, left, begun, memory, runs, join>>
    /\ Silent

\* A cancelled caller's failure is not an answer.
Settle(c) ==
    /\ Goto(c, "settle", "closing")
    /\ \/ /\ ctx[c] = "cancelled"
          /\ runs' = [runs EXCEPT ![join[c]].cancelled = TRUE]
          /\ memo' = [memo EXCEPT ![Session(c)] = 0]
       \/ /\ ctx[c] = "live"
          /\ UNCHANGED <<runs, memo>>
    /\ UNCHANGED <<poolRest, left, begun, memory, join>>
    /\ Silent

RunEnds(c) ==
    /\ pc[c] = "closing"
    /\ runs' = [runs EXCEPT ![join[c]].done = TRUE]
    /\ Return(c, Run(c).output, TRUE)
    /\ UNCHANGED <<left, digests, remembered>>

\* The call joined has ended: its answer, or once more.
JoinEnds(c) ==
    /\ pc[c] = "join"
    /\ Run(c).done
    /\ \/ /\ Run(c).cancelled
          /\ pc' = [pc EXCEPT ![c] = "declined"]
          /\ UNCHANGED <<poolRest, begun, phase, walk, since, under, before, memo, join>>
          /\ Silent
       \/ /\ ~Run(c).cancelled
          /\ Return(c, Run(c).output, TRUE)
    /\ UNCHANGED <<left, digests, remembered, runs>>

JoinGivesUp(c) ==
    /\ pc[c] = "join"
    /\ ctx[c] = "cancelled"
    /\ Return(c, "killed", TRUE)
    /\ UNCHANGED <<left, digests, remembered, runs>>
-----------------------------------------------------------------------------
others == <<begun, memory, flight>>

MoveSeen ==
    /\ Move
    /\ seen' = [s \in Sessions |-> IF begun[s] THEN seen[s] \cup {HeadCommit(refs')} ELSE {}]
    /\ answer' = None
    /\ UNCHANGED <<begun, memory, flight>>

\* What a caller's goroutine does by itself.
Step(c) ==
    \/ PoolStep(c) /\ UNCHANGED others /\ Silent
    \/ DigestKnown(c) \/ DigestAfresh(c)
    \/ WalkedSession(c) \/ WalkedBefore(c) \/ WalkedAfter(c) \/ WalkFails(c)
    \/ ServeRemembered(c) \/ DigestBefore(c) \/ Answered(c)
    \/ RunJoin(c) \/ RunStart(c) \/ Spawned(c) \/ Settle(c) \/ RunEnds(c)
    \/ JoinEnds(c) \/ JoinGivesUp(c)

Next ==
    \/ \E s \in Sessions : begun[s] /\ Close(s) /\ UNCHANGED others /\ Silent
    \/ \E c \in Callers : Step(c) \/ \E s \in Sessions : Resolve(c, s)
    \/ \E c \in Callers : Cancel(c) /\ UNCHANGED others /\ Silent
    \/ \E p \in DOMAIN procs : (ProcessStep(p) \/ Die(p)) /\ UNCHANGED others /\ Silent
    \/ MoveSeen

Spec == Init /\ [][Next]_vars
-----------------------------------------------------------------------------
(***************************************************************************)
(* Properties.                                                             *)
(***************************************************************************)

\* rememberRefs stores an answer under the state it was given in, although
\* the digests around it are read file by file while refs move: one move
\* within that time never goes unnoticed.  (Two may cancel each other out.)
FiledWhereTrue ==
    remembered # None /\ remembered.moved <= 1 =>
      remembered.value = HeadCommit(remembered.at)

\* A commit that a request is given for HEAD is one that HEAD named at some
\* time since the request's session began, also when another session's
\* answer is served from memory.
AnswersSinceBegin ==
    answer # None /\ answer.sure /\ answer.value \in Commits =>
      answer.value \in seen[answer.since]

\* A caller whose own context lives never gets the failure of another
\* caller's cancelled Git command.
NotCancelledByOthers ==
    answer # None /\ answer.value = "killed" => answer.ctx = "cancelled"

\* Nobody waits for what will not come.  Who sleeps in cond.Wait has a live
\* context or an alarm on its way, in an open session whose pool is full of
\* processes in use; who waits for a command, waits for one that its caller
\* is still running; and a cancelled command is not joined again.
NobodyWaitsInVain ==
    \A c \in Callers :
      /\ pc[c] = "asleep" =>
           LET s == Session(c) IN
           /\ ctx[c] = "live" \/ alarm[c]
           /\ ~closed[s]
           /\ idle[s] = <<>> /\ Using(s) # {}
      /\ pc[c] = "join" /\ ~Run(c).done =>
           \E d \in Callers \ {c} : join[d] = join[c] /\ pc[d] \in {"spawn", "settle", "closing"}
      /\ \A s \in Sessions : memo[s] # 0 =>
           ~(runs[memo[s]].done /\ runs[memo[s]].cancelled)
=============================================================================
