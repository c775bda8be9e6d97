---------------------------- MODULE FreshnessProofs ----------------------------
(***************************************************************************)
(* Proofs about the freshness checks: whatever the number of callers,      *)
(* items, writes and removals, an answered request is served the files as  *)
(* they were at or after its arrival, it is never given a shell check when *)
(* it needs every file, and nobody waits on a check that will not end.     *)
(*                                                                         *)
(* The inductive invariant follows a fingerprint from where it is read to  *)
(* where it is used: into the check that reads it (CheckSound), into       *)
(* latest when that check ends, and into each answer (AnswerSound).        *)
(*                                                                         *)
(* The second part is about the cache above the checks (SagaFiles): it     *)
(* implements them, and what a page shows of a file is what the file held  *)
(* since its request arrived, though another request may have read it.     *)
(*                                                                         *)
(* The third and fourth parts are about what the server derives at such a  *)
(* fingerprint: the comparison snapshot in memory (ReviewSnapshot), and    *)
(* the generations on disk that processes build, publish and prune         *)
(* (SnapshotCache).                                                        *)
(***************************************************************************)
EXTENDS SagaFiles, ReviewSnapshot, SnapshotCache, SequenceTheorems, FiniteSetTheorems, TLAPS

\* Every stamp a state vouches for was its item's since the state's check began.
Sound(state) ==
    ~state.err =>
        \A i \in Covered(state.full) : HeldSince(i, state.started, state.seen[i])

\* No reading is ahead of the clock, and the ghost has noted the present.
ClockSound ==
    /\ \A c \in Callers : floor[c] <= clock /\ check[c].started <= clock
    /\ latest.started <= clock
    /\ \A i \in Items : <<i, clock, disk[i]>> \in held

\* What a running check has read so far was so since it began, and the check
\* suits the caller that began it.
CheckSound ==
    \A c \in Callers : pc[c] = "checking" =>
        /\ Answers(check[c], c, want[c])
        /\ todo[c] \subseteq Covered(check[c].full)
        /\ ~check[c].err =>
             \A i \in Covered(check[c].full) \ todo[c] :
                 HeldSince(i, check[c].started, check[c].seen[i])

\* A waiting caller waits on a running check that suits it.
WaitSound ==
    \A c \in Callers : pc[c] = "waiting" =>
        /\ joined[c] \in Callers
        /\ pc[joined[c]] = "checking"
        /\ Answers(check[joined[c]], c, want[c])

PendingSound == pending # None => pc[pending] = "checking"

AnswerSound ==
    \A c \in Callers : pc[c] = "answered" =>
        Sound(answer[c]) /\ Answers(answer[c], c, want[c])

IInv ==
    /\ TypeOK
    /\ ClockSound
    /\ Sound(latest)
    /\ CheckSound
    /\ WaitSound
    /\ PendingSound
    /\ AnswerSound
-----------------------------------------------------------------------------
\* The initial state of an ask that has not been answered is a state.
LEMMA NoStateIsState == NoState \in State
  BY DEF NoState, State, Absent

\* Every step keeps the types.
LEMMA TypeStep == TypeOK /\ [Next]_vars => TypeOK'
<1> SUFFICES ASSUME TypeOK, [Next]_vars PROVE TypeOK'
  OBVIOUS
<1> USE CallersAssumption, KindsAssumption, NoStateIsState DEF TypeOK
<1>1. ASSUME NEW i \in Items, Write(i) PROVE TypeOK'
  BY <1>1 DEF Write, server
<1>2. ASSUME NEW i \in Items, Remove(i) PROVE TypeOK'
  BY <1>2 DEF Remove, server, Absent
<1>3. ASSUME NEW c \in Callers, Arrive(c) PROVE TypeOK'
  BY <1>3 DEF Arrive, Tick, files
<1>4. ASSUME NEW c \in Callers, NEW full \in Kinds, AskLatest(c, full) PROVE TypeOK'
  BY <1>4 DEF AskLatest, Asking, files
<1>5. ASSUME NEW c \in Callers, NEW full \in Kinds, AskJoin(c, full) PROVE TypeOK'
  BY <1>5 DEF AskJoin, Asking, CanJoin, files
<1>6. ASSUME NEW c \in Callers, NEW full \in Kinds, AskBegin(c, full) PROVE TypeOK'
  <2>1. /\ full \in BOOLEAN
        /\ clock + 1 \in Nat
    OBVIOUS
  <2>2. [NoState EXCEPT !.started = clock + 1, !.full = full, !.err = FALSE] \in State
    BY <2>1 DEF State
  <2>3. Covered(full) \subseteq Items
    BY DEF Covered, Items
  <2> QED BY <1>6, <2>2, <2>3 DEF AskBegin, Asking, Tick, files
<1>7. ASSUME NEW c \in Callers, NEW i \in Items, List(c, i) PROVE TypeOK'
  <2>1. [check[c] EXCEPT !.seen[i] = disk[i]] \in State
    BY DEF State, NoState, Absent
  <2>2. check' \in [Callers -> State]
    BY <1>7, <2>1 DEF List
  <2> QED BY <1>7, <2>2 DEF List, files
<1>8. ASSUME NEW c \in Callers, ListFails(c) PROVE TypeOK'
  <2>1. Failed(check[c]) \in State
    BY DEF Failed, State, NoState, Absent
  <2> QED BY <1>8, <2>1 DEF ListFails, files
<1>9. ASSUME NEW c \in Callers, Publish(c) PROVE TypeOK'
  BY <1>9 DEF Publish, files
<1>10. ASSUME NEW c \in Callers, Finish(c) PROVE TypeOK'
  BY <1>10 DEF Finish, files
<1>11. CASE UNCHANGED vars
  BY <1>11 DEF vars, server, files
<1> QED
  BY <1>1, <1>2, <1>3, <1>4, <1>5, <1>6, <1>7, <1>8, <1>9, <1>10, <1>11 DEF Next, Ask

\* The server's state keeps its types, whatever the constants.
THEOREM TypeCorrect == Spec => []TypeOK
<1>1. Init => TypeOK
  BY NoStateIsState DEF Init, TypeOK, Absent
<1> QED BY <1>1, TypeStep, PTL DEF Spec
-----------------------------------------------------------------------------
\* What was so since a reading stays so: the ghost only grows and the clock
\* only advances.
LEMMA HeldGrows ==
    ASSUME TypeOK, held \subseteq held', clock' \in Nat, clock <= clock',
           NEW i, NEW t \in Nat, NEW s, HeldSince(i, t, s)
    PROVE  HeldSince(i, t, s)'
<1>1. PICK u \in t..clock : <<i, u, s>> \in held
  BY DEF HeldSince
<1>2. u \in t..clock' /\ <<i, u, s>> \in held'
  BY <1>1 DEF TypeOK
<1> QED BY <1>2 DEF HeldSince

\* Since a later reading implies since an earlier one.
LEMMA HeldEarlier ==
    ASSUME TypeOK, NEW t \in Nat, NEW u \in Nat, t <= u,
           NEW i, NEW s, HeldSince(i, u, s)
    PROVE  HeldSince(i, t, s)
<1>1. PICK v \in u..clock : <<i, v, s>> \in held
  BY DEF HeldSince
<1>2. v \in t..clock
  BY <1>1 DEF TypeOK
<1> QED BY <1>1, <1>2 DEF HeldSince

\* The three facts of the theorems below follow from the invariant.
LEMMA IInvSafe == IInv => AnswersFresh /\ AnswersCover /\ JoinedRuns
<1> SUFFICES ASSUME IInv PROVE AnswersFresh /\ AnswersCover /\ JoinedRuns
  OBVIOUS
<1>1. AnswersFresh
  <2> SUFFICES ASSUME NEW c \in Callers, pc[c] = "answered", ~answer[c].err,
                      NEW i \in Covered(answer[c].full)
               PROVE  HeldSince(i, floor[c], answer[c].seen[i])
    BY DEF AnswersFresh
  <2>1. HeldSince(i, answer[c].started, answer[c].seen[i])
    BY DEF IInv, AnswerSound, Sound
  <2>2. floor[c] \in Nat /\ answer[c].started \in Nat /\ floor[c] <= answer[c].started
    BY DEF IInv, AnswerSound, Answers, TypeOK, State
  <2> QED BY <2>1, <2>2, HeldEarlier DEF IInv
<1>2. AnswersCover
  BY DEF IInv, AnswerSound, Answers, AnswersCover
<1>3. JoinedRuns
  BY DEF IInv, WaitSound, JoinedRuns
<1> QED BY <1>1, <1>2, <1>3

\* The initial state satisfies the invariant.
LEMMA IInvInit == Init => IInv
<1> SUFFICES ASSUME Init PROVE IInv
  OBVIOUS
<1>1. TypeOK
  BY NoStateIsState DEF Init, TypeOK, Absent
<1>2. ClockSound /\ Sound(latest)
  BY DEF Init, ClockSound, Sound, NoState, Absent
<1>3. CheckSound /\ WaitSound /\ PendingSound /\ AnswerSound
  BY DEF Init, CheckSound, WaitSound, PendingSound, AnswerSound
<1> QED BY <1>1, <1>2, <1>3 DEF IInv

\* Every step keeps the invariant.
LEMMA IInvStep == IInv /\ [Next]_vars => IInv'
<1> SUFFICES ASSUME IInv, [Next]_vars PROVE IInv'
  OBVIOUS
<1> USE CallersAssumption, KindsAssumption DEF IInv
<1>0. TypeOK /\ TypeOK'
  BY TypeStep
<1>1. ASSUME NEW i \in Items, Write(i) PROVE IInv'
  <2>1. ClockSound'
    BY <1>1, <1>0 DEF ClockSound, TypeOK, State, Write, server
  <2>2. Sound(latest)'
    BY <1>1, <1>0 DEF Sound, HeldSince, TypeOK, State, Write, server
  <2>3. CheckSound'
    BY <1>1, <1>0 DEF CheckSound, ClockSound, Answers, HeldSince, TypeOK, State, Write, server
  <2>4. WaitSound'
    BY <1>1, <1>0 DEF WaitSound, Answers, TypeOK, State, Write, server
  <2>5. PendingSound'
    BY <1>1, <1>0 DEF PendingSound, TypeOK, Write, server
  <2>6. AnswerSound'
    BY <1>1, <1>0 DEF AnswerSound, Sound, Answers, HeldSince, TypeOK, State, Write, server
  <2> QED BY <1>0, <2>1, <2>2, <2>3, <2>4, <2>5, <2>6
<1>2. ASSUME NEW i \in Items, Remove(i) PROVE IInv'
  <2>1. ClockSound'
    BY <1>2, <1>0 DEF ClockSound, TypeOK, State, Remove, server
  <2>2. Sound(latest)'
    BY <1>2, <1>0 DEF Sound, HeldSince, TypeOK, State, Remove, server
  <2>3. CheckSound'
    BY <1>2, <1>0 DEF CheckSound, ClockSound, Answers, HeldSince, TypeOK, State, Remove, server
  <2>4. WaitSound'
    BY <1>2, <1>0 DEF WaitSound, Answers, TypeOK, State, Remove, server
  <2>5. PendingSound'
    BY <1>2, <1>0 DEF PendingSound, TypeOK, Remove, server
  <2>6. AnswerSound'
    BY <1>2, <1>0 DEF AnswerSound, Sound, Answers, HeldSince, TypeOK, State, Remove, server
  <2> QED BY <1>0, <2>1, <2>2, <2>3, <2>4, <2>5, <2>6
<1>3. ASSUME NEW c \in Callers, Arrive(c) PROVE IInv'
  <2>1. ClockSound'
    BY <1>3, <1>0 DEF ClockSound, TypeOK, State, Arrive, Tick, files
  <2>2. Sound(latest)'
    BY <1>3, <1>0 DEF Sound, HeldSince, Arrive, Tick, TypeOK
  <2>3. CheckSound'
    BY <1>3, <1>0 DEF CheckSound, ClockSound, Answers, HeldSince, TypeOK, State, Arrive, Tick, files
  <2>4. WaitSound'
    BY <1>3, <1>0 DEF WaitSound, Answers, TypeOK, State, Arrive, Tick, files
  <2>5. PendingSound'
    BY <1>3, <1>0 DEF PendingSound, TypeOK, Arrive, Tick, files
  <2>6. AnswerSound'
    BY <1>3, <1>0 DEF AnswerSound, Sound, Answers, HeldSince, TypeOK, State, Arrive, Tick, files
  <2> QED BY <1>0, <2>1, <2>2, <2>3, <2>4, <2>5, <2>6
<1>4. ASSUME NEW c \in Callers, NEW full \in Kinds, AskLatest(c, full) PROVE IInv'
  <2>1. ClockSound'
    BY <1>4, <1>0 DEF ClockSound, TypeOK, State, AskLatest, Asking, UsesLatest, files
  <2>2. Sound(latest)'
    BY <1>4, <1>0 DEF Sound, HeldSince, TypeOK, State, AskLatest, Asking, UsesLatest, files
  <2>3. CheckSound'
    BY <1>4, <1>0 DEF CheckSound, ClockSound, Answers, HeldSince, TypeOK, State, AskLatest, Asking, UsesLatest, files
  <2>4. WaitSound'
    BY <1>4, <1>0 DEF WaitSound, Answers, TypeOK, State, AskLatest, Asking, UsesLatest, files
  <2>5. PendingSound'
    BY <1>4, <1>0 DEF PendingSound, TypeOK, AskLatest, Asking, UsesLatest, files
  <2>6. AnswerSound'
    BY <1>4, <1>0 DEF AnswerSound, Sound, Answers, HeldSince, TypeOK, State, AskLatest, Asking, UsesLatest, files
  <2> QED BY <1>0, <2>1, <2>2, <2>3, <2>4, <2>5, <2>6
<1>5. ASSUME NEW c \in Callers, NEW full \in Kinds, AskJoin(c, full) PROVE IInv'
  <2>1. ClockSound'
    BY <1>5, <1>0 DEF ClockSound, TypeOK, State, AskJoin, Asking, CanJoin, files
  <2>2. Sound(latest)'
    BY <1>5, <1>0 DEF Sound, HeldSince, TypeOK, State, AskJoin, Asking, CanJoin, files
  <2>3. CheckSound'
    BY <1>5, <1>0 DEF CheckSound, ClockSound, Answers, HeldSince, TypeOK, State, AskJoin, Asking, CanJoin, files
  <2>4. WaitSound'
    BY <1>5, <1>0 DEF WaitSound, PendingSound, Answers, TypeOK, AskJoin, Asking, CanJoin
  <2>5. PendingSound'
    BY <1>5, <1>0 DEF PendingSound, TypeOK, AskJoin, Asking, CanJoin, files
  <2>6. AnswerSound'
    BY <1>5, <1>0 DEF AnswerSound, Sound, Answers, HeldSince, TypeOK, State, AskJoin, Asking, CanJoin, files
  <2> QED BY <1>0, <2>1, <2>2, <2>3, <2>4, <2>5, <2>6
<1>6. ASSUME NEW c \in Callers, NEW full \in Kinds, AskBegin(c, full) PROVE IInv'
  <2>1. ClockSound'
    BY <1>6, <1>0 DEF ClockSound, TypeOK, State, AskBegin, Asking, Tick, files, NoState
  <2>2. Sound(latest)'
    <3>1. /\ latest' = latest
          /\ clock <= clock' /\ clock' \in Nat
          /\ held \subseteq held' /\ latest.started \in Nat
      BY <1>6 DEF AskBegin, Tick, TypeOK, State
    <3> SUFFICES ASSUME ~latest.err, NEW i \in Covered(latest.full)
                 PROVE  HeldSince(i, latest.started, latest.seen[i])'
      BY <3>1 DEF Sound
    <3>2. HeldSince(i, latest.started, latest.seen[i])
      BY DEF Sound
    <3>3. PICK u \in latest.started..clock : <<i, u, latest.seen[i]>> \in held
      BY <3>2 DEF HeldSince
    <3>4. u \in latest'.started..clock' /\ <<i, u, latest'.seen[i]>> \in held'
      BY <3>1, <3>3 DEF TypeOK
    <3> QED BY <3>4 DEF HeldSince
  <2>3. CheckSound'
    <3> SUFFICES ASSUME NEW d \in Callers, pc'[d] = "checking"
                 PROVE  /\ Answers(check[d], d, want[d])'
                        /\ todo'[d] \subseteq Covered(check'[d].full)
                        /\ ~check'[d].err =>
                             \A i \in Covered(check'[d].full) \ todo'[d] :
                                 HeldSince(i, check[d].started, check[d].seen[i])'
      BY DEF CheckSound
    <3>1. CASE d = c
      <4>1. /\ check'[c].started = clock + 1
            /\ check'[c].full = full
            /\ todo'[c] = Covered(full)
            /\ want'[c] = full
            /\ floor'[c] = floor[c]
        BY <1>6 DEF AskBegin, Asking, TypeOK, NoState
      <4> QED BY <3>1, <4>1 DEF Answers, ClockSound, TypeOK
    <3>2. CASE d # c
      <4>1. /\ pc[d] = "checking"
            /\ check'[d] = check[d]
            /\ todo'[d] = todo[d]
            /\ want'[d] = want[d]
            /\ floor'[d] = floor[d]
        BY <1>6, <3>2 DEF AskBegin, Asking, TypeOK
      <4>2. clock <= clock' /\ clock' \in Nat /\ held \subseteq held' /\ check[d].started \in Nat
        BY <1>6 DEF AskBegin, Tick, TypeOK, State
      <4> QED BY <4>1, <4>2 DEF CheckSound, Answers, HeldSince, TypeOK
    <3> QED BY <3>1, <3>2
  <2>4. WaitSound'
    BY <1>6, <1>0 DEF WaitSound, Answers, TypeOK, State, AskBegin, Asking, Tick, files, NoState
  <2>5. PendingSound'
    BY <1>6, <1>0 DEF PendingSound, TypeOK, AskBegin, Asking, Tick, files, NoState
  <2>6. AnswerSound'
    <3> SUFFICES ASSUME NEW d \in Callers, pc'[d] = "answered"
                 PROVE  Sound(answer[d])' /\ Answers(answer[d], d, want[d])'
      BY DEF AnswerSound
    <3>1. /\ pc[d] = "answered"
          /\ answer'[d] = answer[d]
          /\ want'[d] = want[d]
          /\ floor'[d] = floor[d]
      BY <1>6 DEF AskBegin, Asking, TypeOK
    <3>2. clock <= clock' /\ clock' \in Nat /\ held \subseteq held' /\ answer[d].started \in Nat
      BY <1>6 DEF AskBegin, Tick, TypeOK, State
    <3> QED BY <3>1, <3>2 DEF AnswerSound, Sound, Answers, HeldSince, TypeOK
  <2> QED BY <1>0, <2>1, <2>2, <2>3, <2>4, <2>5, <2>6
<1>7. ASSUME NEW c \in Callers, NEW i \in Items, List(c, i) PROVE IInv'
  <2>1. ClockSound'
    BY <1>7, <1>0 DEF ClockSound, TypeOK, State, List, files
  <2>2. Sound(latest)'
    BY <1>7, <1>0 DEF Sound, HeldSince, TypeOK, State, List, files
  <2>3. CheckSound'
    <3> SUFFICES ASSUME NEW d \in Callers, pc'[d] = "checking"
                 PROVE  /\ Answers(check[d], d, want[d])'
                        /\ todo'[d] \subseteq Covered(check'[d].full)
                        /\ ~check'[d].err =>
                             \A j \in Covered(check'[d].full) \ todo'[d] :
                                 HeldSince(j, check[d].started, check[d].seen[j])'
      BY DEF CheckSound
    <3>1. UNCHANGED <<clock, held, pc, want, floor, disk>>
      BY <1>7 DEF List, files
    <3>2. CASE d = c
      <4>1. /\ check'[c].started = check[c].started
            /\ check'[c].full = check[c].full
            /\ check'[c].err = check[c].err
            /\ check'[c].seen = [check[c].seen EXCEPT ![i] = disk[i]]
            /\ todo'[c] = todo[c] \ {i}
        BY <1>7 DEF List, TypeOK, State
      <4>2. check[c].seen \in [Items -> Nat] /\ check[c].started \in Nat
        BY DEF TypeOK, State
      <4>3. HeldSince(i, check[c].started, disk[i])
        BY <4>2 DEF HeldSince, ClockSound, TypeOK
      <4>4. \A j \in Covered(check[c].full) \ todo'[c] :
               j # i => j \in Covered(check[c].full) \ todo[c]
        BY <4>1
      <4>5. Covered(check[c].full) \subseteq Items
        BY DEF Covered, Items
      <4> QED BY <3>1, <3>2, <4>1, <4>2, <4>3, <4>4, <4>5 DEF CheckSound, Answers, HeldSince
    <3>3. CASE d # c
      <4>1. check'[d] = check[d] /\ todo'[d] = todo[d]
        BY <1>7, <3>3 DEF List, TypeOK
      <4> QED BY <3>1, <4>1 DEF CheckSound, Answers, HeldSince
    <3> QED BY <3>2, <3>3
  <2>4. WaitSound'
    BY <1>7, <1>0 DEF WaitSound, Answers, TypeOK, State, List, files
  <2>5. PendingSound'
    BY <1>7, <1>0 DEF PendingSound, TypeOK, List, files
  <2>6. AnswerSound'
    BY <1>7, <1>0 DEF AnswerSound, Sound, Answers, HeldSince, TypeOK, State, List, files
  <2> QED BY <1>0, <2>1, <2>2, <2>3, <2>4, <2>5, <2>6
<1>8. ASSUME NEW c \in Callers, ListFails(c) PROVE IInv'
  <2>1. ClockSound'
    BY <1>8, <1>0 DEF ClockSound, TypeOK, State, ListFails, Failed, NoState, files
  <2>2. Sound(latest)'
    BY <1>8, <1>0 DEF Sound, HeldSince, TypeOK, State, ListFails, Failed, NoState, files
  <2>3. CheckSound'
    <3> SUFFICES ASSUME NEW d \in Callers, pc'[d] = "checking"
                 PROVE  /\ Answers(check[d], d, want[d])'
                        /\ todo'[d] \subseteq Covered(check'[d].full)
                        /\ ~check'[d].err =>
                             \A i \in Covered(check'[d].full) \ todo'[d] :
                                 HeldSince(i, check[d].started, check[d].seen[i])'
      BY DEF CheckSound
    <3>1. UNCHANGED <<clock, held, pc, want, floor>>
      BY <1>8 DEF ListFails, files
    <3>2. CASE d = c
      <4>1. /\ check'[c].started = check[c].started
            /\ check'[c].full = check[c].full
            /\ check'[c].err = TRUE
            /\ todo'[c] = {}
        BY <1>8 DEF ListFails, Failed, NoState, TypeOK
      <4> QED BY <3>1, <3>2, <4>1 DEF CheckSound, Answers
    <3>3. CASE d # c
      <4>1. check'[d] = check[d] /\ todo'[d] = todo[d]
        BY <1>8, <3>3 DEF ListFails, TypeOK
      <4> QED BY <3>1, <4>1 DEF CheckSound, Answers, HeldSince
    <3> QED BY <3>2, <3>3
  <2>4. WaitSound'
    BY <1>8, <1>0 DEF WaitSound, Answers, TypeOK, State, ListFails, Failed, NoState, files
  <2>5. PendingSound'
    BY <1>8, <1>0 DEF PendingSound, TypeOK, ListFails, Failed, NoState, files
  <2>6. AnswerSound'
    BY <1>8, <1>0 DEF AnswerSound, Sound, Answers, HeldSince, TypeOK, State, ListFails, Failed, NoState, files
  <2> QED BY <1>0, <2>1, <2>2, <2>3, <2>4, <2>5, <2>6
<1>9. ASSUME NEW c \in Callers, Publish(c) PROVE IInv'
  <2>1. ClockSound'
    BY <1>9, <1>0 DEF ClockSound, TypeOK, State, Publish, NoState, files
  <2>0. UNCHANGED <<clock, held, want, floor>> /\ Sound(check[c])
    BY <1>9 DEF Publish, CheckSound, Sound, files
  <2>2. Sound(latest)'
    <3>1. latest' = latest \/ latest' = check[c]
      BY <1>9 DEF Publish
    <3> QED BY <2>0, <3>1 DEF Sound, HeldSince
  <2>3. CheckSound'
    BY <1>9, <1>0 DEF CheckSound, ClockSound, Answers, HeldSince, TypeOK, State, Publish, NoState, files
  <2>4. WaitSound'
    BY <1>9, <1>0 DEF WaitSound, Answers, TypeOK, State, Publish, NoState, files
  <2>5. PendingSound'
    BY <1>9, <1>0 DEF PendingSound, TypeOK, Publish, NoState, files
  <2>6. AnswerSound'
    <3> SUFFICES ASSUME NEW d \in Callers, pc'[d] = "answered"
                 PROVE  Sound(answer[d])' /\ Answers(answer[d], d, want[d])'
      BY DEF AnswerSound
    <3>1. CASE d = c \/ (pc[d] = "waiting" /\ joined[d] = c)
      <4>1. answer'[d] = check[c]
        BY <1>9, <3>1 DEF Publish
      <4>2. Answers(check[c], d, want[d])
        BY <1>9, <3>1 DEF Publish, CheckSound, WaitSound
      <4> QED BY <2>0, <4>1, <4>2 DEF Sound, Answers, HeldSince
    <3>2. CASE ~(d = c \/ (pc[d] = "waiting" /\ joined[d] = c))
      <4>1. pc[d] = "answered" /\ answer'[d] = answer[d]
        BY <1>9, <3>2 DEF Publish
      <4> QED BY <2>0, <4>1 DEF AnswerSound, Sound, Answers, HeldSince
    <3> QED BY <3>1, <3>2
  <2> QED BY <1>0, <2>1, <2>2, <2>3, <2>4, <2>5, <2>6
<1>10. ASSUME NEW c \in Callers, Finish(c) PROVE IInv'
  <2>1. ClockSound'
    BY <1>10, <1>0 DEF ClockSound, TypeOK, State, Finish, NoState, files
  <2>2. Sound(latest)'
    BY <1>10, <1>0 DEF Sound, HeldSince, TypeOK, State, Finish, NoState, files
  <2>3. CheckSound'
    BY <1>10, <1>0 DEF CheckSound, ClockSound, Answers, HeldSince, TypeOK, State, Finish, NoState, files
  <2>4. WaitSound'
    BY <1>10, <1>0 DEF WaitSound, Answers, TypeOK, State, Finish, NoState, files
  <2>5. PendingSound'
    BY <1>10, <1>0 DEF PendingSound, TypeOK, Finish, NoState, files
  <2>6. AnswerSound'
    BY <1>10, <1>0 DEF AnswerSound, Sound, Answers, HeldSince, TypeOK, State, Finish, NoState, files
  <2> QED BY <1>0, <2>1, <2>2, <2>3, <2>4, <2>5, <2>6
<1>11. CASE UNCHANGED vars
  BY <1>11, <1>0 DEF vars, server, files, ClockSound, Sound, CheckSound, WaitSound,
     PendingSound, AnswerSound, Answers, HeldSince
<1> QED
  BY <1>1, <1>2, <1>3, <1>4, <1>5, <1>6, <1>7, <1>8, <1>9, <1>10, <1>11 DEF Next, Ask
-----------------------------------------------------------------------------
\* The invariant holds in every reachable state.
THEOREM Invariance == Spec => []IInv
BY IInvInit, IInvStep, PTL DEF Spec

\* An edit saved before a request arrives is in what it is answered with: every
\* answer fingerprints each file as it was at or after the request's arrival,
\* whoever ran the check and however the walk interleaved with writers.
THEOREM AnswersAreFresh == Spec => []AnswersFresh
<1>1. IInv => AnswersFresh
  BY IInvSafe
<1> QED BY <1>1, Invariance, PTL

\* A request that needs every file is always answered by a full check.
THEOREM AnswersCoverTheAsk == Spec => []AnswersCover
<1>1. IInv => AnswersCover
  BY IInvSafe
<1> QED BY <1>1, Invariance, PTL

\* Whoever joined a check waits on one that is still running, though a later
\* check may have taken its place as the pending one.
THEOREM WaitersWaitOnRunningChecks == Spec => []JoinedRuns
<1>1. IInv => JoinedRuns
  BY IInvSafe
<1> QED BY <1>1, Invariance, PTL
-----------------------------------------------------------------------------
(***************************************************************************)
(* The cache of the Saga's files.                                          *)
(***************************************************************************)

EntryType == [fingerprint : [Shell -> Nat], read : SUBSET Shell, content : [Shell -> Nat]]

CacheTyped ==
    /\ budget \in Budgets
    /\ entries \in Seq(EntryType)
    /\ current \in 0..Len(entries)
    /\ holds \in [Callers -> 0..Len(entries)]

\* A request holds an entry from its answer to the end of its page.
HoldersAnswered ==
    \A c \in Callers : holds[c] # NoEntry => pc[c] = "answered" /\ budget.pages

\* The ghost has noted no reading ahead of the clock and no stamp ahead of the
\* last; without removals an item's stamps only grow, so that no stamp comes back.
HeldBounded ==
    \A h \in held : h[2] <= clock /\ h[3] <= writes

StampsGrow ==
    removals = 0 =>
        \A g \in held :
            /\ g[3] <= disk[g[1]]
            /\ \A h \in held : g[1] = h[1] /\ g[2] < h[2] => g[3] <= h[3]

\* What was read into the entry that is kept was read after its fingerprint.
KeptSound ==
    current # NoEntry /\ removals = 0 =>
        \A i \in Shell :
            /\ entries[current].fingerprint[i] <= disk[i]
            /\ i \in entries[current].read =>
                 /\ entries[current].fingerprint[i] <= entries[current].content[i]
                 /\ HeldSince(i, 0, entries[current].content[i])

FilesIInv ==
    /\ IInv
    /\ CacheTyped
    /\ HoldersAnswered
    /\ HeldBounded
    /\ StampsGrow
    /\ KeptSound
    /\ PagesFresh

\* A step of the cache is a step of the checks, or leaves them alone.
LEMMA CacheStepRefines == budget \in Budgets /\ [FilesNext]_allVars => [Next]_vars
<1> SUFFICES ASSUME budget \in Budgets, [FilesNext]_allVars PROVE [Next]_vars
  OBVIOUS
<1>1. CASE UNCHANGED allVars
  BY <1>1 DEF allVars
<1>2. CASE \E c \in Callers :
             \/ TakeKept(c) \/ TakeNew(c) \/ TakeAfresh(c)
             \/ \E i \in Shell : ReadPart(c, i)
  BY <1>2 DEF TakeKept, TakeNew, TakeAfresh, ReadPart
<1>3. CASE \E c \in Callers : ServePage(c)
  BY <1>3 DEF ServePage, Next
<1>4. CASE Step
  <2>1. /\ budget.items \subseteq Items
        /\ budget.callers \subseteq Callers
        /\ budget.kinds \subseteq Kinds
    BY BudgetsAssumption
  <2> QED BY <1>4, <2>1 DEF Step, Next
<1> QED BY <1>1, <1>2, <1>3, <1>4 DEF FilesNext

LEMMA FilesInitInv == FilesInit => FilesIInv
<1> SUFFICES ASSUME FilesInit PROVE FilesIInv
  OBVIOUS
<1>1. IInv
  BY IInvInit DEF FilesInit
<1>2. entries = <<>> /\ current = NoEntry /\ holds = [c \in Callers |-> NoEntry]
      /\ budget \in Budgets
  BY DEF FilesInit
<1>3. CacheTyped
  BY <1>2 DEF CacheTyped, NoEntry
<1>4. HoldersAnswered /\ KeptSound /\ PagesFresh
  BY <1>2 DEF HoldersAnswered, KeptSound, PagesFresh
<1>5. HeldBounded /\ StampsGrow
  BY DEF FilesInit, Init, HeldBounded, StampsGrow, Absent
<1> QED BY <1>1, <1>3, <1>4, <1>5 DEF FilesIInv

\* What a step does to the clock, the files and the ghost: somebody writes, or
\* removes, or the clock is read, or nothing.
GhostStep ==
    \/ \E i \in Items : Write(i) \/ Remove(i)
    \/ Tick /\ UNCHANGED files
    \/ UNCHANGED <<clock, files, held>>

LEMMA StepGhost == TypeOK /\ [Next]_vars => GhostStep
<1> SUFFICES ASSUME TypeOK, [Next]_vars PROVE GhostStep
  OBVIOUS
<1>1. ASSUME NEW i \in Items, Write(i) \/ Remove(i) PROVE GhostStep
  BY <1>1 DEF GhostStep
<1>2. ASSUME NEW c \in Callers, Arrive(c) \/ \E full \in Kinds : AskBegin(c, full)
      PROVE GhostStep
  BY <1>2 DEF GhostStep, Arrive, AskBegin
<1>3. ASSUME NEW c \in Callers,
             \/ \E full \in Kinds : AskLatest(c, full) \/ AskJoin(c, full)
             \/ \E i \in Items : List(c, i)
             \/ ListFails(c) \/ Publish(c) \/ Finish(c)
      PROVE GhostStep
  BY <1>3 DEF GhostStep, AskLatest, AskJoin, List, ListFails, Publish, Finish
<1>4. CASE UNCHANGED vars
  BY <1>4 DEF GhostStep, vars, server
<1> QED BY <1>1, <1>2, <1>3, <1>4 DEF Next, Ask

\* The ghost keeps its shape, and only grows.
LEMMA GhostKept ==
    ASSUME TypeOK, TypeOK', ClockSound, HeldBounded, StampsGrow, GhostStep
    PROVE  /\ HeldBounded' /\ StampsGrow'
           /\ held \subseteq held' /\ clock <= clock'
           /\ removals' = 0 => removals = 0 /\ \A i \in Items : disk[i] <= disk'[i]
<1> DEFINE Goal ==
        /\ HeldBounded' /\ StampsGrow'
        /\ held \subseteq held' /\ clock <= clock'
        /\ removals' = 0 => removals = 0 /\ \A i \in Items : disk[i] <= disk'[i]
<1>0. \A h \in held : h[1] \in Items /\ h[2] \in 0..clock /\ h[3] \in 0..writes
  BY DEF TypeOK, HeldBounded
<1>1. ASSUME NEW i \in Items, Remove(i) PROVE Goal
  <2>1. /\ removals' = removals + 1 /\ clock' = clock /\ writes' = writes
        /\ held' = held \cup {<<i, clock, Absent>>}
    BY <1>1 DEF Remove, server
  <2>2. removals' # 0
    BY <2>1 DEF TypeOK
  <2> QED BY <1>0, <2>1, <2>2 DEF HeldBounded, StampsGrow, TypeOK, Absent
<1>2. ASSUME NEW i \in Items, Write(i) PROVE Goal
  <2>1. /\ writes' = writes + 1 /\ clock' = clock /\ removals' = removals
        /\ disk' = [disk EXCEPT ![i] = writes + 1]
        /\ held' = held \cup {<<i, clock, writes + 1>>}
    BY <1>2 DEF Write, server
  <2>2. HeldBounded'
    BY <1>0, <2>1 DEF HeldBounded, TypeOK
  <2>3. \A j \in Items : <<j, clock, disk[j]>> \in held
    BY DEF ClockSound
  <2>4. \A j \in Items : disk[j] \in 0..writes
    BY <1>0, <2>3
  <2>5. \A j \in Items : disk[j] <= disk'[j]
    BY <2>1, <2>4 DEF TypeOK
  <2>6. StampsGrow'
    BY <1>0, <2>1, <2>5 DEF StampsGrow, TypeOK
  <2> QED BY <2>1, <2>2, <2>5, <2>6 DEF TypeOK
<1>3. CASE Tick /\ UNCHANGED files
  <2>1. /\ clock' = clock + 1 /\ UNCHANGED <<disk, writes, removals>>
        /\ held' = held \cup {<<i, clock + 1, disk[i]>> : i \in Items}
    BY <1>3 DEF Tick, files
  <2>2. \A i \in Items : disk[i] \in 0..writes
    BY <1>0 DEF ClockSound
  <2>3. HeldBounded'
    BY <1>0, <2>1, <2>2 DEF HeldBounded, TypeOK
  <2>4. StampsGrow'
    BY <1>0, <2>1, <2>2 DEF StampsGrow, TypeOK
  <2> QED BY <2>1, <2>2, <2>3, <2>4 DEF TypeOK
<1>4. CASE UNCHANGED <<clock, files, held>>
  BY <1>4 DEF HeldBounded, StampsGrow, files, TypeOK
<1> QED BY <1>1, <1>2, <1>3, <1>4 DEF GhostStep

\* A step of the checks that is not a request's own leaves the request answered.
OthersStep(c) ==
    \/ \E i \in Items : Write(i) \/ Remove(i)
    \/ \E d \in Callers :
         \/ Arrive(d)
         \/ d # c /\ \E full \in Kinds : Ask(d, full)
         \/ \E i \in Items : List(d, i)
         \/ ListFails(d)
         \/ Publish(d)
         \/ d # c /\ Finish(d)
    \/ UNCHANGED vars

LEMMA AnsweredStays ==
    ASSUME TypeOK, NEW c \in Callers, pc[c] = "answered", OthersStep(c)
    PROVE  pc'[c] = "answered" /\ floor'[c] = floor[c]
<1> USE DEF TypeOK
<1>1. ASSUME NEW i \in Items, Write(i) \/ Remove(i)
      PROVE  pc'[c] = "answered" /\ floor'[c] = floor[c]
  BY <1>1 DEF Write, Remove, server
<1>2. ASSUME NEW d \in Callers, Arrive(d)
      PROVE  pc'[c] = "answered" /\ floor'[c] = floor[c]
  BY <1>2 DEF Arrive
<1>3. ASSUME NEW d \in Callers, d # c, NEW full \in Kinds, Ask(d, full)
      PROVE  pc'[c] = "answered" /\ floor'[c] = floor[c]
  BY <1>3 DEF Ask, AskLatest, AskJoin, AskBegin
<1>4. ASSUME NEW d \in Callers,
             (\E i \in Items : List(d, i)) \/ ListFails(d) \/ Publish(d)
      PROVE  pc'[c] = "answered" /\ floor'[c] = floor[c]
  BY <1>4 DEF List, ListFails, Publish
<1>5. ASSUME NEW d \in Callers, d # c, Finish(d)
      PROVE  pc'[c] = "answered" /\ floor'[c] = floor[c]
  BY <1>5 DEF Finish
<1>6. CASE UNCHANGED vars
  BY <1>6 DEF vars, server
<1> QED BY <1>1, <1>2, <1>3, <1>4, <1>5, <1>6 DEF OthersStep

\* What the checks do while the entries stay as they are disturbs no entry and
\* no page: every request that still holds one is answered, since the same moment.
LEMMA ChecksKeep ==
    ASSUME FilesIInv, budget' = budget, entries' = entries, current' = current,
           holds' \in [Callers -> 0..Len(entries)],
           \A c \in Callers : holds'[c] # NoEntry => holds'[c] = holds[c] /\ OthersStep(c),
           [Next]_vars
    PROVE  FilesIInv'
<1>1. IInv' /\ TypeOK /\ TypeOK'
  BY IInvStep DEF FilesIInv, IInv
<1>2. /\ HeldBounded' /\ StampsGrow'
      /\ held \subseteq held' /\ clock <= clock'
      /\ removals' = 0 => removals = 0 /\ \A i \in Items : disk[i] <= disk'[i]
  BY <1>1, StepGhost, GhostKept DEF FilesIInv, IInv
<1>3. CacheTyped'
  BY DEF FilesIInv, CacheTyped
<1>4. \A c \in Callers : holds'[c] # NoEntry => pc[c] = "answered" /\ budget.pages
  BY DEF FilesIInv, HoldersAnswered
<1>5. \A c \in Callers : holds'[c] # NoEntry => pc'[c] = "answered" /\ floor'[c] = floor[c]
  BY <1>1, <1>4, AnsweredStays
<1>6. HoldersAnswered'
  BY <1>4, <1>5 DEF HoldersAnswered
<1>7. KeptSound'
  <2> SUFFICES ASSUME current # NoEntry, removals' = 0, NEW i \in Shell
               PROVE  /\ entries[current].fingerprint[i] <= disk'[i]
                      /\ i \in entries[current].read =>
                           /\ entries[current].fingerprint[i] <= entries[current].content[i]
                           /\ HeldSince(i, 0, entries[current].content[i])'
    BY DEF KeptSound
  <2>1. /\ entries[current].fingerprint[i] <= disk[i]
        /\ i \in entries[current].read =>
             /\ entries[current].fingerprint[i] <= entries[current].content[i]
             /\ HeldSince(i, 0, entries[current].content[i])
    BY <1>2 DEF FilesIInv, KeptSound
  <2>2. entries[current] \in EntryType
    BY DEF FilesIInv, CacheTyped, NoEntry
  <2>3. /\ entries[current].fingerprint[i] \in Nat
        /\ disk[i] \in Nat /\ disk'[i] \in Nat /\ disk[i] <= disk'[i]
    BY <1>1, <1>2, <2>2 DEF EntryType, TypeOK, Items
  <2>4. i \in entries[current].read => HeldSince(i, 0, entries[current].content[i])'
    BY <1>1, <1>2, <2>1, HeldGrows DEF TypeOK
  <2> QED BY <2>1, <2>3, <2>4
<1>8. PagesFresh'
  <2> SUFFICES ASSUME NEW c \in Callers, holds'[c] # NoEntry, removals' = 0,
                      NEW i \in entries[holds[c]].read
               PROVE  HeldSince(i, floor[c], entries[holds[c]].content[i])'
    BY DEF PagesFresh
  <2>1. HeldSince(i, floor[c], entries[holds[c]].content[i])
    BY <1>2 DEF FilesIInv, PagesFresh
  <2> DEFINE v == entries[holds[c]].content[i]
  <2>2. /\ held \subseteq held' /\ clock <= clock' /\ floor'[c] = floor[c]
        /\ clock \in Nat /\ clock' \in Nat /\ floor[c] \in Nat
    BY <1>1, <1>2, <1>5 DEF TypeOK
  <2>3. PICK u \in floor[c]..clock : <<i, u, v>> \in held
    BY <2>1 DEF HeldSince
  <2>4. holds'[c] = holds[c] /\ entries' = entries
    OBVIOUS
  <2>5. u \in (floor[c]..clock)' /\ <<i, u, v>> \in held'
    BY <2>2, <2>3
  <2> QED BY <2>4, <2>5 DEF HeldSince
<1> QED BY <1>1, <1>2, <1>3, <1>6, <1>7, <1>8 DEF FilesIInv

\* A fingerprint without an error is of stamps held since the request arrived.
LEMMA KeySound ==
    ASSUME FilesIInv, NEW c \in Callers, pc[c] = "answered", NEW i \in Shell
    PROVE  /\ DocumentationKey(answer[c]) \in [Shell -> Nat]
           /\ DocumentationKey(answer[c])[i] = answer[c].seen[i]
           /\ ~answer[c].err =>
                /\ HeldSince(i, floor[c], answer[c].seen[i])
                /\ removals = 0 => answer[c].seen[i] <= disk[i]
<1>1. answer[c].seen \in [Items -> Nat] /\ i \in Items
  BY DEF FilesIInv, IInv, TypeOK, State, Items
<1>2. ASSUME ~answer[c].err PROVE HeldSince(i, floor[c], answer[c].seen[i])
  BY <1>2, IInvSafe DEF FilesIInv, AnswersFresh, Covered, Items
<1>3. ASSUME ~answer[c].err, removals = 0 PROVE answer[c].seen[i] <= disk[i]
  <2>1. PICK u \in floor[c]..clock : <<i, u, answer[c].seen[i]>> \in held
    BY <1>2, <1>3 DEF HeldSince
  <2> QED BY <1>3, <2>1 DEF FilesIInv, StampsGrow
<1> QED BY <1>1, <1>2, <1>3 DEF DocumentationKey, Items

\* The heart of the argument: what was read into the kept entry, under an equal
\* fingerprint taken earlier, is what the file held since this request arrived.
LEMMA KeptAnswers ==
    ASSUME FilesIInv, removals = 0, NEW c \in Callers, pc[c] = "answered", ~answer[c].err,
           current # NoEntry,
           entries[current].fingerprint = DocumentationKey(answer[c]),
           NEW i \in entries[current].read
    PROVE  HeldSince(i, floor[c], entries[current].content[i])
<1> DEFINE s == answer[c].seen[i]
           v == entries[current].content[i]
<1>1. i \in Shell /\ i \in Items
  <2>1. current \in 1..Len(entries) /\ entries \in Seq(EntryType)
    BY DEF FilesIInv, CacheTyped, NoEntry
  <2>2. entries[current] \in EntryType
    BY <2>1
  <2> QED BY <2>2 DEF EntryType, Items
<1>2. HeldSince(i, floor[c], s) /\ entries[current].fingerprint[i] = s
  BY <1>1, KeySound
<1>3. s <= v /\ HeldSince(i, 0, v)
  BY <1>1, <1>2 DEF FilesIInv, KeptSound
<1> HIDE DEF s, v
<1>4. PICK u \in floor[c]..clock : <<i, u, s>> \in held
  BY <1>2 DEF HeldSince
<1>5. PICK w \in 0..clock : <<i, w, v>> \in held
  BY <1>3 DEF HeldSince
<1>6. s \in Nat /\ v \in Nat /\ u \in Nat /\ floor[c] \in Nat /\ clock \in Nat
  BY <1>4, <1>5 DEF FilesIInv, IInv, TypeOK
<1>7. CASE w >= u
  BY <1>4, <1>5, <1>6, <1>7 DEF HeldSince, v
<1>8. CASE w < u
  <2>1. v <= s
    BY <1>4, <1>5, <1>8 DEF FilesIInv, StampsGrow
  <2> QED BY <1>2, <1>3, <1>6, <2>1 DEF HeldSince, v
<1> QED BY <1>4, <1>5, <1>6, <1>7, <1>8

\* Nothing of the checks changes while a request takes or reads an entry.
LEMMA ChecksUnchanged ==
    ASSUME FilesIInv, UNCHANGED vars
    PROVE  /\ IInv' /\ HeldBounded' /\ StampsGrow'
           /\ UNCHANGED <<pc, floor, clock, held, removals, disk>>
           /\ \A i, t, s : HeldSince(i, t, s) <=> HeldSince(i, t, s)'
<1>1. UNCHANGED <<pc, floor, clock, held, removals, disk, writes>>
  BY DEF vars, server, files
<1>2. IInv'
  BY IInvStep DEF FilesIInv
<1>3. HeldBounded' /\ StampsGrow'
  BY <1>1 DEF FilesIInv, HeldBounded, StampsGrow
<1> QED BY <1>1, <1>2, <1>3 DEF HeldSince

LEMMA TakeKeptKeeps == ASSUME FilesIInv, NEW c \in Callers, budget.pages, TakeKept(c)
                       PROVE  FilesIInv'
<1>0. /\ IInv' /\ HeldBounded' /\ StampsGrow'
      /\ UNCHANGED <<pc, floor, clock, held, removals, disk>>
      /\ \A i, t, s : HeldSince(i, t, s) <=> HeldSince(i, t, s)'
  BY ChecksUnchanged DEF TakeKept
<1>1. /\ UNCHANGED <<entries, current, budget>>
      /\ holds' = [holds EXCEPT ![c] = current]
      /\ pc[c] = "answered" /\ current # NoEntry /\ ~answer[c].err
      /\ entries[current].fingerprint = DocumentationKey(answer[c])
  BY DEF TakeKept
<1>2. CacheTyped' /\ HoldersAnswered'
  BY <1>0, <1>1 DEF FilesIInv, CacheTyped, HoldersAnswered
<1>3. KeptSound'
  BY <1>0, <1>1 DEF FilesIInv, KeptSound
<1>4. PagesFresh'
  <2> SUFFICES ASSUME NEW d \in Callers, holds'[d] # NoEntry, removals = 0,
                      NEW i \in entries[holds'[d]].read
               PROVE  HeldSince(i, floor[d], entries[holds'[d]].content[i])
    BY <1>0, <1>1 DEF PagesFresh
  <2>1. CASE d = c
    BY <1>1, <2>1, KeptAnswers DEF FilesIInv, CacheTyped
  <2>2. CASE d # c
    BY <1>1, <2>2 DEF FilesIInv, CacheTyped, PagesFresh
  <2> QED BY <2>1, <2>2
<1> QED BY <1>0, <1>2, <1>3, <1>4 DEF FilesIInv

\* A new entry has nothing in it yet.
LEMMA NewEntry ==
    ASSUME FilesIInv, NEW c \in Callers, pc[c] = "answered",
           entries' = Append(entries, Entry(DocumentationKey(answer[c])))
    PROVE  /\ entries' \in Seq(EntryType)
           /\ Len(entries') = Len(entries) + 1
           /\ entries'[Len(entries) + 1].fingerprint = DocumentationKey(answer[c])
           /\ entries'[Len(entries) + 1].read = {}
           /\ \A e \in 1..Len(entries) : entries'[e] = entries[e]
<1> DEFINE new == Entry(DocumentationKey(answer[c]))
<1>1. DocumentationKey(answer[c]) \in [Shell -> Nat]
  BY DEF DocumentationKey, FilesIInv, IInv, TypeOK, State, Items
<1>2. /\ new \in EntryType /\ new.read = {}
      /\ new.fingerprint = DocumentationKey(answer[c])
  BY <1>1 DEF Entry, EntryType, Absent
<1>3. entries \in Seq(EntryType) /\ entries' = Append(entries, new)
  BY DEF FilesIInv, CacheTyped
<1> HIDE DEF new
<1> QED BY <1>2, <1>3, AppendProperties

LEMMA TakeAnotherKeeps == ASSUME FilesIInv, NEW c \in Callers, budget.pages,
                                 TakeNew(c) \/ TakeAfresh(c)
                          PROVE  FilesIInv'
<1>0. /\ IInv' /\ HeldBounded' /\ StampsGrow'
      /\ UNCHANGED <<pc, floor, clock, held, removals, disk>>
      /\ \A i, t, s : HeldSince(i, t, s) <=> HeldSince(i, t, s)'
  BY ChecksUnchanged DEF TakeNew, TakeAfresh
<1>1. /\ pc[c] = "answered" /\ UNCHANGED budget
      /\ entries' = Append(entries, Entry(DocumentationKey(answer[c])))
  BY DEF TakeNew, TakeAfresh
<1>2. /\ entries' \in Seq(EntryType)
      /\ Len(entries') = Len(entries) + 1
      /\ entries'[Len(entries) + 1].fingerprint = DocumentationKey(answer[c])
      /\ entries'[Len(entries) + 1].read = {}
      /\ \A e \in 1..Len(entries) : entries'[e] = entries[e]
  BY <1>1, NewEntry
<1>3. /\ holds' = [holds EXCEPT ![c] = Len(entries) + 1]
      /\ \/ current' = Len(entries) + 1 /\ ~answer[c].err
         \/ current' = current
  BY <1>2 DEF TakeNew, TakeAfresh
<1>4. Len(entries) \in Nat /\ current \in 0..Len(entries) /\ budget \in Budgets
      /\ holds \in [Callers -> 0..Len(entries)]
  BY DEF FilesIInv, CacheTyped
<1>5. CacheTyped'
  BY <1>1, <1>2, <1>3, <1>4 DEF CacheTyped
<1>6. HoldersAnswered'
  BY <1>0, <1>1, <1>3, <1>4 DEF FilesIInv, HoldersAnswered
<1>7. KeptSound'
  <2>1. CASE current' = current
    BY <1>0, <1>2, <1>4, <2>1 DEF FilesIInv, KeptSound, NoEntry
  <2>2. CASE current' = Len(entries) + 1 /\ ~answer[c].err
    BY <1>0, <1>1, <1>2, <2>2, KeySound DEF KeptSound
  <2> QED BY <1>3, <2>1, <2>2
<1>8. PagesFresh'
  <2> SUFFICES ASSUME NEW d \in Callers, holds'[d] # NoEntry, removals = 0,
                      NEW i \in entries'[holds'[d]].read
               PROVE  HeldSince(i, floor[d], entries'[holds'[d]].content[i])
    BY <1>0 DEF PagesFresh
  <2>1. d # c
    BY <1>2, <1>3, <1>4
  <2>2. holds'[d] = holds[d] /\ entries'[holds[d]] = entries[holds[d]]
    BY <1>2, <1>3, <1>4, <2>1 DEF NoEntry
  <2> QED BY <2>2 DEF FilesIInv, PagesFresh
<1> QED BY <1>0, <1>5, <1>6, <1>7, <1>8 DEF FilesIInv

\* What is read now is held now, which is since any request arrived.
LEMMA ReadPartKeeps == ASSUME FilesIInv, NEW c \in Callers, NEW i \in Shell, ReadPart(c, i)
                       PROVE  FilesIInv'
<1> DEFINE e == holds[c]
           new == [entries[e] EXCEPT !.read = @ \cup {i}, !.content[i] = disk[i]]
<1>0. /\ IInv' /\ HeldBounded' /\ StampsGrow'
      /\ UNCHANGED <<pc, floor, clock, held, removals, disk>>
      /\ \A j, t, s : HeldSince(j, t, s) <=> HeldSince(j, t, s)'
  BY ChecksUnchanged DEF ReadPart
<1>1. /\ e \in 1..Len(entries) /\ entries \in Seq(EntryType)
      /\ UNCHANGED <<current, holds, budget>>
  BY DEF ReadPart, FilesIInv, CacheTyped, NoEntry
<1>2. entries[e] \in EntryType /\ disk[i] \in Nat /\ i \in Items
  BY <1>1 DEF FilesIInv, IInv, TypeOK, Items
<1>3. entries' = [entries EXCEPT ![e] = new]
  BY <1>1 DEF ReadPart
<1>4. /\ new \in EntryType
      /\ new.fingerprint = entries[e].fingerprint
      /\ new.read = entries[e].read \cup {i}
      /\ new.content = [entries[e].content EXCEPT ![i] = disk[i]]
      /\ new.content[i] = disk[i]
      /\ \A j \in Shell \ {i} : new.content[j] = entries[e].content[j]
  BY <1>2 DEF EntryType
<1> HIDE DEF e, new
<1>5. /\ entries' \in Seq(EntryType) /\ Len(entries') = Len(entries)
      /\ entries'[e] = new
      /\ \A f \in 1..Len(entries) : f # e => entries'[f] = entries[f]
  BY <1>1, <1>3, <1>4, ExceptSeq
<1>6. CacheTyped' /\ HoldersAnswered'
  BY <1>0, <1>1, <1>5 DEF FilesIInv, CacheTyped, HoldersAnswered
<1>7. \A d \in Callers : HeldSince(i, floor[d], disk[i])
  BY <1>2 DEF FilesIInv, IInv, ClockSound, TypeOK, HeldSince
<1>8. HeldSince(i, 0, disk[i])
  BY <1>2 DEF FilesIInv, IInv, ClockSound, TypeOK, HeldSince
<1>9. KeptSound'
  <2> SUFFICES ASSUME current # NoEntry, removals = 0, NEW j \in Shell
               PROVE  /\ entries'[current].fingerprint[j] <= disk[j]
                      /\ j \in entries'[current].read =>
                           /\ entries'[current].fingerprint[j] <= entries'[current].content[j]
                           /\ HeldSince(j, 0, entries'[current].content[j])
    BY <1>0, <1>1 DEF KeptSound
  <2>1. /\ entries[current].fingerprint[j] <= disk[j]
        /\ j \in entries[current].read =>
             /\ entries[current].fingerprint[j] <= entries[current].content[j]
             /\ HeldSince(j, 0, entries[current].content[j])
    BY DEF FilesIInv, KeptSound
  <2>2. current \in 1..Len(entries)
    BY DEF FilesIInv, CacheTyped, NoEntry
  <2>3. CASE current = e /\ j = i
    BY <1>4, <1>5, <1>8, <2>1, <2>3
  <2>4. CASE current = e /\ j # i
    BY <1>4, <1>5, <2>1, <2>4
  <2>5. CASE current # e
    BY <1>5, <2>1, <2>2, <2>5
  <2> QED BY <2>3, <2>4, <2>5
<1>10. PagesFresh'
  <2> SUFFICES ASSUME NEW d \in Callers, holds[d] # NoEntry, removals = 0,
                      NEW j \in entries'[holds[d]].read
               PROVE  HeldSince(j, floor[d], entries'[holds[d]].content[j])
    BY <1>0, <1>1 DEF PagesFresh
  <2>1. holds[d] \in 1..Len(entries)
    BY DEF FilesIInv, CacheTyped, NoEntry
  <2>2. CASE holds[d] = e /\ j = i
    BY <1>4, <1>5, <1>7, <2>2
  <2>3. CASE holds[d] = e /\ j # i
    <3>1. j \in entries[e].read /\ j \in Shell
      BY <1>2, <1>4, <1>5, <2>3 DEF EntryType
    <3> QED BY <1>4, <1>5, <2>3, <3>1 DEF FilesIInv, PagesFresh
  <2>4. CASE holds[d] # e
    BY <1>5, <2>1, <2>4 DEF FilesIInv, PagesFresh
  <2> QED BY <2>2, <2>3, <2>4
<1> QED BY <1>0, <1>6, <1>9, <1>10 DEF FilesIInv

LEMMA FilesIInvStep == FilesIInv /\ [FilesNext]_allVars => FilesIInv'
<1> SUFFICES ASSUME FilesIInv, [FilesNext]_allVars PROVE FilesIInv'
  OBVIOUS
<1>0. budget \in Budgets /\ holds \in [Callers -> 0..Len(entries)]
  BY DEF FilesIInv, CacheTyped
<1>1. [Next]_vars
  BY <1>0, CacheStepRefines
<1>2. CASE Step /\ UNCHANGED cacheVars
  <2>1. ASSUME NEW c \in Callers, holds[c] # NoEntry PROVE OthersStep(c)
    <3>1. budget.pages
      BY <2>1 DEF FilesIInv, HoldersAnswered
    <3>2. /\ budget.items \subseteq Items /\ budget.callers \subseteq Callers
          /\ budget.kinds \subseteq Kinds
      BY <1>0, BudgetsAssumption
    <3> QED BY <1>2, <2>1, <3>1, <3>2 DEF Step, OthersStep
  <2> QED BY <1>0, <1>1, <1>2, <2>1, ChecksKeep DEF cacheVars
<1>3. CASE UNCHANGED allVars
  <2>1. \A c \in Callers : OthersStep(c)
    BY <1>3 DEF allVars, OthersStep
  <2> QED BY <1>0, <1>1, <1>3, <2>1, ChecksKeep DEF allVars, cacheVars
<1>4. ASSUME NEW c \in Callers, ServePage(c) PROVE FilesIInv'
  <2>1. /\ UNCHANGED <<entries, current, budget>>
        /\ holds' = [holds EXCEPT ![c] = NoEntry]
        /\ Finish(c)
    BY <1>4 DEF ServePage
  <2>2. ASSUME NEW d \in Callers, holds'[d] # NoEntry
        PROVE  holds'[d] = holds[d] /\ OthersStep(d)
    BY <1>0, <2>1, <2>2 DEF OthersStep
  <2> QED BY <1>0, <1>1, <2>1, <2>2, ChecksKeep DEF NoEntry
<1>5. ASSUME NEW c \in Callers, budget.pages, TakeKept(c) \/ TakeNew(c) \/ TakeAfresh(c)
      PROVE  FilesIInv'
  BY <1>5, TakeKeptKeeps, TakeAnotherKeeps
<1>6. ASSUME NEW c \in Callers, NEW i \in Shell, ReadPart(c, i) PROVE FilesIInv'
  BY <1>6, ReadPartKeeps
<1> QED BY <1>2, <1>3, <1>4, <1>5, <1>6 DEF FilesNext

\* What is kept of a file, and what a request serves from it, was the file's
\* since the stamp it is kept under (sagaFilesAt).
THEOREM FilesInvariance == FilesSpec => []FilesIInv
BY FilesInitInv, FilesIInvStep, PTL DEF FilesSpec

\* The cache of the Saga's files is built on the freshness checks and changes
\* nothing of what they promise.
THEOREM CacheImplementsChecks == FilesSpec => Spec
<1>1. FilesInit => Init
  BY DEF FilesInit
<1>2. FilesIInv /\ [FilesNext]_allVars => [Next]_vars
  BY CacheStepRefines DEF FilesIInv, CacheTyped
<1> QED BY <1>1, <1>2, FilesInvariance, PTL DEF FilesSpec, Spec

\* What a page shows of a file is what the file held at some moment since its
\* request arrived, though it was read by another request, before this one, into
\* the entry the two share (sagaFilesAt).
THEOREM PagesAreFresh == FilesSpec => []PagesFresh
<1>1. FilesIInv => PagesFresh
  BY DEF FilesIInv
<1> QED BY <1>1, FilesInvariance, PTL
-----------------------------------------------------------------------------
(***************************************************************************)
(* The comparison snapshot (ReviewSnapshot), for any number of requests,   *)
(* edits, commits, failures and restarts.  A report is followed from the   *)
(* walk it was derived at: into its generation (Generations), the snapshot *)
(* in memory (Memory) and the answers (Served).  What an edit overtakes on *)
(* that way is marked as such.  Nothing is known of the version of a       *)
(* report kept under the key of a failed walk (BlindKeys says when there   *)
(* is one).                                                                *)
(***************************************************************************)
\* Where a request builds.
Making == {"loading", "keying", "deriving", "printing", "finishing"}

\* Versions, and what is updated request by request.
SnapshotTyped ==
    /\ tree \in Nat \ {0} /\ source \in Nat \ {0} /\ failures \in Nat
    /\ stage = [r \in Requests |-> stage[r]]
    /\ arrived = [r \in Requests |-> arrived[r]]
    /\ pinned = [r \in Requests |-> pinned[r]]
    /\ key = [r \in Requests |-> key[r]]
    /\ outcome = [r \in Requests |-> outcome[r]]
    /\ served = [r \in Requests |-> served[r]]
    /\ draft = [r \in Requests |-> [doc |-> draft[r].doc, report |-> draft[r].report]]

\* A request sees the source as it was when it arrived.
Arrived(r) ==
        IF stage[r] = "idle" THEN outcome[r] = "none"
        ELSE /\ arrived[r].tree \in 1..tree
             /\ arrived[r].source \in 1..source /\ pinned[r] = arrived[r].source
Arrivals == \A r \in Requests : Arrived(r)

\* One request builds at a time.
OneBuilder ==
    \A r \in Requests : stage[r] \in Making =>
        building /\ \A q \in Requests : stage[q] \in Making => q = r

\* As new as that version, or overtaken while a build was at work on it.
Since(v, t) == v \in t..tree \/ v \in overtaken

\* Whatever was edited since then was overtaken so.
Through(t) == \A v \in t..(tree - 1) : v \in overtaken

\* A report of this source, of the Saga at this version or later, but for what was
\* overtaken, or unless it was kept under the key of a walk that failed.
Suits(report, t, s) ==
    \/ report = NoReport
    \/ /\ report.source = s
       /\ KeptBlindly(report) \/ (Since(report.doc, t) /\ Since(report.inventory, t))

\* What the build has so far.
Draft(r) ==
        /\ stage[r] \in Making \ {"loading"} => draft[r].doc \in arrived[r].tree..tree
        /\ stage[r] \in Loaded => Through(draft[r].doc)
        /\ stage[r] \in {"deriving", "finishing"} =>
             /\ key[r].source = pinned[r]
             /\ key[r].tree # Unknown => key[r].tree \in arrived[r].tree..tree
        /\ stage[r] = "deriving" /\ key[r].tree # Unknown => Through(key[r].tree)
        /\ stage[r] = "printing" => Suits(draft[r].report, tree, pinned[r])
        /\ stage[r] = "finishing" =>
             /\ Suits(draft[r].report, arrived[r].tree, pinned[r])
             /\ key[r].tree # Unknown =>
                  Since(draft[r].doc, key[r].tree) /\ Suits(draft[r].report, key[r].tree, pinned[r])
        /\ stage[r] \in {"idle", "arrived", "loading", "keying", "deriving"} =>
             draft[r].report = NoReport
Drafts == \A r \in Requests : Draft(r)

\* What is on disk under a key was derived from what the key says.
Generations ==
    \A g \in generations :
        /\ g.report.source = g.key.source
        /\ g.key.tree # Unknown =>
             Since(g.report.doc, g.key.tree) /\ Since(g.report.inventory, g.key.tree)

\* Each key that says nothing of the Saga is of a walk that failed.
BlindKeys ==
    LET some == \E g \in generations : g.key.tree = Unknown
        another == \E r \in Requests : stage[r] = "deriving" /\ key[r].tree = Unknown
    IN  (some \/ another => failures >= 1) /\ (some /\ another => failures >= 2)

\* What is kept in memory is described by its fingerprints.
Memory ==
    kept # <<>> =>
        /\ Len(kept) = 1
        /\ sagaPrint # Unknown =>
             /\ Since(kept[1].doc, sagaPrint)
             /\ Suits(kept[1].report, sagaPrint, sourcePrint)

\* What was answered.
ServedTo(r) ==
    outcome[r] = "served" =>
        /\ Since(served[r].doc, arrived[r].tree)
        /\ Suits(served[r].report, arrived[r].tree, arrived[r].source)
Served == \A r \in Requests : ServedTo(r)

SnapshotInv ==
    SnapshotTyped /\ Arrivals /\ OneBuilder /\ Drafts /\ Generations /\ BlindKeys /\ Memory /\ Served

\* What is as new as a version is as new as a later one, when all in between was
\* overtaken.
LEMMA SinceThrough ==
    ASSUME tree \in Nat, NEW low \in Nat, NEW t, t \in low..tree, Through(t)
    PROVE  /\ \A v : Since(v, t) => Since(v, tree)
           /\ Since(t, tree) /\ Since(tree, t)
<1>1. t \in Int /\ t <= tree
  OBVIOUS
<1>2. ASSUME NEW v, v \in t..tree PROVE v \in tree..tree \/ v \in overtaken
  <2>1. v \in Int /\ t <= v /\ v <= tree
    BY <1>1, <1>2
  <2>2. CASE v = tree
    BY <2>2
  <2>3. CASE v # tree
    BY <1>1, <2>1, <2>3 DEF Through
  <2> QED BY <2>2, <2>3
<1>3. \A v : Since(v, t) => Since(v, tree)
  BY <1>2 DEF Since
<1>4. t \in t..tree /\ tree \in t..tree
  BY <1>1
<1> QED BY <1>2, <1>3, <1>4 DEF Since

\* A build that does nothing has what it had, while others fail and publish.
LEMMA KeepsDraft ==
    ASSUME SnapshotInv, NEW r \in Requests, tree' = tree, overtaken' = overtaken,
           generations \subseteq generations', failures' \in Nat, failures' >= failures,
           draft'[r] = draft[r], key'[r] = key[r],
           pinned'[r] = pinned[r], arrived'[r] = arrived[r],
           stage'[r] = stage[r] \/ stage'[r] \in {"refused", "done"}
    PROVE  Draft(r)'
<1>1. CASE stage'[r] \in {"refused", "done"}
  BY <1>1 DEF Draft, Making, Loaded
<1>2. CASE stage'[r] = stage[r]
  <2>1. Draft(r)
    BY DEF SnapshotInv, Drafts
  <2>2. KeptBlindly(draft[r].report) => KeptBlindly(draft[r].report)'
    BY DEF KeptBlindly, SnapshotInv, SnapshotTyped
  <2>3. /\ stage[r] \in Making \ {"loading"} => draft[r].doc \in arrived[r].tree..tree
        /\ stage[r] \in Loaded => Through(draft[r].doc)
        /\ stage[r] \in {"deriving", "finishing"} =>
             /\ key[r].source = pinned[r]
             /\ key[r].tree # Unknown => key[r].tree \in arrived[r].tree..tree
        /\ stage[r] = "deriving" /\ key[r].tree # Unknown => Through(key[r].tree)
        /\ stage[r] \in {"idle", "arrived", "loading", "keying", "deriving"} =>
             draft[r].report = NoReport
    BY <2>1 DEF Draft
  <2>4. CASE stage[r] = "printing"
    <3>1. Suits(draft[r].report, tree, pinned[r])
      BY <2>1, <2>4 DEF Draft
    <3>2. Suits(draft[r].report, tree, pinned[r])'
      BY <2>2, <3>1 DEF Suits, Since
    <3> QED BY <1>2, <2>3, <2>4, <3>2 DEF Draft, Through
  <2>5. CASE stage[r] = "finishing"
    <3>1. /\ Suits(draft[r].report, arrived[r].tree, pinned[r])
          /\ key[r].tree # Unknown =>
               Since(draft[r].doc, key[r].tree) /\ Suits(draft[r].report, key[r].tree, pinned[r])
      BY <2>1, <2>5 DEF Draft
    <3>2. Suits(draft[r].report, arrived[r].tree, pinned[r])'
      BY <2>2, <3>1 DEF Suits, Since
    <3>3. key[r].tree # Unknown =>
            Since(draft[r].doc, key[r].tree)' /\ Suits(draft[r].report, key[r].tree, pinned[r])'
      BY <2>2, <3>1 DEF Suits, Since
    <3> QED BY <1>2, <2>3, <2>5, <3>2, <3>3 DEF Draft, Through, Loaded
  <2>6. CASE stage[r] \notin {"printing", "finishing"}
    BY <1>2, <2>3, <2>6 DEF Draft, Through
  <2> QED BY <2>4, <2>5, <2>6
<1> QED BY <1>1, <1>2

\* An edit overtakes the version a build has loaded.
LEMMA EditsDraft == ASSUME SnapshotInv, Edit, NEW r \in Requests PROVE Draft(r)'
<1>1. /\ tree' = tree + 1 /\ overtaken \subseteq overtaken'
      /\ stage[r] \in Loaded => tree \in overtaken'
      /\ stage' = stage /\ draft' = draft /\ key' = key /\ pinned' = pinned /\ arrived' = arrived
      /\ generations' = generations /\ failures' = failures
  BY DEF Edit, local
<1>2. tree \in Nat \ {0} /\ Draft(r) /\ Arrived(r)
  BY DEF SnapshotInv, SnapshotTyped, Drafts, Arrivals
<1>3. stage[r] # "idle" => arrived[r].tree \in 1..tree
  BY <1>2 DEF Arrived
<1>4. KeptBlindly(draft[r].report) => KeptBlindly(draft[r].report)'
  BY <1>1 DEF KeptBlindly
<1>5. \A v \in Int : /\ Through(v) /\ stage[r] \in Loaded => Through(v)'
                     /\ \A u : Since(u, v) => Since(u, v)'
  BY <1>1, <1>2 DEF Through, Since
<1>6. \A u : Since(u, tree) /\ stage[r] \in Loaded => Since(u, tree)'
  BY <1>1, <1>2 DEF Since
<1>7. CASE stage[r] = "printing"
  <2>1. draft[r].doc \in arrived[r].tree..tree /\ Through(draft[r].doc)
    BY <1>2, <1>7 DEF Draft, Making, Loaded
  <2>2. Suits(draft[r].report, tree, pinned[r])
    BY <1>2, <1>7 DEF Draft
  <2>3. stage[r] \in Loaded
    BY <1>7 DEF Loaded
  <2>4. Suits(draft[r].report, tree, pinned[r])'
    BY <1>1, <1>4, <1>6, <2>2, <2>3 DEF Suits, Since
  <2>5. draft'[r].doc \in arrived'[r].tree..tree' /\ Through(draft[r].doc)'
    BY <1>1, <1>2, <1>3, <1>5, <1>7, <2>1, <2>3 DEF Through
  <2> QED BY <1>1, <1>7, <2>4, <2>5 DEF Draft
<1>8. CASE stage[r] = "finishing"
  <2>1. /\ draft[r].doc \in arrived[r].tree..tree /\ arrived[r].tree \in 1..tree
        /\ key[r].source = pinned[r]
        /\ key[r].tree # Unknown => key[r].tree \in arrived[r].tree..tree
        /\ Suits(draft[r].report, arrived[r].tree, pinned[r])
        /\ key[r].tree # Unknown =>
             Since(draft[r].doc, key[r].tree) /\ Suits(draft[r].report, key[r].tree, pinned[r])
    BY <1>2, <1>3, <1>8 DEF Draft, Making
  <2>2. Suits(draft[r].report, arrived[r].tree, pinned[r])'
    BY <1>1, <1>2, <1>4, <1>5, <2>1 DEF Suits, Since
  <2>3. key[r].tree # Unknown =>
          Since(draft[r].doc, key[r].tree)' /\ Suits(draft[r].report, key[r].tree, pinned[r])'
    BY <1>1, <1>2, <1>4, <1>5, <2>1 DEF Suits, Since
  <2>4. /\ draft'[r].doc \in arrived'[r].tree..tree'
        /\ key'[r].tree # Unknown => key'[r].tree \in arrived'[r].tree..tree'
    BY <1>1, <1>2, <2>1
  <2> QED BY <1>1, <1>8, <2>1, <2>2, <2>3, <2>4 DEF Draft, Loaded
<1>9. CASE stage[r] \in {"keying", "deriving"}
  <2>1. /\ draft[r].doc \in arrived[r].tree..tree /\ arrived[r].tree \in 1..tree
        /\ Through(draft[r].doc) /\ draft[r].report = NoReport /\ stage[r] \in Loaded
        /\ stage[r] = "deriving" =>
             /\ key[r].source = pinned[r]
             /\ key[r].tree # Unknown => key[r].tree \in arrived[r].tree..tree /\ Through(key[r].tree)
    BY <1>2, <1>3, <1>9 DEF Draft, Making, Loaded
  <2>2. /\ draft'[r].doc \in arrived'[r].tree..tree' /\ Through(draft[r].doc)'
        /\ stage[r] = "deriving" /\ key[r].tree # Unknown =>
             key'[r].tree \in arrived'[r].tree..tree' /\ Through(key[r].tree)'
    BY <1>1, <1>2, <1>5, <2>1 DEF Through
  <2> QED BY <1>1, <1>9, <2>1, <2>2 DEF Draft
<1>10. CASE stage[r] \notin {"keying", "deriving", "printing", "finishing"}
  BY <1>1, <1>2, <1>10 DEF Draft, Making, Loaded
<1> QED BY <1>7, <1>8, <1>9, <1>10

\* Every step of the server, of the authors and of a restart keeps all that.
LEMMA SnapshotStep ==
    ASSUME SnapshotInv, [SnapshotNext]_snapshotVars
    PROVE  SnapshotInv'
<1> USE DEF SnapshotInv, SnapshotTyped, Making, Goto, world, memory, local
<1>1. ASSUME Edit
      PROVE  SnapshotInv'
  <2>1. SnapshotTyped'
      BY <1>1 DEF Edit
  <2>2. Arrivals'
      BY <1>1 DEF Arrivals, Arrived, Edit
  <2>3. OneBuilder'
      BY <1>1 DEF OneBuilder, Edit
  <2>4. Drafts'
      BY <1>1, EditsDraft DEF Drafts
  <2>5. Generations'
      BY <1>1 DEF Generations, Edit, Since
  <2>6. BlindKeys'
      BY <1>1 DEF BlindKeys, Edit
  <2>7. Memory'
      BY <1>1 DEF Memory, Suits, KeptBlindly, Edit, Since
  <2>8. Served'
      BY <1>1 DEF Served, ServedTo, KeptBlindly, Edit, Suits, Since
  <2> QED BY <2>1, <2>2, <2>3, <2>4, <2>5, <2>6, <2>7, <2>8
<1>2. ASSUME Commit
      PROVE  SnapshotInv'
  <2>1. SnapshotTyped'
      BY <1>2 DEF Commit
  <2>2. Arrivals'
      BY <1>2 DEF Arrivals, Arrived, Commit
  <2>3. OneBuilder'
      BY <1>2 DEF OneBuilder, Commit
  <2>4. Drafts'
    <3>1. ASSUME NEW q \in Requests
          PROVE  /\ draft'[q] = draft[q] /\ key'[q] = key[q]
                 /\ pinned'[q] = pinned[q] /\ arrived'[q] = arrived[q]
                 /\ stage'[q] = stage[q] \/ stage'[q] \in {"refused", "done"}
        BY <1>2, <3>1 DEF Commit
    <3>2. /\ tree' = tree /\ overtaken' = overtaken /\ generations' = generations
          /\ failures' \in Nat /\ failures' >= failures
        BY <1>2 DEF Commit
    <3> QED BY <3>1, <3>2, KeepsDraft DEF Drafts
  <2>5. Generations'
      BY <1>2 DEF Generations, Commit, Since
  <2>6. BlindKeys'
      BY <1>2 DEF BlindKeys, Commit
  <2>7. Memory'
      BY <1>2 DEF Memory, Suits, KeptBlindly, Commit, Since
  <2>8. Served'
      BY <1>2 DEF Served, ServedTo, KeptBlindly, Commit, Suits, Since
  <2> QED BY <2>1, <2>2, <2>3, <2>4, <2>5, <2>6, <2>7, <2>8
<1>3. ASSUME Restart
      PROVE  SnapshotInv'
  <2>1. SnapshotTyped'
      BY <1>3 DEF Restart
  <2>2. Arrivals'
      BY <1>3 DEF Arrivals, Arrived, Restart
  <2>3. OneBuilder'
      BY <1>3 DEF OneBuilder, Restart
  <2>4. Drafts'
      BY <1>3 DEF Drafts, Draft, Restart, Suits, Since, Through, Loaded, KeptBlindly
  <2>5. Generations'
      BY <1>3 DEF Generations, Restart, Since
  <2>6. BlindKeys'
      BY <1>3 DEF BlindKeys, Restart
  <2>7. Memory'
      BY <1>3 DEF Memory, Restart, Suits, Since
  <2>8. Served'
      BY <1>3 DEF Served, ServedTo, KeptBlindly, Restart, Suits, Since
  <2> QED BY <2>1, <2>2, <2>3, <2>4, <2>5, <2>6, <2>7, <2>8
<1>4. ASSUME NEW r \in Requests, RequestArrives(r)
      PROVE  SnapshotInv'
  <2>1. SnapshotTyped'
      BY <1>4 DEF RequestArrives
  <2>2. Arrivals'
    <3>1. Arrived(r)'
        BY <1>4 DEF Arrived, RequestArrives
    <3>2. ASSUME NEW q \in Requests, q # r PROVE Arrived(q)'
        BY <1>4, <3>2 DEF Arrivals, Arrived, RequestArrives
    <3> QED BY <3>1, <3>2 DEF Arrivals
  <2>3. OneBuilder'
      BY <1>4 DEF OneBuilder, RequestArrives
  <2>4. Drafts'
    <3>11. Draft(r)'
        BY <1>4 DEF Drafts, Draft, RequestArrives, Loaded
    <3>12. ASSUME NEW q \in Requests, q # r
          PROVE  /\ draft'[q] = draft[q] /\ key'[q] = key[q]
                 /\ pinned'[q] = pinned[q] /\ arrived'[q] = arrived[q] /\ stage'[q] = stage[q]
        BY <1>4, <3>12 DEF RequestArrives
    <3>13. /\ tree' = tree /\ overtaken' = overtaken /\ generations \subseteq generations'
          /\ failures' \in Nat /\ failures' >= failures
        BY <1>4 DEF RequestArrives
    <3> QED BY <3>11, <3>12, <3>13, KeepsDraft DEF Drafts
  <2>5. Generations'
      BY <1>4 DEF Generations, RequestArrives, Since
  <2>6. BlindKeys'
      BY <1>4 DEF BlindKeys, RequestArrives
  <2>7. Memory'
      BY <1>4 DEF Memory, Suits, KeptBlindly, RequestArrives, Since
  <2>8. Served'
      BY <1>4 DEF Served, ServedTo, Arrivals, Arrived, KeptBlindly, RequestArrives, Suits, Since
  <2> QED BY <2>1, <2>2, <2>3, <2>4, <2>5, <2>6, <2>7, <2>8
<1>5. ASSUME NEW r \in Requests, FindBuilding(r)
      PROVE  SnapshotInv'
  <2>1. SnapshotTyped'
      BY <1>5 DEF FindBuilding
  <2>2. Arrivals'
      BY <1>5 DEF Arrivals, Arrived, FindBuilding
  <2>3. OneBuilder'
      BY <1>5 DEF OneBuilder, FindBuilding
  <2>4. Drafts'
    <3>1. ASSUME NEW q \in Requests
          PROVE  /\ draft'[q] = draft[q] /\ key'[q] = key[q]
                 /\ pinned'[q] = pinned[q] /\ arrived'[q] = arrived[q]
                 /\ stage'[q] = stage[q] \/ stage'[q] \in {"refused", "done"}
        BY <1>5, <3>1 DEF FindBuilding
    <3>2. /\ tree' = tree /\ overtaken' = overtaken /\ generations' = generations
          /\ failures' \in Nat /\ failures' >= failures
        BY <1>5 DEF FindBuilding
    <3> QED BY <3>1, <3>2, KeepsDraft DEF Drafts
  <2>5. Generations'
      BY <1>5 DEF Generations, FindBuilding, Since
  <2>6. BlindKeys'
      BY <1>5 DEF BlindKeys, FindBuilding
  <2>7. Memory'
      BY <1>5 DEF Memory, Suits, KeptBlindly, FindBuilding, Since
  <2>8. Served'
      BY <1>5 DEF Served, ServedTo, KeptBlindly, FindBuilding, Suits, Since
  <2> QED BY <2>1, <2>2, <2>3, <2>4, <2>5, <2>6, <2>7, <2>8
<1>6. ASSUME NEW r \in Requests, FindCurrent(r)
      PROVE  SnapshotInv'
  <2>1. SnapshotTyped'
      BY <1>6 DEF FindCurrent
  <2>2. Arrivals'
      BY <1>6 DEF Arrivals, Arrived, FindCurrent
  <2>3. OneBuilder'
      BY <1>6 DEF OneBuilder, FindCurrent
  <2>4. Drafts'
      BY <1>6 DEF Drafts, Draft, OneBuilder, FindCurrent, Suits, Since, Through, Loaded, KeptBlindly
  <2>5. Generations'
      BY <1>6 DEF Generations, FindCurrent, Since
  <2>6. BlindKeys'
      BY <1>6 DEF BlindKeys, FindCurrent
  <2>7. Memory'
      BY <1>6 DEF Memory, Suits, KeptBlindly, FindCurrent, Since
  <2>8. Served'
    <3>1. /\ served'[r] = kept[1] /\ Since(kept[1].doc, tree)
          /\ Suits(kept[1].report, tree, arrived[r].source)
        BY <1>6 DEF FindCurrent, IsCurrent, Memory, Arrivals, Arrived, Suits, Since
    <3>2. arrived[r].tree \in 1..tree
        BY <1>6 DEF FindCurrent, Arrivals, Arrived
    <3>3. ServedTo(r)'
        BY <1>6, <3>1, <3>2 DEF FindCurrent, ServedTo, Suits, Since, KeptBlindly, NoReport, Unknown
    <3>4. ASSUME NEW q \in Requests, q # r PROVE ServedTo(q)'
        BY <1>6, <3>4 DEF FindCurrent, Served, ServedTo, KeptBlindly, NoReport, Unknown, Suits, Since
    <3> QED BY <3>3, <3>4 DEF Served, Suits, Since
  <2> QED BY <2>1, <2>2, <2>3, <2>4, <2>5, <2>6, <2>7, <2>8
<1>7. ASSUME NEW r \in Requests, FindStale(r)
      PROVE  SnapshotInv'
  <2>1. SnapshotTyped'
    <3>1. tree' \in Nat \ {0} /\ source' \in Nat \ {0} /\ failures' \in Nat
        BY <1>7 DEF FindStale, Walk
    <3>2. draft' = [q \in Requests |-> [doc |-> draft'[q].doc, report |-> draft'[q].report]]
        BY <1>7 DEF FindStale
    <3> QED BY <1>7, <3>1, <3>2 DEF FindStale
  <2>2. Arrivals'
      BY <1>7 DEF Arrivals, Arrived, FindStale
  <2>3. OneBuilder'
      BY <1>7 DEF OneBuilder, FindStale
  <2>4. Drafts'
      BY <1>7 DEF Drafts, Draft, OneBuilder, FindStale, Suits, Since, Through, Loaded, KeptBlindly
  <2>5. Generations'
      BY <1>7 DEF Generations, FindStale, Since
  <2>6. BlindKeys'
      BY <1>7 DEF BlindKeys, FindStale, Walk
  <2>7. Memory'
      BY <1>7 DEF Memory, FindStale, Suits, Since
  <2>8. Served'
      BY <1>7 DEF Served, ServedTo, KeptBlindly, FindStale, Walk, Suits, Since
  <2> QED BY <2>1, <2>2, <2>3, <2>4, <2>5, <2>6, <2>7, <2>8
<1>8. ASSUME NEW r \in Requests, Load(r)
      PROVE  SnapshotInv'
  <2>1. SnapshotTyped'
    <3>1. tree' \in Nat \ {0} /\ source' \in Nat \ {0} /\ failures' \in Nat
        BY <1>8 DEF Load
    <3>2. draft' = [q \in Requests |-> [doc |-> draft'[q].doc, report |-> draft'[q].report]]
        BY <1>8 DEF Load
    <3> QED BY <1>8, <3>1, <3>2 DEF Load
  <2>2. Arrivals'
      BY <1>8 DEF Arrivals, Arrived, Load
  <2>3. OneBuilder'
      BY <1>8 DEF OneBuilder, Load
  <2>4. Drafts'
    <3>11. Draft(r)'
      <4>1. /\ stage'[r] = "keying" /\ draft'[r].doc = tree /\ draft'[r].report = NoReport
            /\ tree' = tree /\ overtaken' = overtaken /\ arrived'[r] = arrived[r]
          BY <1>8 DEF Load, Drafts, Draft
      <4>2. arrived[r].tree \in 1..tree
          BY <1>8 DEF Load, Arrivals, Arrived
      <4> QED BY <4>1, <4>2 DEF Draft, Through
    <3>12. ASSUME NEW q \in Requests, q # r
          PROVE  /\ draft'[q] = draft[q] /\ key'[q] = key[q]
                 /\ pinned'[q] = pinned[q] /\ arrived'[q] = arrived[q] /\ stage'[q] = stage[q]
        BY <1>8, <3>12 DEF Load
    <3>13. /\ tree' = tree /\ overtaken' = overtaken /\ generations \subseteq generations'
          /\ failures' \in Nat /\ failures' >= failures
        BY <1>8 DEF Load
    <3> QED BY <3>11, <3>12, <3>13, KeepsDraft DEF Drafts
  <2>5. Generations'
      BY <1>8 DEF Generations, Load, Since
  <2>6. BlindKeys'
      BY <1>8 DEF BlindKeys, Load
  <2>7. Memory'
      BY <1>8 DEF Memory, Suits, KeptBlindly, Load, Since
  <2>8. Served'
      BY <1>8 DEF Served, ServedTo, KeptBlindly, Load, Suits, Since
  <2> QED BY <2>1, <2>2, <2>3, <2>4, <2>5, <2>6, <2>7, <2>8
<1>9. ASSUME NEW r \in Requests, LoadFails(r)
      PROVE  SnapshotInv'
  <2>1. SnapshotTyped'
    <3>1. tree' \in Nat \ {0} /\ source' \in Nat \ {0} /\ failures' \in Nat
        BY <1>9 DEF LoadFails
    <3>2. draft' = [q \in Requests |-> [doc |-> draft'[q].doc, report |-> draft'[q].report]]
        BY <1>9 DEF LoadFails
    <3> QED BY <1>9, <3>1, <3>2 DEF LoadFails
  <2>2. Arrivals'
      BY <1>9 DEF Arrivals, Arrived, LoadFails
  <2>3. OneBuilder'
      BY <1>9 DEF OneBuilder, LoadFails
  <2>4. Drafts'
    <3>1. ASSUME NEW q \in Requests
          PROVE  /\ draft'[q] = draft[q] /\ key'[q] = key[q]
                 /\ pinned'[q] = pinned[q] /\ arrived'[q] = arrived[q]
                 /\ stage'[q] = stage[q] \/ stage'[q] \in {"refused", "done"}
        BY <1>9, <3>1 DEF LoadFails
    <3>2. /\ tree' = tree /\ overtaken' = overtaken /\ generations' = generations
          /\ failures' \in Nat /\ failures' >= failures
        BY <1>9 DEF LoadFails
    <3> QED BY <3>1, <3>2, KeepsDraft DEF Drafts
  <2>5. Generations'
      BY <1>9 DEF Generations, LoadFails, Since
  <2>6. BlindKeys'
      BY <1>9 DEF BlindKeys, LoadFails
  <2>7. Memory'
      BY <1>9 DEF Memory, Suits, KeptBlindly, LoadFails, Since
  <2>8. Served'
      BY <1>9 DEF Served, ServedTo, KeptBlindly, LoadFails, Suits, Since
  <2> QED BY <2>1, <2>2, <2>3, <2>4, <2>5, <2>6, <2>7, <2>8
<1>10. ASSUME NEW r \in Requests, ComputeKey(r)
      PROVE  SnapshotInv'
  <2>1. SnapshotTyped'
    <3>1. tree' \in Nat \ {0} /\ source' \in Nat \ {0} /\ failures' \in Nat
        BY <1>10 DEF ComputeKey, Walk
    <3>2. draft' = [q \in Requests |-> [doc |-> draft'[q].doc, report |-> draft'[q].report]]
        BY <1>10 DEF ComputeKey
    <3> QED BY <1>10, <3>1, <3>2 DEF ComputeKey
  <2>2. Arrivals'
      BY <1>10 DEF Arrivals, Arrived, ComputeKey
  <2>3. OneBuilder'
      BY <1>10 DEF OneBuilder, ComputeKey
  <2>4. Drafts'
    <3>11. Draft(r)'
      <4>1. /\ stage[r] = "keying" /\ stage'[r] = "deriving" /\ draft'[r] = draft[r]
            /\ tree' = tree /\ overtaken' = overtaken /\ arrived'[r] = arrived[r]
            /\ pinned'[r] = pinned[r] /\ key'[r].source = pinned[r]
            /\ key'[r].tree # Unknown => key'[r].tree = tree
          BY <1>10 DEF ComputeKey, Walk
      <4>2. arrived[r].tree \in 1..tree
          BY <4>1 DEF Arrivals, Arrived
      <4>3. /\ draft[r].doc \in arrived[r].tree..tree /\ Through(draft[r].doc)
            /\ draft[r].report = NoReport
          BY <4>1 DEF Drafts, Draft, Loaded
      <4> QED BY <4>1, <4>2, <4>3 DEF Draft, Through
    <3>12. ASSUME NEW q \in Requests, q # r
          PROVE  /\ draft'[q] = draft[q] /\ key'[q] = key[q]
                 /\ pinned'[q] = pinned[q] /\ arrived'[q] = arrived[q] /\ stage'[q] = stage[q]
        BY <1>10, <3>12 DEF ComputeKey, Walk
    <3>13. /\ tree' = tree /\ overtaken' = overtaken /\ generations \subseteq generations'
          /\ failures' \in Nat /\ failures' >= failures
        BY <1>10 DEF ComputeKey, Walk
    <3> QED BY <3>11, <3>12, <3>13, KeepsDraft DEF Drafts
  <2>5. Generations'
      BY <1>10 DEF Generations, ComputeKey, Since
  <2>6. BlindKeys'
      BY <1>10 DEF BlindKeys, Unknown, ComputeKey, Walk
  <2>7. Memory'
      BY <1>10 DEF Memory, Suits, KeptBlindly, ComputeKey, Walk, Since
  <2>8. Served'
      BY <1>10 DEF Served, ServedTo, KeptBlindly, ComputeKey, Walk, Suits, Since
  <2> QED BY <2>1, <2>2, <2>3, <2>4, <2>5, <2>6, <2>7, <2>8
<1>11. ASSUME NEW r \in Requests, ReadGeneration(r)
      PROVE  SnapshotInv'
  <2>1. SnapshotTyped'
    <3>1. tree' \in Nat \ {0} /\ source' \in Nat \ {0} /\ failures' \in Nat
        BY <1>11 DEF ReadGeneration
    <3>2. draft' = [q \in Requests |-> [doc |-> draft'[q].doc, report |-> draft'[q].report]]
        BY <1>11 DEF ReadGeneration
    <3> QED BY <1>11, <3>1, <3>2 DEF ReadGeneration
  <2>2. Arrivals'
      BY <1>11 DEF Arrivals, Arrived, ReadGeneration
  <2>3. OneBuilder'
      BY <1>11 DEF OneBuilder, ReadGeneration
  <2>4. Drafts'
    <3>1. PICK g \in generations : g.key = key[r] /\ draft' = [draft EXCEPT ![r].report = g.report]
        BY <1>11 DEF ReadGeneration
    <3>2. /\ stage[r] = "deriving" /\ stage'[r] = "printing"
          /\ tree' = tree /\ overtaken' = overtaken /\ arrived'[r] = arrived[r] /\ pinned'[r] = pinned[r]
          /\ generations' = generations /\ failures' = failures
        BY <1>11 DEF ReadGeneration
    <3>3. draft'[r] = [doc |-> draft[r].doc, report |-> g.report]
        BY <3>1
    <3>4. /\ g.report.source = pinned[r]
          /\ key[r].tree # Unknown => Since(g.report.doc, tree) /\ Since(g.report.inventory, tree)
      <4>1. /\ key[r].source = pinned[r]
            /\ key[r].tree # Unknown => key[r].tree \in arrived[r].tree..tree /\ Through(key[r].tree)
          BY <3>2 DEF Drafts, Draft
      <4>2. g.report.source = pinned[r]
          BY <3>1, <4>1 DEF Generations
      <4>3. key[r].tree # Unknown =>
              Since(g.report.doc, key[r].tree) /\ Since(g.report.inventory, key[r].tree)
          BY <3>1 DEF Generations
      <4>4. arrived[r].tree \in 1..tree
          BY <3>2 DEF Arrivals, Arrived
      <4>5. ASSUME NEW t, t \in arrived[r].tree..tree, Through(t)
            PROVE  \A v : Since(v, t) => Since(v, tree)
          BY <4>4, <4>5, SinceThrough
      <4> QED BY <4>1, <4>2, <4>3, <4>5
    <3>5. key[r].tree = Unknown => KeptBlindly(g.report)
        BY <3>1, <3>2 DEF BlindKeys, KeptBlindly
    <3>6. Suits(g.report, tree, pinned[r])
        BY <3>4, <3>5 DEF Suits
    <3>7. Suits(draft[r].report, tree, pinned[r])'
        BY <3>2, <3>3, <3>6 DEF Suits, Since, KeptBlindly
    <3>8. draft[r].doc \in arrived[r].tree..tree /\ Through(draft[r].doc)
        BY <3>2 DEF Drafts, Draft, Loaded
    <3>9. Through(draft[r].doc)'
        BY <3>2, <3>3, <3>8 DEF Through
    <3>11. Draft(r)'
        BY <3>2, <3>3, <3>7, <3>8, <3>9 DEF Draft, Through, Loaded
    <3>12. ASSUME NEW q \in Requests, q # r
          PROVE  /\ draft'[q] = draft[q] /\ key'[q] = key[q]
                 /\ pinned'[q] = pinned[q] /\ arrived'[q] = arrived[q] /\ stage'[q] = stage[q]
        BY <1>11, <3>12 DEF ReadGeneration
    <3>13. /\ tree' = tree /\ overtaken' = overtaken /\ generations \subseteq generations'
          /\ failures' \in Nat /\ failures' >= failures
        BY <1>11 DEF ReadGeneration
    <3> QED BY <3>11, <3>12, <3>13, KeepsDraft DEF Drafts
  <2>5. Generations'
      BY <1>11 DEF Generations, ReadGeneration, Since
  <2>6. BlindKeys'
      BY <1>11 DEF BlindKeys, ReadGeneration
  <2>7. Memory'
      BY <1>11 DEF Memory, Suits, KeptBlindly, ReadGeneration, Since
  <2>8. Served'
      BY <1>11 DEF Served, ServedTo, KeptBlindly, ReadGeneration, Suits, Since
  <2> QED BY <2>1, <2>2, <2>3, <2>4, <2>5, <2>6, <2>7, <2>8
<1>12. ASSUME NEW r \in Requests, DeriveGeneration(r)
      PROVE  SnapshotInv'
  <2>1. SnapshotTyped'
    <3>1. tree' \in Nat \ {0} /\ source' \in Nat \ {0} /\ failures' \in Nat
        BY <1>12 DEF DeriveGeneration
    <3>2. draft' = [q \in Requests |-> [doc |-> draft'[q].doc, report |-> draft'[q].report]]
        BY <1>12 DEF DeriveGeneration
    <3> QED BY <1>12, <3>1, <3>2 DEF DeriveGeneration
  <2>2. Arrivals'
      BY <1>12 DEF Arrivals, Arrived, DeriveGeneration
  <2>3. OneBuilder'
      BY <1>12 DEF OneBuilder, DeriveGeneration
  <2>4. Drafts'
    <3>1. /\ stage[r] = "deriving" /\ stage'[r] = "printing"
          /\ tree' = tree /\ overtaken' = overtaken /\ arrived'[r] = arrived[r] /\ pinned'[r] = pinned[r]
        BY <1>12 DEF DeriveGeneration
    <3>2. draft'[r] = [doc |-> draft[r].doc,
                       report |-> [doc |-> draft[r].doc, inventory |-> tree, source |-> pinned[r]]]
        BY <1>12 DEF DeriveGeneration
    <3>3. draft[r].doc \in arrived[r].tree..tree /\ Through(draft[r].doc) /\ arrived[r].tree \in 1..tree
        BY <3>1 DEF Drafts, Draft, Loaded, Arrivals, Arrived
    <3>4. Since(draft[r].doc, tree) /\ Since(tree, tree)
        BY <3>3, SinceThrough DEF Since
    <3>5. Suits(draft[r].report, tree, pinned[r])'
        BY <3>1, <3>2, <3>4 DEF Suits, Since
    <3>6. Through(draft[r].doc)'
        BY <3>1, <3>2, <3>3 DEF Through
    <3>7. draft'[r].doc \in arrived'[r].tree..tree'
        BY <3>1, <3>2, <3>3
    <3>11. Draft(r)'
        BY <3>1, <3>2, <3>5, <3>6, <3>7 DEF Draft, Loaded
    <3>12. ASSUME NEW q \in Requests, q # r
          PROVE  /\ draft'[q] = draft[q] /\ key'[q] = key[q]
                 /\ pinned'[q] = pinned[q] /\ arrived'[q] = arrived[q] /\ stage'[q] = stage[q]
        BY <1>12, <3>12 DEF DeriveGeneration
    <3>13. /\ tree' = tree /\ overtaken' = overtaken /\ generations \subseteq generations'
          /\ failures' \in Nat /\ failures' >= failures
        BY <1>12 DEF DeriveGeneration
    <3> QED BY <3>11, <3>12, <3>13, KeepsDraft DEF Drafts
  <2>5. Generations'
    <3>1. /\ stage[r] = "deriving" /\ tree' = tree /\ overtaken' = overtaken
          /\ generations' = generations \cup
               {[key |-> key[r],
                 report |-> [doc |-> draft[r].doc, inventory |-> tree, source |-> pinned[r]]]}
        BY <1>12 DEF DeriveGeneration
    <3>2. /\ key[r].source = pinned[r] /\ draft[r].doc \in arrived[r].tree..tree
          /\ Through(draft[r].doc) /\ arrived[r].tree \in 1..tree
          /\ key[r].tree # Unknown => key[r].tree \in arrived[r].tree..tree
        BY <3>1 DEF Drafts, Draft, Loaded, Arrivals, Arrived
    <3>3. key[r].tree # Unknown => Since(draft[r].doc, key[r].tree) /\ Since(tree, key[r].tree)
        BY <3>2 DEF Since, Through
    <3> QED BY <3>1, <3>2, <3>3 DEF Generations, Since
  <2>6. BlindKeys'
      BY <1>12 DEF BlindKeys, OneBuilder, DeriveGeneration
  <2>7. Memory'
      BY <1>12 DEF Memory, Suits, KeptBlindly, DeriveGeneration, Since
  <2>8. Served'
      BY <1>12 DEF Served, ServedTo, KeptBlindly, DeriveGeneration, Suits, Since
  <2> QED BY <2>1, <2>2, <2>3, <2>4, <2>5, <2>6, <2>7, <2>8
<1>13. ASSUME NEW r \in Requests, DeriveFails(r)
      PROVE  SnapshotInv'
  <2>1. SnapshotTyped'
    <3>1. tree' \in Nat \ {0} /\ source' \in Nat \ {0} /\ failures' \in Nat
        BY <1>13 DEF DeriveFails
    <3>2. draft' = [q \in Requests |-> [doc |-> draft'[q].doc, report |-> draft'[q].report]]
        BY <1>13 DEF DeriveFails
    <3> QED BY <1>13, <3>1, <3>2 DEF DeriveFails
  <2>2. Arrivals'
      BY <1>13 DEF Arrivals, Arrived, DeriveFails
  <2>3. OneBuilder'
      BY <1>13 DEF OneBuilder, DeriveFails
  <2>4. Drafts'
    <3>1. /\ stage[r] = "deriving" /\ stage'[r] = "printing" /\ draft'[r] = draft[r]
          /\ tree' = tree /\ overtaken' = overtaken /\ arrived'[r] = arrived[r]
        BY <1>13 DEF DeriveFails
    <3>2. /\ draft[r].doc \in arrived[r].tree..tree /\ Through(draft[r].doc)
          /\ draft[r].report = NoReport
        BY <3>1 DEF Drafts, Draft, Loaded
    <3>3. Through(draft[r].doc)'
        BY <3>1, <3>2 DEF Through
    <3>11. Draft(r)'
        BY <3>1, <3>2, <3>3 DEF Draft, Suits, Through, Loaded
    <3>12. ASSUME NEW q \in Requests, q # r
          PROVE  /\ draft'[q] = draft[q] /\ key'[q] = key[q]
                 /\ pinned'[q] = pinned[q] /\ arrived'[q] = arrived[q] /\ stage'[q] = stage[q]
        BY <1>13, <3>12 DEF DeriveFails
    <3>13. /\ tree' = tree /\ overtaken' = overtaken /\ generations \subseteq generations'
          /\ failures' \in Nat /\ failures' >= failures
        BY <1>13 DEF DeriveFails
    <3> QED BY <3>11, <3>12, <3>13, KeepsDraft DEF Drafts
  <2>5. Generations'
      BY <1>13 DEF Generations, DeriveFails, Since
  <2>6. BlindKeys'
      BY <1>13 DEF BlindKeys, DeriveFails
  <2>7. Memory'
      BY <1>13 DEF Memory, Suits, KeptBlindly, DeriveFails, Since
  <2>8. Served'
      BY <1>13 DEF Served, ServedTo, KeptBlindly, DeriveFails, Suits, Since
  <2> QED BY <2>1, <2>2, <2>3, <2>4, <2>5, <2>6, <2>7, <2>8
<1>14. ASSUME NEW r \in Requests, FinishPrint(r)
      PROVE  SnapshotInv'
  <2>1. SnapshotTyped'
    <3>1. tree' \in Nat \ {0} /\ source' \in Nat \ {0} /\ failures' \in Nat
        BY <1>14 DEF FinishPrint, Walk
    <3>2. draft' = [q \in Requests |-> [doc |-> draft'[q].doc, report |-> draft'[q].report]]
        BY <1>14 DEF FinishPrint
    <3> QED BY <1>14, <3>1, <3>2 DEF FinishPrint
  <2>2. Arrivals'
      BY <1>14 DEF Arrivals, Arrived, FinishPrint
  <2>3. OneBuilder'
      BY <1>14 DEF OneBuilder, FinishPrint
  <2>4. Drafts'
    <3>1. /\ stage[r] = "printing" /\ stage'[r] = "finishing" /\ draft'[r] = draft[r]
          /\ tree' = tree /\ overtaken' = overtaken /\ arrived'[r] = arrived[r]
          /\ pinned'[r] = pinned[r] /\ key'[r].source = pinned[r]
          /\ key'[r].tree # Unknown => key'[r].tree = tree
          /\ generations' = generations /\ failures' \in Nat /\ failures' >= failures
        BY <1>14 DEF FinishPrint, Walk
    <3>2. /\ draft[r].doc \in arrived[r].tree..tree /\ Through(draft[r].doc)
          /\ Suits(draft[r].report, tree, pinned[r]) /\ arrived[r].tree \in 1..tree
        BY <3>1 DEF Drafts, Draft, Loaded, Arrivals, Arrived
    <3>3. draft'[r].doc \in arrived'[r].tree..tree'
        BY <3>1, <3>2
    <3>4. key'[r].tree # Unknown => key'[r].tree \in arrived'[r].tree..tree'
        BY <3>1, <3>2
    <3>5. KeptBlindly(draft[r].report) => KeptBlindly(draft[r].report)'
        BY <3>1 DEF KeptBlindly
    <3>6. Suits(draft[r].report, arrived[r].tree, pinned[r])'
      <4>1. \A v : Since(v, tree) => Since(v, arrived[r].tree)
          BY <3>2 DEF Since
      <4>2. Suits(draft[r].report, arrived[r].tree, pinned[r])
          BY <3>2, <4>1 DEF Suits
      <4> QED BY <3>1, <3>5, <4>2 DEF Suits, Since
    <3>7. key'[r].tree # Unknown =>
            Since(draft[r].doc, key[r].tree)' /\ Suits(draft[r].report, key[r].tree, pinned[r])'
      <4>1. Since(draft[r].doc, tree)
          BY <3>2, SinceThrough
      <4> QED BY <3>1, <3>2, <3>5, <4>1 DEF Suits, Since
    <3>11. Draft(r)'
        BY <3>1, <3>3, <3>4, <3>6, <3>7 DEF Draft, Loaded
    <3>12. ASSUME NEW q \in Requests, q # r
          PROVE  /\ draft'[q] = draft[q] /\ key'[q] = key[q]
                 /\ pinned'[q] = pinned[q] /\ arrived'[q] = arrived[q] /\ stage'[q] = stage[q]
        BY <1>14, <3>12 DEF FinishPrint, Walk
    <3>13. /\ tree' = tree /\ overtaken' = overtaken /\ generations \subseteq generations'
          /\ failures' \in Nat /\ failures' >= failures
        BY <1>14 DEF FinishPrint, Walk
    <3> QED BY <3>11, <3>12, <3>13, KeepsDraft DEF Drafts
  <2>5. Generations'
      BY <1>14 DEF Generations, FinishPrint, Since
  <2>6. BlindKeys'
      BY <1>14 DEF BlindKeys, FinishPrint, Walk
  <2>7. Memory'
      BY <1>14 DEF Memory, Suits, KeptBlindly, FinishPrint, Walk, Since
  <2>8. Served'
      BY <1>14 DEF Served, ServedTo, KeptBlindly, FinishPrint, Walk, Suits, Since
  <2> QED BY <2>1, <2>2, <2>3, <2>4, <2>5, <2>6, <2>7, <2>8
<1>15. ASSUME NEW r \in Requests, FinishBuild(r)
      PROVE  SnapshotInv'
  <2>1. SnapshotTyped'
      BY <1>15 DEF FinishBuild
  <2>2. Arrivals'
      BY <1>15 DEF Arrivals, Arrived, FinishBuild
  <2>3. OneBuilder'
      BY <1>15 DEF OneBuilder, FinishBuild
  <2>4. Drafts'
      BY <1>15 DEF Drafts, Draft, OneBuilder, FinishBuild, Suits, Since, Through, Loaded, KeptBlindly
  <2>5. Generations'
      BY <1>15 DEF Generations, FinishBuild, Since
  <2>6. BlindKeys'
      BY <1>15 DEF BlindKeys, FinishBuild
  <2>7. Memory'
      BY <1>15 DEF Memory, Drafts, Draft, Suits, KeptBlindly, FinishBuild, Since, Through, Loaded
  <2>8. Served'
    <3>1. /\ served'[r] = draft[r] /\ draft[r].doc \in arrived[r].tree..tree
          /\ Suits(draft[r].report, arrived[r].tree, arrived[r].source)
        BY <1>15 DEF FinishBuild, Arrivals, Arrived, Drafts, Draft, Suits, Since, Through, Loaded, KeptBlindly
    <3>2. arrived[r].tree \in 1..tree
        BY <1>15 DEF FinishBuild, Arrivals, Arrived
    <3>3. ServedTo(r)'
        BY <1>15, <3>1, <3>2 DEF FinishBuild, ServedTo, Suits, Since, KeptBlindly, NoReport, Unknown
    <3>4. ASSUME NEW q \in Requests, q # r PROVE ServedTo(q)'
        BY <1>15, <3>4 DEF FinishBuild, Served, ServedTo, KeptBlindly, NoReport, Unknown, Suits, Since
    <3> QED BY <3>3, <3>4 DEF Served, Suits, Since
  <2> QED BY <2>1, <2>2, <2>3, <2>4, <2>5, <2>6, <2>7, <2>8
<1>16. ASSUME NEW r \in Requests, Refuse(r)
      PROVE  SnapshotInv'
  <2>1. SnapshotTyped'
      BY <1>16 DEF Refuse
  <2>2. Arrivals'
      BY <1>16 DEF Arrivals, Arrived, Refuse
  <2>3. OneBuilder'
      BY <1>16 DEF OneBuilder, Refuse
  <2>4. Drafts'
    <3>1. ASSUME NEW q \in Requests
          PROVE  /\ draft'[q] = draft[q] /\ key'[q] = key[q]
                 /\ pinned'[q] = pinned[q] /\ arrived'[q] = arrived[q]
                 /\ stage'[q] = stage[q] \/ stage'[q] \in {"refused", "done"}
        BY <1>16, <3>1 DEF Refuse
    <3>2. /\ tree' = tree /\ overtaken' = overtaken /\ generations' = generations
          /\ failures' \in Nat /\ failures' >= failures
        BY <1>16 DEF Refuse
    <3> QED BY <3>1, <3>2, KeepsDraft DEF Drafts
  <2>5. Generations'
      BY <1>16 DEF Generations, Refuse, Since
  <2>6. BlindKeys'
      BY <1>16 DEF BlindKeys, Refuse
  <2>7. Memory'
      BY <1>16 DEF Memory, Suits, KeptBlindly, Refuse, Since
  <2>8. Served'
      BY <1>16 DEF Served, ServedTo, KeptBlindly, Refuse, Suits, Since
  <2> QED BY <2>1, <2>2, <2>3, <2>4, <2>5, <2>6, <2>7, <2>8
<1>17. ASSUME UNCHANGED snapshotVars
      PROVE  SnapshotInv'
  <2>1. Drafts'
      BY <1>17, KeepsDraft DEF snapshotVars, Drafts
  <2> QED BY <1>17, <2>1 DEF snapshotVars, Arrivals, Arrived, OneBuilder, Generations, BlindKeys,
            Memory, Served, ServedTo, Suits, KeptBlindly, Since
<1> QED BY <1>1, <1>2, <1>3, <1>4, <1>5, <1>6, <1>7, <1>8, <1>9, <1>10, <1>11, <1>12, <1>13, <1>14, <1>15, <1>16, <1>17
        DEF SnapshotNext, Building

LEMMA InitSnapshot == SnapshotInit => SnapshotInv
BY DEF SnapshotInit, SnapshotInv, SnapshotTyped, Arrivals, Arrived, OneBuilder, Making, Drafts, Draft, Generations, BlindKeys, Memory, Served, ServedTo, NoDraft, Loaded, Suits, Since, Through, KeptBlindly

\* What is known of the snapshot in memory, of the one being built, and of the
\* generations on disk.
THEOREM SnapshotInvariance == SnapshotSpec => []SnapshotInv
BY InitSnapshot, SnapshotStep, PTL DEF SnapshotSpec

\* Whatever is edited, and whenever, a request is answered from nothing older than its
\* arrival but for versions that an edit overtook while a build was at work on them, and
\* for reports kept under the key of a failed walk.
THEOREM ServedAsCurrent == SnapshotSpec => []ServedCurrent
<1>1. SnapshotInv => ServedCurrent
  <2> SUFFICES ASSUME SnapshotInv, NEW r \in Requests, outcome[r] = "served"
               PROVE  /\ AsNew(served[r].doc, r)
                      /\ \/ served[r].report = NoReport
                         \/ KeptBlindly(served[r].report)
                         \/ ReportCurrent(r)
      BY DEF ServedCurrent
  <2>1. ServedTo(r) /\ Arrived(r)
      BY DEF SnapshotInv, Served, Arrivals
  <2>2. arrived[r].source \in arrived[r].source..source
      BY <2>1 DEF Arrived, SnapshotInv, SnapshotTyped
  <2> QED BY <2>1, <2>2 DEF ServedTo, Suits, Since, AsNew, ReportCurrent
<1> QED BY <1>1, SnapshotInvariance, PTL

\* Edits or not, walks that fail or not, the source a report is of is the one the
\* request's Git session began with.
SourceCurrent ==
    \A r \in Requests : outcome[r] = "served" /\ served[r].report # NoReport =>
        served[r].report.source = arrived[r].source

THEOREM ServedOfItsSource == SnapshotSpec => []SourceCurrent
<1>1. SnapshotInv => SourceCurrent
    BY DEF SnapshotInv, Served, ServedTo, Suits, SourceCurrent
<1> QED BY <1>1, SnapshotInvariance, PTL
-----------------------------------------------------------------------------
(***************************************************************************)
(* The cache on disk (SnapshotCache), for any calls, stores and keys.  The *)
(* stage of a comparison's build is safe because nothing that is removed   *)
(* is one: a name a prune has listed is of a build that is over            *)
(* (Removals), and what has a key's name is past being built (Named).      *)
(* That a waiter is always woken rests on the register: a call is in it    *)
(* from its stage to its end (Builds), and a waiter's build is (Waiters).  *)
(***************************************************************************)
\* A call has a stage; its build is registered; its directory is none of its own
\* any more, and stays so.
Staged == {"populating", "sealing", "publishing", "clearing", "retrying"}
Registered == Staged \cup {"closing", "leaving"}
Past == {"closing", "leaving", "answering", "pruning", "removing", "done", "dead"}
Steps ==
    Staged \cup Past \cup {"idle", "looking", "reading", "discarding", "emptying", "missed", "waiting"}

BuildsTyped ==
    /\ setting \in [tree : BOOLEAN, days : BOOLEAN,
                   calls : SUBSET Calls, store : [Calls -> Stores]]
    /\ step \in [Calls -> Steps]
    /\ at \in [Calls -> {"none", "stage", "final"}]
    /\ contents \in [Calls -> SUBSET Files]
    /\ final \in [Keys -> Calls \cup {Nobody}]
    /\ awaited \in [Calls -> Calls \cup {Nobody}]
    /\ victims \in [Calls -> SUBSET (Calls \cup Keys)]
    /\ opened \in [Calls -> Calls \cup {Nobody}]
    /\ path \in [Calls -> Calls \cup Keys \cup {Nobody}]
    /\ listed \in [Calls -> SUBSET Files]
    /\ old \subseteq Calls
    /\ outlived \subseteq Calls
    /\ inflight \in [Stores -> [Keys -> Calls \cup {Nobody}]]

\* What has a key's name was built for the key, and its build is past touching it.
Named ==
    \A k \in Keys : final[k] # Nobody =>
        KeyOf[final[k]] = k /\ at[final[k]] = "final" /\ step[final[k]] \in Past

\* What a comparison removes is nobody's stage, or one that a prune found a day old.
GivenUp(d) == d \in outlived \/ step[d] \in Past
Removal(b) ==
    /\ opened[b] # Nobody => GivenUp(opened[b])
    /\ path[b] \in Calls => GivenUp(path[b])
    /\ \A n \in victims[b] \cap Calls : GivenUp(n)
Removals == TreeClient => \A b \in Calls : Removal(b)

\* A comparison's stage holds what its build has written, unless a prune found it a
\* day old.
StageWhole(b) ==
    /\ step[b] \in Staged => at[b] = "stage"
    /\ step[b] = "sealing" => "index" \in contents[b]
    /\ step[b] \in {"publishing", "clearing", "retrying"} => contents[b] = Files
StagesWhole == TreeClient => \A b \in Calls \ outlived : StageWhole(b)

\* A build is registered from its stage to its end, and whoever waits waits for
\* one that has still to end.
Enters(b) == step[b] \in Registered => inflight[setting.store[b]][KeyOf[b]] = b
BuildOf(s, k, b) == b \in Calls /\ setting.store[b] = s /\ KeyOf[b] = k /\ step[b] \in Registered
Registers(s, k) == inflight[s][k] # Nobody => BuildOf(s, k, inflight[s][k])
Builds == (\A b \in Calls : Enters(b)) /\ (\A s \in Stores, k \in Keys : Registers(s, k))
Awaits(w) ==
    step[w] = "waiting" =>
        /\ awaited[w] \in Calls /\ step[awaited[w]] \in Staged \cup {"closing"}
        /\ setting.store[awaited[w]] = setting.store[w] /\ KeyOf[awaited[w]] = KeyOf[w]
Waiters == \A w \in Calls : Awaits(w)

CacheInv ==
    BuildsTyped /\ Named /\ Removals /\ StagesWhole /\ Builds /\ Waiters

\* Nothing is there yet, and nobody has looked.
LEMMA InitCache == CacheInit => CacheInv
<1> SUFFICES ASSUME CacheInit PROVE CacheInv
    OBVIOUS
<1> USE CacheAssumption DEF CacheInit
<1>1. BuildsTyped
    BY DEF BuildsTyped, Steps, Staged, Past, Files
<1>2. Named /\ Removals
    BY DEF Named, Removals, Removal
<1>3. StagesWhole /\ Builds /\ Waiters
    BY DEF StagesWhole, StageWhole, Builds, Enters, Registers, Waiters, Awaits, Staged, Registered
<1> QED BY <1>1, <1>2, <1>3 DEF CacheInv

\* A listing gives a prune stages and generations, and no other prune anything.
LEMMA ListedNames ==
    ASSUME NEW b \in Calls, NEW spared \in SUBSET Keys, Lists(b, spared),
           victims \in [Calls -> SUBSET (Calls \cup Keys)]
    PROVE  /\ victims' \in [Calls -> SUBSET (Calls \cup Keys)]
           /\ victims'[b] = Debris \cup (Present \ spared)
           /\ \A c \in Calls : c # b => victims'[c] = victims[c]
           /\ \A c \in Calls : victims'[c] \cap Calls \subseteq (victims[c] \cap Calls) \cup Debris
<1>1. Debris \subseteq Calls /\ Present \subseteq Keys
    BY DEF Debris, Present
<1>2. /\ Debris \cup (Present \ spared) \in SUBSET (Calls \cup Keys)
      /\ (Debris \cup (Present \ spared)) \cap Calls \subseteq Debris
    BY <1>1, CacheAssumption
<1> DEFINE found == Debris \cup (Present \ spared)
<1>3. victims' = [victims EXCEPT ![b] = found]
    BY DEF Lists
<1>4. found \in SUBSET (Calls \cup Keys) /\ found \cap Calls \subseteq Debris
    BY <1>2
<1> HIDE DEF found
<1>5. \A c \in Calls : victims'[c] = IF c = b THEN found ELSE victims[c]
    BY <1>3
<1>6. victims' \in [Calls -> SUBSET (Calls \cup Keys)]
    BY <1>3, <1>4
<1>7. \A c \in Calls : victims'[c] \cap Calls \subseteq (victims[c] \cap Calls) \cup Debris
    BY <1>4, <1>5
<1>8. victims'[b] = Debris \cup (Present \ spared)
    BY <1>5 DEF found
<1> QED BY <1>5, <1>6, <1>7, <1>8

\* Every step of a build, of its client, of damage and of a crash keeps all that.
LEMMA CacheStep ==
    ASSUME CacheInv, [CacheNext]_buildVars
    PROVE  CacheInv'
<1> USE DEF CacheInv, BuildsTyped, TreeClient, Proceed, directories, caller, removal, opening,
            bounds, Key, Store
<1>0. /\ \A b \in Calls : KeyOf[b] \in Keys /\ setting.store[b] \in Stores /\ b # Nobody
      /\ setting.tree \in BOOLEAN
    BY CacheAssumption
<1>1. ASSUME NEW b \in Calls, LookupHit(b)
      PROVE  CacheInv'
  <2>1. BuildsTyped'
    <3>1. step' \in [Calls -> Steps]
        BY <1>1 DEF Steps, Staged, Past, LookupHit
    <3> QED BY <1>0, <1>1, <3>1 DEF LookupHit
  <2>2. Named'
      BY <1>0, <1>1 DEF Named, Staged, Past, LookupHit
  <2>3. Removals'
    <3>1. ASSUME TreeClient, NEW c \in Calls PROVE Removal(c)'
        BY <1>0, <1>1, <3>1 DEF Removals, Removal, GivenUp, Named, Past, LookupHit
    <3> QED BY <1>1, <3>1 DEF Removals, LookupHit
  <2>4. StagesWhole'
    <3>1. ASSUME TreeClient, NEW c \in Calls \ outlived' PROVE StageWhole(c)'
        BY <1>0, <1>1, <3>1 DEF StagesWhole, StageWhole, Staged, LookupHit, Files
    <3> QED BY <1>1, <3>1 DEF StagesWhole, LookupHit
  <2>5. Builds'
    <3>1. inflight' = inflight /\ setting' = setting
        BY <1>1 DEF LookupHit
    <3>2. \A c \in Calls : step'[c] \in Registered <=> step[c] \in Registered
        BY <1>1 DEF Staged, Registered, LookupHit
    <3> QED BY <1>0, <3>1, <3>2 DEF Builds, Enters, Registers, BuildOf
  <2>6. Waiters'
    <3>1. ASSUME NEW w \in Calls PROVE Awaits(w)'
        BY <1>0, <1>1 DEF Waiters, Awaits, Staged, LookupHit
    <3> QED BY <3>1 DEF Waiters
  <2> QED BY <2>1, <2>2, <2>3, <2>4, <2>5, <2>6
<1>2. ASSUME NEW b \in Calls, LookupMiss(b)
      PROVE  CacheInv'
  <2>1. BuildsTyped'
    <3>1. step' \in [Calls -> Steps]
        BY <1>2 DEF Steps, Staged, Past, LookupMiss
    <3> QED BY <1>0, <1>2, <3>1 DEF LookupMiss
  <2>2. Named'
      BY <1>0, <1>2 DEF Named, Staged, Past, LookupMiss
  <2>3. Removals'
    <3>1. ASSUME TreeClient, NEW c \in Calls PROVE Removal(c)'
      <4>1. /\ opened' = opened /\ path' = path /\ victims' = victims /\ outlived' = outlived
            /\ \A d \in Calls : step[d] \in Past => step'[d] = step[d]
          BY <1>2 DEF Past, LookupMiss
      <4> QED BY <3>1, <4>1 DEF Removals, Removal, GivenUp
    <3> QED BY <1>2, <3>1 DEF Removals, LookupMiss
  <2>4. StagesWhole'
    <3>1. ASSUME TreeClient, NEW c \in Calls \ outlived' PROVE StageWhole(c)'
        BY <1>0, <1>2, <3>1 DEF StagesWhole, StageWhole, Staged, LookupMiss, Files
    <3> QED BY <1>2, <3>1 DEF StagesWhole, LookupMiss
  <2>5. Builds'
    <3>1. inflight' = inflight /\ setting' = setting
        BY <1>2 DEF LookupMiss
    <3>2. \A c \in Calls : step'[c] \in Registered <=> step[c] \in Registered
        BY <1>2 DEF Staged, Registered, LookupMiss
    <3> QED BY <1>0, <3>1, <3>2 DEF Builds, Enters, Registers, BuildOf
  <2>6. Waiters'
    <3>1. ASSUME NEW w \in Calls PROVE Awaits(w)'
        BY <1>0, <1>2 DEF Waiters, Awaits, Staged, LookupMiss
    <3> QED BY <3>1 DEF Waiters
  <2> QED BY <2>1, <2>2, <2>3, <2>4, <2>5, <2>6
<1>3. ASSUME NEW b \in Calls, Join(b)
      PROVE  CacheInv'
  <2>1. BuildsTyped'
    <3>1. step' \in [Calls -> Steps]
        BY <1>3 DEF Steps, Staged, Past, Join
    <3> QED BY <1>0, <1>3, <3>1 DEF Join
  <2>2. Named'
      BY <1>0, <1>3 DEF Named, Staged, Past, Join
  <2>3. Removals'
    <3>1. ASSUME TreeClient, NEW c \in Calls PROVE Removal(c)'
        BY <1>0, <1>3, <3>1 DEF Removals, Removal, GivenUp, Named, Past, Join
    <3> QED BY <1>3, <3>1 DEF Removals, Join
  <2>4. StagesWhole'
    <3>1. ASSUME TreeClient, NEW c \in Calls \ outlived' PROVE StageWhole(c)'
        BY <1>0, <1>3, <3>1 DEF StagesWhole, StageWhole, Staged, Join, Files
    <3> QED BY <1>3, <3>1 DEF StagesWhole, Join
  <2>5. Builds'
    <3>1. inflight' = inflight /\ setting' = setting
        BY <1>3 DEF Join
    <3>2. \A c \in Calls : step'[c] \in Registered <=> step[c] \in Registered
        BY <1>3 DEF Staged, Registered, Join
    <3> QED BY <1>0, <3>1, <3>2 DEF Builds, Enters, Registers, BuildOf
  <2>6. Waiters'
    <3>1. ASSUME NEW w \in Calls PROVE Awaits(w)'
      <4>1. Registers(setting.store[b], KeyOf[b])
          BY <1>0 DEF Builds
      <4> QED BY <1>0, <1>3, <4>1 DEF Waiters, Awaits, Registers, BuildOf, Registered, Staged,
                 Join
    <3> QED BY <3>1 DEF Waiters
  <2> QED BY <2>1, <2>2, <2>3, <2>4, <2>5, <2>6
<1>4. ASSUME NEW b \in Calls, JoinClosed(b)
      PROVE  CacheInv'
  <2>1. BuildsTyped'
    <3>1. step' \in [Calls -> Steps]
        BY <1>4 DEF Steps, Staged, Past, JoinClosed
    <3> QED BY <1>0, <1>4, <3>1 DEF JoinClosed
  <2>2. Named'
      BY <1>0, <1>4 DEF Named, Staged, Past, JoinClosed
  <2>3. Removals'
    <3>1. ASSUME TreeClient, NEW c \in Calls PROVE Removal(c)'
        BY <1>0, <1>4, <3>1 DEF Removals, Removal, GivenUp, Named, Past, JoinClosed
    <3> QED BY <1>4, <3>1 DEF Removals, JoinClosed
  <2>4. StagesWhole'
    <3>1. ASSUME TreeClient, NEW c \in Calls \ outlived' PROVE StageWhole(c)'
        BY <1>0, <1>4, <3>1 DEF StagesWhole, StageWhole, Staged, JoinClosed, Files
    <3> QED BY <1>4, <3>1 DEF StagesWhole, JoinClosed
  <2>5. Builds'
    <3>1. inflight' = inflight /\ setting' = setting
        BY <1>4 DEF JoinClosed
    <3>2. \A c \in Calls : step'[c] \in Registered <=> step[c] \in Registered
        BY <1>4 DEF Staged, Registered, JoinClosed
    <3> QED BY <1>0, <3>1, <3>2 DEF Builds, Enters, Registers, BuildOf
  <2>6. Waiters'
    <3>1. ASSUME NEW w \in Calls PROVE Awaits(w)'
        BY <1>0, <1>4 DEF Waiters, Awaits, Staged, JoinClosed
    <3> QED BY <3>1 DEF Waiters
  <2> QED BY <2>1, <2>2, <2>3, <2>4, <2>5, <2>6
<1>5. ASSUME NEW b \in Calls, Register(b)
      PROVE  CacheInv'
  <2>1. BuildsTyped'
    <3>1. step' \in [Calls -> Steps]
        BY <1>5 DEF Steps, Staged, Past, Register
    <3> QED BY <1>0, <1>5, <3>1 DEF Register
  <2>2. Named'
      BY <1>0, <1>5 DEF Named, Staged, Past, Register
  <2>3. Removals'
    <3>1. ASSUME TreeClient, NEW c \in Calls PROVE Removal(c)'
        BY <1>0, <1>5, <3>1 DEF Removals, Removal, GivenUp, Named, Past, Register
    <3> QED BY <1>5, <3>1 DEF Removals, Register
  <2>4. StagesWhole'
    <3>1. ASSUME TreeClient, NEW c \in Calls \ outlived' PROVE StageWhole(c)'
        BY <1>0, <1>5, <3>1 DEF StagesWhole, StageWhole, Staged, Register, Files
    <3> QED BY <1>5, <3>1 DEF StagesWhole, Register
  <2>5. Builds'
    <3>1. \A t \in Stores, j \in Keys :
            inflight'[t][j] = IF t = setting.store[b] /\ j = KeyOf[b] THEN b ELSE inflight[t][j]
        BY <1>0, <1>5 DEF Register
    <3>2. /\ setting' = setting /\ inflight[setting.store[b]][KeyOf[b]] = Nobody
          /\ \A c \in Calls : step'[c] \in Registered <=> (c = b \/ step[c] \in Registered)
        BY <1>5 DEF Staged, Registered, Register
    <3>3. ASSUME NEW c \in Calls PROVE Enters(c)'
        BY <1>0, <3>1, <3>2 DEF Builds, Enters
    <3>4. ASSUME NEW t \in Stores, NEW j \in Keys PROVE Registers(t, j)'
      <4>1. CASE t = setting.store[b] /\ j = KeyOf[b]
        <5>1. inflight'[t][j] = b /\ step'[b] \in Registered
            BY <3>1, <3>2, <4>1
        <5> QED BY <3>2, <4>1, <5>1 DEF Registers, BuildOf
      <4>2. CASE ~(t = setting.store[b] /\ j = KeyOf[b])
        <5>1. inflight'[t][j] = inflight[t][j]
            BY <3>1, <4>2
        <5>2. Registers(t, j)
            BY DEF Builds
        <5> QED BY <3>2, <5>1, <5>2 DEF Registers, BuildOf
      <4> QED BY <4>1, <4>2
    <3> QED BY <3>3, <3>4 DEF Builds
  <2>6. Waiters'
    <3>1. ASSUME NEW w \in Calls PROVE Awaits(w)'
        BY <1>0, <1>5 DEF Waiters, Awaits, Staged, Register
    <3> QED BY <3>1 DEF Waiters
  <2> QED BY <2>1, <2>2, <2>3, <2>4, <2>5, <2>6
<1>6. ASSUME NEW b \in Calls, Populate(b)
      PROVE  CacheInv'
  <2>1. BuildsTyped'
    <3>1. step' \in [Calls -> Steps]
        BY <1>6 DEF Steps, Staged, Past, Populate
    <3> QED BY <1>0, <1>6, <3>1 DEF Populate, Files
  <2>2. Named'
      BY <1>0, <1>6 DEF Named, Staged, Past, Populate
  <2>3. Removals'
    <3>1. ASSUME TreeClient, NEW c \in Calls PROVE Removal(c)'
        BY <1>0, <1>6, <3>1 DEF Removals, Removal, GivenUp, Named, Past, Populate
    <3> QED BY <1>6, <3>1 DEF Removals, Populate
  <2>4. StagesWhole'
    <3>1. ASSUME TreeClient, NEW c \in Calls \ outlived' PROVE StageWhole(c)'
        BY <1>0, <1>6, <3>1 DEF StagesWhole, StageWhole, Staged, Populate, Files
    <3> QED BY <1>6, <3>1 DEF StagesWhole, Populate
  <2>5. Builds'
    <3>1. inflight' = inflight /\ setting' = setting
        BY <1>6 DEF Populate
    <3>2. \A c \in Calls : step'[c] \in Registered <=> step[c] \in Registered
        BY <1>6 DEF Staged, Registered, Populate
    <3> QED BY <1>0, <3>1, <3>2 DEF Builds, Enters, Registers, BuildOf
  <2>6. Waiters'
    <3>1. ASSUME NEW w \in Calls PROVE Awaits(w)'
        BY <1>0, <1>6 DEF Waiters, Awaits, Staged, Populate
    <3> QED BY <3>1 DEF Waiters
  <2> QED BY <2>1, <2>2, <2>3, <2>4, <2>5, <2>6
<1>7. ASSUME NEW b \in Calls, Seal(b)
      PROVE  CacheInv'
  <2>1. BuildsTyped'
    <3>1. step' \in [Calls -> Steps]
        BY <1>7 DEF Steps, Staged, Past, Seal
    <3> QED BY <1>0, <1>7, <3>1 DEF Seal, Files
  <2>2. Named'
      BY <1>0, <1>7 DEF Named, Staged, Past, Seal
  <2>3. Removals'
    <3>1. ASSUME TreeClient, NEW c \in Calls PROVE Removal(c)'
        BY <1>0, <1>7, <3>1 DEF Removals, Removal, GivenUp, Named, Past, Seal
    <3> QED BY <1>7, <3>1 DEF Removals, Seal
  <2>4. StagesWhole'
    <3>1. ASSUME TreeClient, NEW c \in Calls \ outlived' PROVE StageWhole(c)'
        BY <1>0, <1>7, <3>1 DEF StagesWhole, StageWhole, Staged, Seal, Files
    <3> QED BY <1>7, <3>1 DEF StagesWhole, Seal
  <2>5. Builds'
    <3>1. inflight' = inflight /\ setting' = setting
        BY <1>7 DEF Seal
    <3>2. \A c \in Calls : step'[c] \in Registered <=> step[c] \in Registered
        BY <1>7 DEF Staged, Registered, Seal
    <3> QED BY <1>0, <3>1, <3>2 DEF Builds, Enters, Registers, BuildOf
  <2>6. Waiters'
    <3>1. ASSUME NEW w \in Calls PROVE Awaits(w)'
        BY <1>0, <1>7 DEF Waiters, Awaits, Staged, Seal
    <3> QED BY <3>1 DEF Waiters
  <2> QED BY <2>1, <2>2, <2>3, <2>4, <2>5, <2>6
<1>8. ASSUME NEW b \in Calls, BuildFails(b)
      PROVE  CacheInv'
  <2>1. BuildsTyped'
    <3>1. step' \in [Calls -> Steps]
        BY <1>8 DEF Steps, Staged, Past, BuildFails, Fails, FailsWhen
    <3> QED BY <1>0, <1>8, <3>1 DEF BuildFails, Fails, FailsWhen
  <2>2. Named'
      BY <1>0, <1>8 DEF Named, Staged, Past, BuildFails, Fails, FailsWhen
  <2>3. Removals'
    <3>1. ASSUME TreeClient, NEW c \in Calls PROVE Removal(c)'
        BY <1>0, <1>8, <3>1 DEF Removals, Removal, GivenUp, Named, Past, BuildFails, Fails, FailsWhen
    <3> QED BY <1>8, <3>1 DEF Removals, BuildFails, Fails, FailsWhen
  <2>4. StagesWhole'
    <3>1. ASSUME TreeClient, NEW c \in Calls \ outlived' PROVE StageWhole(c)'
        BY <1>0, <1>8, <3>1 DEF StagesWhole, StageWhole, Staged, BuildFails, Fails,
           FailsWhen, Files
    <3> QED BY <1>8, <3>1 DEF StagesWhole, BuildFails, Fails, FailsWhen
  <2>5. Builds'
    <3>1. inflight' = inflight /\ setting' = setting
        BY <1>8 DEF BuildFails, Fails, FailsWhen
    <3>2. \A c \in Calls : step'[c] \in Registered <=> step[c] \in Registered
        BY <1>8 DEF Staged, Registered, BuildFails, Fails, FailsWhen
    <3> QED BY <1>0, <3>1, <3>2 DEF Builds, Enters, Registers, BuildOf
  <2>6. Waiters'
    <3>1. ASSUME NEW w \in Calls PROVE Awaits(w)'
        BY <1>0, <1>8 DEF Waiters, Awaits, Staged, BuildFails, Fails, FailsWhen
    <3> QED BY <3>1 DEF Waiters
  <2> QED BY <2>1, <2>2, <2>3, <2>4, <2>5, <2>6
<1>9. ASSUME NEW b \in Calls, ClearFails(b)
      PROVE  CacheInv'
  <2>1. BuildsTyped'
    <3>1. step' \in [Calls -> Steps]
        BY <1>9 DEF Steps, Staged, Past, ClearFails, CloseRemoval, Fails, FailsWhen
    <3> QED BY <1>0, <1>9, <3>1 DEF ClearFails, CloseRemoval, Fails, FailsWhen
  <2>2. Named'
      BY <1>0, <1>9 DEF Named, Staged, Past, ClearFails, CloseRemoval, Fails, FailsWhen
  <2>3. Removals'
    <3>1. ASSUME TreeClient, NEW c \in Calls PROVE Removal(c)'
        BY <1>0, <1>9, <3>1 DEF Removals, Removal, GivenUp, Named, Past, ClearFails, CloseRemoval, Fails, FailsWhen
    <3> QED BY <1>9, <3>1 DEF Removals, ClearFails, CloseRemoval, Fails, FailsWhen
  <2>4. StagesWhole'
    <3>1. ASSUME TreeClient, NEW c \in Calls \ outlived' PROVE StageWhole(c)'
        BY <1>0, <1>9, <3>1 DEF StagesWhole, StageWhole, Staged, ClearFails, CloseRemoval, Fails,
           FailsWhen, Files
    <3> QED BY <1>9, <3>1 DEF StagesWhole, ClearFails, CloseRemoval, Fails, FailsWhen
  <2>5. Builds'
    <3>1. inflight' = inflight /\ setting' = setting
        BY <1>9 DEF ClearFails, CloseRemoval, Fails, FailsWhen
    <3>2. \A c \in Calls : step'[c] \in Registered <=> step[c] \in Registered
        BY <1>9 DEF Staged, Registered, ClearFails, CloseRemoval, Fails, FailsWhen
    <3> QED BY <1>0, <3>1, <3>2 DEF Builds, Enters, Registers, BuildOf
  <2>6. Waiters'
    <3>1. ASSUME NEW w \in Calls PROVE Awaits(w)'
        BY <1>0, <1>9 DEF Waiters, Awaits, Staged, ClearFails, CloseRemoval, Fails, FailsWhen
    <3> QED BY <3>1 DEF Waiters
  <2> QED BY <2>1, <2>2, <2>3, <2>4, <2>5, <2>6
<1>10. ASSUME NEW b \in Calls, Rename(b)
      PROVE  CacheInv'
  <2>1. BuildsTyped'
    <3>1. step' \in [Calls -> Steps]
        BY <1>10 DEF Steps, Staged, Past, Rename, CanRename, Synced
    <3> QED BY <1>0, <1>10, <3>1 DEF Rename, CanRename, Synced
  <2>2. Named'
    <3>0. /\ final' = [final EXCEPT ![KeyOf[b]] = b] /\ step[b] \notin Past
        BY <1>10 DEF Past, Rename
    <3>1. ASSUME NEW k \in Keys, k # KeyOf[b], final[k] # Nobody
          PROVE  final'[k] = final[k] /\ at'[final[k]] = "final" /\ step'[final[k]] \in Past
      <4>1. final[k] # b /\ final[k] # final[KeyOf[b]]
          BY <1>0, <3>0, <3>1 DEF Named
      <4>2. at'[final[k]] = at[final[k]] /\ step'[final[k]] = step[final[k]]
          BY <1>10, <3>1, <4>1 DEF Named, Rename
      <4> QED BY <1>0, <3>0, <3>1, <4>2 DEF Named
    <3>2. final'[KeyOf[b]] = b /\ at'[b] = "final" /\ step'[b] \in Past
        BY <1>0, <1>10 DEF Past, Rename
    <3>3. \A k \in Keys \ {KeyOf[b]} : final'[k] = final[k]
        BY <1>0, <3>0
    <3> QED BY <1>0, <3>1, <3>2, <3>3 DEF Named
  <2>3. Removals'
    <3>1. ASSUME TreeClient, NEW c \in Calls PROVE Removal(c)'
        BY <1>0, <1>10, <3>1 DEF Removals, Removal, GivenUp, Named, Past, Rename, CanRename, Synced
    <3> QED BY <1>10, <3>1 DEF Removals, Rename, CanRename, Synced
  <2>4. StagesWhole'
    <3>1. ASSUME TreeClient, NEW c \in Calls \ outlived' PROVE StageWhole(c)'
      <4>1. step'[c] \in Staged => step[c] = step'[c] /\ c # b
          BY <1>10 DEF Staged, Rename
      <4>2. ASSUME c = final[KeyOf[b]] PROVE step[c] \notin Staged
        <5>1. step[c] \in Past
            BY <1>0, <4>2 DEF Named
        <5> QED BY <5>1 DEF Past, Staged
      <4>3. outlived' = outlived /\ contents' = contents /\ (step'[c] \in Staged => at'[c] = at[c])
          BY <1>10, <4>1, <4>2 DEF Rename
      <4> QED BY <3>1, <4>1, <4>3 DEF StagesWhole, StageWhole, Staged
    <3> QED BY <1>10, <3>1 DEF StagesWhole, Rename, Synced
  <2>5. Builds'
    <3>1. inflight' = inflight /\ setting' = setting
        BY <1>10 DEF Rename, CanRename, Synced
    <3>2. \A c \in Calls : step'[c] \in Registered <=> step[c] \in Registered
        BY <1>10 DEF Staged, Registered, Rename, CanRename, Synced
    <3> QED BY <1>0, <3>1, <3>2 DEF Builds, Enters, Registers, BuildOf
  <2>6. Waiters'
    <3>1. ASSUME NEW w \in Calls PROVE Awaits(w)'
        BY <1>0, <1>10 DEF Waiters, Awaits, Staged, Rename, CanRename, Synced
    <3> QED BY <3>1 DEF Waiters
  <2> QED BY <2>1, <2>2, <2>3, <2>4, <2>5, <2>6
<1>11. ASSUME NEW b \in Calls, RenameLost(b)
      PROVE  CacheInv'
  <2>1. BuildsTyped'
    <3>1. step' \in [Calls -> Steps]
        BY <1>11 DEF Steps, Staged, Past, RenameLost, Synced
    <3> QED BY <1>0, <1>11, <3>1 DEF RenameLost, Synced
  <2>2. Named'
      BY <1>0, <1>11 DEF Named, Staged, Past, RenameLost, Synced
  <2>3. Removals'
    <3>1. ASSUME TreeClient, NEW c \in Calls PROVE Removal(c)'
        BY <1>0, <1>11, <3>1 DEF Removals, Removal, GivenUp, Named, Past, RenameLost, Synced
    <3> QED BY <1>11, <3>1 DEF Removals, RenameLost, Synced
  <2>4. StagesWhole'
    <3>1. ASSUME TreeClient, NEW c \in Calls \ outlived' PROVE StageWhole(c)'
        BY <1>0, <1>11, <3>1 DEF StagesWhole, StageWhole, Staged, RenameLost, Synced,
           Files
    <3> QED BY <1>11, <3>1 DEF StagesWhole, RenameLost, Synced
  <2>5. Builds'
    <3>1. inflight' = inflight /\ setting' = setting
        BY <1>11 DEF RenameLost, Synced
    <3>2. \A c \in Calls : step'[c] \in Registered <=> step[c] \in Registered
        BY <1>11 DEF Staged, Registered, RenameLost, Synced
    <3> QED BY <1>0, <3>1, <3>2 DEF Builds, Enters, Registers, BuildOf
  <2>6. Waiters'
    <3>1. ASSUME NEW w \in Calls PROVE Awaits(w)'
        BY <1>0, <1>11 DEF Waiters, Awaits, Staged, RenameLost, Synced
    <3> QED BY <3>1 DEF Waiters
  <2> QED BY <2>1, <2>2, <2>3, <2>4, <2>5, <2>6
<1>12. ASSUME NEW b \in Calls, RenameFails(b)
      PROVE  CacheInv'
  <2>1. BuildsTyped'
    <3>1. step' \in [Calls -> Steps]
        BY <1>12 DEF Steps, Staged, Past, RenameFails, Fails, FailsWhen
    <3> QED BY <1>0, <1>12, <3>1 DEF RenameFails, Fails, FailsWhen
  <2>2. Named'
      BY <1>0, <1>12 DEF Named, Staged, Past, RenameFails, Fails, FailsWhen
  <2>3. Removals'
    <3>1. ASSUME TreeClient, NEW c \in Calls PROVE Removal(c)'
        BY <1>0, <1>12, <3>1 DEF Removals, Removal, GivenUp, Named, Past, RenameFails, Fails, FailsWhen
    <3> QED BY <1>12, <3>1 DEF Removals, RenameFails, Fails, FailsWhen
  <2>4. StagesWhole'
    <3>1. ASSUME TreeClient, NEW c \in Calls \ outlived' PROVE StageWhole(c)'
        BY <1>0, <1>12, <3>1 DEF StagesWhole, StageWhole, Staged, RenameFails, Fails,
           FailsWhen, Files
    <3> QED BY <1>12, <3>1 DEF StagesWhole, RenameFails, Fails, FailsWhen
  <2>5. Builds'
    <3>1. inflight' = inflight /\ setting' = setting
        BY <1>12 DEF RenameFails, Fails, FailsWhen
    <3>2. \A c \in Calls : step'[c] \in Registered <=> step[c] \in Registered
        BY <1>12 DEF Staged, Registered, RenameFails, Fails, FailsWhen
    <3> QED BY <1>0, <3>1, <3>2 DEF Builds, Enters, Registers, BuildOf
  <2>6. Waiters'
    <3>1. ASSUME NEW w \in Calls PROVE Awaits(w)'
        BY <1>0, <1>12 DEF Waiters, Awaits, Staged, RenameFails, Fails,
           FailsWhen
    <3> QED BY <3>1 DEF Waiters
  <2> QED BY <2>1, <2>2, <2>3, <2>4, <2>5, <2>6
<1>13. ASSUME NEW b \in Calls, RenameDamaged(b)
      PROVE  CacheInv'
  <2>1. BuildsTyped'
    <3>1. step' \in [Calls -> Steps]
        BY <1>13 DEF Steps, Staged, Past, RenameDamaged, Opens, Holder
    <3> QED BY <1>0, <1>13, <3>1 DEF RenameDamaged, Opens, Holder
  <2>2. Named'
      BY <1>0, <1>13 DEF Named, Staged, Past, RenameDamaged, Opens, Holder
  <2>3. Removals'
    <3>1. ASSUME TreeClient, NEW c \in Calls PROVE Removal(c)'
      <4>1. Removal(b) /\ Removal(c)
          BY <3>1 DEF Removals
      <4>2. Holder(KeyOf[b]) # Nobody => Holder(KeyOf[b]) \in Calls /\ GivenUp(Holder(KeyOf[b]))
          BY <1>0 DEF Named, GivenUp, Holder
      <4>3. opened'[c] \in {opened[c], Holder(KeyOf[b])}
        <5> DEFINE dir == Holder(KeyOf[b])
        <5>1. opened' = [opened EXCEPT ![b] = dir]
            BY <1>13 DEF RenameDamaged, Opens
        <5> HIDE DEF dir
        <5>2. opened'[c] \in {opened[c], dir}
            BY <5>1
        <5> QED BY <5>2 DEF dir
      <4>4. path'[c] \in {path[c], Nobody, KeyOf[b]}
        <5> DEFINE name == IF Holder(KeyOf[b]) = Nobody THEN Nobody ELSE KeyOf[b]
        <5>1. path' = [path EXCEPT ![b] = name]
            BY <1>13 DEF RenameDamaged, Opens
        <5>2. name \in {Nobody, KeyOf[b]}
            OBVIOUS
        <5> HIDE DEF name
        <5> QED BY <5>1, <5>2
      <4>5. /\ victims' = victims /\ outlived' = outlived
            /\ \A d \in Calls : step[d] \in Past => step'[d] \in Past
          BY <1>13 DEF Past, RenameDamaged
      <4> QED BY <1>0, <4>1, <4>2, <4>3, <4>4, <4>5, CacheAssumption DEF Removal, GivenUp
    <3> QED BY <1>13, <3>1 DEF Removals, RenameDamaged, Opens, Holder
  <2>4. StagesWhole'
    <3>1. ASSUME TreeClient, NEW c \in Calls \ outlived' PROVE StageWhole(c)'
        BY <1>0, <1>13, <3>1 DEF StagesWhole, StageWhole, Staged, RenameDamaged, Opens, Holder, Files
    <3> QED BY <1>13, <3>1 DEF StagesWhole, RenameDamaged, Opens, Holder
  <2>5. Builds'
    <3>1. inflight' = inflight /\ setting' = setting
        BY <1>13 DEF RenameDamaged, Opens, Holder
    <3>2. \A c \in Calls : step'[c] \in Registered <=> step[c] \in Registered
        BY <1>13 DEF Staged, Registered, RenameDamaged, Opens, Holder
    <3> QED BY <1>0, <3>1, <3>2 DEF Builds, Enters, Registers, BuildOf
  <2>6. Waiters'
    <3>1. ASSUME NEW w \in Calls PROVE Awaits(w)'
        BY <1>0, <1>13 DEF Waiters, Awaits, Staged, RenameDamaged, Opens, Holder
    <3> QED BY <3>1 DEF Waiters
  <2> QED BY <2>1, <2>2, <2>3, <2>4, <2>5, <2>6
<1>14. ASSUME NEW b \in Calls, Close(b)
      PROVE  CacheInv'
  <2>1. BuildsTyped'
    <3>1. step' \in [Calls -> Steps]
        BY <1>14 DEF Steps, Staged, Past, Close
    <3> QED BY <1>0, <1>14, <3>1 DEF Close
  <2>2. Named'
      BY <1>0, <1>14 DEF Named, Staged, Past, Close
  <2>3. Removals'
    <3>1. ASSUME TreeClient, NEW c \in Calls PROVE Removal(c)'
        BY <1>0, <1>14, <3>1 DEF Removals, Removal, GivenUp, Named, Past, Close
    <3> QED BY <1>14, <3>1 DEF Removals, Close
  <2>4. StagesWhole'
    <3>1. ASSUME TreeClient, NEW c \in Calls \ outlived' PROVE StageWhole(c)'
        BY <1>0, <1>14, <3>1 DEF StagesWhole, StageWhole, Staged, Close, Files
    <3> QED BY <1>14, <3>1 DEF StagesWhole, Close
  <2>5. Builds'
    <3>1. inflight' = inflight /\ setting' = setting
        BY <1>14 DEF Close
    <3>2. \A c \in Calls : step'[c] \in Registered <=> step[c] \in Registered
        BY <1>14 DEF Staged, Registered, Close
    <3> QED BY <1>0, <3>1, <3>2 DEF Builds, Enters, Registers, BuildOf
  <2>6. Waiters'
    <3>1. ASSUME NEW w \in Calls PROVE Awaits(w)'
        BY <1>0, <1>14 DEF Waiters, Awaits, Staged, Close
    <3> QED BY <3>1 DEF Waiters
  <2> QED BY <2>1, <2>2, <2>3, <2>4, <2>5, <2>6
<1>15. ASSUME NEW b \in Calls, Deregister(b)
      PROVE  CacheInv'
  <2>1. BuildsTyped'
    <3>1. step' \in [Calls -> Steps]
        BY <1>15 DEF Steps, Staged, Past, Deregister
    <3> QED BY <1>0, <1>15, <3>1 DEF Deregister
  <2>2. Named'
      BY <1>0, <1>15 DEF Named, Staged, Past, Deregister
  <2>3. Removals'
    <3>1. ASSUME TreeClient, NEW c \in Calls PROVE Removal(c)'
        BY <1>0, <1>15, <3>1 DEF Removals, Removal, GivenUp, Named, Past, Deregister
    <3> QED BY <1>15, <3>1 DEF Removals, Deregister
  <2>4. StagesWhole'
    <3>1. ASSUME TreeClient, NEW c \in Calls \ outlived' PROVE StageWhole(c)'
        BY <1>0, <1>15, <3>1 DEF StagesWhole, StageWhole, Staged, Deregister, Files
    <3> QED BY <1>15, <3>1 DEF StagesWhole, Deregister
  <2>5. Builds'
    <3>1. ASSUME NEW c \in Calls PROVE Enters(c)'
        BY <1>0, <1>15 DEF Builds, Enters, Registers, BuildOf, Staged, Registered, Deregister
    <3>2. ASSUME NEW t \in Stores, NEW j \in Keys PROVE Registers(t, j)'
        BY <1>0, <1>15 DEF Builds, Registers, BuildOf, Enters, Staged, Registered, Deregister
    <3> QED BY <3>1, <3>2 DEF Builds
  <2>6. Waiters'
    <3>1. ASSUME NEW w \in Calls PROVE Awaits(w)'
        BY <1>0, <1>15 DEF Waiters, Awaits, Staged, Deregister
    <3> QED BY <3>1 DEF Waiters
  <2> QED BY <2>1, <2>2, <2>3, <2>4, <2>5, <2>6
<1>16. ASSUME NEW b \in Calls, Answer(b)
      PROVE  CacheInv'
  <2>1. BuildsTyped'
    <3>1. step' \in [Calls -> Steps]
        BY <1>16 DEF Steps, Staged, Past, Answer
    <3> QED BY <1>0, <1>16, <3>1 DEF Answer
  <2>2. Named'
      BY <1>0, <1>16 DEF Named, Staged, Past, Answer
  <2>3. Removals'
    <3>1. ASSUME TreeClient, NEW c \in Calls PROVE Removal(c)'
        BY <1>0, <1>16, <3>1 DEF Removals, Removal, GivenUp, Named, Past, Answer
    <3> QED BY <1>16, <3>1 DEF Removals, Answer
  <2>4. StagesWhole'
    <3>1. ASSUME TreeClient, NEW c \in Calls \ outlived' PROVE StageWhole(c)'
        BY <1>0, <1>16, <3>1 DEF StagesWhole, StageWhole, Staged, Answer, Files
    <3> QED BY <1>16, <3>1 DEF StagesWhole, Answer
  <2>5. Builds'
    <3>1. inflight' = inflight /\ setting' = setting
        BY <1>16 DEF Answer
    <3>2. \A c \in Calls : step'[c] \in Registered <=> step[c] \in Registered
        BY <1>16 DEF Staged, Registered, Answer
    <3> QED BY <1>0, <3>1, <3>2 DEF Builds, Enters, Registers, BuildOf
  <2>6. Waiters'
    <3>1. ASSUME NEW w \in Calls PROVE Awaits(w)'
        BY <1>0, <1>16 DEF Waiters, Awaits, Staged, Answer
    <3> QED BY <3>1 DEF Waiters
  <2> QED BY <2>1, <2>2, <2>3, <2>4, <2>5, <2>6
<1>17. ASSUME NEW b \in Calls, ReadFound(b)
      PROVE  CacheInv'
  <2>1. BuildsTyped'
    <3>1. step' \in [Calls -> Steps]
        BY <1>17 DEF Steps, Staged, Past, ReadFound
    <3> QED BY <1>0, <1>17, <3>1 DEF ReadFound
  <2>2. Named'
      BY <1>0, <1>17 DEF Named, Staged, Past, ReadFound
  <2>3. Removals'
    <3>1. ASSUME TreeClient, NEW c \in Calls PROVE Removal(c)'
        BY <1>0, <1>17, <3>1 DEF Removals, Removal, GivenUp, Named, Past, ReadFound
    <3> QED BY <1>17, <3>1 DEF Removals, ReadFound
  <2>4. StagesWhole'
    <3>1. ASSUME TreeClient, NEW c \in Calls \ outlived' PROVE StageWhole(c)'
        BY <1>0, <1>17, <3>1 DEF StagesWhole, StageWhole, Staged, ReadFound, Files
    <3> QED BY <1>17, <3>1 DEF StagesWhole, ReadFound
  <2>5. Builds'
    <3>1. inflight' = inflight /\ setting' = setting
        BY <1>17 DEF ReadFound
    <3>2. \A c \in Calls : step'[c] \in Registered <=> step[c] \in Registered
        BY <1>17 DEF Staged, Registered, ReadFound
    <3> QED BY <1>0, <3>1, <3>2 DEF Builds, Enters, Registers, BuildOf
  <2>6. Waiters'
    <3>1. ASSUME NEW w \in Calls PROVE Awaits(w)'
        BY <1>0, <1>17 DEF Waiters, Awaits, Staged, ReadFound
    <3> QED BY <3>1 DEF Waiters
  <2> QED BY <2>1, <2>2, <2>3, <2>4, <2>5, <2>6
<1>18. ASSUME NEW b \in Calls, DiscardDamaged(b)
      PROVE  CacheInv'
  <2>1. BuildsTyped'
    <3>1. step' \in [Calls -> Steps]
        BY <1>18 DEF Steps, Staged, Past, DiscardDamaged, Opens, Holder
    <3> QED BY <1>0, <1>18, <3>1 DEF DiscardDamaged, Opens, Holder
  <2>2. Named'
      BY <1>0, <1>18 DEF Named, Staged, Past, DiscardDamaged, Opens, Holder
  <2>3. Removals'
    <3>1. ASSUME TreeClient, NEW c \in Calls PROVE Removal(c)'
      <4>1. Removal(b) /\ Removal(c)
          BY <3>1 DEF Removals
      <4>2. Holder(KeyOf[b]) # Nobody => Holder(KeyOf[b]) \in Calls /\ GivenUp(Holder(KeyOf[b]))
          BY <1>0 DEF Named, GivenUp, Holder
      <4>3. opened'[c] \in {opened[c], Holder(KeyOf[b])}
        <5> DEFINE dir == Holder(KeyOf[b])
        <5>1. opened' = [opened EXCEPT ![b] = dir]
            BY <1>18 DEF DiscardDamaged, Opens
        <5> HIDE DEF dir
        <5>2. opened'[c] \in {opened[c], dir}
            BY <5>1
        <5> QED BY <5>2 DEF dir
      <4>4. path'[c] \in {path[c], Nobody, KeyOf[b]}
        <5> DEFINE name == IF Holder(KeyOf[b]) = Nobody THEN Nobody ELSE KeyOf[b]
        <5>1. path' = [path EXCEPT ![b] = name]
            BY <1>18 DEF DiscardDamaged, Opens
        <5>2. name \in {Nobody, KeyOf[b]}
            OBVIOUS
        <5> HIDE DEF name
        <5> QED BY <5>1, <5>2
      <4>5. /\ victims' = victims /\ outlived' = outlived
            /\ \A d \in Calls : step[d] \in Past => step'[d] \in Past
          BY <1>18 DEF Past, DiscardDamaged
      <4> QED BY <1>0, <4>1, <4>2, <4>3, <4>4, <4>5, CacheAssumption DEF Removal, GivenUp
    <3> QED BY <1>18, <3>1 DEF Removals, DiscardDamaged, Opens, Holder
  <2>4. StagesWhole'
    <3>1. ASSUME TreeClient, NEW c \in Calls \ outlived' PROVE StageWhole(c)'
        BY <1>0, <1>18, <3>1 DEF StagesWhole, StageWhole, Staged, DiscardDamaged, Opens, Holder, Files
    <3> QED BY <1>18, <3>1 DEF StagesWhole, DiscardDamaged, Opens, Holder
  <2>5. Builds'
    <3>1. inflight' = inflight /\ setting' = setting
        BY <1>18 DEF DiscardDamaged, Opens, Holder
    <3>2. \A c \in Calls : step'[c] \in Registered <=> step[c] \in Registered
        BY <1>18 DEF Staged, Registered, DiscardDamaged, Opens, Holder
    <3> QED BY <1>0, <3>1, <3>2 DEF Builds, Enters, Registers, BuildOf
  <2>6. Waiters'
    <3>1. ASSUME NEW w \in Calls PROVE Awaits(w)'
        BY <1>0, <1>18 DEF Waiters, Awaits, Staged, DiscardDamaged, Opens, Holder
    <3> QED BY <3>1 DEF Waiters
  <2> QED BY <2>1, <2>2, <2>3, <2>4, <2>5, <2>6
<1>19. ASSUME NEW b \in Calls, ListBucket(b)
      PROVE  CacheInv'
  <2>1. BuildsTyped'
    <3>1. step' \in [Calls -> Steps]
        BY <1>19 DEF Steps, Staged, Past, ListBucket
    <3>2. PICK spared \in SUBSET Keys : Lists(b, spared)
        BY <1>19 DEF ListBucket
    <3>4. outlived' \subseteq Calls
        BY <1>19 DEF ListBucket, Debris
    <3>5. victims' \in [Calls -> SUBSET (Calls \cup Keys)]
        BY <3>2, ListedNames
    <3> QED BY <1>0, <1>19, <3>1, <3>4, <3>5 DEF ListBucket
  <2>2. Named'
      BY <1>0, <1>19 DEF Named, Staged, Past, ListBucket
  <2>3. Removals'
    <3>1. ASSUME TreeClient, NEW c \in Calls PROVE Removal(c)'
      <4>1. PICK spared \in SUBSET Keys : Lists(b, spared)
          BY <1>19 DEF ListBucket
      <4>3. ASSUME NEW n \in Debris PROVE GivenUp(n)'
        <5>1. n \in outlived' \/ step[n] \in {"dead", "done"}
            BY <1>19, <3>1 DEF ListBucket
        <5>2. n \in Calls
            BY DEF Debris
        <5> QED BY <1>19, <5>1, <5>2 DEF GivenUp, Past, ListBucket
      <4>4. victims'[c] \cap Calls \subseteq (victims[c] \cap Calls) \cup Debris
          BY <4>1, ListedNames
      <4>5. /\ opened' = opened /\ path' = path /\ outlived \subseteq outlived'
            /\ \A d \in Calls : step[d] \in Past => step'[d] \in Past
          BY <1>19 DEF Past, ListBucket
      <4> QED BY <3>1, <4>3, <4>4, <4>5 DEF Removals, Removal, GivenUp
    <3> QED BY <1>19, <3>1 DEF Removals, ListBucket
  <2>4. StagesWhole'
    <3>1. ASSUME TreeClient, NEW c \in Calls \ outlived' PROVE StageWhole(c)'
        BY <1>0, <1>19, <3>1 DEF StagesWhole, StageWhole, Staged, ListBucket,
           Files
    <3> QED BY <1>19, <3>1 DEF StagesWhole, ListBucket
  <2>5. Builds'
    <3>1. inflight' = inflight /\ setting' = setting
        BY <1>19 DEF ListBucket
    <3>2. \A c \in Calls : step'[c] \in Registered <=> step[c] \in Registered
        BY <1>19 DEF Staged, Registered, ListBucket
    <3> QED BY <1>0, <3>1, <3>2 DEF Builds, Enters, Registers, BuildOf
  <2>6. Waiters'
    <3>1. ASSUME NEW w \in Calls PROVE Awaits(w)'
        BY <1>0, <1>19 DEF Waiters, Awaits, Staged, ListBucket
    <3> QED BY <3>1 DEF Waiters
  <2> QED BY <2>1, <2>2, <2>3, <2>4, <2>5, <2>6
<1>20. ASSUME NEW b \in Calls, NEW n \in victims[b], OpenVictim(b, n)
      PROVE  CacheInv'
  <2>1. BuildsTyped'
    <3>1. step' \in [Calls -> Steps]
        BY <1>20 DEF Steps, Staged, Past, OpenVictim, Opens, Holder
    <3> QED BY <1>0, <1>20, <3>1 DEF OpenVictim, Opens, Holder
  <2>2. Named'
      BY <1>0, <1>20 DEF Named, Staged, Past, OpenVictim, Opens, Holder
  <2>3. Removals'
    <3>1. ASSUME TreeClient, NEW c \in Calls PROVE Removal(c)'
      <4>1. Removal(b) /\ Removal(c)
          BY <3>1 DEF Removals
      <4>2. Holder(n) # Nobody => Holder(n) \in Calls /\ GivenUp(Holder(n))
          BY <1>0, <1>20, <4>1, CacheAssumption DEF Named, Removal, GivenUp, Holder
      <4>3. opened'[c] \in {opened[c], Holder(n)}
        <5> DEFINE dir == Holder(n)
        <5>1. opened' = [opened EXCEPT ![b] = dir]
            BY <1>20 DEF OpenVictim, Opens
        <5> HIDE DEF dir
        <5>2. opened'[c] \in {opened[c], dir}
            BY <5>1
        <5> QED BY <5>2 DEF dir
      <4>4. path'[c] \in {path[c], Nobody, n}
        <5> DEFINE name == IF Holder(n) = Nobody THEN Nobody ELSE n
        <5>1. path' = [path EXCEPT ![b] = name]
            BY <1>20 DEF OpenVictim, Opens
        <5>2. name \in {Nobody, n}
            OBVIOUS
        <5> HIDE DEF name
        <5> QED BY <5>1, <5>2
      <4>5. victims'[c] \subseteq victims[c]
        <5>1. victims' = [victims EXCEPT ![b] = @ \ {n}]
            BY <1>20 DEF OpenVictim
        <5> QED BY <5>1
      <4>6. step' = step /\ outlived' = outlived
          BY <1>20 DEF OpenVictim
      <4> QED BY <1>0, <1>20, <4>1, <4>2, <4>3, <4>4, <4>5, <4>6 DEF Removal, GivenUp
    <3> QED BY <1>20, <3>1 DEF Removals, OpenVictim
  <2>4. StagesWhole'
    <3>1. ASSUME TreeClient, NEW c \in Calls \ outlived' PROVE StageWhole(c)'
        BY <1>0, <1>20, <3>1 DEF StagesWhole, StageWhole, Staged, OpenVictim, Opens, Holder, Files
    <3> QED BY <1>20, <3>1 DEF StagesWhole, OpenVictim, Opens, Holder
  <2>5. Builds'
    <3>1. inflight' = inflight /\ setting' = setting
        BY <1>20 DEF OpenVictim, Opens, Holder
    <3>2. \A c \in Calls : step'[c] \in Registered <=> step[c] \in Registered
        BY <1>20 DEF Staged, Registered, OpenVictim, Opens, Holder
    <3> QED BY <1>0, <3>1, <3>2 DEF Builds, Enters, Registers, BuildOf
  <2>6. Waiters'
    <3>1. ASSUME NEW w \in Calls PROVE Awaits(w)'
        BY <1>0, <1>20 DEF Waiters, Awaits, Staged, OpenVictim, Opens, Holder
    <3> QED BY <3>1 DEF Waiters
  <2> QED BY <2>1, <2>2, <2>3, <2>4, <2>5, <2>6
<1>21. ASSUME NEW b \in Calls, NEW f \in Files, Unlink(b, f)
      PROVE  CacheInv'
  <2>1. BuildsTyped'
    <3>1. step' \in [Calls -> Steps]
        BY <1>21 DEF Steps, Staged, Past, Unlink, ToDelete
    <3> QED BY <1>0, <1>21, <3>1 DEF Unlink, ToDelete
  <2>2. Named'
      BY <1>0, <1>21 DEF Named, Staged, Past, Unlink, ToDelete
  <2>3. Removals'
    <3>1. ASSUME TreeClient, NEW c \in Calls PROVE Removal(c)'
        BY <1>0, <1>21, <3>1 DEF Removals, Removal, GivenUp, Named, Past, Unlink, ToDelete
    <3> QED BY <1>21, <3>1 DEF Removals, Unlink, ToDelete
  <2>4. StagesWhole'
    <3>1. ASSUME TreeClient, NEW c \in Calls \ outlived' PROVE StageWhole(c)'
      <4>1. opened[b] # c \/ step[c] \in Past
          BY <1>21, <3>1 DEF Removals, Removal, GivenUp, Unlink
      <4> QED BY <1>0, <1>21, <3>1, <4>1 DEF StagesWhole, StageWhole, Past, Staged, Unlink, Files
    <3> QED BY <1>21, <3>1 DEF StagesWhole, Unlink, ToDelete
  <2>5. Builds'
    <3>1. inflight' = inflight /\ setting' = setting
        BY <1>21 DEF Unlink, ToDelete
    <3>2. \A c \in Calls : step'[c] \in Registered <=> step[c] \in Registered
        BY <1>21 DEF Staged, Registered, Unlink, ToDelete
    <3> QED BY <1>0, <3>1, <3>2 DEF Builds, Enters, Registers, BuildOf
  <2>6. Waiters'
    <3>1. ASSUME NEW w \in Calls PROVE Awaits(w)'
        BY <1>0, <1>21 DEF Waiters, Awaits, Staged, Unlink, ToDelete
    <3> QED BY <3>1 DEF Waiters
  <2> QED BY <2>1, <2>2, <2>3, <2>4, <2>5, <2>6
<1>22. ASSUME NEW b \in Calls, Rmdir(b)
      PROVE  CacheInv'
  <2>1. BuildsTyped'
    <3>1. step' \in [Calls -> Steps]
        BY <1>22 DEF Steps, Staged, Past, Rmdir, CloseRemoval, Holder
    <3> QED BY <1>0, <1>22, <3>1 DEF Rmdir, CloseRemoval, Holder
  <2>2. Named'
      BY <1>0, <1>22 DEF Named, Staged, Past, Rmdir, CloseRemoval, Holder
  <2>3. Removals'
    <3>1. ASSUME TreeClient, NEW c \in Calls PROVE Removal(c)'
        BY <1>0, <1>22, <3>1 DEF Removals, Removal, GivenUp, Named, Past, Rmdir, CloseRemoval, Holder
    <3> QED BY <1>22, <3>1 DEF Removals, Rmdir, CloseRemoval, Holder
  <2>4. StagesWhole'
    <3>1. ASSUME TreeClient, NEW c \in Calls \ outlived' PROVE StageWhole(c)'
      <4>1. Holder(path[b]) # c \/ step[c] \in Past
        <5>1. path[b] \in Calls \cup Keys \cup {Nobody} /\ Removal(b)
            BY <3>1 DEF Removals
        <5>2. c # Nobody /\ c \notin outlived
            BY <1>0, <1>22, <3>1 DEF Rmdir
        <5> QED BY <5>1, <5>2 DEF Named, Removal, GivenUp, Holder
      <4>2. outlived' = outlived /\ contents' = contents /\ (step[c] \in Staged => at'[c] = at[c])
        <5>1. at'[c] = IF c = Holder(path[b]) THEN "none" ELSE at[c]
            BY <1>22 DEF Rmdir
        <5> QED BY <1>22, <4>1, <5>1 DEF Past, Staged, Rmdir
      <4>3. CASE c = b
        <5>1. step'[b] \in {"looking", "removing"} \/ (step[b] = "clearing" /\ step'[b] = "retrying")
            BY <1>22 DEF Rmdir, CloseRemoval, Holder
        <5> QED BY <3>1, <4>2, <4>3, <5>1 DEF StagesWhole, StageWhole, Staged
      <4>4. CASE c # b
        <5>1. step'[c] = step[c]
            BY <1>22, <4>4 DEF Rmdir, CloseRemoval, Holder
        <5> QED BY <3>1, <4>2, <5>1 DEF StagesWhole, StageWhole
      <4> QED BY <4>3, <4>4
    <3> QED BY <1>22, <3>1 DEF StagesWhole, Rmdir, CloseRemoval, Holder
  <2>5. Builds'
    <3>1. inflight' = inflight /\ setting' = setting
        BY <1>22 DEF Rmdir, CloseRemoval, Holder
    <3>2. \A c \in Calls : step'[c] \in Registered <=> step[c] \in Registered
        BY <1>22 DEF Staged, Registered, Rmdir, CloseRemoval, Holder
    <3> QED BY <1>0, <3>1, <3>2 DEF Builds, Enters, Registers, BuildOf
  <2>6. Waiters'
    <3>1. ASSUME NEW w \in Calls PROVE Awaits(w)'
        BY <1>0, <1>22 DEF Waiters, Awaits, Staged, Rmdir, CloseRemoval, Holder
    <3> QED BY <3>1 DEF Waiters
  <2> QED BY <2>1, <2>2, <2>3, <2>4, <2>5, <2>6
<1>23. ASSUME NEW b \in Calls, PruneEnds(b)
      PROVE  CacheInv'
  <2>1. BuildsTyped'
    <3>1. step' \in [Calls -> Steps]
        BY <1>23 DEF Steps, Staged, Past, PruneEnds
    <3> QED BY <1>0, <1>23, <3>1 DEF PruneEnds
  <2>2. Named'
      BY <1>0, <1>23 DEF Named, Staged, Past, PruneEnds
  <2>3. Removals'
    <3>1. ASSUME TreeClient, NEW c \in Calls PROVE Removal(c)'
        BY <1>0, <1>23, <3>1 DEF Removals, Removal, GivenUp, Named, Past, PruneEnds
    <3> QED BY <1>23, <3>1 DEF Removals, PruneEnds
  <2>4. StagesWhole'
    <3>1. ASSUME TreeClient, NEW c \in Calls \ outlived' PROVE StageWhole(c)'
        BY <1>0, <1>23, <3>1 DEF StagesWhole, StageWhole, Staged, PruneEnds, Files
    <3> QED BY <1>23, <3>1 DEF StagesWhole, PruneEnds
  <2>5. Builds'
    <3>1. inflight' = inflight /\ setting' = setting
        BY <1>23 DEF PruneEnds
    <3>2. \A c \in Calls : step'[c] \in Registered <=> step[c] \in Registered
        BY <1>23 DEF Staged, Registered, PruneEnds
    <3> QED BY <1>0, <3>1, <3>2 DEF Builds, Enters, Registers, BuildOf
  <2>6. Waiters'
    <3>1. ASSUME NEW w \in Calls PROVE Awaits(w)'
        BY <1>0, <1>23 DEF Waiters, Awaits, Staged, PruneEnds
    <3> QED BY <3>1 DEF Waiters
  <2> QED BY <2>1, <2>2, <2>3, <2>4, <2>5, <2>6
<1>24. ASSUME NEW k \in Keys, NEW f \in Files, Damage(k, f)
      PROVE  CacheInv'
  <2>1. BuildsTyped'
    <3>1. step' \in [Calls -> Steps]
        BY <1>24 DEF Steps, Staged, Past, Damage
    <3> QED BY <1>0, <1>24, <3>1 DEF Damage
  <2>2. Named'
      BY <1>0, <1>24 DEF Named, Staged, Past, Damage
  <2>3. Removals'
    <3>1. ASSUME TreeClient, NEW c \in Calls PROVE Removal(c)'
        BY <1>0, <1>24, <3>1 DEF Removals, Removal, GivenUp, Named, Past, Damage
    <3> QED BY <1>24, <3>1 DEF Removals, Damage
  <2>4. StagesWhole'
    <3>1. ASSUME TreeClient, NEW c \in Calls \ outlived' PROVE StageWhole(c)'
        BY <1>0, <1>24, <3>1 DEF StagesWhole, StageWhole, Named, Past, Staged, Damage, Files
    <3> QED BY <1>24, <3>1 DEF StagesWhole, Damage
  <2>5. Builds'
    <3>1. inflight' = inflight /\ setting' = setting
        BY <1>24 DEF Damage
    <3>2. \A c \in Calls : step'[c] \in Registered <=> step[c] \in Registered
        BY <1>24 DEF Staged, Registered, Damage
    <3> QED BY <1>0, <3>1, <3>2 DEF Builds, Enters, Registers, BuildOf
  <2>6. Waiters'
    <3>1. ASSUME NEW w \in Calls PROVE Awaits(w)'
        BY <1>0, <1>24 DEF Waiters, Awaits, Staged, Damage
    <3> QED BY <3>1 DEF Waiters
  <2> QED BY <2>1, <2>2, <2>3, <2>4, <2>5, <2>6
<1>25. ASSUME NEW s \in Stores, Crash(s)
      PROVE  CacheInv'
  <2>1. BuildsTyped'
    <3>1. step' \in [Calls -> Steps]
        BY <1>25 DEF Steps, Staged, Past, Crash
    <3> QED BY <1>0, <1>25, <3>1 DEF Crash
  <2>2. Named'
      BY <1>0, <1>25 DEF Named, Staged, Past, Crash
  <2>3. Removals'
    <3>1. ASSUME TreeClient, NEW c \in Calls PROVE Removal(c)'
        BY <1>0, <1>25, <3>1 DEF Removals, Removal, GivenUp, Named, Past, Crash
    <3> QED BY <1>25, <3>1 DEF Removals, Crash
  <2>4. StagesWhole'
    <3>1. ASSUME TreeClient, NEW c \in Calls \ outlived' PROVE StageWhole(c)'
        BY <1>0, <1>25, <3>1 DEF StagesWhole, StageWhole, Staged, Crash, Files
    <3> QED BY <1>25, <3>1 DEF StagesWhole, Crash
  <2>5. Builds'
    <3>1. ASSUME NEW c \in Calls PROVE Enters(c)'
        BY <1>0, <1>25 DEF Builds, Enters, Staged, Registered, Crash
    <3>2. ASSUME NEW t \in Stores, NEW j \in Keys PROVE Registers(t, j)'
        BY <1>0, <1>25 DEF Builds, Registers, BuildOf, Staged, Registered, Crash
    <3> QED BY <3>1, <3>2 DEF Builds
  <2>6. Waiters'
    <3>1. ASSUME NEW w \in Calls PROVE Awaits(w)'
        BY <1>0, <1>25 DEF Waiters, Awaits, Staged, Crash
    <3> QED BY <3>1 DEF Waiters
  <2> QED BY <2>1, <2>2, <2>3, <2>4, <2>5, <2>6
<1>26. ASSUME NEW b \in Calls, RemovalFails(b)
      PROVE  CacheInv'
  <2>1. BuildsTyped'
    <3>1. step' \in [Calls -> Steps]
        BY <1>26 DEF Steps, Staged, Past, RemovalFails, CloseRemoval, FailsWhen
    <3> QED BY <1>0, <1>26, <3>1 DEF RemovalFails, CloseRemoval, FailsWhen
  <2>2. Named'
      BY <1>0, <1>26 DEF Named, Staged, Past, RemovalFails, CloseRemoval, FailsWhen
  <2>3. Removals'
    <3>1. ASSUME TreeClient, NEW c \in Calls PROVE Removal(c)'
        BY <1>0, <1>26, <3>1 DEF Removals, Removal, GivenUp, Named, Past, RemovalFails, CloseRemoval, FailsWhen
    <3> QED BY <1>26, <3>1 DEF Removals, RemovalFails, CloseRemoval, FailsWhen
  <2>4. StagesWhole'
    <3>1. ASSUME TreeClient, NEW c \in Calls \ outlived' PROVE StageWhole(c)'
        BY <1>0, <1>26, <3>1 DEF StagesWhole, StageWhole, Staged, RemovalFails, CloseRemoval, FailsWhen, Files
    <3> QED BY <1>26, <3>1 DEF StagesWhole, RemovalFails, CloseRemoval, FailsWhen
  <2>5. Builds'
    <3>1. inflight' = inflight /\ setting' = setting
        BY <1>26 DEF RemovalFails, CloseRemoval, FailsWhen
    <3>2. \A c \in Calls : step'[c] \in Registered <=> step[c] \in Registered
        BY <1>26 DEF Staged, Registered, RemovalFails, CloseRemoval, FailsWhen
    <3> QED BY <1>0, <3>1, <3>2 DEF Builds, Enters, Registers, BuildOf
  <2>6. Waiters'
    <3>1. ASSUME NEW w \in Calls PROVE Awaits(w)'
        BY <1>0, <1>26 DEF Waiters, Awaits, Staged, RemovalFails, CloseRemoval, FailsWhen
    <3> QED BY <3>1 DEF Waiters
  <2> QED BY <2>1, <2>2, <2>3, <2>4, <2>5, <2>6
<1>27. ASSUME NEW b \in Calls, BucketFails(b)
      PROVE  CacheInv'
  <2>1. BuildsTyped'
    <3>1. step' \in [Calls -> Steps]
        BY <1>27 DEF Steps, Staged, Past, BucketFails, FailsWhen
    <3> QED BY <1>0, <1>27, <3>1 DEF BucketFails, FailsWhen
  <2>2. Named'
      BY <1>0, <1>27 DEF Named, Staged, Past, BucketFails, FailsWhen
  <2>3. Removals'
    <3>1. ASSUME TreeClient, NEW c \in Calls PROVE Removal(c)'
        BY <1>0, <1>27, <3>1 DEF Removals, Removal, GivenUp, Named, Past, BucketFails, FailsWhen
    <3> QED BY <1>27, <3>1 DEF Removals, BucketFails, FailsWhen
  <2>4. StagesWhole'
    <3>1. ASSUME TreeClient, NEW c \in Calls \ outlived' PROVE StageWhole(c)'
        BY <1>0, <1>27, <3>1 DEF StagesWhole, StageWhole, Staged, BucketFails, FailsWhen, Files
    <3> QED BY <1>27, <3>1 DEF StagesWhole, BucketFails, FailsWhen
  <2>5. Builds'
    <3>1. inflight' = inflight /\ setting' = setting
        BY <1>27 DEF BucketFails, FailsWhen
    <3>2. \A c \in Calls : step'[c] \in Registered <=> step[c] \in Registered
        BY <1>27 DEF Staged, Registered, BucketFails, FailsWhen
    <3> QED BY <1>0, <3>1, <3>2 DEF Builds, Enters, Registers, BuildOf
  <2>6. Waiters'
    <3>1. ASSUME NEW w \in Calls PROVE Awaits(w)'
        BY <1>0, <1>27 DEF Waiters, Awaits, Staged, BucketFails, FailsWhen
    <3> QED BY <3>1 DEF Waiters
  <2> QED BY <2>1, <2>2, <2>3, <2>4, <2>5, <2>6
<1>28. ASSUME NEW d \in Calls, DayPasses(d)
      PROVE  CacheInv'
  <2>1. BuildsTyped'
    <3>1. step' \in [Calls -> Steps]
        BY <1>28 DEF Steps, Staged, Past, DayPasses
    <3> QED BY <1>0, <1>28, <3>1 DEF DayPasses
  <2>2. Named'
      BY <1>0, <1>28 DEF Named, Staged, Past, DayPasses
  <2>3. Removals'
    <3>1. ASSUME TreeClient, NEW c \in Calls PROVE Removal(c)'
        BY <1>0, <1>28, <3>1 DEF Removals, Removal, GivenUp, Named, Past, DayPasses
    <3> QED BY <1>28, <3>1 DEF Removals, DayPasses
  <2>4. StagesWhole'
    <3>1. ASSUME TreeClient, NEW c \in Calls \ outlived' PROVE StageWhole(c)'
        BY <1>0, <1>28, <3>1 DEF StagesWhole, StageWhole, Staged, DayPasses, Files
    <3> QED BY <1>28, <3>1 DEF StagesWhole, DayPasses
  <2>5. Builds'
    <3>1. inflight' = inflight /\ setting' = setting
        BY <1>28 DEF DayPasses
    <3>2. \A c \in Calls : step'[c] \in Registered <=> step[c] \in Registered
        BY <1>28 DEF Staged, Registered, DayPasses
    <3> QED BY <1>0, <3>1, <3>2 DEF Builds, Enters, Registers, BuildOf
  <2>6. Waiters'
    <3>1. ASSUME NEW w \in Calls PROVE Awaits(w)'
        BY <1>0, <1>28 DEF Waiters, Awaits, Staged, DayPasses
    <3> QED BY <3>1 DEF Waiters
  <2> QED BY <2>1, <2>2, <2>3, <2>4, <2>5, <2>6
<1>29. CASE UNCHANGED buildVars
  <2>1. BuildsTyped' /\ Named' /\ Removals'
      BY <1>29 DEF Named, Removals, Removal, GivenUp, buildVars
  <2>2. StagesWhole' /\ Builds' /\ Waiters'
      BY <1>29 DEF StagesWhole, StageWhole, Builds, Enters, Registers, BuildOf, Waiters, Awaits, buildVars
  <2> QED BY <2>1, <2>2
<1> QED
    BY <1>1, <1>2, <1>3, <1>4, <1>5, <1>6, <1>7, <1>8, <1>9, <1>10, <1>11, <1>12, <1>13, <1>14, <1>15, <1>16, <1>17, <1>18, <1>19, <1>20, <1>21, <1>22, <1>23, <1>24, <1>25, <1>26,
       <1>27, <1>28, <1>29
    DEF CacheNext, Build, Client

\* Only a rename gives a key's name to a directory.
LEMMA OnlyRenamePublishes ==
    ASSUME CacheInv, [CacheNext]_buildVars, NEW k \in Keys, final'[k] \notin {Nobody, final[k]}
    PROVE  \E b \in Calls : Rename(b)
<1>1. ASSUME NEW b \in Calls, Client(b) PROVE final'[k] \in {Nobody, final[k]}
    BY <1>1 DEF Client, Answer, ReadFound, DiscardDamaged, ListBucket, BucketFails, OpenVictim, Unlink,
       Rmdir, RemovalFails, PruneEnds, directories
<1>2. ASSUME NEW b \in Calls, Build(b), ~Rename(b) PROVE final' = final
    BY <1>2 DEF Build, LookupHit, LookupMiss, Join, JoinClosed, Register, Populate, Seal, BuildFails,
       ClearFails, Fails, RenameLost, RenameFails, RenameDamaged, Close, Deregister, directories
<1>3. ASSUME NEW d \in Calls, DayPasses(d) PROVE final' = final
    BY <1>3 DEF DayPasses
<1>4. ASSUME NEW j \in Keys, NEW f \in Files, Damage(j, f) PROVE final' = final
    BY <1>4 DEF Damage
<1>5. ASSUME NEW s \in Stores, Crash(s) PROVE final' = final
    BY <1>5 DEF Crash, directories
<1> QED BY <1>1, <1>2, <1>3, <1>4, <1>5 DEF CacheNext, buildVars

\* What a rename of a step of a comparison's build puts under a name is whole.
LEMMA PublishedStep ==
    ASSUME CacheInv, [CacheNext]_buildVars, TreeClient,
           NEW k \in Keys, final'[k] \notin {Nobody, final[k]} \cup outlived
    PROVE  contents'[final'[k]] = Files
<1>1. PICK b \in Calls : Rename(b)
    BY OnlyRenamePublishes
<1>2. /\ step[b] \in {"publishing", "retrying"}
      /\ final' = [final EXCEPT ![KeyOf[b]] = b]
      /\ contents' = contents
    BY <1>1 DEF Rename, Key
<1>3. final'[k] = b
    BY <1>2 DEF CacheInv, BuildsTyped
<1>4. contents[b] = Files
    BY <1>1, <1>2 DEF CacheInv, StagesWhole, StageWhole
<1> QED BY <1>2, <1>3, <1>4

\* What the cache knows: the types, and where everything is that is built,
\* published, removed and waited for.
THEOREM CacheKeepsTrack == CacheSpec => []CacheInv
<1>1. CacheInv /\ [CacheNext]_buildVars => CacheInv'
    BY CacheStep
<1> QED BY InitCache, <1>1, PTL DEF CacheSpec

\* "Creation is atomic": what a comparison's publish puts under a key's name has
\* every file of the generation, unless a prune found its stage a day old.
THEOREM PublishedIsWhole == CacheSpec => PublishedWhole
<1> DEFINE Whole == TreeClient => \A k \in Keys :
                        final'[k] \notin {Nobody, final[k]} \cup outlived => contents'[final'[k]] = Files
<1>1. CacheInv /\ [CacheNext]_buildVars => [Whole]_buildVars
    BY PublishedStep
<1> QED BY CacheKeepsTrack, <1>1, PTL DEF CacheSpec, PublishedWhole

\* Of one store's calls for one key, one at a time builds (Store.inflight).
OneBuild ==
    \A a, b \in Calls :
        /\ step[a] \in Registered /\ step[b] \in Registered
        /\ setting.store[a] = setting.store[b] /\ KeyOf[a] = KeyOf[b]
        => a = b
THEOREM BuiltOnceAtATime == CacheSpec => []OneBuild
<1>1. CacheInv => OneBuild
    BY DEF CacheInv, Builds, Enters, OneBuild
<1> QED BY CacheKeepsTrack, <1>1, PTL

\* No call waits for a build that is over: the one it joined has still to close
\* its channel, for this key and store, and no crash took it alone.
WaitsForABuild ==
    \A w \in Calls : step[w] = "waiting" =>
        /\ step[awaited[w]] \in Staged \cup {"closing"}
        /\ inflight[setting.store[w]][KeyOf[w]] = awaited[w]
THEOREM NoneWaitsInVain == CacheSpec => []WaitsForABuild
<1>1. CacheInv => WaitsForABuild
    BY DEF CacheInv, Builds, Enters, Waiters, Awaits, Registered, WaitsForABuild
<1> QED BY CacheKeepsTrack, <1>1, PTL

(***************************************************************************)
(* How many generations are left (GenerationsBounded).  As long as nothing *)
(* has failed, either whoever published last has still to list the bucket  *)
(* (Owes); or the last to list it is removing what it found beyond Keep,   *)
(* and will not be stopped, since nothing was published after its listing  *)
(* (Prunes); or it has ended, and no more than Keep are left.              *)
(***************************************************************************)
Owes(b) ==
    step[b] \in {"closing", "leaving", "answering", "pruning"} /\ result[b] = "ok" /\ evaluated[b]
Left(b) == Present \ (victims[b] \cup {path[b]})
Prunes(b) ==
    /\ step[b] = "removing"
    /\ Cardinality(Left(b)) <= Keep
    /\ path[b] \in Keys /\ final[path[b]] # Nobody =>
         final[path[b]] = opened[b] /\ contents[opened[b]] \subseteq listed[b]
Bounded ==
    mishaps = 0 =>
        \/ \E b \in Calls : Owes(b)
        \/ Cardinality(Present) <= Keep
        \/ \E b \in Calls : Prunes(b)

\* Whoever publishes has derived; and a removal is under way where there is a name.
Derives(b) == step[b] \in {"sealing", "publishing", "clearing", "retrying"} => evaluated[b]
Removes(b) ==
    /\ opened[b] = Nobody <=> path[b] = Nobody
    /\ path[b] # Nobody => step[b] \in {"removing", "clearing", "emptying"}
BoundTyped ==
    /\ result \in [Calls -> {"none", "ok", "error"}]
    /\ evaluated \in [Calls -> BOOLEAN]
    /\ mishaps \in Nat
BoundInv ==
    /\ BoundTyped
    /\ \A b \in Calls : Derives(b) /\ Removes(b)
    /\ Bounded

LEMMA PresentFinite == IsFiniteSet(Present)
    BY FS_Subset, CacheAssumption DEF Present

\* What fewer are left of stays bounded.
LEMMA FewerLeft ==
    ASSUME NEW S, NEW T, IsFiniteSet(S), T \subseteq S, Cardinality(S) <= Keep
    PROVE  Cardinality(T) <= Keep
<1>1. IsFiniteSet(T) /\ Cardinality(T) <= Cardinality(S)
    BY FS_Subset
<1> QED BY <1>1, FS_CardinalityType, CacheAssumption

\* A call's step, while nothing fails, leaves what another is doing alone: but for
\* those who wait for it, and for files of the directories it removes.
Alone(b) ==
    /\ step[b] # "waiting" => step'[b] = step[b] /\ result'[b] = result[b]
    /\ step[b] = "waiting" => step'[b] \in {"waiting", "answering"}
    /\ evaluated'[b] = evaluated[b]
    /\ victims'[b] = victims[b] /\ opened'[b] = opened[b]
    /\ path'[b] = path[b] /\ listed'[b] = listed[b]
Fewer == \A d \in Calls : at[d] = "final" => contents'[d] \subseteq contents[d]
Counts ==
    /\ mishaps' \in Nat /\ (mishaps' = 0 => mishaps = 0)
    /\ result' \in [Calls -> {"none", "ok", "error"}]
    /\ evaluated' \in [Calls -> BOOLEAN]

LEMMA ActsAlone ==
    ASSUME CacheInv, BoundTyped, NEW c \in Calls, Build(c) \/ Client(c)
    PROVE  Counts /\ Fewer /\ \A b \in Calls \ {c} : Alone(b)
<1> USE DEF CacheInv, BuildsTyped, BoundTyped, TreeClient, Proceed, directories, caller, removal, opening,
        bounds, Key, Store
<1>1. ASSUME LookupHit(c) PROVE Counts /\ Fewer /\ \A b \in Calls \ {c} : Alone(b)
  <2>1. Counts
      BY <1>1 DEF Counts, LookupHit
  <2>2. Fewer
      BY <1>1 DEF Fewer, LookupHit
  <2>3. ASSUME NEW b \in Calls \ {c} PROVE Alone(b)
      BY <1>1 DEF Alone, LookupHit
  <2> QED BY <2>1, <2>2, <2>3
<1>2. ASSUME LookupMiss(c) PROVE Counts /\ Fewer /\ \A b \in Calls \ {c} : Alone(b)
  <2>1. Counts
      BY <1>2 DEF Counts, LookupMiss
  <2>2. Fewer
      BY <1>2 DEF Fewer, LookupMiss
  <2>3. ASSUME NEW b \in Calls \ {c} PROVE Alone(b)
      BY <1>2 DEF Alone, LookupMiss
  <2> QED BY <2>1, <2>2, <2>3
<1>3. ASSUME Join(c) PROVE Counts /\ Fewer /\ \A b \in Calls \ {c} : Alone(b)
  <2>1. Counts
      BY <1>3 DEF Counts, Join
  <2>2. Fewer
      BY <1>3 DEF Fewer, Join
  <2>3. ASSUME NEW b \in Calls \ {c} PROVE Alone(b)
      BY <1>3 DEF Alone, Join
  <2> QED BY <2>1, <2>2, <2>3
<1>4. ASSUME JoinClosed(c) PROVE Counts /\ Fewer /\ \A b \in Calls \ {c} : Alone(b)
  <2>1. Counts
    <3>1. KeyOf[c] \in Keys /\ setting.store[c] \in Stores
        BY CacheAssumption
    <3>2. inflight[setting.store[c]][KeyOf[c]] \in Calls
        BY <1>4, <3>1 DEF JoinClosed
    <3> QED BY <1>4, <3>2 DEF Counts, JoinClosed
  <2>2. Fewer
      BY <1>4 DEF Fewer, JoinClosed
  <2>3. ASSUME NEW b \in Calls \ {c} PROVE Alone(b)
      BY <1>4 DEF Alone, JoinClosed
  <2> QED BY <2>1, <2>2, <2>3
<1>5. ASSUME Register(c) PROVE Counts /\ Fewer /\ \A b \in Calls \ {c} : Alone(b)
  <2>1. Counts
      BY <1>5 DEF Counts, Register
  <2>2. Fewer
      BY <1>5 DEF Fewer, Register
  <2>3. ASSUME NEW b \in Calls \ {c} PROVE Alone(b)
      BY <1>5 DEF Alone, Register
  <2> QED BY <2>1, <2>2, <2>3
<1>6. ASSUME Populate(c) PROVE Counts /\ Fewer /\ \A b \in Calls \ {c} : Alone(b)
  <2>1. Counts
      BY <1>6 DEF Counts, Populate
  <2>2. Fewer
      BY <1>6 DEF Fewer, Populate
  <2>3. ASSUME NEW b \in Calls \ {c} PROVE Alone(b)
      BY <1>6 DEF Alone, Populate
  <2> QED BY <2>1, <2>2, <2>3
<1>7. ASSUME Seal(c) PROVE Counts /\ Fewer /\ \A b \in Calls \ {c} : Alone(b)
  <2>1. Counts
      BY <1>7 DEF Counts, Seal
  <2>2. Fewer
      BY <1>7 DEF Fewer, Seal
  <2>3. ASSUME NEW b \in Calls \ {c} PROVE Alone(b)
      BY <1>7 DEF Alone, Seal
  <2> QED BY <2>1, <2>2, <2>3
<1>8. ASSUME BuildFails(c) PROVE Counts /\ Fewer /\ \A b \in Calls \ {c} : Alone(b)
  <2>1. Counts
      BY <1>8 DEF Counts, BuildFails, Fails, FailsWhen
  <2>2. Fewer
      BY <1>8 DEF Fewer, BuildFails, Fails, FailsWhen
  <2>3. ASSUME NEW b \in Calls \ {c} PROVE Alone(b)
      BY <1>8 DEF Alone, BuildFails, Fails, FailsWhen
  <2> QED BY <2>1, <2>2, <2>3
<1>9. ASSUME ClearFails(c) PROVE Counts /\ Fewer /\ \A b \in Calls \ {c} : Alone(b)
  <2>1. Counts
      BY <1>9 DEF Counts, ClearFails, Fails, FailsWhen, CloseRemoval
  <2>2. Fewer
      BY <1>9 DEF Fewer, ClearFails, Fails, FailsWhen, CloseRemoval
  <2>3. ASSUME NEW b \in Calls \ {c} PROVE Alone(b)
      BY <1>9 DEF Alone, ClearFails, Fails, FailsWhen, CloseRemoval
  <2> QED BY <2>1, <2>2, <2>3
<1>10. ASSUME Rename(c) PROVE Counts /\ Fewer /\ \A b \in Calls \ {c} : Alone(b)
  <2>1. Counts
      BY <1>10 DEF Counts, Rename, Synced
  <2>2. Fewer
      BY <1>10 DEF Fewer, Rename, Synced
  <2>3. ASSUME NEW b \in Calls \ {c} PROVE Alone(b)
      BY <1>10 DEF Alone, Rename, Synced
  <2> QED BY <2>1, <2>2, <2>3
<1>11. ASSUME RenameLost(c) PROVE Counts /\ Fewer /\ \A b \in Calls \ {c} : Alone(b)
  <2>1. Counts
      BY <1>11 DEF Counts, RenameLost, Synced
  <2>2. Fewer
      BY <1>11 DEF Fewer, RenameLost, Synced
  <2>3. ASSUME NEW b \in Calls \ {c} PROVE Alone(b)
      BY <1>11 DEF Alone, RenameLost, Synced
  <2> QED BY <2>1, <2>2, <2>3
<1>12. ASSUME RenameFails(c) PROVE Counts /\ Fewer /\ \A b \in Calls \ {c} : Alone(b)
  <2>1. Counts
      BY <1>12 DEF Counts, RenameFails, Fails, FailsWhen
  <2>2. Fewer
      BY <1>12 DEF Fewer, RenameFails, Fails, FailsWhen
  <2>3. ASSUME NEW b \in Calls \ {c} PROVE Alone(b)
      BY <1>12 DEF Alone, RenameFails, Fails, FailsWhen
  <2> QED BY <2>1, <2>2, <2>3
<1>13. ASSUME RenameDamaged(c) PROVE Counts /\ Fewer /\ \A b \in Calls \ {c} : Alone(b)
  <2>1. Counts
      BY <1>13 DEF Counts, RenameDamaged, Opens
  <2>2. Fewer
      BY <1>13 DEF Fewer, RenameDamaged, Opens
  <2>3. ASSUME NEW b \in Calls \ {c} PROVE Alone(b)
      BY <1>13 DEF Alone, RenameDamaged, Opens
  <2> QED BY <2>1, <2>2, <2>3
<1>14. ASSUME Close(c) PROVE Counts /\ Fewer /\ \A b \in Calls \ {c} : Alone(b)
  <2>1. Counts
      BY <1>14 DEF Counts, Close
  <2>2. Fewer
      BY <1>14 DEF Fewer, Close
  <2>3. ASSUME NEW b \in Calls \ {c} PROVE Alone(b)
      BY <1>14 DEF Alone, Close
  <2> QED BY <2>1, <2>2, <2>3
<1>15. ASSUME Deregister(c) PROVE Counts /\ Fewer /\ \A b \in Calls \ {c} : Alone(b)
  <2>1. Counts
      BY <1>15 DEF Counts, Deregister
  <2>2. Fewer
      BY <1>15 DEF Fewer, Deregister
  <2>3. ASSUME NEW b \in Calls \ {c} PROVE Alone(b)
      BY <1>15 DEF Alone, Deregister
  <2> QED BY <2>1, <2>2, <2>3
<1>16. ASSUME Answer(c) PROVE Counts /\ Fewer /\ \A b \in Calls \ {c} : Alone(b)
  <2>1. Counts
      BY <1>16 DEF Counts, Answer
  <2>2. Fewer
      BY <1>16 DEF Fewer, Answer
  <2>3. ASSUME NEW b \in Calls \ {c} PROVE Alone(b)
      BY <1>16 DEF Alone, Answer
  <2> QED BY <2>1, <2>2, <2>3
<1>17. ASSUME ReadFound(c) PROVE Counts /\ Fewer /\ \A b \in Calls \ {c} : Alone(b)
  <2>1. Counts
      BY <1>17 DEF Counts, ReadFound
  <2>2. Fewer
      BY <1>17 DEF Fewer, ReadFound
  <2>3. ASSUME NEW b \in Calls \ {c} PROVE Alone(b)
      BY <1>17 DEF Alone, ReadFound
  <2> QED BY <2>1, <2>2, <2>3
<1>18. ASSUME DiscardDamaged(c) PROVE Counts /\ Fewer /\ \A b \in Calls \ {c} : Alone(b)
  <2>1. Counts
      BY <1>18 DEF Counts, DiscardDamaged, Opens
  <2>2. Fewer
      BY <1>18 DEF Fewer, DiscardDamaged, Opens
  <2>3. ASSUME NEW b \in Calls \ {c} PROVE Alone(b)
      BY <1>18 DEF Alone, DiscardDamaged, Opens
  <2> QED BY <2>1, <2>2, <2>3
<1>19. ASSUME ListBucket(c) PROVE Counts /\ Fewer /\ \A b \in Calls \ {c} : Alone(b)
  <2>1. Counts
      BY <1>19 DEF Counts, ListBucket
  <2>2. Fewer
      BY <1>19 DEF Fewer, ListBucket
  <2>3. ASSUME NEW b \in Calls \ {c} PROVE Alone(b)
    <3>1. PICK spared \in SUBSET Keys : Lists(c, spared)
        BY <1>19 DEF ListBucket
    <3>2. victims'[b] = victims[b]
        BY <3>1, ListedNames
    <3> QED BY <1>19, <3>2 DEF Alone, ListBucket
  <2> QED BY <2>1, <2>2, <2>3
<1>20. ASSUME BucketFails(c) PROVE Counts /\ Fewer /\ \A b \in Calls \ {c} : Alone(b)
  <2>1. Counts
      BY <1>20 DEF Counts, BucketFails, FailsWhen
  <2>2. Fewer
      BY <1>20 DEF Fewer, BucketFails, FailsWhen
  <2>3. ASSUME NEW b \in Calls \ {c} PROVE Alone(b)
      BY <1>20 DEF Alone, BucketFails, FailsWhen
  <2> QED BY <2>1, <2>2, <2>3
<1>21. ASSUME NEW n \in victims[c], OpenVictim(c, n) PROVE Counts /\ Fewer /\ \A b \in Calls \ {c} : Alone(b)
  <2>1. Counts
      BY <1>21 DEF Counts, OpenVictim
  <2>2. Fewer
      BY <1>21 DEF Fewer, OpenVictim
  <2>3. ASSUME NEW b \in Calls \ {c} PROVE Alone(b)
    <3>1. opened'[b] = opened[b] /\ path'[b] = path[b] /\ listed'[b] = listed[b]
        BY <1>21 DEF OpenVictim, Opens
    <3> QED BY <1>21, <3>1 DEF Alone, OpenVictim
  <2> QED BY <2>1, <2>2, <2>3
<1>22. ASSUME NEW f \in Files, Unlink(c, f) PROVE Counts /\ Fewer /\ \A b \in Calls \ {c} : Alone(b)
  <2>1. Counts
      BY <1>22 DEF Counts, Unlink
  <2>2. Fewer
      BY <1>22 DEF Fewer, Unlink
  <2>3. ASSUME NEW b \in Calls \ {c} PROVE Alone(b)
      BY <1>22 DEF Alone, Unlink
  <2> QED BY <2>1, <2>2, <2>3
<1>23. ASSUME Rmdir(c) PROVE Counts /\ Fewer /\ \A b \in Calls \ {c} : Alone(b)
  <2>1. Counts
      BY <1>23 DEF Counts, Rmdir, CloseRemoval
  <2>2. Fewer
      BY <1>23 DEF Fewer, Rmdir, CloseRemoval
  <2>3. ASSUME NEW b \in Calls \ {c} PROVE Alone(b)
      BY <1>23 DEF Alone, Rmdir, CloseRemoval
  <2> QED BY <2>1, <2>2, <2>3
<1>24. ASSUME RemovalFails(c) PROVE Counts /\ Fewer /\ \A b \in Calls \ {c} : Alone(b)
  <2>1. Counts
      BY <1>24 DEF Counts, RemovalFails, CloseRemoval, FailsWhen
  <2>2. Fewer
      BY <1>24 DEF Fewer, RemovalFails, CloseRemoval, FailsWhen
  <2>3. ASSUME NEW b \in Calls \ {c} PROVE Alone(b)
      BY <1>24 DEF Alone, RemovalFails, CloseRemoval, FailsWhen
  <2> QED BY <2>1, <2>2, <2>3
<1>25. ASSUME PruneEnds(c) PROVE Counts /\ Fewer /\ \A b \in Calls \ {c} : Alone(b)
  <2>1. Counts
      BY <1>25 DEF Counts, PruneEnds
  <2>2. Fewer
      BY <1>25 DEF Fewer, PruneEnds
  <2>3. ASSUME NEW b \in Calls \ {c} PROVE Alone(b)
      BY <1>25 DEF Alone, PruneEnds
  <2> QED BY <2>1, <2>2, <2>3
<1> QED
    BY <1>1, <1>2, <1>3, <1>4, <1>5, <1>6, <1>7, <1>8, <1>9, <1>10, <1>11, <1>12, <1>13, <1>14, <1>15,
       <1>16, <1>17, <1>18, <1>19, <1>20, <1>21, <1>22, <1>23, <1>24, <1>25
    DEF Build, Client

\* A removal is of a name that is there.
LEMMA OpensNamed ==
    ASSUME CacheInv, NEW c \in Calls, NEW n \in Calls \cup Keys, Opens(c, n)
    PROVE  /\ opened'[c] = Holder(n)
           /\ path'[c] = IF Holder(n) = Nobody THEN Nobody ELSE n
           /\ listed'[c] = IF Holder(n) = Nobody THEN {} ELSE contents[Holder(n)]
<1> DEFINE dir == Holder(n)
           name == IF dir = Nobody THEN Nobody ELSE n
           found == IF dir = Nobody THEN {} ELSE contents[dir]
<1>1. /\ opened' = [opened EXCEPT ![c] = dir]
      /\ path' = [path EXCEPT ![c] = name]
      /\ listed' = [listed EXCEPT ![c] = found]
    BY DEF Opens
<1> HIDE DEF dir, name, found
<1>2. opened'[c] = dir /\ path'[c] = name /\ listed'[c] = found
    BY <1>1 DEF CacheInv, BuildsTyped
<1> QED BY <1>2 DEF dir, name, found

\* Whoever publishes has derived; and a removal has a name to remove.
LEMMA RemovesStep ==
    ASSUME CacheInv, BoundTyped, \A b \in Calls : Derives(b) /\ Removes(b), NEW c \in Calls,
           Build(c) \/ Client(c)
    PROVE  \A b \in Calls : (Derives(b) /\ Removes(b))'
<1> USE DEF CacheInv, BuildsTyped, BoundTyped, TreeClient, Proceed, directories, caller, removal, opening,
        bounds, Key, Store
<1>0. ASSUME NEW b \in Calls \ {c} PROVE (Derives(b) /\ Removes(b))'
  <2>1. Alone(b)
      BY <1>0, ActsAlone
  <2> QED BY <2>1 DEF Alone, Derives, Removes
<1>1. ASSUME LookupHit(c) PROVE (Derives(c) /\ Removes(c))'
    BY <1>1 DEF Derives, Removes, LookupHit
<1>2. ASSUME LookupMiss(c) PROVE (Derives(c) /\ Removes(c))'
    BY <1>2 DEF Derives, Removes, LookupMiss
<1>3. ASSUME Join(c) PROVE (Derives(c) /\ Removes(c))'
    BY <1>3 DEF Derives, Removes, Join
<1>4. ASSUME JoinClosed(c) PROVE (Derives(c) /\ Removes(c))'
    BY <1>4 DEF Derives, Removes, JoinClosed
<1>5. ASSUME Register(c) PROVE (Derives(c) /\ Removes(c))'
    BY <1>5 DEF Derives, Removes, Register
<1>6. ASSUME Populate(c) PROVE (Derives(c) /\ Removes(c))'
    BY <1>6 DEF Derives, Removes, Populate
<1>7. ASSUME Seal(c) PROVE (Derives(c) /\ Removes(c))'
    BY <1>7 DEF Derives, Removes, Seal
<1>8. ASSUME BuildFails(c) PROVE (Derives(c) /\ Removes(c))'
    BY <1>8 DEF Derives, Removes, BuildFails, Fails, FailsWhen
<1>9. ASSUME ClearFails(c) PROVE (Derives(c) /\ Removes(c))'
    BY <1>9 DEF Derives, Removes, ClearFails, Fails, FailsWhen, CloseRemoval
<1>10. ASSUME Rename(c) PROVE (Derives(c) /\ Removes(c))'
    BY <1>10 DEF Derives, Removes, Rename, Synced
<1>11. ASSUME RenameLost(c) PROVE (Derives(c) /\ Removes(c))'
    BY <1>11 DEF Derives, Removes, RenameLost, Synced
<1>12. ASSUME RenameFails(c) PROVE (Derives(c) /\ Removes(c))'
    BY <1>12 DEF Derives, Removes, RenameFails, Fails, FailsWhen
<1>13. ASSUME RenameDamaged(c) PROVE (Derives(c) /\ Removes(c))'
  <2>1. KeyOf[c] \in Keys /\ KeyOf[c] # Nobody
      BY CacheAssumption
  <2>2. Opens(c, KeyOf[c]) /\ step'[c] = (IF Holder(KeyOf[c]) = Nobody THEN "looking" ELSE step'[c])
      BY <1>13, <2>1 DEF RenameDamaged, Holder
  <2>3. Holder(KeyOf[c]) # Nobody => step'[c] \in {"clearing", "emptying"}
      BY <1>13, <2>1 DEF RenameDamaged, Holder
  <2>4. evaluated' = evaluated /\ (step'[c] = "clearing" => step[c] = "publishing")
        /\ step'[c] \in {"clearing", "emptying", "looking"}
      BY <1>13 DEF RenameDamaged
  <2> QED BY <2>1, <2>2, <2>3, <2>4, OpensNamed DEF Derives, Removes
<1>14. ASSUME Close(c) PROVE (Derives(c) /\ Removes(c))'
    BY <1>14 DEF Derives, Removes, Close
<1>15. ASSUME Deregister(c) PROVE (Derives(c) /\ Removes(c))'
    BY <1>15 DEF Derives, Removes, Deregister
<1>16. ASSUME Answer(c) PROVE (Derives(c) /\ Removes(c))'
    BY <1>16 DEF Derives, Removes, Answer
<1>17. ASSUME ReadFound(c) PROVE (Derives(c) /\ Removes(c))'
    BY <1>17 DEF Derives, Removes, ReadFound
<1>18. ASSUME DiscardDamaged(c) PROVE (Derives(c) /\ Removes(c))'
  <2>1. KeyOf[c] \in Keys /\ KeyOf[c] # Nobody
      BY CacheAssumption
  <2>2. Opens(c, KeyOf[c]) /\ step'[c] = (IF Holder(KeyOf[c]) = Nobody THEN "looking" ELSE step'[c])
      BY <1>18, <2>1 DEF DiscardDamaged, Holder
  <2>3. Holder(KeyOf[c]) # Nobody => step'[c] \in {"clearing", "emptying"}
      BY <1>18, <2>1 DEF DiscardDamaged, Holder
  <2>4. evaluated' = evaluated /\ (step'[c] = "clearing" => step[c] = "publishing")
        /\ step'[c] \in {"clearing", "emptying", "looking"}
      BY <1>18 DEF DiscardDamaged
  <2> QED BY <2>1, <2>2, <2>3, <2>4, OpensNamed DEF Derives, Removes
<1>19. ASSUME ListBucket(c) PROVE (Derives(c) /\ Removes(c))'
    BY <1>19 DEF Derives, Removes, ListBucket
<1>20. ASSUME BucketFails(c) PROVE (Derives(c) /\ Removes(c))'
    BY <1>20 DEF Derives, Removes, BucketFails, FailsWhen
<1>21. ASSUME NEW n \in victims[c], OpenVictim(c, n) PROVE (Derives(c) /\ Removes(c))'
  <2>1. n \in Calls \cup Keys /\ n # Nobody /\ Opens(c, n)
      BY <1>21, CacheAssumption DEF OpenVictim
  <2>2. evaluated' = evaluated /\ step' = step /\ step[c] = "removing"
      BY <1>21 DEF OpenVictim
  <2> QED BY <2>1, <2>2, OpensNamed DEF Derives, Removes
<1>22. ASSUME NEW f \in Files, Unlink(c, f) PROVE (Derives(c) /\ Removes(c))'
    BY <1>22 DEF Derives, Removes, Unlink
<1>23. ASSUME Rmdir(c) PROVE (Derives(c) /\ Removes(c))'
    BY <1>23 DEF Derives, Removes, Rmdir, CloseRemoval
<1>24. ASSUME RemovalFails(c) PROVE (Derives(c) /\ Removes(c))'
    BY <1>24 DEF Derives, Removes, RemovalFails, CloseRemoval, FailsWhen
<1>25. ASSUME PruneEnds(c) PROVE (Derives(c) /\ Removes(c))'
    BY <1>25 DEF Derives, Removes, PruneEnds
<1> QED
    BY <1>0, <1>1, <1>2, <1>3, <1>4, <1>5, <1>6, <1>7, <1>8, <1>9, <1>10, <1>11, <1>12, <1>13, <1>14, <1>15,
       <1>16, <1>17, <1>18, <1>19, <1>20, <1>21, <1>22, <1>23, <1>24, <1>25
    DEF Build, Client

\* Without a rename, no name is given.
LEMMA NoneAdded ==
    ASSUME CacheInv, [CacheNext]_buildVars, ~ \E b \in Calls : Rename(b)
    PROVE  Present' \subseteq Present /\ \A k \in Keys : final'[k] \in {Nobody, final[k]}
<1>1. \A k \in Keys : final'[k] \in {Nobody, final[k]}
    BY OnlyRenamePublishes
<1> QED BY <1>1 DEF Present

\* Whoever owes a prune goes on to list the bucket, and keeps no more than Keep.
LEMMA OwesStep ==
    ASSUME CacheInv, BoundTyped, NEW b \in Calls, Derives(b), Removes(b), Owes(b),
           Build(b) \/ Client(b), mishaps' = 0
    PROVE  (Owes(b) \/ Prunes(b))'
<1> USE DEF CacheInv, BuildsTyped, BoundTyped, TreeClient, Proceed, directories, caller, removal, opening,
        bounds, Key, Store
<1>1. CASE Close(b)
    BY <1>1 DEF Owes, Close
<1>2. CASE Deregister(b)
    BY <1>2 DEF Owes, Deregister
<1>3. CASE Answer(b)
    BY <1>3 DEF Owes, Answer
<1>4. CASE ListBucket(b)
  <2>1. PICK spared \in SUBSET Keys : Lists(b, spared)
      BY <1>4 DEF ListBucket
  <2>2. IsFiniteSet(spared) /\ Cardinality(spared) <= Keep
      BY <2>1, PresentFinite, FS_Subset, FS_CardinalityType, CacheAssumption DEF Lists, Keeps
  <2>3. victims'[b] = Debris \cup (Present \ spared)
      BY <2>1, ListedNames
  <2>4. Present' = Present /\ path' = path /\ step'[b] = "removing"
      BY <1>4 DEF Present, ListBucket
  <2>5. Left(b)' \subseteq spared
      BY <2>3, <2>4 DEF Left
  <2>6. Cardinality(Left(b)') <= Keep
      BY <2>2, <2>5, FewerLeft
  <2>7. path'[b] = Nobody
      BY <1>4, <2>4 DEF Removes, ListBucket
  <2> QED BY <2>4, <2>6, <2>7, CacheAssumption DEF Prunes, Left
<1>5. CASE BucketFails(b)
    BY <1>5 DEF BucketFails, FailsWhen
<1> QED
    BY <1>1, <1>2, <1>3, <1>4, <1>5
    DEF Owes, Build, Client, LookupHit, LookupMiss, Join, JoinClosed, Register, Populate, Seal, BuildFails,
        ClearFails, Rename, RenameLost, RenameFails, RenameDamaged, ReadFound, DiscardDamaged, OpenVictim,
        Unlink, Rmdir, RemovalFails, PruneEnds

\* Whoever prunes goes on until no more than Keep are left: nothing stops it at a
\* name, since what it found there has not been replaced.
LEMMA PrunesStep ==
    ASSUME CacheInv, BoundTyped, NEW b \in Calls, Removes(b), Prunes(b), Client(b), mishaps' = 0,
           Present' \subseteq Present
    PROVE  Prunes(b)' \/ Cardinality(Present') <= Keep
<1> USE DEF CacheInv, BuildsTyped, BoundTyped, TreeClient, Proceed, directories, caller, removal, opening,
        bounds, Key, Store
<1>0. /\ IsFiniteSet(Left(b)) /\ Cardinality(Left(b)) <= Keep /\ step[b] = "removing"
      /\ Calls \cap Keys = {} /\ Nobody \notin Keys
    BY PresentFinite, FS_Subset, CacheAssumption DEF Left, Prunes
<1>1. ASSUME NEW n \in victims[b], OpenVictim(b, n) PROVE Prunes(b)'
  <2>1. Opens(b, n) /\ n \in Calls \cup Keys /\ path[b] = Nobody /\ step' = step /\ final' = final
        /\ contents' = contents
      BY <1>1 DEF OpenVictim, Removes
  <2>2. victims'[b] = victims[b] \ {n}
      BY <1>1 DEF OpenVictim
  <2>3. /\ opened'[b] = Holder(n)
        /\ path'[b] = IF Holder(n) = Nobody THEN Nobody ELSE n
        /\ listed'[b] = IF Holder(n) = Nobody THEN {} ELSE contents[Holder(n)]
      BY <2>1, OpensNamed
  <2>4. n \in Keys => Holder(n) = final[n]
      BY DEF Holder
  <2>5. Left(b)' \subseteq Left(b)
    <3>1. ASSUME NEW k \in Left(b)' PROVE k \in Left(b)
      <4>1. k \in Present /\ k \in Keys /\ final[k] # Nobody /\ k \notin victims'[b] /\ k # path'[b]
          BY <2>1, <3>1 DEF Left, Present
      <4>2. k # n
          BY <2>3, <2>4, <4>1
      <4> QED BY <1>0, <2>1, <2>2, <4>1, <4>2 DEF Left
    <3> QED BY <3>1
  <2>6. Cardinality(Left(b)') <= Keep
      BY <1>0, <2>5, FewerLeft
  <2> QED BY <1>0, <2>1, <2>3, <2>4, <2>6 DEF Prunes
<1>2. ASSUME NEW f \in Files, Unlink(b, f) PROVE Prunes(b)'
  <2>1. /\ listed'[b] = listed[b] \ {f} /\ contents'[opened[b]] = contents[opened[b]] \ {f}
        /\ victims' = victims /\ path' = path /\ opened' = opened /\ final' = final /\ step' = step
      BY <1>2 DEF Unlink
  <2>2. Left(b)' = Left(b)
      BY <2>1 DEF Left, Present
  <2> QED BY <1>0, <2>1, <2>2 DEF Prunes
<1>3. ASSUME Rmdir(b) PROVE Prunes(b)'
  <2>1. /\ final' = [k \in Keys |-> IF k = path[b] THEN Nobody ELSE final[k]]
        /\ path'[b] = Nobody /\ victims' = victims /\ step'[b] = "removing"
      BY <1>0, <1>3 DEF Rmdir, CloseRemoval
  <2>2. Left(b)' \subseteq Left(b)
    <3>1. ASSUME NEW k \in Left(b)' PROVE k \in Left(b)
      <4>1. k \in Keys /\ final'[k] # Nobody /\ k \notin victims[b]
          BY <2>1, <3>1 DEF Left, Present
      <4>2. k # path[b] /\ final[k] # Nobody
          BY <2>1, <4>1
      <4> QED BY <4>1, <4>2 DEF Left, Present
    <3> QED BY <3>1
  <2>3. Cardinality(Left(b)') <= Keep
      BY <1>0, <2>2, FewerLeft
  <2> QED BY <1>0, <2>1, <2>3 DEF Prunes
<1>4. ASSUME RemovalFails(b) PROVE Prunes(b)'
  <2>1. NameTaken(b)
      BY <1>4 DEF RemovalFails, FailsWhen
  <2>2. path[b] \notin Keys
      BY <2>1 DEF NameTaken, ToDelete, Holder, Prunes
  <2>3. /\ victims' = victims /\ path'[b] = Nobody /\ step'[b] = "removing" /\ final' = final
      BY <1>0, <1>4, <2>2 DEF RemovalFails, CloseRemoval
  <2>4. Left(b)' \subseteq Left(b)
      BY <2>2, <2>3 DEF Left, Present
  <2>5. Cardinality(Left(b)') <= Keep
      BY <1>0, <2>4, FewerLeft
  <2> QED BY <1>0, <2>3, <2>5 DEF Prunes
<1>5. ASSUME PruneEnds(b) PROVE Cardinality(Present') <= Keep
  <2>1. victims[b] = {} /\ path[b] = Nobody
      BY <1>5 DEF PruneEnds, Removes
  <2>2. Present' \subseteq Left(b)
      BY <1>0, <2>1 DEF Left, Present
  <2> QED BY <1>0, <2>2, FewerLeft
<1> QED
    BY <1>0, <1>1, <1>2, <1>3, <1>4, <1>5
    DEF Client, Answer, ReadFound, DiscardDamaged, ListBucket, BucketFails

\* Every step keeps the bound, or owes a prune.
LEMMA BoundStep ==
    ASSUME CacheInv, BoundInv, [CacheNext]_buildVars
    PROVE  BoundInv'
<1> USE DEF BoundInv
<1>1. ASSUME NEW c \in Calls, Build(c) \/ Client(c) PROVE BoundInv'
  <2>1. Counts /\ Fewer /\ \A b \in Calls \ {c} : Alone(b)
      BY <1>1, ActsAlone
  <2>2. BoundTyped'
      BY <2>1 DEF Counts, BoundTyped
  <2>3. \A b \in Calls : (Derives(b) /\ Removes(b))'
      BY <1>1, RemovesStep
  <2>4. ASSUME mishaps' = 0 PROVE \/ \E b \in Calls : Owes(b)'
                                  \/ Cardinality(Present') <= Keep
                                  \/ \E b \in Calls : Prunes(b)'
    <3>0. mishaps = 0 /\ (\/ \E b \in Calls : Owes(b)
                         \/ Cardinality(Present) <= Keep
                         \/ \E b \in Calls : Prunes(b))
        BY <2>1, <2>4 DEF Counts, Bounded
    <3>1. ASSUME NEW b \in Calls, Rename(b) PROVE Owes(b)'
      <4>1. evaluated[b] /\ evaluated' = evaluated
          BY <3>1 DEF Derives, Rename
      <4>2. result'[b] = "ok"
          BY <2>4, <3>0, <3>1 DEF Rename, Synced, BoundTyped
      <4>3. step'[b] = "closing"
          BY <3>1 DEF Rename, CacheInv, BuildsTyped
      <4> QED BY <4>1, <4>2, <4>3 DEF Owes
    <3>2. CASE ~ \E b \in Calls : Rename(b)
      <4>1. Present' \subseteq Present /\ \A k \in Keys : final'[k] \in {Nobody, final[k]}
          BY <3>2, NoneAdded
      <4>2. ASSUME Cardinality(Present) <= Keep PROVE Cardinality(Present') <= Keep
          BY <4>1, <4>2, PresentFinite, FewerLeft
      <4>3. ASSUME NEW b \in Calls, Owes(b) PROVE Owes(b)' \/ Prunes(b)'
        <5>1. CASE b = c
            BY <1>1, <2>4, <4>3, <5>1, OwesStep
        <5>2. CASE b # c
          <6>1. Alone(b)
              BY <2>1, <5>2
          <6> QED BY <4>3, <6>1 DEF Alone, Owes
        <5> QED BY <5>1, <5>2
      <4>4. ASSUME NEW b \in Calls, Prunes(b) PROVE Prunes(b)' \/ Cardinality(Present') <= Keep
        <5>1. CASE b = c
          <6>1. ~Build(b)
              BY <4>4 DEF Prunes, Build, LookupHit, LookupMiss, Join, JoinClosed, Register, Populate, Seal,
                 BuildFails, ClearFails, Rename, RenameLost, RenameFails, RenameDamaged, Close, Deregister,
                 Proceed
          <6> QED BY <1>1, <2>4, <4>1, <4>4, <5>1, <6>1, PrunesStep
        <5>2. CASE b # c
          <6>1. Alone(b)
              BY <2>1, <5>2
          <6>2. /\ step'[b] = "removing" /\ victims'[b] = victims[b] /\ opened'[b] = opened[b]
                /\ path'[b] = path[b] /\ listed'[b] = listed[b]
              BY <4>4, <6>1 DEF Alone, Prunes
          <6>3. Left(b)' \subseteq Left(b)
              BY <4>1, <6>2 DEF Left
          <6>4. Cardinality(Left(b)') <= Keep
            <7>1. IsFiniteSet(Left(b))
                BY PresentFinite, FS_Subset DEF Left
            <7> QED BY <4>4, <6>3, <7>1, FewerLeft DEF Prunes
          <6>5. ASSUME path[b] \in Keys, final'[path[b]] # Nobody
                PROVE  final'[path[b]] = opened[b] /\ contents'[opened[b]] \subseteq listed[b]
            <7>1. final'[path[b]] = final[path[b]] /\ final[path[b]] = opened[b]
                  /\ contents[opened[b]] \subseteq listed[b]
                BY <4>1, <4>4, <6>5 DEF Prunes
            <7>2. at[opened[b]] = "final" /\ opened[b] \in Calls
                BY <6>5, <7>1 DEF CacheInv, Named, BuildsTyped
            <7> QED BY <2>1, <7>1, <7>2 DEF Fewer
          <6> QED BY <6>2, <6>4, <6>5 DEF Prunes
        <5> QED BY <5>1, <5>2
      <4> QED BY <3>0, <4>2, <4>3, <4>4
    <3> QED BY <3>1, <3>2
  <2> QED BY <2>2, <2>3, <2>4 DEF Bounded
<1>2. ASSUME NEW d \in Calls, DayPasses(d) PROVE BoundInv'
    BY <1>2 DEF DayPasses, BoundTyped, Bounded, Derives, Removes, Owes, Prunes, Left, Present,
       caller, removal, opening, bounds
<1>3. ASSUME (\E k \in Keys, f \in Files : Damage(k, f)) \/ (\E s \in Stores : Crash(s)) PROVE BoundInv'
  <2>1. mishaps' = mishaps + 1 /\ evaluated' = evaluated /\ result' = result
      BY <1>3 DEF Damage, Crash, caller
  <2>2. BoundTyped' /\ Bounded'
      BY <2>1 DEF BoundTyped, Bounded
  <2>3. ASSUME NEW b \in Calls PROVE (Derives(b) /\ Removes(b))'
    <3>1. CASE \E k \in Keys, f \in Files : Damage(k, f)
        BY <2>1, <3>1 DEF Damage, Derives, Removes, removal, opening
    <3>2. CASE \E s \in Stores : Crash(s)
        BY <2>1, <3>2 DEF Crash, Derives, Removes, CacheInv, BuildsTyped
    <3> QED BY <1>3, <3>1, <3>2
  <2> QED BY <2>2, <2>3
<1>4. CASE UNCHANGED buildVars
    BY <1>4 DEF buildVars, BoundTyped, Bounded, Derives, Removes, Owes, Prunes, Left, Present
<1> QED BY <1>1, <1>2, <1>3, <1>4 DEF CacheNext

\* "PrunePublished bounds generations shared by independent CLI processes": when
\* every call has ended and nothing failed, no more than Keep are left.
THEOREM GenerationsAreBounded == CacheSpec => []GenerationsBounded
<1>1. CacheInit => BoundInv
  <2> SUFFICES ASSUME CacheInit PROVE BoundInv
      OBVIOUS
  <2>1. Present = {}
      BY DEF CacheInit, Present
  <2>2. Cardinality(Present) <= Keep
      BY <2>1, FS_EmptySet, CacheAssumption
  <2> QED BY <2>2, CacheAssumption DEF CacheInit, BoundInv, BoundTyped, Bounded, Derives, Removes
<1>2. CacheInv /\ BoundInv /\ [CacheNext]_buildVars => BoundInv'
    BY BoundStep
<1>3. BoundInv => GenerationsBounded
    BY DEF BoundInv, Bounded, Owes, Prunes, GenerationsBounded
<1> QED BY CacheKeepsTrack, <1>1, <1>2, <1>3, PTL DEF CacheSpec
=============================================================================
