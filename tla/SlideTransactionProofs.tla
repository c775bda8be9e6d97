------------------------ MODULE SlideTransactionProofs ------------------------
(***************************************************************************)
(* A published revision of a slide stays, whole, through failed steps,     *)
(* deaths, power losses and merges, and replaces what its author had read. *)
(***************************************************************************)
EXTENDS SlideTransaction, TLAPS

\* A list of revisions, each made of sidecars.
IsHistory(revisions) ==
    /\ revisions \in Seq(ToSet(revisions))
    /\ \A revision \in ToSet(revisions) : revision.content \subseteq Sidecars

Stages == {"idle", "sidecars", "linked", "record", "replaced", "made", "rollback"}

Entry(e) == e \in [at : Stages, next : {e.next}, left : SUBSET Sidecars,
                   created : SUBSET Sidecars, doing : Sidecars \cup {Absent}]

AskedFor(q) ==
    /\ q.op \in Ops
    /\ q.content \subseteq Sidecars
    /\ q.op = "create" => q.expected = {}

FilesOK ==
    /\ IsHistory(record.revisions)
    /\ sidecars \subseteq Sidecars
    /\ disk \in [record : {disk.record}, sidecar : [Sidecars -> SUBSET BOOLEAN]]
    /\ \A r \in disk.record : IsHistory(r.revisions)
    /\ flat \in BOOLEAN
    /\ outages \in Nat

ProcessesOK ==
    /\ writer = [w \in Writers |-> writer[w]]
    /\ \A w \in Writers : Entry(writer[w])
    /\ request = [w \in Writers |-> request[w]]
    /\ \A w \in Writers : request[w] # Absent => AskedFor(request[w])

Alone == \A v, w \in Writers : writer[v].at # "idle" /\ writer[w].at # "idle" => v = w

\* The revisions whose sidecars have to be there.
Promised == confirmed \cup IF outages = 0 THEN ToSet(record.revisions) ELSE {}

Needed == UNION {revision.content : revision \in Promised}

\* What programs see holds what was promised, and what a power loss may leave
\* holds what was confirmed.
Kept ==
    /\ confirmed \subseteq ToSet(record.revisions)
    /\ \A revision \in Promised : revision.content \subseteq sidecars

Durable ==
    /\ \A r \in disk.record : confirmed \subseteq ToSet(r.revisions)
    /\ \A revision \in confirmed : \A s \in revision.content : FALSE \notin disk.sidecar[s]

\* What a command is going to publish replaces what its author had read.
Chosen(w) ==
    LET next == writer[w].next IN
    /\ next = [revisions |-> Append(History, next.current), current |-> next.current]
    /\ next.current.content \subseteq Sidecars
    /\ request[w].expected # {} =>
          next.current.parents = request[w].expected /\ Heads(History) = request[w].expected

\* What a command may take back is part of nothing promised.
OwnOnly(w) ==
    /\ writer[w].created \cap Needed = {}
    /\ writer[w].at = "linked" => writer[w].doing \in Sidecars \ Needed

Stage(w) ==
    /\ writer[w].at \in {"sidecars", "linked", "record"} => Chosen(w)
    /\ writer[w].at \in {"sidecars", "linked", "record", "rollback"} => OwnOnly(w)
    /\ writer[w].at = "record" => WellFormed(writer[w].next, sidecars)
    /\ writer[w].at \in {"replaced", "made"} =>
          /\ record.current \in ToSet(record.revisions)
          /\ \A revision \in ToSet(record.revisions) : revision.content \subseteq sidecars
    /\ writer[w].at = "made" => confirmed = {}

IInv ==
    /\ FilesOK
    /\ ProcessesOK
    /\ Alone
    /\ Kept
    /\ Durable
    /\ \A w \in Writers : Stage(w)
-----------------------------------------------------------------------------
(* Lists of revisions.                                                     *)

LEMMA Appended ==
    ASSUME NEW s, s \in Seq(ToSet(s)), NEW e
    PROVE  /\ Append(s, e) \in Seq(ToSet(Append(s, e)))
           /\ ToSet(Append(s, e)) = ToSet(s) \cup {e}
           /\ Last(Append(s, e)) = e
           /\ DOMAIN Append(s, e) = 1 .. Len(s) + 1
           /\ DOMAIN s = 1 .. Len(s)
           /\ Len(s) \in Nat
           /\ \A i \in DOMAIN s : Append(s, e)[i] = s[i]
           /\ Append(s, e)[Len(s) + 1] = e
<1>1. s \in Seq(ToSet(s) \cup {e})
    OBVIOUS
<1>2. /\ Append(s, e) \in Seq(ToSet(s) \cup {e})
      /\ Len(Append(s, e)) = Len(s) + 1
      /\ DOMAIN Append(s, e) = 1 .. Len(s) + 1
      /\ DOMAIN s = 1 .. Len(s)
      /\ Len(s) \in Nat
      /\ \A i \in DOMAIN s : Append(s, e)[i] = s[i]
      /\ Append(s, e)[Len(s) + 1] = e
    BY <1>1
<1>3. ToSet(Append(s, e)) = ToSet(s) \cup {e}
  <2>1. \A x \in ToSet(Append(s, e)) : x \in ToSet(s) \cup {e}
      BY <1>2 DEF ToSet
  <2>2. \A x \in ToSet(s) : x \in ToSet(Append(s, e))
    <3>1. TAKE x \in ToSet(s)
    <3>2. PICK i \in DOMAIN s : x = s[i]
        BY DEF ToSet
    <3>3. i \in DOMAIN Append(s, e) /\ Append(s, e)[i] = x
        BY <3>2, <1>2
    <3> QED BY <3>3 DEF ToSet
  <2>3. e \in ToSet(Append(s, e))
      BY <1>2 DEF ToSet
  <2> QED BY <2>1, <2>2, <2>3
<1>4. Last(Append(s, e)) = e
    BY <1>2 DEF Last
<1> QED BY <1>2, <1>3, <1>4

LEMMA AppendedHistory ==
    ASSUME NEW s, IsHistory(s), NEW e, e.content \subseteq Sidecars
    PROVE  IsHistory(Append(s, e))
BY Appended DEF IsHistory

\* A revision over every head is the only head.
LEMMA OneHead ==
    ASSUME NEW s, s \in Seq(ToSet(s)), NEW e, NEW it, NEW there,
           it.revisions = Append(s, e), WellFormed(it, there),
           e.parents = Heads(s), e.parents # {}
    PROVE  Heads(Append(s, e)) = {e}
<1> DEFINE t == Append(s, e)
           n == Len(s) + 1
<1>1. /\ DOMAIN t = 1 .. n /\ DOMAIN s = 1 .. n - 1 /\ n \in Nat /\ n >= 1
      /\ ToSet(t) = ToSet(s) \cup {e}
      /\ \A i \in DOMAIN s : t[i] = s[i]
      /\ t[n] = e
    BY Appended
<1>2. \A i \in DOMAIN t : Parents(t, i) \subseteq {t[j] : j \in 1 .. i - 1}
    BY DEF WellFormed
<1>3. \A i, j \in DOMAIN t : i # j => t[i] # t[j]
    BY DEF WellFormed
<1>4. Parents(t, n) = Heads(s)
    BY <1>1 DEF Parents
<1>5. \A i \in DOMAIN s : Parents(t, i) = Parents(s, i)
  <2>1. ASSUME NEW i \in DOMAIN s
        PROVE  t[i] = s[i] /\ i \in Int /\ (i > 1 => t[i - 1] = s[i - 1])
      BY <1>1
  <2> QED BY <2>1 DEF Parents
<1> HIDE DEF t, n
<1>6. \A i \in DOMAIN t : e \notin Parents(t, i)
    BY <1>1, <1>2, <1>3
<1>7. ASSUME NEW x \in ToSet(s), x \notin Heads(s)
      PROVE  \E i \in DOMAIN t : x \in Parents(t, i)
  <2>1. PICK i \in DOMAIN s : x \in Parents(s, i)
      BY <1>7 DEF Heads
  <2> QED BY <2>1, <1>1, <1>5
<1>8. \A x \in ToSet(s) : \E i \in DOMAIN t : x \in Parents(t, i)
    BY <1>1, <1>4, <1>7
<1>9. \A x : x \in Heads(t) <=> x \in ToSet(t) /\ \A i \in DOMAIN t : x \notin Parents(t, i)
    BY DEF Heads
<1>10. Heads(t) = {e}
    BY <1>1, <1>6, <1>8, <1>9
<1> QED BY <1>10 DEF t

LEMMA HistoryHolds ==
    ASSUME SlideAssumption, FilesOK
    PROVE  IsHistory(History) /\ ToSet(record.revisions) \subseteq ToSet(History)
<1>1. CASE RecordExists
    BY <1>1 DEF FilesOK, History
<1>2. CASE ~RecordExists
  <2>1. record.revisions = <<>> /\ ToSet(record.revisions) = {}
      BY <1>2 DEF RecordExists, NoRecord, ToSet
  <2>2. History = IF flat THEN <<Legacy>> ELSE <<>>
      BY <1>2 DEF History
  <2>3. IsHistory(<<>>)
      BY DEF IsHistory, ToSet
  <2>4. IsHistory(<<Legacy>>)
    <3>1. Legacy.content = {}
        BY DEF Legacy, Revision
    <3>2. IsHistory(Append(<<>>, Legacy))
        BY <3>1, <2>3, AppendedHistory
    <3>3. Append(<<>>, Legacy) = <<Legacy>>
        OBVIOUS
    <3> QED BY <3>2, <3>3
  <2> QED BY <2>1, <2>2, <2>3, <2>4
<1> QED BY <1>1, <1>2
-----------------------------------------------------------------------------
(* What a step leaves alone.                                               *)

\* A step of one process, while the others are idle.
Turn(w) ==
    /\ \A v \in Writers \ {w} : writer[v].at = "idle"
    /\ writer' = [writer EXCEPT ![w] = writer'[w]]
    /\ request' = request

LEMMA OthersIdle ==
    ASSUME Alone, NEW w \in Writers, writer[w].at # "idle" \/ LockFree
    PROVE  \A v \in Writers \ {w} : writer[v].at = "idle"
BY DEF Alone, LockFree

LEMMA TurnKeeps ==
    ASSUME ProcessesOK, NEW w \in Writers, Turn(w), Entry(writer'[w]), Stage(w)'
    PROVE  ProcessesOK' /\ Alone' /\ \A v \in Writers : Stage(v)'
<1>1. \A v \in Writers : v # w => writer'[v] = writer[v] /\ writer[v].at = "idle"
    BY DEF ProcessesOK, Turn
<1>2. writer' = [v \in Writers |-> writer'[v]]
    BY DEF ProcessesOK, Turn
<1>3. \A v \in Writers : Entry(writer'[v])
    BY <1>1 DEF ProcessesOK
<1>4. ProcessesOK'
    BY <1>2, <1>3 DEF ProcessesOK, Turn
<1>5. Alone'
    BY <1>1 DEF Alone
<1>6. ASSUME NEW v \in Writers
      PROVE  Stage(v)'
  <2>1. CASE v = w
      BY <2>1
  <2>2. CASE v # w
    <3>1. writer'[v].at = "idle"
        BY <2>2, <1>1
    <3> QED BY <3>1 DEF Stage
  <2> QED BY <2>1, <2>2
<1> QED BY <1>4, <1>5, <1>6

LEMMA SameHistory ==
    ASSUME UNCHANGED <<record, flat>>
    PROVE  History' = History /\ Heads(History)' = Heads(History)
BY DEF History, RecordExists

LEMMA SamePromise ==
    ASSUME UNCHANGED <<record, confirmed, outages>>
    PROVE  Promised' = Promised /\ Needed' = Needed
BY DEF Promised, Needed

LEMMA FilesStay ==
    ASSUME FilesOK, Kept, Durable, UNCHANGED <<files, flat, confirmed, outages>>
    PROVE  FilesOK' /\ Kept' /\ Durable'
<1>1. UNCHANGED <<record, sidecars, disk, flat, confirmed, outages>>
    BY DEF files
<1> QED BY <1>1, SamePromise DEF FilesOK, Kept, Durable

\* A step of w that leaves every file alone.
LEMMA QuietTurn ==
    ASSUME IInv, NEW w \in Writers, Turn(w), UNCHANGED <<files, flat, confirmed, outages>>,
           Entry(writer'[w]), Stage(w)'
    PROVE  IInv'
BY TurnKeeps, FilesStay DEF IInv

LEMMA NoWorkRests ==
    ASSUME NEW e, e = NoWork
    PROVE  Entry(e) /\ e.at = "idle"
BY DEF Entry, NoWork, Stages

LEMMA RestingTurn ==
    ASSUME ProcessesOK, NEW w \in Writers, writer' = [writer EXCEPT ![w] = NoWork],
           \A v \in Writers \ {w} : writer[v].at = "idle", request' = request
    PROVE  Turn(w) /\ Entry(writer'[w]) /\ Stage(w)'
<1>1. writer'[w] = NoWork
    BY DEF ProcessesOK
<1>2. Entry(writer'[w]) /\ writer'[w].at = "idle"
    BY <1>1, NoWorkRests
<1>3. Stage(w)'
    BY <1>2 DEF Stage
<1>4. Turn(w)
    BY <1>1 DEF Turn
<1> QED BY <1>2, <1>3, <1>4
-----------------------------------------------------------------------------
(* The initial states, and the requests.                                   *)

LEMMA InitKeeps ==
    ASSUME SlideAssumption, Init
    PROVE  IInv
<1>1. IsHistory(<<>>) /\ ToSet(<<>>) = {}
    BY DEF IsHistory, ToSet
<1>2. record.revisions = <<>>
    BY DEF Init, NoRecord
<1>3. FilesOK
  <2>1. \A r \in disk.record : IsHistory(r.revisions)
      BY <1>1 DEF Init, NoRecord
  <2>2. disk \in [record : {disk.record}, sidecar : [Sidecars -> SUBSET BOOLEAN]]
      BY DEF Init
  <2> QED BY <1>1, <1>2, <2>1, <2>2 DEF Init, FilesOK
<1>4. \A w \in Writers : writer[w] = NoWork
    BY DEF Init
<1>5. \A w \in Writers : Entry(writer[w]) /\ writer[w].at = "idle"
    BY <1>4, NoWorkRests
<1>6. ProcessesOK
  <2>1. writer = [w \in Writers |-> writer[w]] /\ request = [w \in Writers |-> request[w]]
      BY DEF Init
  <2>2. \A w \in Writers : request[w] = Absent
      BY DEF Init
  <2> QED BY <1>5, <2>1, <2>2 DEF ProcessesOK
<1>7. Alone /\ \A w \in Writers : Stage(w)
    BY <1>5 DEF Alone, Stage
<1>8. confirmed = {} /\ Promised = {}
    BY <1>1, <1>2 DEF Init, Promised
<1>9. Kept /\ Durable
    BY <1>8 DEF Kept, Durable
<1> QED BY <1>3, <1>6, <1>7, <1>9 DEF IInv

LEMMA AskKeeps ==
    ASSUME SlideAssumption, IInv, NEW w \in Writers, Ask(w)
    PROVE  IInv'
<1>1. UNCHANGED <<files, record, sidecars, flat, writer, confirmed, outages>>
    BY DEF Ask, files
<1>2. PICK q : q.op \in Ops /\ q.content \subseteq Sidecars /\ (q.op = "create" => q.expected = {})
               /\ request' = [request EXCEPT ![w] = q]
  <2>1. PICK op \in Ops, id \in RequestIDs, content \in Contents :
        \E expected \in Expectation(op) :
          request' = [request EXCEPT ![w] =
                IF op = "remove"
                THEN [op |-> op, id |-> Absent, content |-> {}, expected |-> expected]
                ELSE [op |-> op, id |-> id, content |-> content, expected |-> expected]]
      BY DEF Ask
  <2>2. PICK expected \in Expectation(op) :
          request' = [request EXCEPT ![w] =
                IF op = "remove"
                THEN [op |-> op, id |-> Absent, content |-> {}, expected |-> expected]
                ELSE [op |-> op, id |-> id, content |-> content, expected |-> expected]]
      BY <2>1
  <2>3. op = "create" => expected = {}
      BY DEF Expectation
  <2>4. content \subseteq Sidecars
      BY DEF SlideAssumption
  <2>5. CASE op = "remove"
    <3> WITNESS [op |-> op, id |-> Absent, content |-> {}, expected |-> expected]
    <3> QED BY <2>5, <2>2
  <2>6. CASE op # "remove"
    <3> WITNESS [op |-> op, id |-> id, content |-> content, expected |-> expected]
    <3> QED BY <2>6, <2>2, <2>3, <2>4
  <2> QED BY <2>5, <2>6
<1>3. request' = [v \in Writers |-> request'[v]]
      /\ \A v \in Writers : request'[v] = IF v = w THEN q ELSE request[v]
    BY <1>2 DEF IInv, ProcessesOK
<1>4. ProcessesOK'
    BY <1>1, <1>2, <1>3 DEF IInv, ProcessesOK, AskedFor
<1>5. FilesOK' /\ Kept' /\ Durable'
    BY <1>1, FilesStay DEF IInv
<1>6. Alone'
    BY <1>1 DEF IInv, Alone
<1>7. ASSUME NEW v \in Writers
      PROVE  Stage(v)'
  <2>1. CASE v = w
      BY <2>1, <1>1 DEF Ask, Stage
  <2>2. CASE v # w
    <3>1. Chosen(v) => Chosen(v)'
        BY <2>2, <1>1, <1>3, SameHistory DEF Chosen
    <3>2. OwnOnly(v) => OwnOnly(v)'
        BY <1>1, SamePromise DEF OwnOnly
    <3> QED BY <3>1, <3>2, <1>1 DEF IInv, Stage
  <2> QED BY <2>1, <2>2
<1> QED BY <1>4, <1>5, <1>6, <1>7 DEF IInv
-----------------------------------------------------------------------------
(* Commands begin.                                                         *)

LEMMA PublishesKeeps ==
    ASSUME SlideAssumption, IInv, NEW w \in Writers, NEW at \in {"sidecars", "record"},
           NEW revision, LockFree, Publishes(w, at, revision),
           revision.content \subseteq Sidecars,
           request[w].expected # {} =>
              revision.parents = request[w].expected /\ Heads(History) = request[w].expected,
           at = "record" =>
              WellFormed([revisions |-> Append(History, revision), current |-> revision], sidecars)
    PROVE  IInv'
<1> DEFINE next == [revisions |-> Append(History, revision), current |-> revision]
           e == [NoWork EXCEPT !.at = at, !.next = next,
                               !.left = IF at = "sidecars" THEN revision.content ELSE {}]
<1>1. /\ UNCHANGED <<files, flat, confirmed, outages>>
      /\ UNCHANGED <<record, sidecars, request>>
      /\ writer' = [writer EXCEPT ![w] = e]
    BY DEF Publishes, files, bounds
<1>2. writer'[w] = e
    BY <1>1 DEF IInv, ProcessesOK
<1>3. e.at = at /\ e.next = next /\ e.created = {}
    BY DEF NoWork
<1>4. Entry(e)
    BY DEF Entry, NoWork, Stages
<1>5. next.revisions = Append(History, revision) /\ next.current = revision
    OBVIOUS
<1>6. Turn(w)
    BY <1>1, <1>2, OthersIdle DEF IInv, Turn
<1> HIDE DEF e, next
<1>7. History' = History /\ Heads(History)' = Heads(History)
    BY <1>1, SameHistory
<1>8. Chosen(w)'
  <2>1. next = [revisions |-> Append(History', next.current), current |-> next.current]
      BY <1>5, <1>7 DEF next
  <2>2. writer'[w].next = next
      BY <1>2, <1>3
  <2> QED BY <2>1, <2>2, <1>1, <1>5, <1>7 DEF Chosen
<1>9. OwnOnly(w)'
    BY <1>2, <1>3 DEF OwnOnly
<1>10. at = "record" => WellFormed(writer'[w].next, sidecars')
    BY <1>1, <1>2, <1>3 DEF next
<1>11. Stage(w)'
    BY <1>2, <1>3, <1>8, <1>9, <1>10 DEF Stage
<1> QED BY <1>1, <1>2, <1>4, <1>6, <1>11, QuietTurn

LEMMA BeginApplyKeeps ==
    ASSUME SlideAssumption, IInv, NEW w \in Writers, BeginApply(w)
    PROVE  IInv'
<1> DEFINE q == request[w]
           revision == Revision(q.id, q.content, Replaces(q), FALSE)
<1>1. LockFree /\ q # Absent /\ q.op # "remove" /\ Admits(q) /\ Publishes(w, "sidecars", revision)
    BY DEF BeginApply
<1>2. AskedFor(q)
    BY <1>1 DEF IInv, ProcessesOK
<1>3. revision.content = q.content /\ revision.parents = Replaces(q)
    BY DEF Revision
<1> HIDE DEF q, revision
<1>4. ASSUME q.expected # {}
      PROVE  revision.parents = q.expected /\ Heads(History) = q.expected
  <2>1. q.op \in {"update", "reconcile"}
      BY <1>1, <1>2, <1>4 DEF AskedFor, Ops
  <2>2. Heads(History) = q.expected
      BY <2>1, <1>1 DEF Admits
  <2>3. Replaces(q) = Heads(History)
      BY <2>1 DEF Replaces
  <2> QED BY <2>2, <2>3, <1>3
<1>5. revision.content \subseteq Sidecars
    BY <1>2, <1>3 DEF AskedFor
<1> QED BY <1>1, <1>4, <1>5, PublishesKeeps DEF q

LEMMA BeginRemoveKeeps ==
    ASSUME SlideAssumption, IInv, NEW w \in Writers, BeginRemove(w)
    PROVE  IInv'
<1> DEFINE q == request[w]
           revision == Tombstone(record.current)
<1>1. /\ LockFree /\ q.expected \subseteq {record.current}
      /\ Heads(History) = {record.current}
      /\ WellFormed([revisions |-> Append(History, revision),
                     current |-> Last(Append(History, revision))], sidecars)
      /\ Publishes(w, "record", Last(Append(History, revision)))
    BY DEF BeginRemove
<1>2. Last(Append(History, revision)) = revision
    BY HistoryHolds, Appended DEF IInv, IsHistory
<1>3. revision.content = record.current.content /\ revision.parents = {record.current}
    BY DEF Tombstone, Revision
<1> HIDE DEF q, revision
<1>4. record.current \in ToSet(History)
    BY <1>1 DEF Heads
<1>5. revision.content \subseteq Sidecars
    BY <1>3, <1>4, HistoryHolds DEF IInv, IsHistory
<1>6. q.expected # {} => revision.parents = q.expected /\ Heads(History) = q.expected
    BY <1>1, <1>3
<1>7. Publishes(w, "record", revision)
      /\ WellFormed([revisions |-> Append(History, revision), current |-> revision], sidecars)
    BY <1>1, <1>2
<1> QED BY <1>1, <1>5, <1>6, <1>7, PublishesKeeps DEF q
-----------------------------------------------------------------------------
(* Commands go on: the sidecars.                                           *)

LEMMA NewEntry ==
    ASSUME IInv, NEW w \in Writers, writer[w].at # "idle", NEW e,
           writer' = [writer EXCEPT ![w] = e], request' = request
    PROVE  Turn(w) /\ writer'[w] = e
<1>1. writer'[w] = e
    BY DEF IInv, ProcessesOK
<1> QED BY <1>1, OthersIdle DEF IInv, Turn

LEMMA ChosenStays ==
    ASSUME NEW w, Chosen(w), writer'[w].next = writer[w].next, UNCHANGED <<record, flat, request>>
    PROVE  Chosen(w)'
BY SameHistory DEF Chosen

\* When everything is synced, a power loss leaves what there is.
LEMMA SyncedHolds ==
    ASSUME NEW r, NEW there, there \subseteq Sidecars, NEW d, d = Synced(r, there),
           NEW C, \A revision \in C : revision.content \subseteq there
    PROVE  /\ d \in [record : {d.record}, sidecar : [Sidecars -> SUBSET BOOLEAN]]
           /\ d.record = {r}
           /\ \A revision \in C : \A s \in revision.content : FALSE \notin d.sidecar[s]
<1>1. d.record = {r} /\ d.sidecar = [s \in Sidecars |-> {s \in there}]
    BY DEF Synced
<1>2. d \in [record : {d.record}, sidecar : [Sidecars -> SUBSET BOOLEAN]]
  <2>1. \A s \in Sidecars : {s \in there} \in SUBSET BOOLEAN
      OBVIOUS
  <2>2. d.sidecar \in [Sidecars -> SUBSET BOOLEAN]
      BY <1>1, <2>1
  <2>3. d = [record |-> d.record, sidecar |-> d.sidecar]
      BY DEF Synced
  <2> QED BY <2>2, <2>3
<1>3. ASSUME NEW revision \in C, NEW s \in revision.content
      PROVE  FALSE \notin d.sidecar[s]
  <2>1. s \in there /\ s \in Sidecars
      OBVIOUS
  <2>2. d.sidecar[s] = {s \in there}
      BY <1>1, <2>1
  <2> QED BY <2>1, <2>2
<1> QED BY <1>1, <1>2, <1>3

\* A step of w that keeps the record and what was confirmed, and syncs.
LEMMA SyncingTurn ==
    ASSUME IInv, NEW w \in Writers, Turn(w), Entry(writer'[w]), Stage(w)',
           IsHistory(record'.revisions), sidecars' \subseteq Sidecars, flat' = flat,
           outages' = outages, Kept', disk' = Synced(record', sidecars')
    PROVE  IInv'
<1>1. \A revision \in confirmed' : revision.content \subseteq sidecars'
    BY DEF Kept, Promised
<1>2. /\ disk' \in [record : {disk'.record}, sidecar : [Sidecars -> SUBSET BOOLEAN]]
      /\ disk'.record = {record'}
      /\ \A revision \in confirmed' : \A s \in revision.content : FALSE \notin disk'.sidecar[s]
    BY <1>1, SyncedHolds
<1>3. FilesOK'
    BY <1>2 DEF IInv, FilesOK
<1>4. Durable'
    BY <1>2 DEF Kept, Durable
<1> QED BY <1>3, <1>4, TurnKeeps DEF IInv

LEMMA FindSidecarKeeps ==
    ASSUME IInv, NEW w \in Writers, NEW s \in Sidecars, FindSidecar(w, s)
    PROVE  IInv'
<1> DEFINE e == [writer[w] EXCEPT !.left = @ \ {s}]
<1>1. /\ writer[w].at = "sidecars" /\ writer' = [writer EXCEPT ![w] = e] /\ request' = request
      /\ UNCHANGED <<files, flat, confirmed, outages>> /\ UNCHANGED <<record, sidecars>>
    BY DEF FindSidecar, files, bounds
<1>2. Entry(writer[w]) /\ Stage(w)
    BY DEF IInv, ProcessesOK
<1>3. e.at = "sidecars" /\ e.next = writer[w].next /\ e.created = writer[w].created /\ Entry(e)
    BY <1>1, <1>2 DEF Entry
<1> HIDE DEF e
<1>4. Turn(w) /\ writer'[w] = e
    BY <1>1, NewEntry
<1>5. Chosen(w)'
    BY <1>1, <1>2, <1>3, <1>4, ChosenStays DEF Stage
<1>6. OwnOnly(w)'
    BY <1>1, <1>2, <1>3, <1>4, SamePromise DEF Stage, OwnOnly
<1>7. Stage(w)'
    BY <1>3, <1>4, <1>5, <1>6 DEF Stage
<1> QED BY <1>1, <1>3, <1>4, <1>7, QuietTurn

LEMMA LinkSidecarKeeps ==
    ASSUME IInv, NEW w \in Writers, NEW s \in Sidecars, LinkSidecar(w, s)
    PROVE  IInv'
<1> DEFINE e == [writer[w] EXCEPT !.at = "linked", !.doing = s]
<1>1. /\ writer[w].at = "sidecars" /\ writer' = [writer EXCEPT ![w] = e] /\ request' = request
      /\ s \notin sidecars /\ sidecars' = sidecars \cup {s}
      /\ disk' = [disk EXCEPT !.sidecar[s] = @ \cup {TRUE}]
      /\ UNCHANGED <<record, flat, confirmed, outages>>
    BY DEF LinkSidecar, bounds
<1>2. Entry(writer[w]) /\ Stage(w)
    BY DEF IInv, ProcessesOK
<1>3. /\ e.at = "linked" /\ e.next = writer[w].next /\ e.created = writer[w].created
      /\ e.doing = s /\ Entry(e)
    BY <1>2 DEF Entry, Stages
<1> HIDE DEF e
<1>4. Turn(w) /\ writer'[w] = e
    BY <1>1, NewEntry
<1>5. Chosen(w)'
    BY <1>1, <1>2, <1>3, <1>4, ChosenStays DEF Stage
<1>6. Promised' = Promised /\ Needed' = Needed
    BY <1>1, SamePromise
<1>7. s \notin Needed
    BY <1>1 DEF IInv, Kept, Needed
<1>8. OwnOnly(w)'
    BY <1>1, <1>2, <1>3, <1>4, <1>6, <1>7 DEF Stage, OwnOnly
<1>9. Stage(w)'
    BY <1>3, <1>4, <1>5, <1>8 DEF Stage
<1>10. Kept'
    BY <1>1, <1>6 DEF IInv, Kept
<1>11. disk'.record = disk.record
       /\ \A t \in Sidecars : disk'.sidecar[t] = IF t = s THEN disk.sidecar[t] \cup {TRUE} ELSE disk.sidecar[t]
    BY <1>1 DEF IInv, FilesOK
<1>12. disk' \in [record : {disk'.record}, sidecar : [Sidecars -> SUBSET BOOLEAN]]
    BY <1>1 DEF IInv, FilesOK
<1>13. FilesOK'
    BY <1>1, <1>11, <1>12 DEF IInv, FilesOK
<1>14. Durable'
  <2>1. \A revision \in confirmed : revision.content \subseteq Sidecars
      BY DEF IInv, Kept, FilesOK, IsHistory
  <2>2. \A X : FALSE \notin X => FALSE \notin X \cup {TRUE}
      BY Zenon
  <2>3. \A t \in Sidecars : FALSE \notin disk.sidecar[t] => FALSE \notin disk'.sidecar[t]
      BY <1>11, <2>2, Zenon
  <2>4. Durable /\ disk'.record = disk.record /\ confirmed' = confirmed
      BY <1>1, <1>11 DEF IInv
  <2> QED BY <2>1, <2>3, <2>4 DEF Durable
<1> QED BY <1>3, <1>4, <1>9, <1>10, <1>13, <1>14, TurnKeeps DEF IInv

LEMMA SyncSidecarKeeps ==
    ASSUME IInv, NEW w \in Writers, SyncSidecar(w)
    PROVE  IInv'
<1> DEFINE e == [writer[w] EXCEPT !.at = "sidecars", !.doing = Absent,
                                  !.left = @ \ {writer[w].doing},
                                  !.created = @ \cup {writer[w].doing}]
<1>1. /\ writer[w].at = "linked" /\ writer' = [writer EXCEPT ![w] = e] /\ request' = request
      /\ disk' = Synced(record', sidecars')
      /\ UNCHANGED <<record, sidecars, flat, confirmed, outages>>
    BY DEF SyncSidecar, bounds
<1>2. Entry(writer[w]) /\ Stage(w) /\ OwnOnly(w)
    BY <1>1 DEF IInv, ProcessesOK, Stage
<1>3. writer[w].doing \in Sidecars \ Needed
    BY <1>1, <1>2 DEF OwnOnly
<1>4. /\ e.at = "sidecars" /\ e.next = writer[w].next
      /\ e.created = writer[w].created \cup {writer[w].doing} /\ Entry(e)
    BY <1>2, <1>3 DEF Entry, Stages
<1> HIDE DEF e
<1>5. Turn(w) /\ writer'[w] = e
    BY <1>1, NewEntry
<1>6. Chosen(w)'
    BY <1>1, <1>2, <1>4, <1>5, ChosenStays DEF Stage
<1>7. Promised' = Promised /\ Needed' = Needed
    BY <1>1, SamePromise
<1>8. OwnOnly(w)'
    BY <1>2, <1>3, <1>4, <1>5, <1>7 DEF OwnOnly
<1>9. Stage(w)'
    BY <1>4, <1>5, <1>6, <1>8 DEF Stage
<1>10. Kept'
    BY <1>1, <1>7 DEF IInv, Kept
<1>11. IsHistory(record'.revisions) /\ sidecars' \subseteq Sidecars
    BY <1>1 DEF IInv, FilesOK
<1> QED BY <1>1, <1>4, <1>5, <1>9, <1>10, <1>11, SyncingTurn

\* A command gives up, or goes on to its record, and touches no file.
LEMMA MovesOn ==
    ASSUME IInv, NEW w \in Writers, NEW at \in {"rollback", "record"},
           writer[w].at \in {"sidecars", "record"},
           at = "record" => WellFormed(writer[w].next, sidecars),
           writer' = [writer EXCEPT ![w].at = at], request' = request,
           UNCHANGED <<files, flat, confirmed, outages>>
    PROVE  IInv'
<1> DEFINE e == [writer[w] EXCEPT !.at = at]
<1>1. writer' = [writer EXCEPT ![w] = e] /\ UNCHANGED <<record, sidecars>>
    BY DEF files
<1>2. Entry(writer[w]) /\ Chosen(w) /\ OwnOnly(w)
    BY DEF IInv, ProcessesOK, Stage
<1>3. e.at = at /\ e.next = writer[w].next /\ e.created = writer[w].created /\ Entry(e)
    BY <1>2 DEF Entry, Stages
<1> HIDE DEF e
<1>4. Turn(w) /\ writer'[w] = e
    BY <1>1, NewEntry
<1>5. Chosen(w)'
    BY <1>1, <1>2, <1>3, <1>4, ChosenStays
<1>6. OwnOnly(w)'
    BY <1>1, <1>2, <1>3, <1>4, SamePromise DEF OwnOnly
<1>7. at = "record" => WellFormed(writer'[w].next, sidecars')
    BY <1>1, <1>3, <1>4
<1>8. Stage(w)'
    BY <1>3, <1>4, <1>5, <1>6, <1>7 DEF Stage
<1> QED BY <1>3, <1>4, <1>8, QuietTurn

LEMMA SidecarFailsKeeps ==
    ASSUME IInv, NEW w \in Writers, SidecarFails(w)
    PROVE  IInv'
BY MovesOn DEF SidecarFails

LEMMA PutFailsKeeps ==
    ASSUME IInv, NEW w \in Writers, PutFails(w)
    PROVE  IInv'
BY MovesOn DEF PutFails

LEMMA ValidateKeeps ==
    ASSUME IInv, NEW w \in Writers, Validate(w)
    PROVE  IInv'
<1>1. /\ writer[w].at = "sidecars" /\ request' = request
      /\ UNCHANGED <<files, flat, confirmed, outages>>
    BY DEF Validate, bounds
<1>2. CASE WellFormed(writer[w].next, sidecars)
  <2>1. writer' = [writer EXCEPT ![w].at = "record"]
      BY <1>2 DEF Validate
  <2> QED BY <1>1, <1>2, <2>1, MovesOn
<1>3. CASE ~WellFormed(writer[w].next, sidecars)
  <2>1. writer' = [writer EXCEPT ![w].at = "rollback"]
      BY <1>3 DEF Validate
  <2> QED BY <1>1, <2>1, MovesOn
<1> QED BY <1>2, <1>3

LEMMA SidecarSyncFailsKeeps ==
    ASSUME IInv, NEW w \in Writers, SidecarSyncFails(w)
    PROVE  IInv'
<1> DEFINE e == [writer[w] EXCEPT !.at = "rollback", !.doing = Absent]
           s == writer[w].doing
<1>1. /\ writer[w].at = "linked" /\ writer' = [writer EXCEPT ![w] = e] /\ request' = request
      /\ UNCHANGED <<record, flat, confirmed, outages>>
    BY DEF SidecarSyncFails
<1>2. \/ sidecars' = sidecars \ {s} /\ disk' = Synced(record', sidecars')
      \/ sidecars' \in {sidecars, sidecars \ {s}} /\ disk' = disk
    BY <1>1 DEF SidecarSyncFails
<1>3. Entry(writer[w]) /\ OwnOnly(w)
    BY <1>1 DEF IInv, ProcessesOK, Stage
<1>4. s \notin Needed
    BY <1>1, <1>3 DEF OwnOnly
<1>5. e.at = "rollback" /\ e.created = writer[w].created /\ Entry(e)
    BY <1>3 DEF Entry, Stages
<1> HIDE DEF e, s
<1>6. Turn(w) /\ writer'[w] = e
    BY <1>1, NewEntry
<1>7. Promised' = Promised /\ Needed' = Needed
    BY <1>1, SamePromise
<1>8. OwnOnly(w)'
    BY <1>3, <1>5, <1>6, <1>7 DEF OwnOnly
<1>9. Stage(w)'
    BY <1>5, <1>6, <1>8 DEF Stage
<1>10. \A revision \in Promised : revision.content \subseteq sidecars \ {s}
    BY <1>4 DEF IInv, Kept, Needed
<1>11. sidecars' \in {sidecars, sidecars \ {s}}
    BY <1>2
<1>12. Kept'
    BY <1>1, <1>7, <1>10, <1>11 DEF IInv, Kept
<1>13. IsHistory(record'.revisions) /\ sidecars' \subseteq Sidecars
    BY <1>1, <1>11 DEF IInv, FilesOK
<1>14. CASE disk' = Synced(record', sidecars')
    BY <1>1, <1>5, <1>6, <1>9, <1>12, <1>13, <1>14, SyncingTurn
<1>15. CASE disk' = disk
  <2>1. FilesOK' /\ Durable'
      BY <1>1, <1>13, <1>15 DEF IInv, FilesOK, Durable
  <2> QED BY <2>1, <1>5, <1>6, <1>9, <1>12, TurnKeeps DEF IInv
<1> QED BY <1>2, <1>14, <1>15
-----------------------------------------------------------------------------
(* Commands go on: the record.                                             *)

LEMMA PutRecordKeeps ==
    ASSUME SlideAssumption, IInv, NEW w \in Writers, PutRecord(w)
    PROVE  IInv'
<1> DEFINE at == IF RecordExists THEN "replaced" ELSE "made"
           e == [writer[w] EXCEPT !.at = at]
           next == writer[w].next
<1>1. /\ writer[w].at = "record" /\ writer' = [writer EXCEPT ![w] = e] /\ request' = request
      /\ record' = next /\ disk' = [disk EXCEPT !.record = @ \cup {record'}]
      /\ UNCHANGED <<sidecars, flat, confirmed, outages>>
    BY DEF PutRecord, bounds
<1>2. Entry(writer[w]) /\ Chosen(w) /\ WellFormed(next, sidecars)
    BY <1>1 DEF IInv, ProcessesOK, Stage
<1>3. e.at = at /\ Entry(e) /\ at \in {"replaced", "made"}
    BY <1>2 DEF Entry, Stages
<1>4. next.revisions = Append(History, next.current) /\ next.current.content \subseteq Sidecars
    BY <1>2 DEF Chosen
<1>5. at = "made" => record = NoRecord
    BY DEF RecordExists
<1> HIDE DEF e, next, at
<1>6. IsHistory(History) /\ ToSet(record.revisions) \subseteq ToSet(History)
    BY HistoryHolds DEF IInv
<1>7. IsHistory(next.revisions)
    BY <1>4, <1>6, AppendedHistory
<1>8. ToSet(next.revisions) = ToSet(History) \cup {next.current}
    BY <1>4, <1>6, Appended DEF IsHistory
<1>9. \A revision \in ToSet(next.revisions) : revision.content \subseteq sidecars
    BY <1>2 DEF WellFormed, ToSet
<1>10. confirmed' \subseteq ToSet(record'.revisions) /\ confirmed \subseteq ToSet(record'.revisions)
    BY <1>1, <1>6, <1>8 DEF IInv, Kept
<1>11. Turn(w) /\ writer'[w] = e
    BY <1>1, NewEntry
<1>12. Kept'
    BY <1>1, <1>9, <1>10 DEF Kept, Promised
<1>13. disk'.record = disk.record \cup {record'} /\ disk'.sidecar = disk.sidecar
       /\ disk' \in [record : {disk'.record}, sidecar : [Sidecars -> SUBSET BOOLEAN]]
    BY <1>1 DEF IInv, FilesOK
<1>14. FilesOK'
    BY <1>1, <1>7, <1>13 DEF IInv, FilesOK
<1>15. Durable'
    BY <1>1, <1>10, <1>13 DEF IInv, Durable
<1>16. at = "made" => confirmed' = {}
  <2>1. record = NoRecord => ToSet(record.revisions) = {}
      BY DEF NoRecord, ToSet
  <2> QED BY <1>1, <1>5, <2>1 DEF IInv, Kept
<1>17. Stage(w)'
  <2>1. record'.current \in ToSet(record'.revisions)
      BY <1>1, <1>8
  <2>2. \A revision \in ToSet(record'.revisions) : revision.content \subseteq sidecars'
      BY <1>1, <1>9
  <2> QED BY <1>3, <1>11, <1>16, <2>1, <2>2 DEF Stage
<1> QED BY <1>3, <1>11, <1>12, <1>14, <1>15, <1>17, TurnKeeps DEF IInv

LEMMA SyncRecordKeeps ==
    ASSUME IInv, NEW w \in Writers, SyncRecord(w)
    PROVE  IInv'
<1>1. /\ writer[w].at \in {"replaced", "made"} /\ writer' = [writer EXCEPT ![w] = NoWork]
      /\ disk' = Synced(record', sidecars') /\ request' = request
      /\ confirmed' = confirmed \cup {record.current}
      /\ UNCHANGED <<record, sidecars, flat, outages>>
    BY DEF SyncRecord, bounds
<1>2. /\ record.current \in ToSet(record.revisions)
      /\ \A revision \in ToSet(record.revisions) : revision.content \subseteq sidecars
    BY <1>1 DEF IInv, Stage
<1>3. Turn(w) /\ Entry(writer'[w]) /\ Stage(w)'
    BY <1>1, OthersIdle, RestingTurn DEF IInv
<1>4. Kept'
    BY <1>1, <1>2 DEF IInv, Kept, Promised
<1>5. IsHistory(record'.revisions) /\ sidecars' \subseteq Sidecars
    BY <1>1 DEF IInv, FilesOK
<1> QED BY <1>1, <1>3, <1>4, <1>5, SyncingTurn

LEMMA RecordSyncFailsKeeps ==
    ASSUME IInv, NEW w \in Writers, RecordSyncFails(w)
    PROVE  IInv'
<1>1. writer[w].at \in {"replaced", "made"} /\ request' = request
      /\ UNCHANGED <<sidecars, flat, confirmed, outages>>
    BY DEF RecordSyncFails
<1>2. \/ writer' = [writer EXCEPT ![w] = NoWork] /\ UNCHANGED <<record, disk>>
      \/ /\ writer[w].at = "made" /\ record' = NoRecord
         /\ \/ writer' = [writer EXCEPT ![w].at = "rollback"] /\ disk' = Synced(record', sidecars')
            \/ writer' = [writer EXCEPT ![w] = NoWork] /\ disk' = disk
    BY <1>1 DEF RecordSyncFails
<1>3. CASE writer' = [writer EXCEPT ![w] = NoWork] /\ UNCHANGED <<record, disk>>
  <2>1. UNCHANGED files
      BY <1>1, <1>3 DEF files
  <2>2. Turn(w) /\ Entry(writer'[w]) /\ Stage(w)'
      BY <1>1, <1>3, OthersIdle, RestingTurn DEF IInv
  <2> QED BY <1>1, <2>1, <2>2, QuietTurn
<1>4. ASSUME writer[w].at = "made", record' = NoRecord
      PROVE  /\ IsHistory(record'.revisions) /\ confirmed = {} /\ Promised' = {} /\ Kept'
             /\ sidecars' \subseteq Sidecars
  <2>1. record'.revisions = <<>> /\ ToSet(<<>>) = {} /\ IsHistory(<<>>)
      BY <1>4 DEF NoRecord, ToSet, IsHistory
  <2>2. confirmed = {} /\ confirmed' = {}
      BY <1>1, <1>4 DEF IInv, Stage
  <2>3. Promised' = {}
      BY <2>1, <2>2 DEF Promised
  <2> QED BY <1>1, <2>1, <2>2, <2>3 DEF Kept, IInv, FilesOK
<1>5. CASE /\ writer[w].at = "made" /\ record' = NoRecord
           /\ writer' = [writer EXCEPT ![w].at = "rollback"] /\ disk' = Synced(record', sidecars')
  <2> DEFINE e == [writer[w] EXCEPT !.at = "rollback"]
  <2>1. writer' = [writer EXCEPT ![w] = e]
      BY <1>5
  <2>2. Entry(writer[w])
      BY DEF IInv, ProcessesOK
  <2>3. e.at = "rollback" /\ Entry(e)
      BY <2>2 DEF Entry, Stages
  <2> HIDE DEF e
  <2>4. Turn(w) /\ writer'[w] = e
      BY <1>1, <2>1, NewEntry
  <2>5. Needed' = {}
      BY <1>4, <1>5 DEF Needed
  <2>6. Stage(w)'
      BY <2>3, <2>4, <2>5 DEF Stage, OwnOnly
  <2> QED BY <1>1, <1>4, <1>5, <2>3, <2>4, <2>6, SyncingTurn
<1>6. CASE /\ writer[w].at = "made" /\ record' = NoRecord
           /\ writer' = [writer EXCEPT ![w] = NoWork] /\ disk' = disk
  <2>1. Turn(w) /\ Entry(writer'[w]) /\ Stage(w)'
      BY <1>1, <1>6, OthersIdle, RestingTurn DEF IInv
  <2>2. FilesOK'
      BY <1>1, <1>4, <1>6 DEF IInv, FilesOK
  <2>3. Durable'
      BY <1>1, <1>4, <1>6 DEF Durable
  <2> QED BY <1>4, <1>6, <2>1, <2>2, <2>3, TurnKeeps DEF IInv
<1> QED BY <1>2, <1>3, <1>5, <1>6

LEMMA RollbackAssetKeeps ==
    ASSUME IInv, NEW w \in Writers, RollbackAsset(w)
    PROVE  IInv'
<1>1. /\ writer[w].at = "rollback" /\ writer' = [writer EXCEPT ![w] = NoWork] /\ request' = request
      /\ sidecars' = sidecars \ writer[w].created
      /\ UNCHANGED <<record, flat, confirmed, outages>>
    BY DEF RollbackAsset, bounds
<1>2. \/ disk' = Synced(record', sidecars')
      \/ disk' = disk /\ sidecars' = sidecars
    BY <1>1 DEF RollbackAsset
<1>3. Turn(w) /\ Entry(writer'[w]) /\ Stage(w)'
    BY <1>1, OthersIdle, RestingTurn DEF IInv
<1>4. writer[w].created \cap Needed = {}
    BY <1>1 DEF IInv, Stage, OwnOnly
<1>5. \A revision \in Promised : revision.content \subseteq sidecars'
    BY <1>1, <1>4 DEF IInv, Kept, Needed
<1>6. Kept'
    BY <1>1, <1>5, SamePromise DEF IInv, Kept
<1>7. IsHistory(record'.revisions) /\ sidecars' \subseteq Sidecars
    BY <1>1 DEF IInv, FilesOK
<1>8. CASE disk' = Synced(record', sidecars')
    BY <1>1, <1>3, <1>6, <1>7, <1>8, SyncingTurn
<1>9. CASE disk' = disk /\ sidecars' = sidecars
  <2>1. UNCHANGED files
      BY <1>1, <1>9 DEF files
  <2> QED BY <1>1, <1>3, <2>1, QuietTurn
<1> QED BY <1>2, <1>8, <1>9
-----------------------------------------------------------------------------
(* What the commands do not decide.                                        *)

LEMMA KillKeeps ==
    ASSUME IInv, NEW w \in Writers, Kill(w)
    PROVE  IInv'
<1>1. /\ writer[w].at # "idle" /\ writer' = [writer EXCEPT ![w] = NoWork] /\ request' = request
      /\ UNCHANGED <<files, flat, confirmed, outages>>
    BY DEF Kill
<1>2. Turn(w) /\ Entry(writer'[w]) /\ Stage(w)'
    BY <1>1, OthersIdle, RestingTurn DEF IInv
<1> QED BY <1>1, <1>2, QuietTurn

LEMMA PowerLossKeeps ==
    ASSUME IInv, PowerLoss
    PROVE  IInv'
<1>1. /\ outages' = outages + 1 /\ writer' = [w \in Writers |-> NoWork] /\ record' \in disk.record
      /\ disk' = Synced(record', sidecars') /\ sidecars' \subseteq Sidecars
      /\ \A s \in Sidecars : (s \in sidecars') \in disk.sidecar[s]
      /\ UNCHANGED <<flat, request, confirmed>>
    BY DEF PowerLoss
<1>2. Promised' = confirmed
    BY <1>1 DEF IInv, FilesOK, Promised
<1>3. \A revision \in confirmed : \A s \in revision.content : s \in sidecars'
  <2>1. TAKE revision \in confirmed
  <2>2. TAKE s \in revision.content
  <2>3. s \in Sidecars /\ FALSE \notin disk.sidecar[s]
      BY DEF IInv, Kept, Durable, FilesOK, IsHistory
  <2>4. (s \in sidecars') \in disk.sidecar[s]
      BY <1>1, <2>3
  <2>5. CASE s \notin sidecars'
    <3>1. (s \in sidecars') = FALSE
        BY <2>5
    <3>2. FALSE \in disk.sidecar[s]
        BY <2>4, <3>1, Zenon
    <3> QED BY <3>2, <2>3, Zenon
  <2> QED BY <2>5
<1>4. confirmed \subseteq ToSet(record'.revisions) /\ IsHistory(record'.revisions)
    BY <1>1 DEF IInv, Durable, FilesOK
<1>5. Kept'
    BY <1>1, <1>2, <1>3, <1>4 DEF Kept
<1>6. /\ disk' \in [record : {disk'.record}, sidecar : [Sidecars -> SUBSET BOOLEAN]]
      /\ disk'.record = {record'}
      /\ \A revision \in confirmed : \A s \in revision.content : FALSE \notin disk'.sidecar[s]
  <2>1. \A revision \in confirmed : revision.content \subseteq sidecars'
      BY <1>3
  <2> QED BY <1>1, <2>1, SyncedHolds
<1>7. FilesOK' /\ Durable'
  <2>1. flat' \in BOOLEAN /\ outages' \in Nat
      BY <1>1 DEF IInv, FilesOK
  <2>2. \A r \in disk'.record : IsHistory(r.revisions)
      BY <1>4, <1>6
  <2>3. FilesOK'
      BY <1>1, <1>4, <1>6, <2>1, <2>2 DEF FilesOK
  <2>4. Durable'
      BY <1>1, <1>4, <1>6 DEF Durable
  <2> QED BY <2>3, <2>4
<1>8. \A w \in Writers : writer'[w] = NoWork
    BY <1>1
<1>9. \A w \in Writers : Entry(writer'[w]) /\ writer'[w].at = "idle"
    BY <1>8, NoWorkRests
<1>10. ProcessesOK'
  <2>1. writer' = [w \in Writers |-> writer'[w]]
      BY <1>1
  <2> QED BY <1>1, <1>9, <2>1 DEF IInv, ProcessesOK
<1>11. Alone' /\ \A w \in Writers : Stage(w)'
    BY <1>9 DEF Alone, Stage
<1> QED BY <1>5, <1>7, <1>10, <1>11 DEF IInv

LEMMA MergeKeeps ==
    ASSUME IInv, NEW revision, Merge(revision), revision.content \subseteq Sidecars
    PROVE  IInv'
<1>1. /\ LockFree
      /\ record'.revisions = Append(record.revisions, revision)
      /\ sidecars' = sidecars \cup revision.content
      /\ disk'.record = disk.record \cup {record'}
      /\ disk' = [record |-> disk'.record, sidecar |-> disk'.sidecar]
      /\ disk'.sidecar = [s \in Sidecars |-> IF s \in revision.content
                                             THEN disk.sidecar[s] \cup {TRUE} ELSE disk.sidecar[s]]
      /\ UNCHANGED <<flat, request, writer, confirmed, outages>>
    BY DEF Merge, bounds
<1>2. IsHistory(record'.revisions)
    BY <1>1, AppendedHistory DEF IInv, FilesOK
<1>3. ToSet(record'.revisions) = ToSet(record.revisions) \cup {revision}
    BY <1>1, Appended DEF IInv, FilesOK, IsHistory
<1>4. Kept'
    BY <1>1, <1>3 DEF IInv, Kept, Promised
<1>5. FilesOK'
  <2>1. disk'.sidecar \in [Sidecars -> SUBSET BOOLEAN]
    <3>1. disk.sidecar \in [Sidecars -> SUBSET BOOLEAN]
        BY DEF IInv, FilesOK
    <3>2. \A X \in SUBSET BOOLEAN : X \cup {TRUE} \in SUBSET BOOLEAN
        BY Zenon
    <3>3. \A s \in Sidecars : disk.sidecar[s] \in SUBSET BOOLEAN
        BY <3>1, Zenon
    <3>4. \A s \in Sidecars : (IF s \in revision.content THEN disk.sidecar[s] \cup {TRUE}
                                ELSE disk.sidecar[s]) \in SUBSET BOOLEAN
        BY <3>2, <3>3, Zenon
    <3> QED BY <1>1, <3>4, Zenon
  <2>2. disk' \in [record : {disk'.record}, sidecar : [Sidecars -> SUBSET BOOLEAN]]
      BY <1>1, <2>1
  <2> QED BY <1>1, <1>2, <2>2 DEF IInv, FilesOK
<1>6. Durable'
  <2>1. \A c \in confirmed : c.content \subseteq Sidecars
      BY DEF IInv, Kept, FilesOK, IsHistory
  <2>2. \A X : FALSE \notin X => FALSE \notin X \cup {TRUE}
      BY Zenon
  <2>3. \A t \in Sidecars : disk'.sidecar[t] \in {disk.sidecar[t], disk.sidecar[t] \cup {TRUE}}
      BY <1>1
  <2>4. \A t \in Sidecars : FALSE \notin disk.sidecar[t] => FALSE \notin disk'.sidecar[t]
      BY <2>2, <2>3, Zenon
  <2>5. \A r \in disk'.record : confirmed \subseteq ToSet(r.revisions)
      BY <1>1, <1>3 DEF IInv, Durable, Kept
  <2>6. Durable /\ confirmed' = confirmed
      BY <1>1 DEF IInv
  <2> QED BY <2>1, <2>4, <2>5, <2>6 DEF Durable
<1>7. \A w \in Writers : writer'[w].at = "idle"
    BY <1>1 DEF LockFree
<1>8. ProcessesOK'
    BY <1>1 DEF IInv, ProcessesOK
<1>9. Alone' /\ \A w \in Writers : Stage(w)'
    BY <1>7 DEF Alone, Stage
<1> QED BY <1>4, <1>5, <1>6, <1>8, <1>9 DEF IInv

LEMMA MergeOtherKeeps ==
    ASSUME SlideAssumption, IInv, MergeOther
    PROVE  IInv'
<1>1. PICK parent \in ToSet(record.revisions) :
         \/ \E id \in OtherIDs, content \in Contents : MergeUpdate(id, parent, content)
         \/ MergeRemoval(parent)
    BY DEF MergeOther
<1>2. CASE \E id \in OtherIDs, content \in Contents : MergeUpdate(id, parent, content)
  <2>1. PICK id \in OtherIDs, content \in Contents : Merge(Revision(id, content, {parent}, FALSE))
      BY <1>2 DEF MergeUpdate
  <2>2. Revision(id, content, {parent}, FALSE).content \subseteq Sidecars
      BY DEF Revision, SlideAssumption
  <2> QED BY <2>1, <2>2, MergeKeeps
<1>3. CASE MergeRemoval(parent)
  <2>1. Tombstone(parent).content = parent.content
      BY DEF Tombstone, Revision
  <2>2. parent.content \subseteq Sidecars
      BY DEF IInv, FilesOK, IsHistory
  <2> QED BY <1>3, <2>1, <2>2, MergeKeeps DEF MergeRemoval
<1> QED BY <1>1, <1>2, <1>3
-----------------------------------------------------------------------------
(* The theorems.                                                           *)

LEMMA NextKeeps ==
    ASSUME SlideAssumption, IInv, Next
    PROVE  IInv'
<1>1. ASSUME NEW w \in Writers, Ask(w) PROVE IInv'
    BY <1>1, AskKeeps
<1>2. ASSUME NEW w \in Writers, BeginApply(w) PROVE IInv'
    BY <1>2, BeginApplyKeeps
<1>3. ASSUME NEW w \in Writers, BeginRemove(w) PROVE IInv'
    BY <1>3, BeginRemoveKeeps
<1>4. ASSUME NEW w \in Writers, NEW s \in Sidecars, FindSidecar(w, s) \/ LinkSidecar(w, s) PROVE IInv'
    BY <1>4, FindSidecarKeeps, LinkSidecarKeeps
<1>5. ASSUME NEW w \in Writers, SyncSidecar(w) \/ SidecarFails(w) \/ SidecarSyncFails(w) PROVE IInv'
    BY <1>5, SyncSidecarKeeps, SidecarFailsKeeps, SidecarSyncFailsKeeps
<1>6. ASSUME NEW w \in Writers, Validate(w) \/ PutRecord(w) \/ PutFails(w) PROVE IInv'
    BY <1>6, ValidateKeeps, PutRecordKeeps, PutFailsKeeps
<1>7. ASSUME NEW w \in Writers, SyncRecord(w) \/ RecordSyncFails(w) \/ RollbackAsset(w) \/ Kill(w)
      PROVE IInv'
    BY <1>7, SyncRecordKeeps, RecordSyncFailsKeeps, RollbackAssetKeeps, KillKeeps
<1>8. CASE PowerLoss
    BY <1>8, PowerLossKeeps
<1>9. CASE MergeOther
    BY <1>9, MergeOtherKeeps
<1> QED BY <1>1, <1>2, <1>3, <1>4, <1>5, <1>6, <1>7, <1>8, <1>9 DEF Next

LEMMA StutterKeeps ==
    ASSUME IInv, UNCHANGED vars
    PROVE  IInv'
<1>1. UNCHANGED <<files, record, sidecars, disk, flat, request, writer, confirmed, outages>>
    BY DEF vars, files, bounds
<1>2. FilesOK' /\ Kept' /\ Durable'
    BY <1>1, FilesStay DEF IInv
<1>3. ProcessesOK' /\ Alone'
    BY <1>1 DEF IInv, ProcessesOK, Alone
<1>4. ASSUME NEW w \in Writers PROVE Stage(w)'
  <2>1. Chosen(w) => Chosen(w)'
      BY <1>1, SameHistory DEF Chosen
  <2>2. OwnOnly(w) => OwnOnly(w)'
      BY <1>1, SamePromise DEF OwnOnly
  <2> QED BY <2>1, <2>2, <1>1 DEF IInv, Stage
<1> QED BY <1>2, <1>3, <1>4 DEF IInv

\* The invariant holds throughout: one command at a time, which takes back
\* only what no promised revision needs, and publishes only what it validated.
THEOREM Invariance == Spec => []IInv
<1>1. Init => IInv
    BY SlideAssumption, InitKeeps
<1>2. IInv /\ [Next]_vars => IInv'
    BY SlideAssumption, NextKeeps, StutterKeeps
<1> QED BY <1>1, <1>2, PTL DEF Spec

\* As long as the power does not fail, every revision of the record has its
\* sidecars, however many commands are refused, fail at a step or die.
THEOREM RevisionsWhole == Spec => []RecordWhole
<1>1. IInv => RecordWhole
    BY DEF IInv, Kept, Promised, RecordWhole
<1> QED BY <1>1, Invariance, PTL

\* A revision reported as published stays in the record with its sidecars,
\* however often processes die, syncs fail and the power goes.
THEOREM PublishedStays == Spec => []ConfirmedKept
<1>1. IInv => ConfirmedKept
    BY DEF IInv, Kept, Promised, ConfirmedKept
<1> QED BY <1>1, Invariance, PTL

LEMMA OnlyPutPublishes ==
    ASSUME IInv, Next, NEW w \in Writers, PublishedBy(w)
    PROVE  PutRecord(w)
<1> DEFINE Goes == writer'[w].at \in {"replaced", "made"}
<1>1. writer[w].at = "record" /\ Goes
    BY DEF PublishedBy
<1>2. ~LockFree
    BY <1>1 DEF LockFree
<1>3. writer = [v \in Writers |-> writer[v]] /\ Entry(writer[w])
    BY DEF IInv, ProcessesOK
<1>4. writer' # writer
    BY <1>1
<1>5. ASSUME NEW v \in Writers, writer[v].at # "idle", v # w
      PROVE  FALSE
    BY <1>1, <1>5 DEF IInv, Alone
<1>6. ~PowerLoss
  <2>1. writer' = [v \in Writers |-> NoWork] => writer'[w].at = "idle"
      BY DEF NoWork
  <2> QED BY <1>1, <2>1 DEF PowerLoss
<1>7. ~MergeOther
    BY <1>2 DEF MergeOther, MergeUpdate, MergeRemoval, Merge
<1>8. ASSUME NEW v \in Writers, Ask(v) \/ BeginApply(v) \/ BeginRemove(v)
      PROVE  FALSE
    BY <1>2, <1>4, <1>8 DEF Ask, BeginApply, BeginRemove
<1>9. ASSUME NEW v \in Writers, PutFails(v) \/ Kill(v)
       PROVE  FALSE
  <2>1. v = w
      BY <1>5, <1>9 DEF PutFails, Kill
  <2>2. writer'[w].at \in {"rollback", "idle"}
      BY <1>3, <1>9, <2>1 DEF PutFails, Kill, NoWork, Entry
  <2> QED BY <1>1, <2>2
<1>10. ASSUME NEW v \in Writers,
              \/ \E s \in Sidecars : FindSidecar(v, s) \/ LinkSidecar(v, s)
              \/ SyncSidecar(v) \/ SidecarFails(v) \/ SidecarSyncFails(v) \/ Validate(v)
              \/ SyncRecord(v) \/ RecordSyncFails(v) \/ RollbackAsset(v)
       PROVE  FALSE
  <2>1. writer[v].at \notin {"record", "idle"}
      BY <1>10 DEF FindSidecar, LinkSidecar, SyncSidecar, SidecarFails, SidecarSyncFails, Validate,
                   SyncRecord, RecordSyncFails, RollbackAsset
  <2> QED BY <1>1, <1>5, <2>1
<1>11. ASSUME NEW v \in Writers, PutRecord(v)
       PROVE  PutRecord(w)
  <2>1. v = w
      BY <1>5, <1>11 DEF PutRecord
  <2> QED BY <1>11, <2>1
<1> QED BY <1>6, <1>7, <1>8, <1>9, <1>10, <1>11 DEF Next

\* A revision whose author says what it expects replaces every head there is,
\* and exactly the heads its author had read, and is the only head then.
THEOREM NoUpdateLost == Spec => ReplacesWhatWasRead
<1> DEFINE Replaced == \A w \in Writers :
              PublishedBy(w) /\ request[w].expected # {} =>
                 /\ Last(record'.revisions).parents = request[w].expected
                 /\ Heads(record'.revisions) = {record'.current}
<1>1. ASSUME IInv, Next
      PROVE  Replaced
  <2> SUFFICES ASSUME NEW w \in Writers, PublishedBy(w), request[w].expected # {}
               PROVE  /\ Last(record'.revisions).parents = request[w].expected
                      /\ Heads(record'.revisions) = {record'.current}
      OBVIOUS
  <2> DEFINE next == writer[w].next
             revision == writer[w].next.current
  <2>1. writer[w].at = "record" /\ record' = next
      BY <1>1, OnlyPutPublishes DEF PutRecord
  <2>2. Chosen(w) /\ WellFormed(next, sidecars)
      BY <1>1, <2>1 DEF IInv, Stage
  <2>3. /\ next.revisions = Append(History, revision)
        /\ revision.parents = request[w].expected /\ Heads(History) = request[w].expected
      BY <2>2 DEF Chosen
  <2>4. History \in Seq(ToSet(History))
      BY <1>1, SlideAssumption, HistoryHolds DEF IInv, IsHistory
  <2> HIDE DEF next, revision
  <2>5. Last(next.revisions) = revision
      BY <2>3, <2>4, Appended
  <2>6. Heads(next.revisions) = {revision}
      BY <2>2, <2>3, <2>4, OneHead
  <2>7. record'.revisions = next.revisions /\ record'.current = revision
      BY <2>1 DEF next, revision
  <2> QED BY <2>3, <2>5, <2>6, <2>7
<1>2. IInv /\ [Next]_vars => [Replaced]_vars
    BY <1>1
<1> QED BY <1>2, Invariance, PTL DEF Spec, ReplacesWhatWasRead
=============================================================================
