--------------------------- MODULE RecordWritesProofs ---------------------------
(***************************************************************************)
(* What holds of a clone's records, however many processes write them,     *)
(* whichever of their steps fail, whoever is killed and whenever power     *)
(* fails (RecordWrites).                                                   *)
(*                                                                         *)
(* The lock makes one process at a time write; what this is not enough for *)
(* is a record that was linked and not synced, which a stop of the machine *)
(* may take away or bring back.  So the invariant speaks of every record   *)
(* that may ever be read (Lineage), and tells those that can be relied on: *)
(* a firm record is linked, synced and not touched since, and every other  *)
(* revision comes before or after it.                                      *)
(***************************************************************************)
EXTENDS RecordWrites, Integers, FiniteSetTheorems, SequenceTheorems, WellFoundedInduction, TLAPS

Ids == (Procs \cup {None}) \X Nat
Records == [dir : Dirs, id : Ids, parents : SUBSET Ids, past : SUBSET Ids, pin : Ids]
Owner(r) == r.id[1]

Calls == {"", "revise", "evidence", "batch"}
Answers == {"", "unreadable", "busy", "refused", "failed", "killed"}

Begins == {"idle", "list", "listed", "wait"}
Writes == {"link", "sync", "unlink", "resync", "clean"}
Holding == {"judge", "temp", "undo", "unlock"} \cup Writes
Process == [at : Begins \cup Holding \cup {"done"}, call : Calls, parents : SUBSET Ids,
            listed : SUBSET Records, todo : Seq(Records), wrote : SUBSET Records, ok : BOOLEAN,
            answer : Answers]

DiskTyped ==
    /\ files \in [Dirs -> SUBSET Records]
    /\ safe \in [Dirs -> SUBSET Records]
    /\ loose \in [Dirs -> SUBSET Records]
    /\ \A d \in Dirs : IsFiniteSet(files[d]) /\ IsFiniteSet(safe[d]) /\ IsFiniteSet(loose[d])

RestTyped ==
    /\ rooted \in BOOLEAN
    /\ temps \subseteq [dir : Dirs, by : Procs, nth : Nat]
    /\ lock \in Procs \cup {None}
    /\ proc \in [Procs -> Process]
    /\ told \subseteq Records
    /\ untidy \subseteq Procs
    /\ left \in [kill : Nat, stop : Nat, fail : Nat]

\* The lock: who is past it, has it.
Locked == \A p \in Procs : proc[p].at \in Holding <=> lock = p

\* A process that writes has records to write, all of its own and all different,
\* each from what it has written; a failed one goes no further.
Works(p) ==
    /\ proc[p].at \in Writes \cup {"temp"} => proc[p].todo # <<>>
    /\ proc[p].at \in Begins \cup {"judge", "temp", "link", "sync"} => proc[p].ok
    /\ proc[p].at \in {"unlink", "resync", "undo"} => ~proc[p].ok
    /\ proc[p].at \in Begins \cup {"judge"} => proc[p].wrote = {} /\ proc[p].todo = <<>>
    /\ IsFiniteSet(proc[p].wrote) /\ \A r \in proc[p].wrote : Owner(r) = p
    /\ proc[p].at \in Holding =>
         \A i, j \in 1..Len(proc[p].todo) :
           /\ Owner(proc[p].todo[i]) = p
           /\ proc[p].todo[i] \notin proc[p].wrote
           /\ proc[p].todo[i] = proc[p].todo[j] => i = j

\* Where a record of a process was linked, it is.
Linked(p) ==
    proc[p].at \in {"sync", "unlink"} => Current(p) \in files[Current(p).dir]

\* A temporary file is that of the record its writer is at, or of a dead writer.
Temporary ==
    \A t \in temps : t.by \in untidy \/ (proc[t.by].at \in Writes /\ t = OwnTemp(t.by))

\* Only the load under the lock, at the start or at the end, finds a Saga unreadable.
Readable(p) ==
    proc[p].at \in (Begins \cup Holding) \ {"unlock"} => proc[p].answer # "unreadable"
-----------------------------------------------------------------------------
Pending == {p \in Procs : proc[p].at \in {"temp", "link"} /\ Current(p).dir = "revisions"}

\* The revisions that are or may be read, or are about to be written.
Revisions ==
    files["revisions"] \cup safe["revisions"] \cup loose["revisions"] \cup {Current(p) : p \in Pending}

\* One has the past of every one in its past, and is not in it.
Lineage(S) ==
    \A r, s \in S :
      /\ r.id = s.id => r = s
      /\ r.id \in s.past => r.past \subseteq s.past
      /\ r.parents \subseteq r.past /\ r.id \notin r.past

\* A process that has not judged has left no trace.
Untouched(S) ==
    \A p \in Procs : proc[p].at \in Begins \cup {"judge"} =>
      \A r \in S : Owner(r) # p /\ \A i \in r.past : i[1] # p

\* The revision a process writes comes after all others.
Above(p) ==
    proc[p].at \in {"temp", "link", "sync"} /\ Current(p).dir = "revisions" =>
      \A r \in files["revisions"] : r = Current(p) \/ r.id \in Current(p).past

\* A process writes one revision, or evidence about the latest.
Pinned(p) ==
    proc[p].at \in Writes \cup {"temp"} =>
      \/ Len(proc[p].todo) = 1 /\ Current(p).dir = "revisions"
      \/ \A i \in 1..Len(proc[p].todo) :
           /\ proc[p].todo[i].dir = "evidence"
           /\ Heads(files["revisions"]) = {proc[p].todo[i].pin}

\* The records told of, or to be told of.
Firm(r) ==
    \/ r \in told
    \/ \E p \in Procs :
         /\ proc[p].at \in Holding /\ proc[p].ok
         /\ r \in proc[p].wrote \/ (proc[p].at = "clean" /\ r = Current(p))

Kept(r) == r \in files[r.dir] /\ r \in safe[r.dir] /\ r \notin loose[r.dir]

FirmKept == \A r \in Records : Firm(r) => Kept(r) \/ (r.dir = "evidence" /\ ~rooted)

FirmOver ==
    \A t \in Records : Firm(t) /\ t.dir = "revisions" =>
      \A r \in files["revisions"] \cup safe["revisions"] \cup loose["revisions"] :
        r = t \/ r.id \in t.past \/ t.id \in r.past

\* What has been told of, is by processes that are done.
Told == \A r \in told : \E p \in Procs : Owner(r) = p /\ proc[p].at = "done"

IInv ==
    /\ DiskTyped /\ RestTyped /\ Locked /\ Temporary
    /\ \A p \in Procs : Readable(p) /\ Works(p) /\ Linked(p) /\ Above(p) /\ Pinned(p)
    /\ Lineage(Revisions) /\ Untouched(Revisions)
    /\ FirmKept /\ FirmOver /\ Told
    /\ UnreadableByLeftovers
-----------------------------------------------------------------------------
(***************************************************************************)
(* Revisions and their heads.                                              *)
(***************************************************************************)

LEMMA Least ==
    ASSUME NEW D, D # {}, NEW f \in [D -> Nat]
    PROVE  \E x \in D : \A y \in D : f[x] <= f[y]
<1> DEFINE R == OpToRel(<, Nat)
           T == {f[x] : x \in D}
<1>1. T \subseteq Nat /\ T # {}
  OBVIOUS
<1>2. IsWellFoundedOn(R, Nat)
  BY NatLessThanWellFounded
<1>3. PICK m \in T : \A k \in T : ~ (<<k, m>> \in R)
  <2> HIDE DEF R, T
  <2> QED BY <1>1, <1>2, WFMin
<1>4. \A k \in T : ~ (k < m)
  BY <1>1, <1>3 DEF OpToRel
<1>5. PICK x \in D : m = f[x]
  BY <1>3
<1>6. ASSUME NEW y \in D PROVE f[x] <= f[y]
  <2>1. ~ (f[y] < f[x])
    BY <1>4, <1>5
  <2>2. f[x] \in Nat /\ f[y] \in Nat
    OBVIOUS
  <2> QED BY <2>1, <2>2
<1> QED BY <1>6

LEMMA LineageLess == ASSUME NEW S, NEW T, T \subseteq S, Lineage(S) PROVE Lineage(T)
BY DEF Lineage

\* A revision is a head, or before one: of those after it, the one with the fewest
\* after itself is a head.  So a revision over the heads is over all.
LEMMA OverAll ==
    ASSUME NEW S, IsFiniteSet(S), Lineage(S)
    PROVE  Names(S) \subseteq Ancestors(S, Heads(S))
<1> SUFFICES ASSUME NEW x \in S, x.id \notin Heads(S)
             PROVE  \E h \in S : h.id \in Heads(S) /\ x.id \in h.past
  BY DEF Names, Ancestors
<1> DEFINE After(r) == {s \in S : r.id \in s.past}
           D == After(x)
           f == [r \in D |-> Cardinality(After(r))]
<1>1. D # {}
  <2>1. PICK s \in S : x.id \in s.parents
    BY DEF Heads, Names
  <2> QED BY <2>1 DEF Lineage
<1>2. \A r \in D : IsFiniteSet(After(r)) /\ Cardinality(After(r)) \in Nat
  <2> TAKE r \in D
  <2>1. After(r) \in SUBSET S
    OBVIOUS
  <2> QED BY <2>1, FS_Subset, FS_CardinalityType
<1>3. f \in [D -> Nat]
  BY <1>2
<1>4. PICK h \in D : \A r \in D : f[h] <= f[r]
  <2> HIDE DEF D, f
  <2> QED BY <1>1, <1>3, Least
<1>5. h.id \in Heads(S)
  <2> SUFFICES ASSUME NEW t \in S, h.id \in t.parents PROVE FALSE
    BY DEF Heads, Names
  <2>1. h.id \in t.past /\ h.past \subseteq t.past /\ t.id \notin t.past
    BY DEF Lineage
  <2>2. t \in D
    BY <2>1
  <2>3. After(t) \subseteq After(h) /\ t \in After(h) /\ t \notin After(t)
    <3>1. \A s \in S : t.id \in s.past => h.id \in s.past
      BY <2>1 DEF Lineage
    <3> QED BY <2>1, <3>1
  <2>4. IsFiniteSet(After(h)) /\ IsFiniteSet(After(t))
    BY <1>2, <2>2
  <2>5. Cardinality(After(t)) < Cardinality(After(h))
    <3> HIDE DEF After
    <3>1. /\ Cardinality(After(t)) <= Cardinality(After(h))
          /\ Cardinality(After(t)) = Cardinality(After(h)) => After(t) = After(h)
      BY <2>3, <2>4, FS_Subset
    <3>2. Cardinality(After(t)) \in Nat /\ Cardinality(After(h)) \in Nat
      BY <2>4, FS_CardinalityType
    <3> QED BY <2>3, <3>1, <3>2
  <2>6. f[h] = Cardinality(After(h)) /\ f[t] = Cardinality(After(t)) /\ f[h] <= f[t]
    <3>1. f[h] <= f[t]
      BY <1>4, <2>2
    <3> HIDE DEF After
    <3> QED BY <3>1, <2>2
  <2>7. Cardinality(After(t)) \in Nat /\ Cardinality(After(h)) \in Nat
    BY <1>2, <2>2
  <2> HIDE DEF f, After
  <2> QED BY <2>5, <2>6, <2>7
<1> QED BY <1>5
-----------------------------------------------------------------------------
LEMMA InitInv == Init => IInv
<1> SUFFICES ASSUME Init PROVE IInv
  OBVIOUS
<1> USE RecordWritesAssumption
<1>1. /\ files = [d \in Dirs |-> IF d = "revisions" THEN {First} ELSE {}]
      /\ safe = files /\ loose = [d \in Dirs |-> {}] /\ temps = {} /\ lock = None
      /\ rooted \in BOOLEAN /\ told = {} /\ untidy = {} /\ left \in Budgets
      /\ \A p \in Procs : proc[p].at = "idle" /\ proc[p].wrote = {} /\ proc[p].answer = ""
                            /\ proc[p].ok /\ proc[p].todo = <<>>
  BY DEF Init
<1>2. First \in Records /\ First.id = <<None, 1>> /\ First.parents = {} /\ First.past = {}
  BY DEF First, Record, Records, Ids, Dirs
<1>3. IsFiniteSet({}) /\ IsFiniteSet({First})
  BY FS_EmptySet, FS_Singleton
<1>4. DiskTyped
  BY <1>1, <1>2, <1>3 DEF DiskTyped
<1>5. RestTyped
  <2>1. <<>> \in Seq(Records) /\ {} \in SUBSET Records /\ {} \in SUBSET Ids
    OBVIOUS
  <2>2. [at |-> "idle", call |-> "", parents |-> {}, listed |-> {}, todo |-> <<>>, wrote |-> {},
         ok |-> TRUE, answer |-> ""] \in Process
    BY <2>1 DEF Process, Begins, Holding, Writes, Calls, Answers
  <2>3. proc \in [Procs -> Process]
    BY <2>2 DEF Init
  <2> QED BY <2>3, <1>1 DEF RestTyped
<1>6. Locked /\ Temporary /\ UnreadableByLeftovers
  BY <1>1 DEF Locked, Temporary, UnreadableByLeftovers, At, Holding, Writes
<1>7. \A p \in Procs : Readable(p) /\ Works(p) /\ Linked(p) /\ Above(p) /\ Pinned(p)
  BY <1>1, <1>3 DEF Readable, Works, Linked, Above, Pinned, Begins, Holding, Writes
<1>8. Revisions = {First}
  BY <1>1 DEF Revisions, Pending, Dirs
<1>9. Lineage(Revisions) /\ Untouched(Revisions)
  BY <1>2, <1>8 DEF Lineage, Untouched, Owner
<1>10. FirmKept /\ FirmOver /\ Told
  BY <1>1 DEF FirmKept, FirmOver, Told, Firm, Holding, Writes
<1> QED BY <1>4, <1>5, <1>6, <1>7, <1>9, <1>10 DEF IInv
-----------------------------------------------------------------------------
(***************************************************************************)
(* A step of one process.                                                  *)
(***************************************************************************)

Places == Begins \cup Holding \cup {"done"}
Early == Begins \cup {"judge"}
Others(p) == proc' \in [Procs -> Process] /\ \A q \in Procs \ {p} : proc'[q] = proc[q]

LEMMA Going ==
    ASSUME RestTyped, NEW p \in Procs, NEW w \in Places, Goes(p, w)
    PROVE  /\ Others(p)
           /\ proc'[p].at = w /\ proc'[p].ok = proc[p].ok /\ proc'[p].answer = proc[p].answer
           /\ proc'[p].todo = proc[p].todo /\ proc'[p].wrote = proc[p].wrote
<1>1. proc \in [Procs -> Process] /\ proc[p] \in Process
  BY DEF RestTyped
<1>2. [proc[p] EXCEPT !.at = w] \in Process
  BY <1>1 DEF Process, Places
<1>3. proc' = [proc EXCEPT ![p] = [proc[p] EXCEPT !.at = w]]
  BY DEF Goes
<1>4. proc' \in [Procs -> Process] /\ \A q \in Procs \ {p} : proc'[q] = proc[q]
  BY <1>1, <1>2, <1>3
<1>5. proc'[p] = [proc[p] EXCEPT !.at = w]
  BY <1>1, <1>3
<1> QED BY <1>1, <1>4, <1>5 DEF Others, Process

LEMMA Ending ==
    ASSUME RestTyped, NEW p \in Procs, NEW w \in Places, NEW a \in Answers, Ends(p, w, a)
    PROVE  /\ Others(p)
           /\ proc'[p].at = w /\ proc'[p].ok = FALSE /\ proc'[p].answer = a
           /\ proc'[p].todo = proc[p].todo /\ proc'[p].wrote = proc[p].wrote
<1>1. proc \in [Procs -> Process] /\ proc[p] \in Process
  BY DEF RestTyped
<1>2. [proc[p] EXCEPT !.at = w, !.answer = a, !.ok = FALSE] \in Process
  BY <1>1 DEF Process, Places
<1>3. proc' = [proc EXCEPT ![p] = [proc[p] EXCEPT !.at = w, !.answer = a, !.ok = FALSE]]
  BY DEF Ends
<1>4. proc' \in [Procs -> Process] /\ \A q \in Procs \ {p} : proc'[q] = proc[q]
  BY <1>1, <1>2, <1>3
<1>5. proc'[p] = [proc[p] EXCEPT !.at = w, !.answer = a, !.ok = FALSE]
  BY <1>1, <1>3
<1> QED BY <1>1, <1>4, <1>5 DEF Others, Process

\* The files change only under the hands of the holder, and then nobody else holds.
LEMMA OthersKeep ==
    ASSUME IInv, NEW p \in Procs, Others(p), files' = files \/ lock = p, NEW q \in Procs \ {p}
    PROVE  Readable(q)' /\ Works(q)' /\ Linked(q)' /\ Above(q)' /\ Pinned(q)'
<1>1. proc'[q] = proc[q] /\ Current(q)' = Current(q)
  BY DEF Others, Current
<1>2. Readable(q) /\ Works(q) /\ Linked(q) /\ Above(q) /\ Pinned(q)
  BY DEF IInv
<1>3. Readable(q)' /\ Works(q)'
  BY <1>1, <1>2 DEF Readable, Works
<1>4. CASE files' = files
  <2>1. Linked(q)' /\ Above(q)'
    BY <1>1, <1>2, <1>4 DEF Linked, Above
  <2>2. Pinned(q)'
    BY <1>1, <1>2, <1>4 DEF Pinned
  <2> QED BY <1>3, <2>1, <2>2
<1>5. CASE lock = p
  <2>1. proc'[q].at \notin Holding
    BY <1>1, <1>5 DEF IInv, Locked
  <2> QED BY <1>3, <2>1 DEF Linked, Above, Pinned, Holding, Writes
<1> QED BY <1>4, <1>5

LEMMA LockKept ==
    ASSUME IInv, NEW p \in Procs, Others(p), lock' = lock,
           proc'[p].at \in Holding <=> proc[p].at \in Holding
    PROVE  Locked'
BY DEF IInv, Locked, Others

LEMMA TraceKept ==
    ASSUME IInv, Revisions' \subseteq Revisions,
           \A q \in Procs : proc'[q].at \in Early => proc[q].at \in Early
    PROVE  Lineage(Revisions)' /\ Untouched(Revisions)'
<1>1. Lineage(Revisions')
  BY LineageLess DEF IInv
<1>2. Lineage(Revisions)'
  BY <1>1 DEF Lineage
<1>3. Untouched(Revisions)'
  BY DEF IInv, Untouched, Early
<1> QED BY <1>2, <1>3

LEMMA RevisionsKept ==
    ASSUME IInv, NEW p \in Procs, Others(p),
           files'["revisions"] \cup safe'["revisions"] \cup loose'["revisions"] \subseteq Revisions,
           p \in Pending' => p \in Pending /\ Current(p)' = Current(p)
    PROVE  Revisions' \subseteq Revisions
<1>1. ASSUME NEW q \in Pending' PROVE q \in Pending /\ Current(q)' = Current(q)
  BY <1>1 DEF Pending, Others, Current
<1>2. \A q \in Pending' : Current(q)' \in Revisions
  BY <1>1 DEF Revisions
<1>3. Revisions' = files'["revisions"] \cup safe'["revisions"] \cup loose'["revisions"]
                     \cup {Current(q)' : q \in Pending'}
  BY DEF Revisions
<1> QED BY <1>2, <1>3

LEMMA FirmStays ==
    ASSUME IInv, UNCHANGED <<files, safe, loose, rooted>>, \A r \in Records : Firm(r)' => Firm(r)
    PROVE  FirmKept' /\ FirmOver'
<1>1. FirmKept'
  BY DEF IInv, FirmKept, Kept
<1>2. FirmOver'
  BY DEF IInv, FirmOver
<1> QED BY <1>1, <1>2

LEMMA ToldStays ==
    ASSUME IInv, NEW p \in Procs, Others(p), told' = told, proc[p].at # "done"
    PROVE  Told'
<1> SUFFICES ASSUME NEW r \in told PROVE \E q \in Procs : Owner(r) = q /\ proc'[q].at = "done"
  BY DEF Told
<1>1. PICK q \in Procs : Owner(r) = q /\ proc[q].at = "done"
  BY DEF IInv, Told
<1> QED BY <1>1 DEF Others

LEMMA UnreadableStays ==
    ASSUME IInv, NEW p \in Procs, Others(p), files' = files \/ lock = p, untidy \subseteq untidy',
           proc'[p].at = "unlock" => proc'[p].answer # "unreadable"
    PROVE  UnreadableByLeftovers'
<1> SUFFICES ASSUME NEW q \in Procs, proc'[q].at = "unlock", proc'[q].answer = "unreadable"
             PROVE  untidy' # {} \/ ~Known(files'["revisions"], files'["evidence"])
  BY DEF UnreadableByLeftovers, At
<1>1. q # p /\ proc[q].at = "unlock" /\ proc[q].answer = "unreadable"
  BY DEF Others
<1>2. lock = q
  BY <1>1 DEF IInv, Locked, Holding
<1>3. files' = files
  BY <1>1, <1>2
<1>4. untidy # {} \/ ~Known(files["revisions"], files["evidence"])
  BY <1>1 DEF IInv, UnreadableByLeftovers, At
<1> QED BY <1>3, <1>4

LEMMA TempsKept ==
    ASSUME IInv, NEW p \in Procs, Others(p), untidy \subseteq untidy',
           \A t \in temps' : (t \in temps /\ t.by # p) \/ t.by \in untidy'
                             \/ (t = OwnTemp(p)' /\ proc'[p].at \in Writes)
    PROVE  Temporary'
<1> SUFFICES ASSUME NEW t \in temps'
             PROVE  t.by \in untidy' \/ (proc'[t.by].at \in Writes /\ t = OwnTemp(t.by)')
  BY DEF Temporary
<1>1. CASE t \in temps /\ t.by # p
  <2>1. t.by \in Procs \ {p}
    BY <1>1 DEF IInv, RestTyped
  <2>2. proc'[t.by] = proc[t.by] /\ OwnTemp(t.by)' = OwnTemp(t.by)
    BY <2>1 DEF Others, OwnTemp, Current
  <2> QED BY <1>1, <2>2 DEF IInv, Temporary
<1>2. CASE t = OwnTemp(p)' /\ proc'[p].at \in Writes
  BY <1>2 DEF OwnTemp
<1> QED BY <1>1, <1>2

\* A process whose call has failed has nothing that will be told of.
LEMMA FailedFirm ==
    ASSUME IInv, NEW p \in Procs, lock = p, ~proc[p].ok, NEW r, Firm(r)
    PROVE  r \in told /\ Owner(r) # p
<1>1. r \in told
  BY DEF IInv, Firm, Locked
<1>2. PICK q \in Procs : Owner(r) = q /\ proc[q].at = "done"
  BY <1>1 DEF IInv, Told
<1>3. proc[p].at \in Holding
  BY DEF IInv, Locked
<1> QED BY <1>1, <1>2, <1>3 DEF Holding, Writes

LEMMA FirmLess ==
    ASSUME IInv, NEW p \in Procs, Others(p),
           \A r : \/ r \in told'
                  \/ /\ proc'[p].at \in Holding /\ proc'[p].ok
                     /\ r \in proc'[p].wrote \/ (proc'[p].at = "clean" /\ r = Current(p)')
                  => Firm(r)
    PROVE  \A r : Firm(r)' => Firm(r)
<1> SUFFICES ASSUME NEW r, Firm(r)', r \notin told' PROVE Firm(r)
  OBVIOUS
<1>1. PICK q \in Procs :
        /\ proc'[q].at \in Holding /\ proc'[q].ok
        /\ r \in proc'[q].wrote \/ (proc'[q].at = "clean" /\ r = Current(q)')
  BY DEF Firm
<1>2. CASE q = p
  BY <1>1, <1>2
<1>3. CASE q # p
  BY <1>1, <1>3 DEF Others, Firm, Current
<1> QED BY <1>2, <1>3

\* A step that leaves the files alone.
LEMMA QuietButTold ==
    ASSUME IInv, NEW p \in Procs, Others(p), proc[p].at # "done",
           UNCHANGED <<files, safe, loose, rooted>>, told' \subseteq Records, Told',
           temps' \subseteq [dir : Dirs, by : Procs, nth : Nat], lock' \in Procs \cup {None},
           untidy \subseteq untidy', untidy' \subseteq Procs,
           left' \in [kill : Nat, stop : Nat, fail : Nat],
           Locked', Temporary', UnreadableByLeftovers',
           proc'[p].at \in Early => proc[p].at \in Early,
           p \in Pending' => p \in Pending /\ Current(p)' = Current(p),
           \A r : Firm(r)' => Firm(r),
           Readable(p)', Works(p)', Linked(p)', Above(p)', Pinned(p)'
    PROVE  IInv'
<1>1. DiskTyped'
  BY DEF IInv, DiskTyped
<1>2. RestTyped'
  BY DEF IInv, RestTyped, Others
<1>3. \A q \in Procs : Readable(q)' /\ Works(q)' /\ Linked(q)' /\ Above(q)' /\ Pinned(q)'
  <2> SUFFICES ASSUME NEW q \in Procs, q # p
               PROVE  Readable(q)' /\ Works(q)' /\ Linked(q)' /\ Above(q)' /\ Pinned(q)'
    OBVIOUS
  <2> QED BY OthersKeep
<1>4. Revisions' \subseteq Revisions
  <2>1. files'["revisions"] \cup safe'["revisions"] \cup loose'["revisions"] \subseteq Revisions
    BY DEF Revisions
  <2> QED BY <2>1, RevisionsKept
<1>5. \A q \in Procs : proc'[q].at \in Early => proc[q].at \in Early
  BY DEF Others
<1>6. Lineage(Revisions)' /\ Untouched(Revisions)'
  BY <1>4, <1>5, TraceKept
<1>7. FirmKept' /\ FirmOver'
  BY FirmStays
<1> QED BY <1>1, <1>2, <1>3, <1>6, <1>7 DEF IInv

LEMMA Quiet ==
    ASSUME IInv, NEW p \in Procs, Others(p), proc[p].at # "done",
           UNCHANGED <<files, safe, loose, rooted, told>>,
           temps' \subseteq [dir : Dirs, by : Procs, nth : Nat], lock' \in Procs \cup {None},
           untidy \subseteq untidy', untidy' \subseteq Procs,
           left' \in [kill : Nat, stop : Nat, fail : Nat],
           Locked', Temporary', UnreadableByLeftovers',
           proc'[p].at \in Early => proc[p].at \in Early,
           p \in Pending' => p \in Pending /\ Current(p)' = Current(p),
           \A r : Firm(r)' => Firm(r),
           Readable(p)', Works(p)', Linked(p)', Above(p)', Pinned(p)'
    PROVE  IInv'
<1>1. Told'
  BY ToldStays
<1>2. told' \subseteq Records
  BY DEF IInv, RestTyped
<1> QED BY <1>1, <1>2, QuietButTold

\* A step on the way to the lock.
LEMMA EarlyStep ==
    ASSUME IInv, NEW p \in Procs, Others(p), UNCHANGED <<disk, told, untidy, left>>,
           proc[p].at \in Begins, proc'[p].at \in Early \cup {"done"},
           proc'[p].wrote = {}, proc'[p].todo = <<>>, lock' \in Procs \cup {None}, Locked',
           proc'[p].at # "done" => proc'[p].ok /\ proc'[p].answer # "unreadable"
    PROVE  IInv'
<1>1. UNCHANGED <<files, safe, loose, rooted, temps>>
  BY DEF disk
<1>2. \A r : Firm(r)' => Firm(r)
  <2>1. \A r : r \in told => Firm(r)
    BY DEF Firm
  <2>2. proc'[p].wrote = {} /\ proc'[p].at # "clean"
    BY DEF Early, Begins
  <2> QED BY <2>1, <2>2, FirmLess
<1>3. Temporary'
  <2>1. \A t \in temps : t.by # p \/ t.by \in untidy
    BY DEF IInv, Temporary, Begins, Writes
  <2> QED BY <1>1, <2>1, TempsKept
<1>4. UnreadableByLeftovers'
  <2>1. proc'[p].at # "unlock"
    BY DEF Early, Begins
  <2> QED BY <1>1, <2>1, UnreadableStays
<1>5. Readable(p)' /\ Linked(p)' /\ Above(p)' /\ Pinned(p)'
  BY DEF Readable, Linked, Above, Pinned, Early, Begins, Holding, Writes
<1>6. Works(p)'
  BY FS_EmptySet DEF Works, Early, Begins, Holding, Writes
<1>7. proc[p].at # "done" /\ p \notin Pending' /\ proc[p].at \in Early
  BY DEF Early, Begins, Pending
<1>8. temps \subseteq [dir : Dirs, by : Procs, nth : Nat] /\ untidy \subseteq Procs
      /\ left \in [kill : Nat, stop : Nat, fail : Nat]
  BY DEF IInv, RestTyped
<1> QED BY <1>1, <1>2, <1>3, <1>4, <1>5, <1>6, <1>7, <1>8, Quiet

\* Before the lock.
LEMMA EarlyFacts ==
    ASSUME IInv, NEW p \in Procs, proc[p].at \in Begins
    PROVE  /\ proc[p].wrote = {} /\ proc[p].todo = <<>> /\ proc[p].ok
           /\ proc[p].answer # "unreadable" /\ proc[p].at \notin Holding
           /\ lock \in Procs \cup {None} /\ RestTyped /\ proc \in [Procs -> Process]
<1>1. Works(p) /\ Readable(p) /\ RestTyped
  BY DEF IInv
<1> QED BY <1>1 DEF Works, Readable, RestTyped, Begins, Holding, Writes

LEMMA FilesFacts ==
    ASSUME IInv
    PROVE  /\ files["revisions"] \subseteq Records /\ files["evidence"] \subseteq Records
           /\ IsFiniteSet(files["revisions"]) /\ IsFiniteSet(files["evidence"])
           /\ Heads(files["revisions"]) \subseteq Ids /\ Heads(files["evidence"]) \subseteq Ids
<1>1. /\ files["revisions"] \subseteq Records /\ files["evidence"] \subseteq Records
      /\ IsFiniteSet(files["revisions"]) /\ IsFiniteSet(files["evidence"])
  BY DEF IInv, DiskTyped, Dirs
<1> QED BY <1>1 DEF Heads, Names, Records

LEMMA BeginKeeps == ASSUME IInv, NEW p \in Procs, Begin(p) PROVE IInv'
<1>1. PICK call \in {"revise", "evidence", "batch"} :
        proc' = [proc EXCEPT ![p].at = "list", ![p].call = call,
                             ![p].parents = IF call = "revise" THEN Heads(files["revisions"]) ELSE {}]
  BY DEF Begin
<1>2. proc[p].at \in Begins
  BY DEF Begin, At, Begins
<1> DEFINE names == IF call = "revise" THEN Heads(files["revisions"]) ELSE {}
           x == [proc[p] EXCEPT !.at = "list", !.call = call, !.parents = names]
<1>3. names \subseteq Ids /\ call \in Calls
  BY FilesFacts DEF Calls
<1>4. proc \in [Procs -> Process] /\ proc[p] \in Process
  BY <1>2, EarlyFacts
<1>5. x \in Process
  <2> HIDE DEF names
  <2> QED BY <1>3, <1>4 DEF Process, Begins
<1>6. proc' = [proc EXCEPT ![p] = x]
  BY <1>1
<1>7. Others(p) /\ proc'[p] = x
  <2> HIDE DEF x
  <2> QED BY <1>4, <1>5, <1>6 DEF Others
<1>8. proc'[p].at = "list" /\ proc'[p].wrote = proc[p].wrote /\ proc'[p].todo = proc[p].todo
      /\ proc'[p].ok = proc[p].ok /\ proc'[p].answer = proc[p].answer
  <2> HIDE DEF names
  <2> QED BY <1>4, <1>7 DEF Process
<1>9. UNCHANGED <<disk, told, untidy, left>> /\ lock' = lock
  BY DEF Begin
<1>10. Locked'
  BY <1>2, <1>7, <1>8, <1>9, EarlyFacts, LockKept DEF Holding, Writes
<1> HIDE DEF x
<1> QED BY <1>2, <1>7, <1>8, <1>9, <1>10, EarlyFacts, EarlyStep DEF Early, Begins

LEMMA ListRevisionsKeeps == ASSUME IInv, NEW p \in Procs, ListRevisions(p) PROVE IInv'
<1>1. proc[p].at \in Begins
  BY DEF ListRevisions, At, Begins
<1>2. UNCHANGED <<disk, told, untidy, left>> /\ lock' = lock
  BY DEF ListRevisions
<1>3. CASE proc' = [proc EXCEPT ![p].at = "listed", ![p].listed = files["revisions"]]
  <2> DEFINE x == [proc[p] EXCEPT !.at = "listed", !.listed = files["revisions"]]
  <2>1. proc \in [Procs -> Process] /\ proc[p] \in Process
    BY <1>1, EarlyFacts
  <2>2. x \in Process
    BY <2>1, FilesFacts DEF Process, Begins
  <2>3. proc' = [proc EXCEPT ![p] = x]
    BY <1>3
  <2>4. Others(p) /\ proc'[p] = x
    <3> HIDE DEF x
    <3> QED BY <2>1, <2>2, <2>3 DEF Others
  <2>5. proc'[p].at = "listed" /\ proc'[p].wrote = proc[p].wrote /\ proc'[p].todo = proc[p].todo
        /\ proc'[p].ok = proc[p].ok /\ proc'[p].answer = proc[p].answer
    BY <2>1, <2>4 DEF Process
  <2>6. Locked'
    BY <1>1, <1>2, <2>4, <2>5, EarlyFacts, LockKept DEF Holding, Writes
  <2> HIDE DEF x
  <2> QED BY <1>1, <1>2, <2>4, <2>5, <2>6, EarlyFacts, EarlyStep DEF Early, Begins
<1>4. CASE Ends(p, "done", "unreadable")
  <2>1. Others(p) /\ proc'[p].at = "done" /\ proc'[p].wrote = proc[p].wrote
        /\ proc'[p].todo = proc[p].todo
    BY <1>1, <1>4, EarlyFacts, Ending DEF Places, Answers
  <2>2. Locked'
    BY <1>1, <1>2, <2>1, EarlyFacts, LockKept DEF Holding, Writes
  <2> QED BY <1>1, <1>2, <2>1, <2>2, EarlyFacts, EarlyStep
<1> QED BY <1>3, <1>4 DEF ListRevisions

LEMMA ListEvidenceKeeps == ASSUME IInv, NEW p \in Procs, ListEvidence(p) PROVE IInv'
<1>1. proc[p].at \in Begins
  BY DEF ListEvidence, At, Begins
<1>2. UNCHANGED <<disk, told, untidy, left>> /\ lock' = lock
  BY DEF ListEvidence
<1>3. CASE Goes(p, "wait")
  <2>1. Others(p) /\ proc'[p].at = "wait" /\ proc'[p].wrote = proc[p].wrote
        /\ proc'[p].todo = proc[p].todo /\ proc'[p].ok = proc[p].ok
        /\ proc'[p].answer = proc[p].answer
    BY <1>1, <1>3, EarlyFacts, Going DEF Places, Begins
  <2>2. Locked'
    BY <1>1, <1>2, <2>1, EarlyFacts, LockKept DEF Holding, Writes
  <2> QED BY <1>1, <1>2, <2>1, <2>2, EarlyFacts, EarlyStep DEF Early, Begins
<1>4. CASE Ends(p, "done", "unreadable")
  <2>1. Others(p) /\ proc'[p].at = "done" /\ proc'[p].wrote = proc[p].wrote
        /\ proc'[p].todo = proc[p].todo
    BY <1>1, <1>4, EarlyFacts, Ending DEF Places, Answers
  <2>2. Locked'
    BY <1>1, <1>2, <2>1, EarlyFacts, LockKept DEF Holding, Writes
  <2> QED BY <1>1, <1>2, <2>1, <2>2, EarlyFacts, EarlyStep
<1> QED BY <1>3, <1>4 DEF ListEvidence

LEMMA GiveUpKeeps == ASSUME IInv, NEW p \in Procs, GiveUp(p) PROVE IInv'
<1>1. proc[p].at \in Begins
  BY DEF GiveUp, At, Begins
<1>2. UNCHANGED <<disk, told, untidy, left>> /\ lock' = lock
  BY DEF GiveUp
<1>3. Others(p) /\ proc'[p].at = "done" /\ proc'[p].wrote = proc[p].wrote
      /\ proc'[p].todo = proc[p].todo
  BY <1>1, EarlyFacts, Ending DEF GiveUp, Places, Answers
<1>4. Locked'
  BY <1>1, <1>2, <1>3, EarlyFacts, LockKept DEF Holding, Writes
<1> QED BY <1>1, <1>2, <1>3, <1>4, EarlyFacts, EarlyStep

LEMMA AcquireKeeps == ASSUME IInv, NEW p \in Procs, Acquire(p) PROVE IInv'
<1>1. proc[p].at \in Begins
  BY DEF Acquire, At, Begins
<1>2. UNCHANGED <<disk, told, untidy, left>> /\ lock = None /\ lock' = p
  BY DEF Acquire
<1>3. Others(p) /\ proc'[p].at = "judge" /\ proc'[p].wrote = proc[p].wrote
      /\ proc'[p].todo = proc[p].todo /\ proc'[p].ok = proc[p].ok
      /\ proc'[p].answer = proc[p].answer
  BY <1>1, EarlyFacts, Going DEF Acquire, Places, Holding
<1>4. Locked'
  <2>1. \A q \in Procs : proc[q].at \notin Holding
    BY <1>2, RecordWritesAssumption DEF IInv, Locked
  <2>2. proc'[p].at \in Holding
    BY <1>3 DEF Holding
  <2> QED BY <1>2, <1>3, <2>1, <2>2 DEF Locked, Others
<1> QED BY <1>1, <1>2, <1>3, <1>4, EarlyFacts, EarlyStep DEF Early
-----------------------------------------------------------------------------
(***************************************************************************)
(* Under the lock.                                                         *)
(***************************************************************************)

LEMMA HoldFacts ==
    ASSUME IInv, NEW p \in Procs, proc[p].at \in Holding
    PROVE  /\ RestTyped /\ lock = p /\ lock \in Procs \cup {None}
           /\ temps \subseteq [dir : Dirs, by : Procs, nth : Nat] /\ untidy \subseteq Procs
           /\ left \in [kill : Nat, stop : Nat, fail : Nat]
           /\ proc \in [Procs -> Process] /\ proc[p] \in Process /\ proc[p].at # "done"
           /\ Works(p) /\ Linked(p) /\ Above(p) /\ Pinned(p) /\ Readable(p)
BY DEF IInv, RestTyped, Locked, Holding, Writes

LEMMA CurrentIs ==
    ASSUME IInv, NEW p \in Procs, proc[p].at \in Writes \cup {"temp"}
    PROVE  /\ proc[p].todo \in Seq(Records) /\ Len(proc[p].todo) \in Nat /\ Len(proc[p].todo) >= 1
           /\ Current(p) = proc[p].todo[1] /\ Current(p) \in Records /\ Current(p).dir \in Dirs
           /\ Owner(Current(p)) = p /\ Current(p) \notin proc[p].wrote
           /\ OwnTemp(p) \in [dir : Dirs, by : Procs, nth : Nat]
<1>1. proc[p].at \in Holding
  BY DEF Holding
<1>2. proc[p].todo \in Seq(Records) /\ proc[p].todo # <<>>
  BY <1>1, HoldFacts DEF Works, Process
<1>3. Len(proc[p].todo) \in Nat /\ Len(proc[p].todo) >= 1
  BY <1>2
<1>4. Current(p) = proc[p].todo[1] /\ Current(p) \in Records
  BY <1>2, <1>3 DEF Current
<1>5. Current(p).dir \in Dirs
  BY <1>4 DEF Records
<1>6. Owner(Current(p)) = p /\ Current(p) \notin proc[p].wrote
  BY <1>1, <1>3, <1>4, HoldFacts DEF Works
<1> QED BY <1>2, <1>3, <1>4, <1>5, <1>6 DEF OwnTemp

LEMMA FailsTyped ==
    ASSUME left \in [kill : Nat, stop : Nat, fail : Nat], left' = left \/ Fails
    PROVE  left' \in [kill : Nat, stop : Nat, fail : Nat]
BY DEF Fails

\* Works is about what a process has to write and has written; it may go on.
LEMMA WorksOn ==
    ASSUME IInv, NEW p \in Procs, proc[p].at \in Holding \ {"judge"},
           proc'[p].todo = proc[p].todo, proc'[p].wrote = proc[p].wrote,
           proc'[p].at \notin Early,
           proc'[p].at \in Writes \cup {"temp"} => proc[p].at \in Writes \cup {"temp"},
           proc'[p].at \in {"temp", "link", "sync"} => proc'[p].ok,
           proc'[p].at \in {"unlink", "resync", "undo"} => ~proc'[p].ok
    PROVE  Works(p)'
<1>1. Works(p)
  BY HoldFacts
<1> QED BY <1>1 DEF Works, Early, Begins

\* Nothing new is about to be told of.
LEMMA FirmOn ==
    ASSUME IInv, NEW p \in Procs, Others(p), told' = told, proc[p].at \in Holding,
           proc'[p].todo = proc[p].todo, proc'[p].wrote = proc[p].wrote,
           proc'[p].ok => proc[p].ok,
           proc'[p].at = "clean" /\ proc'[p].ok => proc[p].at = "clean"
    PROVE  \A r : Firm(r)' => Firm(r)
<1>1. Current(p)' = Current(p)
  BY DEF Current
<1>2. \A r : r \in told => Firm(r)
  BY DEF Firm
<1>3. \A r : proc[p].at \in Holding /\ proc[p].ok
             /\ (r \in proc[p].wrote \/ (proc[p].at = "clean" /\ r = Current(p))) => Firm(r)
  BY DEF Firm
<1> QED BY <1>1, <1>2, <1>3, FirmLess

\* The step failed, or the process is at taking back what it did.
LEMMA Failing ==
    ASSUME IInv, NEW p \in Procs, proc[p].at \in Holding \ {"judge"}, Others(p),
           UNCHANGED <<files, safe, loose, rooted, lock, told>>,
           untidy \subseteq untidy', untidy' \subseteq Procs,
           temps' \subseteq temps \cup {OwnTemp(p)},
           left' = left \/ Fails,
           proc'[p].todo = proc[p].todo, proc'[p].wrote = proc[p].wrote,
           proc'[p].ok = FALSE, proc'[p].answer # "unreadable",
           proc'[p].at \in {"clean", "unlink", "undo", "unlock"},
           proc'[p].at \in {"clean", "unlink"} => proc[p].at \in Writes \cup {"temp"},
           proc'[p].at = "unlink" => proc[p].at = "sync",
           proc'[p].at \in {"undo", "unlock"} =>
             temps' \subseteq temps /\ \A t \in temps' : t.by # p \/ t.by \in untidy'
    PROVE  IInv'
<1>1. Current(p)' = Current(p) /\ OwnTemp(p)' = OwnTemp(p)
  BY DEF Current, OwnTemp
<1>2. Works(p)'
  BY WorksOn DEF Early, Begins, Holding, Writes
<1>3. Linked(p)' /\ Above(p)' /\ Readable(p)'
  BY <1>1, HoldFacts DEF Linked, Above, Readable
<1>4. Pinned(p)'
  BY <1>1, HoldFacts DEF Pinned, Writes
<1>5. \A r : Firm(r)' => Firm(r)
  BY FirmOn
<1>6. Temporary'
  <2>1. ASSUME NEW t \in temps', t.by = p, t.by \notin untidy'
        PROVE  t = OwnTemp(p)' /\ proc'[p].at \in Writes
    <3>1. proc'[p].at \in {"clean", "unlink"}
      BY <2>1
    <3>2. t = OwnTemp(p)
      BY <2>1 DEF IInv, Temporary
    <3> QED BY <1>1, <3>1, <3>2 DEF Writes
  <2>2. ASSUME NEW t \in temps', t \notin temps
        PROVE  t.by = p
    BY <2>2 DEF OwnTemp
  <2> QED BY <2>1, <2>2, TempsKept
<1>7. UnreadableByLeftovers'
  BY UnreadableStays
<1>8. Locked'
  BY LockKept DEF Holding, Writes
<1>9. p \notin Pending' /\ proc'[p].at \notin Early
  BY DEF Pending, Early, Begins
<1>10. left' \in [kill : Nat, stop : Nat, fail : Nat] /\ temps' \subseteq [dir : Dirs, by : Procs, nth : Nat]
  <2>1. CASE proc[p].at \in Writes \cup {"temp"}
    BY <2>1, HoldFacts, FailsTyped, CurrentIs
  <2>2. CASE proc[p].at \notin Writes \cup {"temp"}
    <3>1. proc'[p].at \in {"undo", "unlock"}
      BY <2>2
    <3> QED BY <3>1, HoldFacts, FailsTyped
  <2> QED BY <2>1, <2>2
<1> QED BY <1>1, <1>2, <1>3, <1>4, <1>5, <1>6, <1>7, <1>8, <1>9, <1>10, HoldFacts, Quiet

\* Where no temporary file appears and none has to stay.
LEMMA FailingClean ==
    ASSUME IInv, NEW p \in Procs, proc[p].at \in Holding \ {"judge"}, Others(p),
           UNCHANGED <<files, safe, loose, rooted, lock, told, untidy>>, temps' \subseteq temps,
           left' = left \/ Fails,
           proc'[p].todo = proc[p].todo, proc'[p].wrote = proc[p].wrote,
           proc'[p].ok = FALSE, proc'[p].answer # "unreadable",
           proc'[p].at \in {"clean", "unlink", "undo", "unlock"},
           proc'[p].at \in {"clean", "unlink"} => proc[p].at \in Writes,
           proc'[p].at = "unlink" => proc[p].at = "sync",
           proc'[p].at \in {"undo", "unlock"} => \A t \in temps' : t.by # p \/ t.by \in untidy
    PROVE  IInv'
<1>1. untidy \subseteq untidy' /\ untidy' \subseteq Procs
  BY HoldFacts
<1>2. temps' \subseteq temps \cup {OwnTemp(p)}
  OBVIOUS
<1>3. proc'[p].at \in {"undo", "unlock"} =>
        temps' \subseteq temps /\ \A t \in temps' : t.by # p \/ t.by \in untidy'
  OBVIOUS
<1>4. proc'[p].at \in {"clean", "unlink"} => proc[p].at \in Writes \cup {"temp"}
  OBVIOUS
<1> QED BY <1>1, <1>2, <1>3, <1>4, Failing

LEMMA WriteTempKeeps == ASSUME IInv, NEW p \in Procs, WriteTemp(p) PROVE IInv'
<1>1. proc[p].at = "temp" /\ proc[p].at \in Holding
  BY DEF WriteTemp, At, Holding
<1>2. UNCHANGED <<files, safe, loose, rooted, lock, told, untidy>>
  BY DEF WriteTemp
<1>3. RestTyped /\ proc[p].ok
  BY <1>1, HoldFacts DEF Works
<1>4. CASE temps' = temps \cup {OwnTemp(p)} /\ Goes(p, "link") /\ left' = left
  <2>1. Others(p) /\ proc'[p].at = "link" /\ proc'[p].ok = proc[p].ok
        /\ proc'[p].answer = proc[p].answer
        /\ proc'[p].todo = proc[p].todo /\ proc'[p].wrote = proc[p].wrote
    BY <1>3, <1>4, Going DEF Places, Holding, Writes
  <2>2. Current(p)' = Current(p) /\ OwnTemp(p)' = OwnTemp(p)
    BY <2>1 DEF Current, OwnTemp
  <2>3. Works(p)'
    BY <1>1, <1>3, <2>1, WorksOn DEF Early, Begins, Holding, Writes
  <2>4. Linked(p)' /\ Above(p)' /\ Readable(p)'
    BY <1>1, <1>2, <2>1, <2>2, HoldFacts DEF Linked, Above, Readable, Begins, Holding, Writes
  <2>5. Pinned(p)'
    BY <1>1, <1>2, <2>1, <2>2, HoldFacts DEF Pinned, Writes
  <2>6. \A r : Firm(r)' => Firm(r)
    BY <1>1, <1>2, <2>1, FirmOn
  <2>7. Temporary'
    <3>1. \A t \in temps : t.by = p => t.by \in untidy
      BY <1>1 DEF IInv, Temporary, Writes
    <3>2. proc'[p].at \in Writes
      BY <2>1 DEF Writes
    <3> QED BY <1>2, <1>4, <2>1, <2>2, <3>1, <3>2, TempsKept
  <2>8. UnreadableByLeftovers'
    BY <1>2, <2>1, UnreadableStays
  <2>9. Locked'
    BY <1>1, <1>2, <2>1, LockKept DEF Holding, Writes
  <2>10. p \in Pending' => p \in Pending
    BY <1>1, <2>1, <2>2 DEF Pending
  <2>11. temps' \subseteq [dir : Dirs, by : Procs, nth : Nat] /\ proc'[p].at \notin Early
    BY <1>1, <1>4, <2>1, HoldFacts, CurrentIs DEF Early, Begins
  <2> QED BY <1>1, <1>2, <1>4, <2>1, <2>2, <2>3, <2>4, <2>5, <2>6, <2>7, <2>8, <2>9, <2>10, <2>11,
             HoldFacts, Quiet
<1>5. CASE Fails /\ Ends(p, "clean", "failed") /\ temps' \in {temps, temps \cup {OwnTemp(p)}}
  <2>1. Others(p) /\ proc'[p].at = "clean" /\ proc'[p].ok = FALSE
        /\ proc'[p].answer = "failed"
        /\ proc'[p].todo = proc[p].todo /\ proc'[p].wrote = proc[p].wrote
    BY <1>3, <1>5, Ending DEF Places, Holding, Writes, Answers
  <2>2. temps' \subseteq temps \cup {OwnTemp(p)} /\ untidy' \subseteq Procs /\ untidy \subseteq untidy'
    BY <1>2, <1>3, <1>5 DEF RestTyped
  <2> QED BY <1>1, <1>2, <1>5, <2>1, <2>2, Failing
<1> QED BY <1>4, <1>5 DEF WriteTemp

\* Changing one directory.
LEMMA DirChanged ==
    ASSUME DiskTyped, NEW d \in Dirs, NEW f, NEW s, NEW l,
           f \subseteq Records, s \subseteq Records, l \subseteq Records,
           IsFiniteSet(f), IsFiniteSet(s), IsFiniteSet(l),
           files' = [files EXCEPT ![d] = f], safe' = [safe EXCEPT ![d] = s],
           loose' = [loose EXCEPT ![d] = l]
    PROVE  DiskTyped' /\ files'[d] = f /\ safe'[d] = s /\ loose'[d] = l
           /\ \A e \in Dirs \ {d} : files'[e] = files[e] /\ safe'[e] = safe[e] /\ loose'[e] = loose[e]
BY DEF DiskTyped

LEMMA DirFacts ==
    ASSUME DiskTyped, NEW d \in Dirs
    PROVE  /\ files[d] \subseteq Records /\ safe[d] \subseteq Records /\ loose[d] \subseteq Records
           /\ IsFiniteSet(files[d]) /\ IsFiniteSet(safe[d]) /\ IsFiniteSet(loose[d])
           /\ files = [files EXCEPT ![d] = files[d]] /\ safe = [safe EXCEPT ![d] = safe[d]]
           /\ loose = [loose EXCEPT ![d] = loose[d]]
BY DEF DiskTyped

LEMMA OneMore ==
    ASSUME NEW S, NEW r, IsFiniteSet(S)
    PROVE  IsFiniteSet(S \cup {r}) /\ IsFiniteSet(S \ {r})
BY FS_AddElement, FS_RemoveElement

\* A step that changes the files, by the holder of the lock.
LEMMA Holder ==
    ASSUME IInv, NEW p \in Procs, Others(p), proc[p].at \in Holding \ {"judge"},
           UNCHANGED <<rooted, temps, lock, told, untidy>>, left' = left \/ Fails,
           DiskTyped', OwnTemp(p)' = OwnTemp(p),
           proc[p].at \in Writes <=> proc'[p].at \in Writes,
           proc'[p].at \in Holding \ {"judge"}, proc'[p].answer # "unreadable",
           files'["revisions"] \cup safe'["revisions"] \cup loose'["revisions"] \subseteq Revisions,
           p \notin Pending', FirmKept', FirmOver',
           Works(p)', Linked(p)', Above(p)', Pinned(p)'
    PROVE  IInv'
<1>1. RestTyped'
  BY HoldFacts, FailsTyped DEF IInv, RestTyped, Others
<1>2. lock = p /\ proc[p].at # "done" /\ proc'[p].at \notin Early
  BY HoldFacts DEF Early, Begins, Holding, Writes
<1>3. Readable(p)'
  BY DEF Readable
<1>4. \A q \in Procs : Readable(q)' /\ Works(q)' /\ Linked(q)' /\ Above(q)' /\ Pinned(q)'
  <2> SUFFICES ASSUME NEW q \in Procs, q # p
               PROVE  Readable(q)' /\ Works(q)' /\ Linked(q)' /\ Above(q)' /\ Pinned(q)'
    BY <1>3
  <2> QED BY <1>2, OthersKeep
<1>5. Lineage(Revisions)' /\ Untouched(Revisions)'
  <2>1. Revisions' \subseteq Revisions
    BY RevisionsKept
  <2>2. \A q \in Procs : proc'[q].at \in Early => proc[q].at \in Early
    BY <1>2 DEF Others
  <2> QED BY <2>1, <2>2, TraceKept
<1>6. Told' /\ Locked' /\ UnreadableByLeftovers'
  BY <1>2, ToldStays, LockKept, UnreadableStays
<1>7. Temporary'
  <2>1. \A t \in temps : t.by = p => t.by \in untidy \/ (proc[p].at \in Writes /\ t = OwnTemp(p))
    BY DEF IInv, Temporary
  <2> QED BY <2>1, TempsKept
<1> QED BY <1>1, <1>4, <1>5, <1>6, <1>7 DEF IInv

LEMMA LinkKeeps == ASSUME IInv, NEW p \in Procs, Link(p) PROVE IInv'
<1>1. proc[p].at = "link" /\ proc[p].at \in Holding \ {"judge"} /\ proc[p].at \in Writes
  BY DEF Link, At, Holding, Writes
<1>2. UNCHANGED <<safe, rooted, temps, lock, told, untidy>>
  BY DEF Link
<1>3. RestTyped /\ DiskTyped /\ proc[p].ok
  BY <1>1, HoldFacts DEF Works, IInv
<1> DEFINE r == Current(p)
<1>4. r \in Records /\ r.dir \in Dirs /\ Owner(r) = p
  BY <1>1, CurrentIs
<1>5. CASE /\ files' = [files EXCEPT ![r.dir] = @ \cup {r}]
           /\ loose' = [loose EXCEPT ![r.dir] = @ \cup {r}]
           /\ Goes(p, "sync") /\ left' = left
  <2>1. Others(p) /\ proc'[p].at = "sync" /\ proc'[p].ok = proc[p].ok
        /\ proc'[p].answer = proc[p].answer
        /\ proc'[p].todo = proc[p].todo /\ proc'[p].wrote = proc[p].wrote
    BY <1>3, <1>5, Going DEF Places, Holding, Writes
  <2>2. Current(p)' = r /\ OwnTemp(p)' = OwnTemp(p)
    BY <2>1 DEF Current, OwnTemp
  <2>3. /\ DiskTyped'
        /\ files'[r.dir] = files[r.dir] \cup {r} /\ safe'[r.dir] = safe[r.dir]
        /\ loose'[r.dir] = loose[r.dir] \cup {r}
        /\ \A e \in Dirs \ {r.dir} : files'[e] = files[e] /\ safe'[e] = safe[e] /\ loose'[e] = loose[e]
    <3> HIDE DEF r
    <3>1. safe' = [safe EXCEPT ![r.dir] = safe[r.dir]]
      BY <1>2, <1>3, <1>4, DirFacts
    <3>2. /\ files[r.dir] \cup {r} \subseteq Records /\ IsFiniteSet(files[r.dir] \cup {r})
          /\ loose[r.dir] \cup {r} \subseteq Records /\ IsFiniteSet(loose[r.dir] \cup {r})
          /\ safe[r.dir] \subseteq Records /\ IsFiniteSet(safe[r.dir])
      BY <1>3, <1>4, DirFacts, OneMore
    <3>3. files' = [files EXCEPT ![r.dir] = @ \cup {r}] /\ loose' = [loose EXCEPT ![r.dir] = @ \cup {r}]
      BY <1>5
    <3> QED BY <1>3, <1>4, <3>1, <3>2, <3>3 DEF DiskTyped
  <2>4. Works(p)'
    BY <1>1, <1>3, <2>1, WorksOn DEF Early, Begins, Holding, Writes
  <2>5. Linked(p)'
    BY <2>2, <2>3 DEF Linked
  <2>6. Above(p)'
    <3>1. r.dir = "revisions" => \A s \in files["revisions"] : s = r \/ s.id \in r.past
      BY <1>1, HoldFacts DEF Above
    <3> HIDE DEF r
    <3> QED BY <2>2, <2>3, <3>1 DEF Above
  <2>7. r.dir = "evidence" => files'["revisions"] = files["revisions"]
    BY <2>3 DEF Dirs
  <2>8. Pinned(p)'
    <3>1. CASE Len(proc[p].todo) = 1 /\ r.dir = "revisions"
      BY <2>1, <2>2, <3>1 DEF Pinned
    <3>2. CASE \A i \in 1..Len(proc[p].todo) :
                 /\ proc[p].todo[i].dir = "evidence"
                 /\ Heads(files["revisions"]) = {proc[p].todo[i].pin}
      <4>1. r.dir = "evidence"
        BY <1>1, <3>2, CurrentIs
      <4>2. \A i \in 1..Len(proc'[p].todo) :
                 /\ proc'[p].todo[i].dir = "evidence"
                 /\ Heads(files'["revisions"]) = {proc'[p].todo[i].pin}
        BY <2>1, <2>7, <3>2, <4>1
      <4> QED BY <4>2 DEF Pinned
    <3> QED BY <1>1, <3>1, <3>2, HoldFacts DEF Pinned
  <2>9. \A s : Firm(s)' => Firm(s)
    BY <1>1, <1>2, <2>1, FirmOn
  <2>10. \A s : Firm(s) => s # r
    <3>1. \A s \in told : s # r
      <4> SUFFICES ASSUME r \in told PROVE FALSE
        OBVIOUS
      <4>1. PICK q \in Procs : Owner(r) = q /\ proc[q].at = "done"
        BY DEF IInv, Told
      <4> QED BY <1>1, <1>4, <4>1
    <3>2. r \notin proc[p].wrote
      BY <1>1, CurrentIs
    <3>3. \A q \in Procs : proc[q].at \in Holding => q = p
      BY <1>1 DEF IInv, Locked
    <3> QED BY <1>1, <3>1, <3>2, <3>3 DEF Firm
  <2>11. FirmKept'
    <3> HIDE DEF r
    <3> SUFFICES ASSUME NEW s \in Records, Firm(s), ~(s.dir = "evidence" /\ ~rooted)
                 PROVE  Kept(s)'
      BY <1>2, <2>9 DEF FirmKept
    <3>1. Kept(s) /\ s # r /\ s.dir \in Dirs
      BY <2>10 DEF IInv, FirmKept, Records
    <3> QED BY <2>3, <3>1 DEF Kept
  <2>12. files'["revisions"] \cup safe'["revisions"] \cup loose'["revisions"]
           \subseteq files["revisions"] \cup safe["revisions"] \cup loose["revisions"]
                       \cup (IF r.dir = "revisions" THEN {r} ELSE {})
    <3> HIDE DEF r
    <3> QED BY <1>4, <2>3 DEF Dirs
  <2>13. FirmOver'
    <3> SUFFICES ASSUME NEW t \in Records, Firm(t), t.dir = "revisions",
                        NEW s \in files'["revisions"] \cup safe'["revisions"] \cup loose'["revisions"]
                 PROVE  s = t \/ s.id \in t.past \/ t.id \in s.past
      BY <2>9 DEF FirmOver
    <3>1. CASE s \in files["revisions"] \cup safe["revisions"] \cup loose["revisions"]
      BY <3>1 DEF IInv, FirmOver
    <3>2. CASE s = r /\ r.dir = "revisions"
      <4>1. t \in files["revisions"]
        BY DEF IInv, FirmKept, Kept
      <4> QED BY <1>1, <3>2, <4>1, HoldFacts DEF Above
    <3> QED BY <2>12, <3>1, <3>2
  <2>14. files'["revisions"] \cup safe'["revisions"] \cup loose'["revisions"] \subseteq Revisions
    <3>1. r.dir = "revisions" => r \in Revisions
      BY <1>1 DEF Revisions, Pending
    <3> QED BY <2>12, <3>1 DEF Revisions
  <2>15. p \notin Pending' /\ proc'[p].answer # "unreadable"
    BY <1>1, <2>1, HoldFacts DEF Pending, Readable, Holding
  <2>16. proc'[p].at \in Writes /\ proc'[p].at \in Holding \ {"judge"}
    BY <2>1 DEF Holding, Writes
  <2> QED BY <1>1, <1>2, <1>5, <2>1, <2>2, <2>3, <2>4, <2>5, <2>6, <2>8, <2>11, <2>13, <2>14,
             <2>15, <2>16, Holder
<1>6. CASE Fails /\ Ends(p, "clean", "failed") /\ UNCHANGED <<files, loose>>
  <2>1. Others(p) /\ proc'[p].at = "clean" /\ proc'[p].ok = FALSE
        /\ proc'[p].answer = "failed"
        /\ proc'[p].todo = proc[p].todo /\ proc'[p].wrote = proc[p].wrote
    BY <1>3, <1>6, Ending DEF Places, Holding, Writes, Answers
  <2> QED BY <1>1, <1>2, <1>6, <2>1, FailingClean
<1> QED BY <1>5, <1>6 DEF Link

\* A directory is synced.
LEMMA Synced ==
    ASSUME DiskTyped, NEW d \in Dirs, SyncDir(d), files' = files
    PROVE  /\ DiskTyped' /\ safe'[d] = files[d] /\ loose'[d] = {}
           /\ \A e \in Dirs \ {d} : safe'[e] = safe[e] /\ loose'[e] = loose[e]
           /\ \A e \in Dirs : files'[e] \cup safe'[e] \cup loose'[e]
                                \subseteq files[e] \cup safe[e] \cup loose[e]
           /\ \A s \in Records : Kept(s) => Kept(s)'
<1>1. /\ files[d] \subseteq Records /\ IsFiniteSet(files[d])
      /\ files' = [files EXCEPT ![d] = files[d]]
  BY DirFacts
<1>2. IsFiniteSet({}) /\ {} \subseteq Records
  BY FS_EmptySet
<1>3. /\ DiskTyped' /\ safe'[d] = files[d] /\ loose'[d] = {}
      /\ \A e \in Dirs \ {d} : safe'[e] = safe[e] /\ loose'[e] = loose[e]
  BY <1>1, <1>2 DEF SyncDir, DiskTyped
<1>4. \A e \in Dirs : files'[e] \cup safe'[e] \cup loose'[e] \subseteq files[e] \cup safe[e] \cup loose[e]
  BY <1>3
<1>5. ASSUME NEW s \in Records, Kept(s) PROVE Kept(s)'
  <2>1. s.dir \in Dirs
    BY DEF Records
  <2> QED BY <1>3, <1>5, <2>1 DEF Kept
<1> QED BY <1>3, <1>4, <1>5

LEMMA SyncRecordKeeps == ASSUME IInv, NEW p \in Procs, SyncRecord(p) PROVE IInv'
<1>1. proc[p].at = "sync" /\ proc[p].at \in Holding \ {"judge"} /\ proc[p].at \in Writes
  BY DEF SyncRecord, At, Holding, Writes
<1>2. UNCHANGED <<files, rooted, temps, lock, told, untidy>>
  BY DEF SyncRecord
<1>3. RestTyped /\ DiskTyped /\ proc[p].ok
  BY <1>1, HoldFacts DEF Works, IInv
<1> DEFINE r == Current(p)
<1>4. r \in Records /\ r.dir \in Dirs /\ r \in files[r.dir]
  BY <1>1, CurrentIs, HoldFacts DEF Linked
<1>5. CASE SyncDir(r.dir) /\ Goes(p, "clean") /\ left' = left
  <2>1. Others(p) /\ proc'[p].at = "clean" /\ proc'[p].ok = proc[p].ok
        /\ proc'[p].answer = proc[p].answer
        /\ proc'[p].todo = proc[p].todo /\ proc'[p].wrote = proc[p].wrote
    BY <1>3, <1>5, Going DEF Places, Holding, Writes
  <2>2. Current(p)' = r /\ OwnTemp(p)' = OwnTemp(p)
    BY <2>1 DEF Current, OwnTemp
  <2>3. /\ DiskTyped' /\ safe'[r.dir] = files[r.dir] /\ loose'[r.dir] = {}
        /\ \A e \in Dirs : files'[e] \cup safe'[e] \cup loose'[e]
                             \subseteq files[e] \cup safe[e] \cup loose[e]
        /\ \A s \in Records : Kept(s) => Kept(s)'
    <3> HIDE DEF r
    <3> QED BY <1>2, <1>3, <1>4, <1>5, Synced
  <2>4. Works(p)'
    BY <1>1, <1>3, <2>1, WorksOn DEF Early, Begins, Holding, Writes
  <2>5. Linked(p)' /\ Above(p)'
    BY <2>1 DEF Linked, Above
  <2>6. Pinned(p)'
    BY <1>1, <1>2, <2>1, <2>2, HoldFacts DEF Pinned, Writes
  <2>7. \A s : Firm(s)' => Firm(s) \/ s = r
    <3> SUFFICES ASSUME NEW s, Firm(s)', ~Firm(s) PROVE s = r
      OBVIOUS
    <3>1. s \notin told'
      BY <1>2 DEF Firm
    <3>2. PICK q \in Procs :
            /\ proc'[q].at \in Holding /\ proc'[q].ok
            /\ s \in proc'[q].wrote \/ (proc'[q].at = "clean" /\ s = Current(q)')
      BY <3>1 DEF Firm
    <3>3. q = p
      BY <2>1, <3>2 DEF Others, Firm, Current
    <3>4. s \notin proc[p].wrote
      BY <1>1, <1>3 DEF Firm
    <3> QED BY <2>1, <2>2, <3>2, <3>3, <3>4
  <2>8. r \in files'[r.dir] /\ r \in safe'[r.dir] /\ r \notin loose'[r.dir]
    <3> HIDE DEF r
    <3> QED BY <1>2, <1>4, <2>3
  <2>9. FirmKept'
    <3> SUFFICES ASSUME NEW s \in Records, Firm(s)', ~(s.dir = "evidence" /\ ~rooted)
                 PROVE  Kept(s)'
      BY <1>2 DEF FirmKept
    <3>1. CASE Firm(s)
      <4>1. Kept(s)
        BY <3>1 DEF IInv, FirmKept
      <4> QED BY <2>3, <4>1
    <3>2. CASE s = r
      BY <2>8, <3>2 DEF Kept
    <3> QED BY <2>7, <3>1, <3>2
  <2>10. files'["revisions"] \cup safe'["revisions"] \cup loose'["revisions"]
           \subseteq files["revisions"] \cup safe["revisions"] \cup loose["revisions"]
    BY <2>3 DEF Dirs
  <2>11. FirmOver'
    <3> SUFFICES ASSUME NEW t \in Records, Firm(t)', t.dir = "revisions",
                        NEW s \in files'["revisions"] \cup safe'["revisions"] \cup loose'["revisions"]
                 PROVE  s = t \/ s.id \in t.past \/ t.id \in s.past
      BY DEF FirmOver
    <3>1. CASE Firm(t)
      BY <2>10, <3>1 DEF IInv, FirmOver
    <3>2. CASE t = r
      <4>1. s \in files["revisions"]
        <5> HIDE DEF r
        <5> QED BY <1>2, <2>3, <3>2
      <4>2. Above(p)
        BY <1>1, HoldFacts
      <4> QED BY <1>1, <3>2, <4>1, <4>2 DEF Above
    <3> QED BY <2>7, <3>1, <3>2
  <2>12. files'["revisions"] \cup safe'["revisions"] \cup loose'["revisions"] \subseteq Revisions
    BY <2>10 DEF Revisions
  <2>13. p \notin Pending' /\ proc'[p].answer # "unreadable"
    BY <1>1, <2>1, HoldFacts DEF Pending, Readable, Holding
  <2>14. proc'[p].at \in Writes /\ proc'[p].at \in Holding \ {"judge"}
    BY <2>1 DEF Holding, Writes
  <2> QED BY <1>1, <1>2, <1>5, <2>1, <2>2, <2>3, <2>4, <2>5, <2>6, <2>9, <2>11, <2>12,
             <2>13, <2>14, Holder
<1>6. CASE Fails /\ Ends(p, "unlink", "failed") /\ UNCHANGED <<safe, loose>>
  <2>1. Others(p) /\ proc'[p].at = "unlink" /\ proc'[p].ok = FALSE
        /\ proc'[p].answer = "failed"
        /\ proc'[p].todo = proc[p].todo /\ proc'[p].wrote = proc[p].wrote
    BY <1>3, <1>6, Ending DEF Places, Holding, Writes, Answers
  <2> QED BY <1>1, <1>2, <1>6, <2>1, FailingClean
<1> QED BY <1>5, <1>6 DEF SyncRecord

\* What a failed process may remove is nothing anybody counts on.
LEMMA Removal ==
    ASSUME IInv, NEW p \in Procs, proc[p].at \in Holding, ~proc[p].ok,
           NEW d \in Dirs, NEW S, S \subseteq Records, IsFiniteSet(S), \A r \in S : Owner(r) = p,
           files' = [files EXCEPT ![d] = @ \ S], loose' = [loose EXCEPT ![d] = @ \cup S],
           safe' = safe, rooted' = rooted, \A r : Firm(r)' => Firm(r),
           d = "revisions" => S \subseteq files[d]
    PROVE  /\ DiskTyped' /\ FirmKept' /\ FirmOver'
           /\ files'["revisions"] \cup safe'["revisions"] \cup loose'["revisions"]
                \subseteq files["revisions"] \cup safe["revisions"] \cup loose["revisions"]
<1>1. DiskTyped
  BY DEF IInv
<1>2. /\ files[d] \subseteq Records /\ safe[d] \subseteq Records /\ loose[d] \subseteq Records
      /\ IsFiniteSet(files[d]) /\ IsFiniteSet(safe[d]) /\ IsFiniteSet(loose[d])
      /\ safe' = [safe EXCEPT ![d] = safe[d]]
  BY <1>1, DirFacts
<1>3. IsFiniteSet(files[d] \ S) /\ IsFiniteSet(loose[d] \cup S)
  BY <1>2, FS_Difference, FS_Union
<1>4. /\ DiskTyped' /\ files'[d] = files[d] \ S /\ safe'[d] = safe[d] /\ loose'[d] = loose[d] \cup S
      /\ \A e \in Dirs \ {d} : files'[e] = files[e] /\ safe'[e] = safe[e] /\ loose'[e] = loose[e]
  BY <1>1, <1>2, <1>3, DirChanged
<1>5. \A r : Firm(r) => r \notin S
  BY HoldFacts, FailedFirm
<1>6. FirmKept'
  <2> SUFFICES ASSUME NEW r \in Records, Firm(r), ~(r.dir = "evidence" /\ ~rooted)
               PROVE  Kept(r)'
    BY DEF FirmKept
  <2>1. Kept(r) /\ r \notin S /\ r.dir \in Dirs
    BY <1>5 DEF IInv, FirmKept, Records
  <2> QED BY <1>4, <2>1 DEF Kept
<1>7. files'["revisions"] \cup safe'["revisions"] \cup loose'["revisions"]
        \subseteq files["revisions"] \cup safe["revisions"] \cup loose["revisions"]
  BY <1>4 DEF Dirs
<1>8. FirmOver'
  BY <1>7 DEF IInv, FirmOver
<1> QED BY <1>4, <1>6, <1>7, <1>8

LEMMA UnlinkKeeps == ASSUME IInv, NEW p \in Procs, Unlink(p) PROVE IInv'
<1>1. proc[p].at = "unlink" /\ proc[p].at \in Holding \ {"judge"} /\ proc[p].at \in Writes
  BY DEF Unlink, At, Holding, Writes
<1>2. UNCHANGED <<safe, rooted, temps, lock, told, untidy>>
  BY DEF Unlink
<1>3. RestTyped /\ DiskTyped /\ ~proc[p].ok /\ proc[p].answer # "unreadable"
  BY <1>1, HoldFacts DEF Works, IInv, Readable
<1> DEFINE r == Current(p)
<1>4. r \in Records /\ r.dir \in Dirs /\ r \in files[r.dir] /\ Owner(r) = p
  BY <1>1, CurrentIs, HoldFacts DEF Linked
<1>5. CASE /\ files' = [files EXCEPT ![r.dir] = @ \ {r}]
           /\ loose' = [loose EXCEPT ![r.dir] = @ \cup {r}]
           /\ Goes(p, "resync") /\ left' = left
  <2>1. Others(p) /\ proc'[p].at = "resync" /\ proc'[p].ok = proc[p].ok
        /\ proc'[p].answer = proc[p].answer
        /\ proc'[p].todo = proc[p].todo /\ proc'[p].wrote = proc[p].wrote
    BY <1>3, <1>5, Going DEF Places, Holding, Writes
  <2>2. Current(p)' = r /\ OwnTemp(p)' = OwnTemp(p)
    BY <2>1 DEF Current, OwnTemp
  <2>3. \A s : Firm(s)' => Firm(s)
    BY <1>1, <1>2, <2>1, FirmOn
  <2>4. /\ DiskTyped' /\ FirmKept' /\ FirmOver'
        /\ files'["revisions"] \cup safe'["revisions"] \cup loose'["revisions"]
             \subseteq files["revisions"] \cup safe["revisions"] \cup loose["revisions"]
    <3>1. {r} \subseteq Records /\ IsFiniteSet({r}) /\ \A s \in {r} : Owner(s) = p
      BY <1>4, FS_Singleton
    <3> DEFINE d == r.dir
               S == {r}
    <3>2. files' = [files EXCEPT ![d] = @ \ S] /\ loose' = [loose EXCEPT ![d] = @ \cup S]
          /\ d \in Dirs /\ S \subseteq Records /\ IsFiniteSet(S) /\ (\A s \in S : Owner(s) = p)
          /\ S \subseteq files[d]
      BY <1>4, <1>5, <3>1
    <3> HIDE DEF d, S
    <3> QED BY <1>1, <1>2, <1>3, <2>3, <3>2, Removal
  <2>5. Works(p)'
    BY <1>1, <1>3, <2>1, WorksOn DEF Early, Begins, Holding, Writes
  <2>6. Linked(p)' /\ Above(p)'
    BY <2>1 DEF Linked, Above
  <2>7. r.dir = "evidence" => files'["revisions"] = files["revisions"]
    <3> HIDE DEF r
    <3> QED BY <1>3, <1>4, <1>5 DEF DiskTyped, Dirs
  <2>8. Pinned(p)'
    <3>1. CASE Len(proc[p].todo) = 1 /\ r.dir = "revisions"
      BY <2>1, <2>2, <3>1 DEF Pinned
    <3>2. CASE \A i \in 1..Len(proc[p].todo) :
                 /\ proc[p].todo[i].dir = "evidence"
                 /\ Heads(files["revisions"]) = {proc[p].todo[i].pin}
      <4>1. r.dir = "evidence"
        BY <1>1, <3>2, CurrentIs
      <4>2. \A i \in 1..Len(proc'[p].todo) :
                 /\ proc'[p].todo[i].dir = "evidence"
                 /\ Heads(files'["revisions"]) = {proc'[p].todo[i].pin}
        BY <2>1, <2>7, <3>2, <4>1
      <4> QED BY <4>2 DEF Pinned
    <3> QED BY <1>1, <3>1, <3>2, HoldFacts DEF Pinned
  <2>9. files'["revisions"] \cup safe'["revisions"] \cup loose'["revisions"] \subseteq Revisions
    BY <2>4 DEF Revisions
  <2>10. p \notin Pending'
    BY <2>1 DEF Pending
  <2>11. proc'[p].at \in Writes /\ proc'[p].at \in Holding \ {"judge"}
    BY <2>1 DEF Holding, Writes
  <2> QED BY <1>1, <1>2, <1>3, <1>5, <2>1, <2>2, <2>4, <2>5, <2>6, <2>8, <2>9, <2>10, <2>11, Holder
<1>6. CASE Fails /\ Goes(p, "clean") /\ UNCHANGED <<files, loose>>
  <2>1. Others(p) /\ proc'[p].at = "clean" /\ proc'[p].ok = proc[p].ok
        /\ proc'[p].answer = proc[p].answer
        /\ proc'[p].todo = proc[p].todo /\ proc'[p].wrote = proc[p].wrote
    BY <1>3, <1>6, Going DEF Places, Holding, Writes
  <2>2. proc'[p].ok = FALSE
    BY <1>1, <1>3, <2>1, HoldFacts DEF Process
  <2> QED BY <1>1, <1>2, <1>3, <1>6, <2>1, <2>2, FailingClean
<1> QED BY <1>5, <1>6 DEF Unlink

LEMMA SyncRemovalKeeps == ASSUME IInv, NEW p \in Procs, SyncRemoval(p) PROVE IInv'
<1>1. proc[p].at = "resync" /\ proc[p].at \in Holding \ {"judge"} /\ proc[p].at \in Writes
  BY DEF SyncRemoval, At, Holding, Writes
<1>2. UNCHANGED <<files, rooted, temps, lock, told, untidy>>
  BY DEF SyncRemoval
<1>3. RestTyped /\ DiskTyped /\ proc[p].ok = FALSE /\ proc[p].answer # "unreadable"
  BY <1>1, HoldFacts DEF Works, IInv, Readable, Process
<1>4. Others(p) /\ proc'[p].at = "clean" /\ proc'[p].ok = proc[p].ok
      /\ proc'[p].answer = proc[p].answer
      /\ proc'[p].todo = proc[p].todo /\ proc'[p].wrote = proc[p].wrote
  BY <1>3, Going DEF SyncRemoval, Places, Holding, Writes
<1>5. CASE SyncDir(Current(p).dir) /\ left' = left
  <2>1. Current(p)' = Current(p) /\ OwnTemp(p)' = OwnTemp(p)
    BY <1>4 DEF Current, OwnTemp
  <2>2. /\ DiskTyped'
        /\ \A e \in Dirs : files'[e] \cup safe'[e] \cup loose'[e]
                             \subseteq files[e] \cup safe[e] \cup loose[e]
        /\ \A s \in Records : Kept(s) => Kept(s)'
    BY <1>1, <1>2, <1>3, <1>5, CurrentIs, Synced
  <2>3. \A s : Firm(s)' => Firm(s)
    BY <1>1, <1>2, <1>3, <1>4, FirmOn
  <2>4. FirmKept'
    BY <1>2, <2>2, <2>3 DEF IInv, FirmKept
  <2>5. files'["revisions"] \cup safe'["revisions"] \cup loose'["revisions"]
          \subseteq files["revisions"] \cup safe["revisions"] \cup loose["revisions"]
    BY <2>2 DEF Dirs
  <2>6. FirmOver'
    BY <2>3, <2>5 DEF IInv, FirmOver
  <2>7. files'["revisions"] \cup safe'["revisions"] \cup loose'["revisions"] \subseteq Revisions
    BY <2>5 DEF Revisions
  <2>8. Works(p)'
    BY <1>1, <1>3, <1>4, WorksOn DEF Early, Begins, Holding, Writes
  <2>9. Linked(p)' /\ Above(p)'
    BY <1>4 DEF Linked, Above
  <2>10. Pinned(p)'
    BY <1>1, <1>2, <1>4, <2>1, HoldFacts DEF Pinned, Writes
  <2>11. p \notin Pending' /\ proc'[p].at \in Writes /\ proc'[p].at \in Holding \ {"judge"}
    BY <1>4 DEF Pending, Holding, Writes
  <2> QED BY <1>1, <1>2, <1>3, <1>4, <1>5, <2>1, <2>2, <2>4, <2>6, <2>7, <2>8, <2>9, <2>10, <2>11,
             Holder
<1>6. CASE Fails /\ UNCHANGED <<safe, loose>>
  BY <1>1, <1>2, <1>3, <1>4, <1>6, FailingClean
<1> QED BY <1>5, <1>6 DEF SyncRemoval

LEMMA UndoKeeps == ASSUME IInv, NEW p \in Procs, Undo(p) PROVE IInv'
<1>1. proc[p].at = "undo" /\ proc[p].at \in Holding \ {"judge"} /\ proc[p].at \notin Writes
  BY DEF Undo, At, Holding, Writes
<1>2. UNCHANGED <<safe, rooted, temps, lock, told, untidy>>
  BY DEF Undo
<1>3. /\ RestTyped /\ DiskTyped /\ proc[p].ok = FALSE /\ proc[p].answer # "unreadable"
      /\ \A r \in proc[p].wrote : Owner(r) = p
  BY <1>1, HoldFacts DEF Works, IInv, Readable, Process
<1>4. Others(p) /\ proc'[p].at = "unlock" /\ proc'[p].ok = proc[p].ok
      /\ proc'[p].answer = proc[p].answer
      /\ proc'[p].todo = proc[p].todo /\ proc'[p].wrote = proc[p].wrote
  BY <1>3, Going DEF Undo, Places, Holding, Writes
<1>5. CASE /\ files' = [files EXCEPT !["evidence"] = @ \ proc[p].wrote]
           /\ loose' = [loose EXCEPT !["evidence"] = @ \cup proc[p].wrote]
           /\ left' = left
  <2>1. Current(p)' = Current(p) /\ OwnTemp(p)' = OwnTemp(p)
    BY <1>4 DEF Current, OwnTemp
  <2>2. \A s : Firm(s)' => Firm(s)
    BY <1>1, <1>2, <1>3, <1>4, FirmOn
  <2>3. proc[p].wrote \subseteq Records /\ IsFiniteSet(proc[p].wrote)
    BY <1>1, HoldFacts DEF Process, Works
  <2>4. /\ DiskTyped' /\ FirmKept' /\ FirmOver'
        /\ files'["revisions"] \cup safe'["revisions"] \cup loose'["revisions"]
             \subseteq files["revisions"] \cup safe["revisions"] \cup loose["revisions"]
    <3> DEFINE d == "evidence"
               S == proc[p].wrote
    <3>1. files' = [files EXCEPT ![d] = @ \ S] /\ loose' = [loose EXCEPT ![d] = @ \cup S]
          /\ d \in Dirs /\ S \subseteq Records /\ IsFiniteSet(S) /\ (\A s \in S : Owner(s) = p)
          /\ d # "revisions"
      BY <1>3, <1>5, <2>3 DEF Dirs
    <3> HIDE DEF d, S
    <3> QED BY <1>1, <1>2, <1>3, <2>2, <3>1, Removal
  <2>5. Works(p)'
    BY <1>1, <1>3, <1>4, WorksOn DEF Early, Begins, Holding, Writes
  <2>6. Linked(p)' /\ Above(p)' /\ Pinned(p)'
    BY <1>4 DEF Linked, Above, Pinned, Writes
  <2>7. files'["revisions"] \cup safe'["revisions"] \cup loose'["revisions"] \subseteq Revisions
    BY <2>4 DEF Revisions
  <2>8. p \notin Pending' /\ proc'[p].at \notin Writes /\ proc'[p].at \in Holding \ {"judge"}
    BY <1>4 DEF Pending, Holding, Writes
  <2> QED BY <1>1, <1>2, <1>3, <1>4, <1>5, <2>1, <2>4, <2>5, <2>6, <2>7, <2>8, Holder
<1>6. CASE Fails /\ UNCHANGED <<files, loose>>
  <2>1. \A t \in temps : t.by # p \/ t.by \in untidy
    BY <1>1 DEF IInv, Temporary
  <2> QED BY <1>1, <1>2, <1>3, <1>4, <1>6, <2>1, FailingClean
<1> QED BY <1>5, <1>6 DEF Undo

LEMMA RemoveTempKeeps == ASSUME IInv, NEW p \in Procs, RemoveTemp(p) PROVE IInv'
<1>1. proc[p].at = "clean" /\ proc[p].at \in Holding \ {"judge"} /\ proc[p].at \in Writes
  BY DEF RemoveTemp, At, Holding, Writes
<1>2. /\ UNCHANGED <<files, safe, loose, rooted, lock, told>> /\ (left' = left \/ Fails)
      /\ temps' \subseteq temps /\ untidy \subseteq untidy' /\ untidy' \subseteq Procs
      /\ temps' = temps \ {OwnTemp(p)} \/ p \in untidy'
  <2>1. untidy \subseteq Procs
    BY <1>1, HoldFacts
  <2> QED BY <2>1 DEF RemoveTemp
<1>3. RestTyped /\ Works(p) /\ Pinned(p) /\ proc[p].answer # "unreadable" /\ proc[p].ok \in BOOLEAN
  BY <1>1, HoldFacts DEF Readable, Process
<1>4. \A t \in temps' : t.by # p \/ t.by \in untidy'
  BY <1>1, <1>2 DEF IInv, Temporary
<1> DEFINE r == Current(p)
           todo == proc[p].todo
           rest == Tail(todo)
           where == IF rest = <<>> THEN "unlock" ELSE "temp"
<1>5. CASE ~proc[p].ok /\ Goes(p, "undo")
  <2>1. Others(p) /\ proc'[p].at = "undo" /\ proc'[p].ok = proc[p].ok
        /\ proc'[p].answer = proc[p].answer
        /\ proc'[p].todo = proc[p].todo /\ proc'[p].wrote = proc[p].wrote
    BY <1>3, <1>5, Going DEF Places, Holding
  <2> QED BY <1>1, <1>2, <1>3, <1>4, <1>5, <2>1, Failing
<1>6. CASE /\ proc[p].ok
           /\ proc' = [proc EXCEPT ![p].at = where, ![p].todo = rest, ![p].wrote = @ \cup {r}]
  <2> DEFINE x == [proc[p] EXCEPT !.at = where, !.todo = rest, !.wrote = @ \cup {r}]
  <2>1. /\ todo \in Seq(Records) /\ Len(todo) \in Nat /\ Len(todo) >= 1
        /\ r = todo[1] /\ r \in Records /\ Owner(r) = p /\ r \notin proc[p].wrote
    BY <1>1, CurrentIs
  <2>2. /\ rest \in Seq(Records) /\ Len(rest) = Len(todo) - 1
        /\ \A i \in 1..Len(rest) : rest[i] = todo[i + 1]
        /\ rest = <<>> <=> Len(todo) = 1
    <3> HIDE DEF r, todo
    <3>1. rest \in Seq(Records) /\ Len(rest) = Len(todo) - 1
      BY <2>1
    <3>2. \A i \in 1..Len(rest) : rest[i] = todo[i + 1]
      BY <2>1
    <3>3. rest = <<>> <=> Len(rest) = 0
      <4> HIDE DEF rest
      <4> QED BY <3>1, EmptySeq
    <3> QED BY <2>1, <3>1, <3>2, <3>3
  <2>3. proc \in [Procs -> Process] /\ proc[p] \in Process /\ proc[p].wrote \subseteq Records
    BY <1>1, HoldFacts DEF Process
  <2>4. where \in Places
    BY DEF Places, Holding
  <2>5. x \in Process
    <3> HIDE DEF r, todo, rest, where
    <3> QED BY <2>1, <2>2, <2>3, <2>4 DEF Process, Places
  <2>6. proc' = [proc EXCEPT ![p] = x]
    <3> HIDE DEF r, rest, where
    <3> QED BY <1>6
  <2>7. Others(p) /\ proc'[p] = x
    <3> HIDE DEF x
    <3> QED BY <2>3, <2>5, <2>6 DEF Others
  <2>8. proc'[p].at = where /\ proc'[p].todo = rest /\ proc'[p].wrote = proc[p].wrote \cup {r}
        /\ proc'[p].ok = proc[p].ok /\ proc'[p].answer = proc[p].answer
    <3> HIDE DEF r, rest, where
    <3> QED BY <2>3, <2>7 DEF Process
  <2>9. proc'[p].at = "temp" => rest # <<>>
    BY <2>8
  <2>10. Works(p)'
    <3>1. proc'[p].at \in {"unlock", "temp"}
      BY <2>8
    <3>2. \A s \in proc'[p].wrote : Owner(s) = p
      <4> HIDE DEF r
      <4> QED BY <1>3, <2>1, <2>8 DEF Works
    <3>3. ASSUME NEW i \in 1..Len(proc'[p].todo), NEW j \in 1..Len(proc'[p].todo)
          PROVE  /\ Owner(proc'[p].todo[i]) = p
                 /\ proc'[p].todo[i] \notin proc'[p].wrote
                 /\ proc'[p].todo[i] = proc'[p].todo[j] => i = j
      <4> HIDE DEF r, todo, rest, where
      <4>1. i + 1 \in 1..Len(todo) /\ j + 1 \in 1..Len(todo) /\ 1 \in 1..Len(todo) /\ i + 1 # 1
        BY <2>1, <2>2, <2>8
      <4>2. proc'[p].todo[i] = todo[i + 1] /\ proc'[p].todo[j] = todo[j + 1]
        BY <2>2, <2>8
      <4>3. \A k, l \in 1..Len(todo) :
              /\ Owner(todo[k]) = p /\ todo[k] \notin proc[p].wrote
              /\ todo[k] = todo[l] => k = l
        BY <1>1, <1>3 DEF Works, todo
      <4>4. todo[i + 1] # todo[1]
        BY <4>1, <4>3
      <4>5. i + 1 = j + 1 => i = j
        OBVIOUS
      <4> QED BY <2>1, <2>8, <4>1, <4>2, <4>3, <4>4, <4>5
    <3>4. proc'[p].at \in {"unlock", "temp"} /\ (proc'[p].at = "temp" => proc'[p].todo # <<>>)
      BY <2>8
    <3>5. proc'[p].ok
      BY <1>6, <2>8
    <3>6. IsFiniteSet(proc'[p].wrote)
      <4> HIDE DEF r
      <4>1. IsFiniteSet(proc[p].wrote)
        BY <1>3 DEF Works
      <4> QED BY <2>8, <4>1, FS_AddElement
    <3> HIDE DEF r, todo, rest, where
    <3> QED BY <3>2, <3>3, <3>4, <3>5, <3>6 DEF Works, Begins, Writes
  <2>11. proc'[p].at \in Writes \cup {"temp"} =>
           \A i \in 1..Len(proc'[p].todo) :
             /\ proc'[p].todo[i].dir = "evidence"
             /\ Heads(files'["revisions"]) = {proc'[p].todo[i].pin}
    <3> SUFFICES ASSUME proc'[p].at \in Writes \cup {"temp"},
                        NEW i \in 1..Len(proc'[p].todo)
                 PROVE  /\ proc'[p].todo[i].dir = "evidence"
                        /\ Heads(files'["revisions"]) = {proc'[p].todo[i].pin}
      OBVIOUS
    <3>1. rest # <<>>
      BY <2>8 DEF Writes
    <3>2. Len(todo) # 1
      BY <2>2, <3>1
    <3>3. \A k \in 1..Len(todo) :
            /\ todo[k].dir = "evidence" /\ Heads(files["revisions"]) = {todo[k].pin}
      BY <1>1, <1>3, <3>2 DEF Pinned
    <3> HIDE DEF r, todo, rest, where
    <3>4. i + 1 \in 1..Len(todo) /\ proc'[p].todo[i] = todo[i + 1]
      BY <2>1, <2>2, <2>8
    <3> QED BY <1>2, <3>3, <3>4
  <2>12. Pinned(p)'
    BY <2>11 DEF Pinned
  <2>13. proc'[p].at = "temp" => Current(p)' = proc'[p].todo[1] /\ 1 \in 1..Len(proc'[p].todo)
    <3> HIDE DEF r, todo, rest, where
    <3> QED BY <2>2, <2>8, <2>9 DEF Current
  <2>14. proc'[p].at = "temp" => Current(p)'.dir = "evidence"
    BY <2>11, <2>13
  <2>15. Above(p)' /\ Linked(p)' /\ Readable(p)' /\ p \notin Pending'
    <3>1. proc'[p].at \in {"unlock", "temp"} /\ proc'[p].answer # "unreadable"
      BY <1>3, <2>8
    <3> QED BY <2>14, <3>1 DEF Above, Linked, Readable, Pending
  <2>16. \A s : Firm(s)' => Firm(s)
    <3>1. \A s \in told' : Firm(s)
      BY <1>2 DEF Firm
    <3>2. \A s \in proc[p].wrote \cup {r} : Firm(s)
      BY <1>1, <1>6 DEF Firm
    <3>3. proc'[p].at # "clean" /\ \A s \in proc'[p].wrote : Firm(s)
      BY <2>8, <3>2
    <3> QED BY <2>7, <3>1, <3>3, FirmLess
  <2>17. Temporary' /\ UnreadableByLeftovers'
    <3>1. proc'[p].answer # "unreadable"
      BY <1>3, <2>8
    <3>2. Temporary'
      BY <1>2, <1>4, <2>7, TempsKept
    <3>3. UnreadableByLeftovers'
      BY <1>2, <2>7, <3>1, UnreadableStays
    <3> QED BY <3>2, <3>3
  <2>18. proc'[p].at \in Holding /\ proc'[p].at \notin Early
    BY <2>8 DEF Holding, Early, Begins
  <2>19. Locked'
    BY <1>1, <1>2, <2>7, <2>18, LockKept
  <2>20. temps' \subseteq [dir : Dirs, by : Procs, nth : Nat]
    BY <1>1, <1>2, HoldFacts
  <2>21. left' \in [kill : Nat, stop : Nat, fail : Nat]
    BY <1>1, <1>2, HoldFacts, FailsTyped
  <2> QED BY <1>1, <1>2, <2>7, <2>10, <2>12, <2>15, <2>16, <2>17, <2>18, <2>19, <2>20, <2>21, HoldFacts, Quiet
<1> QED BY <1>5, <1>6 DEF RemoveTemp

LEMMA UnlockKeeps == ASSUME IInv, NEW p \in Procs, Unlock(p) PROVE IInv'
<1>1. proc[p].at = "unlock" /\ proc[p].at \in Holding
  BY DEF Unlock, At, Holding
<1>2. UNCHANGED <<files, safe, loose, rooted, temps, untidy, left>> /\ lock' = None
      /\ told' = told \cup (IF proc[p].ok THEN proc[p].wrote ELSE {})
  BY DEF Unlock, disk
<1>3. RestTyped /\ Works(p) /\ proc[p].wrote \subseteq Records /\ told \subseteq Records
  BY <1>1, HoldFacts DEF Process, RestTyped
<1>4. Others(p) /\ proc'[p].at = "done"
      /\ proc'[p].todo = proc[p].todo /\ proc'[p].wrote = proc[p].wrote
  BY <1>3, Going DEF Unlock, Places
<1>5. Told'
  <2> SUFFICES ASSUME NEW r \in told' PROVE \E q \in Procs : Owner(r) = q /\ proc'[q].at = "done"
    BY DEF Told
  <2>1. CASE r \in told
    <3>1. PICK q \in Procs : Owner(r) = q /\ proc[q].at = "done"
      BY <2>1 DEF IInv, Told
    <3> QED BY <1>4, <3>1 DEF Others
  <2>2. CASE r \in proc[p].wrote
    BY <1>3, <1>4, <2>2 DEF Works
  <2> QED BY <1>2, <2>1, <2>2
<1>6. \A r : Firm(r)' => Firm(r)
  <2>1. \A r \in told' : Firm(r)
    BY <1>1, <1>2 DEF Firm
  <2> QED BY <1>4, <2>1, FirmLess DEF Holding, Writes
<1>7. Temporary'
  <2>1. \A t \in temps : t.by # p \/ t.by \in untidy
    BY <1>1 DEF IInv, Temporary, Writes
  <2> QED BY <1>2, <1>4, <2>1, TempsKept
<1>8. UnreadableByLeftovers'
  BY <1>2, <1>4, UnreadableStays
<1>9. Locked'
  <2>1. \A q \in Procs \ {p} : proc[q].at \notin Holding
    BY <1>1 DEF IInv, Locked
  <2>2. proc'[p].at \notin Holding
    BY <1>4 DEF Holding, Writes
  <2> QED BY <1>2, <1>4, <2>1, <2>2, RecordWritesAssumption DEF Locked, Others
<1>10. Readable(p)' /\ Linked(p)' /\ Above(p)' /\ Pinned(p)'
  BY <1>4 DEF Readable, Linked, Above, Pinned, Begins, Holding, Writes
<1>11. Works(p)'
  BY <1>3, <1>4 DEF Works, Begins, Holding, Writes
<1>12. p \notin Pending' /\ proc'[p].at \notin Early
  BY <1>4 DEF Pending, Early, Begins
<1>13. told' \subseteq Records
  BY <1>2, <1>3
<1> QED BY <1>1, <1>2, <1>4, <1>5, <1>6, <1>7, <1>8, <1>9, <1>10, <1>11, <1>12, <1>13, HoldFacts,
           QuietButTold

LEMMA KillKeeps == ASSUME IInv, NEW p \in Procs, Kill(p) PROVE IInv'
<1>1. proc[p].at # "done"
  BY DEF Kill, Running, At
<1>2. UNCHANGED <<files, safe, loose, rooted, temps, told>> /\ untidy' = untidy \cup {p}
      /\ lock' = (IF lock = p THEN None ELSE lock)
      /\ left.kill > 0 /\ left' = [left EXCEPT !.kill = @ - 1]
  BY DEF Kill, disk
<1>3. RestTyped /\ Works(p)
  BY DEF IInv
<1>4. Others(p) /\ proc'[p].at = "done" /\ ~proc'[p].ok
      /\ proc'[p].todo = proc[p].todo /\ proc'[p].wrote = proc[p].wrote
  BY <1>3, Ending DEF Kill, Places, Answers
<1>5. \A r : Firm(r)' => Firm(r)
  <2>1. \A r \in told' : Firm(r)
    BY <1>2 DEF Firm
  <2> QED BY <1>4, <2>1, FirmLess
<1>6. Temporary'
  BY <1>2, <1>4, TempsKept
<1>7. UnreadableByLeftovers'
  BY <1>2, <1>4, UnreadableStays
<1>8. Locked'
  <2>1. proc'[p].at \notin Holding
    BY <1>4 DEF Holding, Writes
  <2> QED BY <1>2, <1>4, <2>1, RecordWritesAssumption DEF IInv, Locked, Others
<1>9. Readable(p)' /\ Linked(p)' /\ Above(p)' /\ Pinned(p)'
  BY <1>4 DEF Readable, Linked, Above, Pinned, Begins, Holding, Writes
<1>10. Works(p)'
  BY <1>3, <1>4 DEF Works, Begins, Holding, Writes
<1>11. p \notin Pending' /\ proc'[p].at \notin Early
  BY <1>4 DEF Pending, Early, Begins
<1>12. /\ temps' \subseteq [dir : Dirs, by : Procs, nth : Nat] /\ lock' \in Procs \cup {None}
       /\ untidy \subseteq untidy' /\ untidy' \subseteq Procs
       /\ left' \in [kill : Nat, stop : Nat, fail : Nat]
  BY <1>2, <1>3 DEF RestTyped
<1> QED BY <1>1, <1>2, <1>4, <1>5, <1>6, <1>7, <1>8, <1>9, <1>10, <1>11, <1>12, Quiet

LEMMA TidyKeeps == ASSUME IInv, Tidy PROVE IInv'
<1>1. UNCHANGED <<files, safe, loose, rooted, lock, proc, told, untidy, left>> /\ temps' \subseteq temps
  BY DEF Tidy
<1>2. DiskTyped' /\ RestTyped' /\ Locked' /\ Told'
  BY <1>1 DEF IInv, DiskTyped, RestTyped, Locked, Told
<1>3. Temporary'
  <2>1. \A q \in Procs : OwnTemp(q)' = OwnTemp(q)
    BY <1>1 DEF OwnTemp, Current
  <2>2. \A t \in temps : t.by \in Procs
    BY DEF IInv, RestTyped
  <2> QED BY <1>1, <2>1, <2>2 DEF IInv, Temporary
<1>4. \A p \in Procs : Readable(p)' /\ Works(p)' /\ Linked(p)' /\ Above(p)' /\ Pinned(p)'
  <2> SUFFICES ASSUME NEW p \in Procs
               PROVE  Readable(p)' /\ Works(p)' /\ Linked(p)' /\ Above(p)' /\ Pinned(p)'
    OBVIOUS
  <2>1. Readable(p) /\ Works(p) /\ Linked(p) /\ Above(p) /\ Pinned(p) /\ Current(p)' = Current(p)
    BY <1>1 DEF IInv, Current
  <2> QED BY <1>1, <2>1 DEF Readable, Works, Linked, Above, Pinned
<1>5. Revisions' = Revisions
  BY <1>1 DEF Revisions, Pending, Current
<1>6. Lineage(Revisions)' /\ Untouched(Revisions)'
  BY <1>1, <1>5, TraceKept
<1>7. FirmKept' /\ FirmOver'
  <2>1. \A r : Firm(r)' <=> Firm(r)
    BY <1>1 DEF Firm, Current
  <2> QED BY <1>1, <2>1, FirmStays
<1>8. UnreadableByLeftovers'
  BY <1>1 DEF IInv, UnreadableByLeftovers, At
<1> QED BY <1>2, <1>3, <1>4, <1>6, <1>7, <1>8 DEF IInv

LEMMA StopKeeps == ASSUME IInv, Stop PROVE IInv'
<1>1. /\ left.stop > 0 /\ left' = [left EXCEPT !.stop = @ - 1]
      /\ safe' = files' /\ loose' = [d \in Dirs |-> {}] /\ lock' = None
      /\ untidy' = untidy \cup {p \in Procs : Running(p)}
      /\ proc' = [p \in Procs |-> IF Running(p) THEN [proc[p] EXCEPT !.at = "done", !.answer = "killed", !.ok = FALSE]
                                  ELSE proc[p]]
      /\ rooted' = rooted /\ told' = told
  BY DEF Stop
<1>2. PICK lost \in [Dirs -> SUBSET UNION {loose[d] : d \in Dirs}], gone \in BOOLEAN, stay \in SUBSET temps :
        /\ gone => ~rooted
        /\ files' = [d \in Dirs |-> IF gone /\ d = "evidence" THEN {}
                                    ELSE (safe[d] \cup loose[d]) \ lost[d]]
        /\ temps' = stay
        /\ \A d \in Dirs : lost[d] \subseteq loose[d]
  BY DEF Stop
<1>3. DiskTyped /\ RestTyped
  BY DEF IInv
<1>4. \A d \in Dirs : /\ files'[d] \subseteq safe[d] \cup loose[d]
                      /\ IsFiniteSet(files'[d]) /\ files'[d] \subseteq Records
  <2> TAKE d \in Dirs
  <2>1. files'[d] \subseteq safe[d] \cup loose[d]
    BY <1>2
  <2>2. safe[d] \cup loose[d] \subseteq Records /\ IsFiniteSet(safe[d] \cup loose[d])
    BY <1>3, DirFacts, FS_Union
  <2> QED BY <2>1, <2>2, FS_Subset
<1>5. DiskTyped'
  <2>1. files' \in [Dirs -> SUBSET Records]
    BY <1>2, <1>4
  <2> QED BY <1>1, <1>4, <2>1, FS_EmptySet DEF DiskTyped
<1>6. \A p \in Procs : /\ proc'[p].at \in {"idle", "done"} /\ proc'[p].wrote = proc[p].wrote
                       /\ proc'[p].todo = proc[p].todo /\ proc'[p] \in Process
                       /\ proc[p].at = "idle" => proc'[p] = proc[p]
                       /\ proc'[p].at = "idle" => proc[p].at = "idle"
                       /\ proc[p].at = "done" => proc'[p].at = "done"
  <2> TAKE p \in Procs
  <2>1. proc[p] \in Process
    BY <1>3 DEF RestTyped
  <2>2. proc'[p] = IF Running(p) THEN [proc[p] EXCEPT !.at = "done", !.answer = "killed", !.ok = FALSE]
                   ELSE proc[p]
    BY <1>1
  <2>3. CASE Running(p)
    <3>1. proc'[p] = [proc[p] EXCEPT !.at = "done", !.answer = "killed", !.ok = FALSE]
      BY <2>2, <2>3
    <3>2. proc'[p] \in Process
      BY <2>1, <3>1 DEF Process, Answers
    <3>3. proc'[p].at = "done" /\ proc'[p].wrote = proc[p].wrote /\ proc'[p].todo = proc[p].todo
      BY <2>1, <3>1 DEF Process
    <3>4. proc[p].at # "idle"
      BY <2>3 DEF Running, At
    <3> QED BY <3>2, <3>3, <3>4
  <2>4. CASE ~Running(p)
    BY <2>1, <2>2, <2>4 DEF Running, At
  <2> QED BY <2>3, <2>4
<1>7. RestTyped'
  <2>1. proc' \in [Procs -> Process]
    BY <1>1, <1>6
  <2>2. left' \in [kill : Nat, stop : Nat, fail : Nat]
    <3>1. left.stop > 0 /\ left' = [left EXCEPT !.stop = @ - 1]
      BY <1>1
    <3>2. left \in [kill : Nat, stop : Nat, fail : Nat]
      BY <1>3 DEF RestTyped
    <3> QED BY <3>1, <3>2
  <2> QED BY <1>1, <1>2, <1>3, <2>1, <2>2 DEF RestTyped
<1>8. \A p \in Procs : proc'[p].at \notin Holding
  BY <1>6 DEF Holding, Writes
<1>9. Locked' /\ UnreadableByLeftovers'
  BY <1>1, <1>6, <1>8, RecordWritesAssumption DEF Locked, UnreadableByLeftovers, At
<1>10. Temporary'
  <2> SUFFICES ASSUME NEW t \in temps PROVE t.by \in untidy'
    BY <1>2 DEF Temporary
  <2>1. t.by \in Procs
    BY <1>3 DEF RestTyped
  <2>2. t.by \in untidy \/ Running(t.by)
    BY DEF IInv, Temporary, Running, At, Writes
  <2> QED BY <1>1, <2>1, <2>2
<1>11. \A p \in Procs : Readable(p)' /\ Works(p)' /\ Linked(p)' /\ Above(p)' /\ Pinned(p)'
  <2> TAKE p \in Procs
  <2>1. Works(p) /\ Readable(p)
    BY DEF IInv
  <2>2. Linked(p)' /\ Above(p)' /\ Pinned(p)'
    BY <1>6 DEF Linked, Above, Pinned, Writes
  <2>3. Readable(p)' /\ Works(p)'
    <3>1. CASE proc[p].at = "idle"
      BY <1>6, <2>1, <3>1 DEF Readable, Works
    <3>2. CASE proc[p].at # "idle"
      <4>1. proc'[p].at = "done" /\ proc'[p].wrote = proc[p].wrote
        BY <1>6, <3>2
      <4> QED BY <2>1, <4>1 DEF Readable, Works, Begins, Holding, Writes
    <3> QED BY <3>1, <3>2
  <2> QED BY <2>2, <2>3
<1>12. files'["revisions"] \cup safe'["revisions"] \cup loose'["revisions"]
         \subseteq safe["revisions"] \cup loose["revisions"]
  BY <1>1, <1>4 DEF Dirs
<1>13. Lineage(Revisions)' /\ Untouched(Revisions)'
  <2>1. Pending' = {}
    BY <1>6 DEF Pending
  <2>2. Revisions' \subseteq Revisions
    BY <1>12, <2>1 DEF Revisions
  <2>3. \A q \in Procs : proc'[q].at \in Early => proc[q].at \in Early
    BY <1>6 DEF Early, Begins
  <2> QED BY <2>2, <2>3, TraceKept
<1>14. \A r : Firm(r)' => r \in told /\ Firm(r)
  BY <1>1, <1>8 DEF Firm
<1>15. FirmKept'
  <2> SUFFICES ASSUME NEW r \in Records, Firm(r), ~(r.dir = "evidence" /\ ~rooted)
               PROVE  Kept(r)'
    BY <1>1, <1>14 DEF FirmKept
  <2>1. r.dir \in Dirs /\ r \in safe[r.dir] /\ r \notin loose[r.dir]
    BY DEF IInv, FirmKept, Kept, Records
  <2>2. ~(gone /\ r.dir = "evidence")
    BY <1>2
  <2>3. r \in files'[r.dir]
    BY <1>2, <2>1, <2>2
  <2> QED BY <1>1, <2>1, <2>3 DEF Kept
<1>16. FirmOver'
  BY <1>12, <1>14 DEF IInv, FirmOver
<1>17. Told'
  BY <1>1, <1>6 DEF IInv, Told
<1> QED BY <1>5, <1>7, <1>9, <1>10, <1>11, <1>13, <1>15, <1>16, <1>17 DEF IInv
-----------------------------------------------------------------------------
(***************************************************************************)
(* The judgement: the records a command will write.                        *)
(***************************************************************************)

Piece(p, n, parents, pin) == Record("evidence", <<p, n>>, parents, {}, pin)
Latest(S) == CHOOSE h \in Heads(S) : TRUE
Revision(p, S) == Record("revisions", <<p, 1>>, Heads(S), Ancestors(S, Heads(S)), <<None, 0>>)

LEMMA WantedIs ==
    ASSUME NEW p \in Procs, NEW S, NEW E, Wanted(p, S, E) # <<>>
    PROVE  \/ Wanted(p, S, E) = <<Revision(p, S)>>
           \/ /\ Cardinality(Heads(S)) = 1
              /\ \/ Wanted(p, S, E) = <<Piece(p, 1, Heads(E), Latest(S))>>
                 \/ Wanted(p, S, E) = <<Piece(p, 1, {}, Latest(S)), Piece(p, 2, {<<p, 1>>}, Latest(S))>>
<1>1. CASE proc[p].call = "revise"
  BY <1>1 DEF Wanted, Revision
<1>2. CASE proc[p].call = "evidence"
  BY <1>2 DEF Wanted, Piece, Latest
<1>3. CASE proc[p].call = "batch"
  BY <1>3 DEF Wanted, Piece, Latest
<1>4. CASE proc[p].call \notin {"revise", "evidence", "batch"}
  BY <1>4 DEF Wanted
<1> QED BY <1>1, <1>2, <1>3, <1>4

LEMMA HeadsFinite ==
    ASSUME NEW S, IsFiniteSet(S)
    PROVE  IsFiniteSet(Heads(S))
<1> DEFINE f == [r \in S |-> r.id]
<1>1. f \in Surjection(S, Names(S))
  BY DEF Names, Surjection
<1>2. IsFiniteSet(Names(S))
  <2> HIDE DEF f
  <2> QED BY <1>1, FS_Surjection
<1> QED BY <1>2, FS_Subset DEF Heads

LEMMA OneLatest ==
    ASSUME NEW S, IsFiniteSet(S), Cardinality(Heads(S)) = 1
    PROVE  Heads(S) = {Latest(S)}
<1>1. PICK h : Heads(S) = {h}
  BY HeadsFinite, FS_Singleton
<1>2. Latest(S) \in Heads(S)
  BY <1>1 DEF Latest
<1> QED BY <1>1, <1>2

LEMMA RevisionIs ==
    ASSUME IInv, NEW p \in Procs, NEW n, n = Revision(p, files["revisions"])
    PROVE  /\ n \in Records /\ n.dir = "revisions" /\ n.id = <<p, 1>>
           /\ n.parents = Heads(files["revisions"])
           /\ n.past = Ancestors(files["revisions"], Heads(files["revisions"]))
<1>1. <<p, 1>> \in Ids /\ <<None, 0>> \in Ids /\ "revisions" \in Dirs
  BY DEF Ids, Dirs
<1>2. Heads(files["revisions"]) \subseteq Ids /\ files["revisions"] \subseteq Records
  BY FilesFacts
<1>3. Ancestors(files["revisions"], Heads(files["revisions"])) \subseteq Ids
  BY <1>2 DEF Ancestors, Records
<1> DEFINE h == Heads(files["revisions"])
           a == Ancestors(files["revisions"], h)
<1>4. n = [dir |-> "revisions", id |-> <<p, 1>>, parents |-> h, past |-> a, pin |-> <<None, 0>>]
  BY DEF Revision, Record
<1> HIDE DEF h, a
<1>5. h \subseteq Ids /\ a \subseteq Ids
  BY <1>2, <1>3 DEF h, a
<1>6. n \in Records
  BY <1>1, <1>4, <1>5 DEF Records
<1> QED BY <1>4, <1>6 DEF h, a

LEMMA PieceIs ==
    ASSUME NEW p \in Procs, NEW k \in {1, 2}, NEW parents \in SUBSET Ids, NEW pin \in Ids,
           NEW e, e = Piece(p, k, parents, pin)
    PROVE  e \in Records /\ e.dir = "evidence" /\ e.id = <<p, k>> /\ e.pin = pin
<1>1. <<p, k>> \in Ids /\ "evidence" \in Dirs
  BY DEF Ids, Dirs
<1>2. e = [dir |-> "evidence", id |-> <<p, k>>, parents |-> parents, past |-> {}, pin |-> pin]
  BY DEF Piece, Record
<1> QED BY <1>1, <1>2 DEF Records

\* What a command will write: one revision over all, or evidence about the latest.
LEMMA Wants ==
    ASSUME IInv, NEW p \in Procs, NEW W, W = Wanted(p, files["revisions"], files["evidence"]), W # <<>>
    PROVE  /\ W \in Seq(Records)
           /\ \A i, j \in 1..Len(W) : Owner(W[i]) = p /\ (W[i] = W[j] => i = j)
           /\ \/ Len(W) = 1 /\ W[1] = Revision(p, files["revisions"])
              \/ \A i \in 1..Len(W) : W[i].dir = "evidence" /\ Heads(files["revisions"]) = {W[i].pin}
<1> DEFINE S == files["revisions"]
           E == files["evidence"]
           r == Revision(p, S)
           pin == Latest(S)
<1>1. CASE W = <<r>>
  <2>1. r \in Records /\ Owner(r) = p
    BY RevisionIs DEF Owner
  <2> HIDE DEF r
  <2>2. Len(W) = 1 /\ W[1] = r /\ W \in Seq(Records)
    BY <1>1, <2>1
  <2> QED BY <2>1, <2>2 DEF r
<1>2. ASSUME Cardinality(Heads(S)) = 1
      PROVE  pin \in Ids /\ Heads(S) = {pin} /\ Heads(E) \in SUBSET Ids
  BY <1>2, FilesFacts, OneLatest
<1>3. CASE Cardinality(Heads(S)) = 1 /\ W = <<Piece(p, 1, Heads(E), pin)>>
  <2> DEFINE e == Piece(p, 1, Heads(E), pin)
  <2>1. e \in Records /\ e.dir = "evidence" /\ e.id = <<p, 1>> /\ e.pin = pin
    BY <1>2, <1>3, PieceIs
  <2>2. W = <<e>>
    BY <1>3
  <2> HIDE DEF e
  <2>3. Len(W) = 1 /\ W[1] = e /\ W \in Seq(Records)
    BY <2>1, <2>2
  <2>4. \A i \in 1..Len(W) : W[i] = e /\ i = 1
    BY <2>3
  <2> HIDE DEF pin
  <2> QED BY <1>2, <1>3, <2>1, <2>3, <2>4 DEF Owner
<1>4. CASE Cardinality(Heads(S)) = 1
           /\ W = <<Piece(p, 1, {}, pin), Piece(p, 2, {<<p, 1>>}, pin)>>
  <2> DEFINE e == Piece(p, 1, {}, pin)
             f == Piece(p, 2, {<<p, 1>>}, pin)
  <2>1. e \in Records /\ e.dir = "evidence" /\ e.id = <<p, 1>> /\ e.pin = pin
    BY <1>2, <1>4, PieceIs
  <2>2. f \in Records /\ f.dir = "evidence" /\ f.id = <<p, 2>> /\ f.pin = pin
    <3>1. {<<p, 1>>} \in SUBSET Ids
      BY DEF Ids
    <3> QED BY <1>2, <1>4, <3>1, PieceIs
  <2>3. W = <<e, f>>
    BY <1>4
  <2> HIDE DEF e, f
  <2>4. Len(W) = 2 /\ W[1] = e /\ W[2] = f /\ W \in Seq(Records) /\ e # f
    BY <2>1, <2>2, <2>3
  <2>5. \A i \in 1..Len(W) : (i = 1 /\ W[i] = e) \/ (i = 2 /\ W[i] = f)
    BY <2>4
  <2>6. Owner(e) = p /\ Owner(f) = p
    BY <2>1, <2>2 DEF Owner
  <2> HIDE DEF pin
  <2>7. \A i \in 1..Len(W) : W[i].dir = "evidence" /\ W[i].pin = pin /\ Owner(W[i]) = p
    BY <2>1, <2>2, <2>5, <2>6
  <2>8. \A i, j \in 1..Len(W) : W[i] = W[j] => i = j
    BY <2>4, <2>5
  <2> QED BY <1>2, <1>4, <2>4, <2>7, <2>8
<1> QED BY <1>1, <1>3, <1>4, WantedIs

\* A revision over the heads of the files takes its place after all that is known.
LEMMA NewRevision ==
    ASSUME IInv, NEW p \in Procs, proc[p].at = "judge", NEW n, n = Revision(p, files["revisions"])
    PROVE  /\ \A r \in files["revisions"] : r.id \in n.past
           /\ Lineage(Revisions \cup {n})
           /\ \A q \in Procs \ {p} : proc[q].at \in Early =>
                Owner(n) # q /\ \A i \in n.past : i[1] # q
<1> DEFINE S == files["revisions"]
<1>1. /\ n.id = <<p, 1>> /\ n.parents = Heads(S) /\ n.past = Ancestors(S, Heads(S))
  BY RevisionIs
<1>2. S \subseteq Revisions /\ IsFiniteSet(S)
  BY FilesFacts DEF Revisions
<1>3. Lineage(Revisions) /\ Lineage(S)
  BY <1>2, LineageLess DEF IInv
<1>4. \A r \in S : r.id \in n.past
  BY <1>1, <1>2, <1>3, OverAll DEF Names
<1>5. \A i \in n.past : \E x \in S : i = x.id \/ i \in x.past
  BY <1>1 DEF Ancestors, Heads, Names
<1>6. ASSUME NEW q \in Procs, proc[q].at \in Early
      PROVE  /\ \A r \in Revisions : Owner(r) # q /\ \A i \in r.past : i[1] # q
             /\ \A i \in n.past : i[1] # q
  <2>1. \A r \in Revisions : Owner(r) # q /\ \A i \in r.past : i[1] # q
    BY <1>6 DEF IInv, Untouched, Early
  <2> QED BY <1>2, <1>5, <2>1 DEF Owner
<1>7. /\ \A r \in Revisions : r.id # n.id /\ n.id \notin r.past
      /\ n.id \notin n.past
  <2>1. proc[p].at \in Early
    BY DEF Early
  <2>2. n.id[1] = p
    BY <1>1
  <2> QED BY <1>6, <2>1, <2>2 DEF Owner
<1>8. ASSUME NEW r \in Revisions, r.id \in n.past PROVE r.past \subseteq n.past
  <2>1. CASE r.id \in Heads(S)
    <3>1. PICK x \in S : x.id = r.id
      BY <2>1 DEF Heads, Names
    <3>2. r = x
      BY <1>2, <1>3, <3>1 DEF Lineage
    <3> QED BY <1>1, <2>1, <3>2 DEF Ancestors
  <2>2. CASE r.id \notin Heads(S)
    <3>1. PICK x \in S : x.id \in Heads(S) /\ r.id \in x.past
      BY <1>1, <1>8, <2>2 DEF Ancestors
    <3>2. r.past \subseteq x.past
      BY <1>2, <1>3, <3>1 DEF Lineage
    <3> QED BY <1>1, <3>1, <3>2 DEF Ancestors
  <2> QED BY <2>1, <2>2
<1>9. n.parents \subseteq n.past
  BY <1>1 DEF Ancestors
<1>10. Lineage(Revisions \cup {n})
  <2> HIDE DEF S
  <2> SUFFICES ASSUME NEW r \in Revisions \cup {n}, NEW s \in Revisions \cup {n}
               PROVE  /\ r.id = s.id => r = s
                      /\ r.id \in s.past => r.past \subseteq s.past
                      /\ r.parents \subseteq r.past /\ r.id \notin r.past
    BY DEF Lineage
  <2>1. CASE r \in Revisions /\ s \in Revisions
    BY <1>3, <2>1 DEF Lineage
  <2>2. CASE r = n /\ s \in Revisions
    BY <1>7, <1>9, <2>2
  <2>3. CASE r \in Revisions /\ s = n
    BY <1>3, <1>7, <1>8, <2>3 DEF Lineage
  <2>4. CASE r = n /\ s = n
    BY <1>7, <1>9, <2>4
  <2> QED BY <2>1, <2>2, <2>3, <2>4
<1>11. ASSUME NEW q \in Procs \ {p}, proc[q].at \in Early
       PROVE  Owner(n) # q /\ \A i \in n.past : i[1] # q
  BY <1>1, <1>6, <1>11 DEF Owner
<1> QED BY <1>4, <1>10, <1>11

LEMMA JudgeRefuses ==
    ASSUME IInv, NEW p \in Procs, proc[p].at = "judge",
           UNCHANGED <<disk, lock, told, untidy, left>>,
           NEW a \in Answers, Ends(p, "unlock", a),
           a = "unreadable" => untidy # {} \/ ~Known(files["revisions"], files["evidence"])
    PROVE  IInv'
<1>1. UNCHANGED <<files, safe, loose, rooted, temps>>
  BY DEF disk
<1>2. proc[p].at \in Holding /\ proc[p].at \notin Writes
  BY DEF Holding, Writes
<1>3. RestTyped /\ Works(p)
  BY <1>2, HoldFacts
<1>4. Others(p) /\ proc'[p].at = "unlock" /\ proc'[p].ok = FALSE /\ proc'[p].answer = a
      /\ proc'[p].todo = proc[p].todo /\ proc'[p].wrote = proc[p].wrote
  BY <1>3, Ending DEF Places, Holding
<1>5. Works(p)'
  BY <1>2, <1>3, <1>4 DEF Works, Begins, Holding, Writes
<1>6. Readable(p)' /\ Linked(p)' /\ Above(p)' /\ Pinned(p)' /\ p \notin Pending'
      /\ proc'[p].at \notin Early /\ proc'[p].at \in Holding
  BY <1>4 DEF Readable, Linked, Above, Pinned, Pending, Early, Begins, Holding, Writes
<1>7. \A r : Firm(r)' => Firm(r)
  BY <1>2, <1>4, FirmOn
<1>8. Temporary'
  <2>1. \A t \in temps : t.by # p \/ t.by \in untidy
    BY <1>2 DEF IInv, Temporary
  <2> QED BY <1>1, <1>4, <2>1, TempsKept
<1>9. UnreadableByLeftovers'
  <2> SUFFICES ASSUME NEW q \in Procs, proc'[q].at = "unlock", proc'[q].answer = "unreadable"
               PROVE  untidy # {} \/ ~Known(files["revisions"], files["evidence"])
    BY <1>1 DEF UnreadableByLeftovers, At
  <2>1. CASE q = p
    BY <1>4, <2>1
  <2>2. CASE q # p
    BY <1>4, <2>2 DEF Others, IInv, UnreadableByLeftovers, At
  <2> QED BY <2>1, <2>2
<1>10. Locked'
  BY <1>2, <1>4, <1>6, LockKept
<1> QED BY <1>1, <1>2, <1>4, <1>5, <1>6, <1>7, <1>8, <1>9, <1>10, HoldFacts, Quiet

LEMMA JudgeAccepts ==
    ASSUME IInv, NEW p \in Procs, proc[p].at = "judge",
           UNCHANGED <<disk, lock, told, untidy, left>>,
           NEW W, W = Wanted(p, files["revisions"], files["evidence"]), W # <<>>,
           proc' = [proc EXCEPT ![p].at = "temp", ![p].todo = W]
    PROVE  IInv'
<1>1. UNCHANGED <<files, safe, loose, rooted, temps>>
  BY DEF disk
<1>2. proc[p].at \in Holding /\ proc[p].at \notin Writes /\ proc[p].at \in Early
  BY DEF Holding, Writes, Early
<1>3. /\ W \in Seq(Records)
      /\ \A i, j \in 1..Len(W) : Owner(W[i]) = p /\ (W[i] = W[j] => i = j)
      /\ \/ Len(W) = 1 /\ W[1] = Revision(p, files["revisions"])
         \/ \A i \in 1..Len(W) : W[i].dir = "evidence" /\ Heads(files["revisions"]) = {W[i].pin}
  BY Wants
<1>4. Len(W) \in Nat /\ Len(W) >= 1 /\ 1 \in 1..Len(W)
  BY <1>3
<1>5. /\ RestTyped /\ Works(p) /\ proc \in [Procs -> Process] /\ proc[p] \in Process
      /\ lock = p /\ proc[p].answer # "unreadable" /\ proc[p].ok /\ proc[p].wrote = {}
  BY <1>2, HoldFacts DEF Readable, Works, Holding
<1> DEFINE x == [proc[p] EXCEPT !.at = "temp", !.todo = W]
<1>6. x \in Process
  BY <1>3, <1>5 DEF Process, Holding
<1>7. proc' = [proc EXCEPT ![p] = x]
  OBVIOUS
<1>8. Others(p) /\ proc'[p] = x
  <2> HIDE DEF x
  <2> QED BY <1>5, <1>6, <1>7 DEF Others
<1>9. proc'[p].at = "temp" /\ proc'[p].todo = W /\ proc'[p].wrote = {} /\ proc'[p].ok
      /\ proc'[p].answer # "unreadable"
  BY <1>5, <1>8 DEF Process
<1> HIDE DEF x
<1>10. Current(p)' = W[1]
  BY <1>3, <1>4, <1>9 DEF Current
<1>11. Works(p)'
  <2>1. proc'[p].at = "temp" /\ proc'[p].todo # <<>> /\ proc'[p].ok
        /\ IsFiniteSet(proc'[p].wrote) /\ proc'[p].wrote = {}
    BY <1>9, FS_EmptySet
  <2>2. \A i, j \in 1..Len(proc'[p].todo) :
          /\ Owner(proc'[p].todo[i]) = p /\ proc'[p].todo[i] \notin proc'[p].wrote
          /\ proc'[p].todo[i] = proc'[p].todo[j] => i = j
    <3> DEFINE todo == proc'[p].todo
               wrote == proc'[p].wrote
    <3>1. todo = W /\ wrote = {}
      BY <1>9
    <3> HIDE DEF todo, wrote
    <3>2. \A i, j \in 1..Len(todo) :
            Owner(todo[i]) = p /\ todo[i] \notin wrote /\ (todo[i] = todo[j] => i = j)
      BY <1>3, <3>1
    <3> QED BY <3>2 DEF todo, wrote
  <2> QED BY <2>1, <2>2 DEF Works, Begins, Writes
<1>12. Readable(p)' /\ Linked(p)' /\ proc'[p].at \in Holding /\ proc'[p].at \notin Early
  BY <1>9 DEF Readable, Linked, Holding, Early, Begins
<1>13. Len(W) = 1 /\ W[1] = Revision(p, files["revisions"]) => W[1].dir = "revisions"
  BY RevisionIs
<1>14. Pinned(p)'
  <2>1. CASE Len(W) = 1 /\ W[1] = Revision(p, files["revisions"])
    <3>1. Len(proc'[p].todo) = 1 /\ Current(p)'.dir = "revisions"
      BY <1>9, <1>10, <1>13, <2>1
    <3> QED BY <3>1 DEF Pinned
  <2>2. CASE \A i \in 1..Len(W) : W[i].dir = "evidence" /\ Heads(files["revisions"]) = {W[i].pin}
    <3> DEFINE todo == proc'[p].todo
    <3>1. todo = W /\ Heads(files'["revisions"]) = Heads(files["revisions"])
      BY <1>1, <1>9
    <3> HIDE DEF todo
    <3>2. \A i \in 1..Len(todo) :
            todo[i].dir = "evidence" /\ Heads(files'["revisions"]) = {todo[i].pin}
      BY <2>2, <3>1
    <3> QED BY <3>2 DEF todo, Pinned
  <2> QED BY <1>3, <2>1, <2>2
<1>15. W[1].dir = "revisions" => W[1] = Revision(p, files["revisions"])
  BY <1>3, <1>4
<1>16. W[1].dir = "revisions" =>
         /\ \A r \in files["revisions"] : r.id \in W[1].past
         /\ Lineage(Revisions \cup {W[1]})
         /\ \A q \in Procs \ {p} : proc[q].at \in Early =>
              Owner(W[1]) # q /\ \A i \in W[1].past : i[1] # q
  BY <1>15, NewRevision
<1>17. Above(p)'
  BY <1>1, <1>10, <1>16 DEF Above
<1>18. Revisions' \subseteq Revisions \cup (IF W[1].dir = "revisions" THEN {W[1]} ELSE {})
  <2>1. ASSUME NEW q \in Pending', q # p PROVE Current(q)' \in Revisions
    <3>1. q \in Pending /\ Current(q)' = Current(q)
      BY <1>8, <2>1 DEF Pending, Others, Current
    <3> QED BY <3>1 DEF Revisions
  <2>2. p \in Pending' => Current(p)' = W[1] /\ W[1].dir = "revisions"
    BY <1>10 DEF Pending
  <2>3. Revisions' = files["revisions"] \cup safe["revisions"] \cup loose["revisions"]
                       \cup {Current(q)' : q \in Pending'}
    BY <1>1 DEF Revisions
  <2>4. files["revisions"] \cup safe["revisions"] \cup loose["revisions"] \subseteq Revisions
    BY DEF Revisions
  <2> QED BY <2>1, <2>2, <2>3, <2>4
<1>19. Lineage(Revisions)'
  <2>1. CASE W[1].dir = "revisions"
    <3>1. Lineage(Revisions')
      BY <1>16, <1>18, <2>1, LineageLess
    <3> QED BY <3>1 DEF Lineage
  <2>2. CASE W[1].dir # "revisions"
    <3>1. Lineage(Revisions')
      BY <1>18, <2>2, LineageLess DEF IInv
    <3> QED BY <3>1 DEF Lineage
  <2> QED BY <2>1, <2>2
<1>20. Untouched(Revisions)'
  <2> SUFFICES ASSUME NEW q \in Procs, proc'[q].at \in Begins \cup {"judge"}, NEW r \in Revisions'
               PROVE  Owner(r) # q /\ \A i \in r.past : i[1] # q
    BY DEF Untouched
  <2>1. q # p /\ proc[q].at \in Begins \cup {"judge"} /\ proc[q].at \in Early
    BY <1>8, <1>12 DEF Others, Early
  <2>2. CASE r \in Revisions
    BY <2>1, <2>2 DEF IInv, Untouched
  <2>3. CASE r = W[1] /\ W[1].dir = "revisions"
    BY <1>16, <2>1, <2>3
  <2> QED BY <1>18, <2>2, <2>3
<1>21. \A q \in Procs : Readable(q)' /\ Works(q)' /\ Linked(q)' /\ Above(q)' /\ Pinned(q)'
  <2> SUFFICES ASSUME NEW q \in Procs, q # p
               PROVE  Readable(q)' /\ Works(q)' /\ Linked(q)' /\ Above(q)' /\ Pinned(q)'
    BY <1>11, <1>12, <1>14, <1>17
  <2> QED BY <1>1, <1>8, OthersKeep
<1>22. DiskTyped'
  BY <1>1 DEF IInv, DiskTyped
<1>23. RestTyped'
  BY <1>1, <1>8 DEF IInv, RestTyped, Others
<1>24. FirmKept' /\ FirmOver'
  <2>1. \A r \in told' : Firm(r)
    BY DEF Firm
  <2>2. proc'[p].wrote = {} /\ proc'[p].at # "clean"
    BY <1>9
  <2>3. \A r : Firm(r)' => Firm(r)
    BY <1>8, <2>1, <2>2, FirmLess
  <2> QED BY <1>1, <2>3, FirmStays
<1>25. Told' /\ Locked' /\ UnreadableByLeftovers'
  <2>1. Told'
    BY <1>8, ToldStays
  <2>2. Locked'
    BY <1>2, <1>8, <1>12, LockKept
  <2>3. UnreadableByLeftovers'
    BY <1>1, <1>8, <1>9, UnreadableStays
  <2> QED BY <2>1, <2>2, <2>3
<1>26. Temporary'
  <2>1. \A t \in temps : t.by # p \/ t.by \in untidy
    BY <1>2 DEF IInv, Temporary
  <2> QED BY <1>1, <1>8, <2>1, TempsKept
<1> QED BY <1>19, <1>20, <1>21, <1>22, <1>23, <1>24, <1>25, <1>26 DEF IInv

LEMMA JudgeKeeps == ASSUME IInv, NEW p \in Procs, Judge(p) PROVE IInv'
<1> DEFINE loads == Clean("revisions") /\ Clean("evidence") /\ Known(files["revisions"], files["evidence"])
           wanted == Wanted(p, files["revisions"], files["evidence"])
<1>1. proc[p].at = "judge" /\ UNCHANGED <<disk, lock, told, untidy, left>>
  BY DEF Judge, At
<1>2. \/ ~loads /\ Ends(p, "unlock", "unreadable")
      \/ Ends(p, "unlock", "refused")
      \/ wanted # <<>> /\ proc' = [proc EXCEPT ![p].at = "temp", ![p].todo = wanted]
  <2> HIDE DEF wanted, loads
  <2> QED BY DEF Judge, wanted, loads
<1>3. CASE ~loads /\ Ends(p, "unlock", "unreadable")
  <2>1. \A t \in temps : t.by \in untidy
    <3> SUFFICES ASSUME NEW t \in temps, t.by \notin untidy PROVE FALSE
      OBVIOUS
    <3>1. t.by \in Procs /\ proc[t.by].at \in Writes
      BY DEF IInv, RestTyped, Temporary
    <3>2. lock = t.by /\ lock = p
      BY <1>1, <3>1 DEF IInv, Locked, Holding
    <3> QED BY <1>1, <3>1, <3>2 DEF Writes
  <2>2. untidy # {} \/ ~Known(files["revisions"], files["evidence"])
    BY <1>3, <2>1 DEF Clean
  <2> QED BY <1>1, <1>3, <2>2, JudgeRefuses DEF Answers
<1>4. CASE Ends(p, "unlock", "refused")
  BY <1>1, <1>4, JudgeRefuses DEF Answers
<1>5. CASE wanted # <<>> /\ proc' = [proc EXCEPT ![p].at = "temp", ![p].todo = wanted]
  BY <1>1, <1>5, JudgeAccepts
<1> QED BY <1>2, <1>3, <1>4, <1>5
-----------------------------------------------------------------------------
LEMMA StutterInv == ASSUME IInv, UNCHANGED vars PROVE IInv'
<1>1. UNCHANGED <<files, safe, loose, rooted, temps, lock, proc, told, untidy, left>>
  BY DEF vars, disk
<1>2. DiskTyped' /\ RestTyped' /\ Locked' /\ Told' /\ UnreadableByLeftovers'
  BY <1>1 DEF IInv, DiskTyped, RestTyped, Locked, Told, UnreadableByLeftovers, At
<1>3. \A p \in Procs : Current(p)' = Current(p) /\ OwnTemp(p)' = OwnTemp(p)
  BY <1>1 DEF OwnTemp, Current
<1>4. Temporary'
  <2>1. \A t \in temps : t.by \in Procs
    BY DEF IInv, RestTyped
  <2> QED BY <1>1, <1>3, <2>1 DEF IInv, Temporary
<1>5. \A p \in Procs : Readable(p)' /\ Works(p)' /\ Linked(p)' /\ Above(p)' /\ Pinned(p)'
  <2> SUFFICES ASSUME NEW p \in Procs
               PROVE  Readable(p)' /\ Works(p)' /\ Linked(p)' /\ Above(p)' /\ Pinned(p)'
    OBVIOUS
  <2>1. Readable(p) /\ Works(p) /\ Linked(p) /\ Above(p) /\ Pinned(p)
    BY DEF IInv
  <2> QED BY <1>1, <1>3, <2>1 DEF Readable, Works, Linked, Above, Pinned
<1>6. Lineage(Revisions)' /\ Untouched(Revisions)'
  <2>1. Revisions' = Revisions
    BY <1>1 DEF Revisions, Pending, Current
  <2> QED BY <1>1, <2>1, TraceKept
<1>7. FirmKept' /\ FirmOver'
  <2>1. \A r : Firm(r)' <=> Firm(r)
    BY <1>1 DEF Firm, Current
  <2> QED BY <1>1, <2>1, FirmStays
<1> QED BY <1>2, <1>4, <1>5, <1>6, <1>7 DEF IInv

LEMMA NextInv == ASSUME IInv, [Next]_vars PROVE IInv'
<1>1. CASE Stop
  BY <1>1, StopKeeps
<1>2. CASE Tidy
  BY <1>2, TidyKeeps
<1>3. ASSUME NEW p \in Procs, Step(p) PROVE IInv'
  BY <1>3, BeginKeeps, ListRevisionsKeeps, ListEvidenceKeeps, AcquireKeeps, GiveUpKeeps, JudgeKeeps,
     WriteTempKeeps, LinkKeeps, SyncRecordKeeps, UnlinkKeeps, SyncRemovalKeeps, RemoveTempKeeps,
     UndoKeeps, UnlockKeeps DEF Step
<1>4. ASSUME NEW p \in Procs, Kill(p) PROVE IInv'
  BY <1>4, KillKeeps
<1>5. CASE UNCHANGED vars
  BY <1>5, StutterInv
<1> QED BY <1>1, <1>2, <1>3, <1>4, <1>5 DEF Next

\* The types; who holds the lock; what a process has before it and behind it; where
\* its records stand among those on disk; and which records nothing takes away: all
\* of it holds of every state of every behaviour.
THEOREM Invariance == Spec => []IInv
<1>1. Init => IInv
  BY InitInv
<1>2. IInv /\ [Next]_vars => IInv'
  BY NextInv
<1> QED BY <1>1, <1>2, PTL DEF Spec

\* A record a command has answered for is in its directory whatever happens after,
\* but for evidence in a directory that the command was the first to need.
THEOREM AcknowledgedStay == Spec => []AcknowledgedKept
<1>1. IInv => AcknowledgedKept
  <2> SUFFICES ASSUME IInv, NEW r \in told, ~(r.dir = "evidence" /\ ~rooted)
               PROVE  r \in files[r.dir]
    BY DEF AcknowledgedKept
  <2>1. r \in Records /\ Firm(r)
    BY DEF IInv, RestTyped, Firm
  <2> QED BY <2>1 DEF IInv, FirmKept, Kept
<1> QED BY <1>1, Invariance, PTL

\* No update is lost: of two revisions that commands have answered for, one was
\* made over the other.
THEOREM RevisionsInOrder == Spec => []OneAfterTheOther
<1>1. IInv => OneAfterTheOther
  <2> SUFFICES ASSUME IInv, NEW r \in told, NEW s \in told, r.dir = "revisions", s.dir = "revisions"
               PROVE  r = s \/ r.id \in s.past \/ s.id \in r.past
    BY DEF OneAfterTheOther
  <2>1. r \in Records /\ s \in Records /\ Firm(r) /\ Firm(s)
    BY DEF IInv, RestTyped, Firm
  <2>2. r \in files["revisions"]
    BY <2>1 DEF IInv, FirmKept, Kept
  <2> QED BY <2>1, <2>2 DEF IInv, FirmOver
<1> QED BY <1>1, Invariance, PTL

\* A command that holds the lock finds the Saga unreadable only when a process untidy
\* in the middle of one or could not remove a temporary file, or a batch was not taken
\* back whole; what a command is in the middle of never makes it so.
THEOREM OnlyLeftoversSpoil == Spec => []UnreadableByLeftovers
<1>1. IInv => UnreadableByLeftovers
  BY DEF IInv
<1> QED BY <1>1, Invariance, PTL

\* When evidence appears in its directory, the one latest revision is the one it is
\* about, whatever was written between the command's first look and its lock.
THEOREM EvidenceOfTheLatest == Spec => AboutTheLatest
<1>1. IInv /\ [Next]_vars =>
        [left'.stop = left.stop =>
           \A e \in files'["evidence"] \ files["evidence"] : Heads(files["revisions"]) = {e.pin}]_vars
  <2> SUFFICES ASSUME IInv, [Next]_vars, left'.stop = left.stop,
                      NEW e \in files'["evidence"] \ files["evidence"]
               PROVE  Heads(files["revisions"]) = {e.pin}
    OBVIOUS
  <2>1. files \in [Dirs -> SUBSET Records] /\ left \in [kill : Nat, stop : Nat, fail : Nat]
    BY DEF IInv, DiskTyped, RestTyped
  <2>2. ~Stop
    <3> SUFFICES ASSUME Stop PROVE FALSE
      OBVIOUS
    <3>1. left.stop > 0 /\ left' = [left EXCEPT !.stop = @ - 1]
      BY DEF Stop
    <3> QED BY <2>1, <3>1
  <2>3. files' # files
    OBVIOUS
  <2>4. PICK p \in Procs : Link(p) \/ Unlink(p) \/ Undo(p)
    <3>1. PICK p \in Procs : Step(p) \/ Kill(p)
      BY <2>2, <2>3 DEF Next, Tidy, vars, disk
    <3>2. ~Kill(p)
      BY <2>3 DEF Kill, disk
    <3> QED BY <2>3, <3>1, <3>2 DEF Step, Begin, ListRevisions, ListEvidence, Acquire, GiveUp, Judge,
               WriteTemp, SyncRecord, SyncRemoval, RemoveTemp, Unlock, disk
  <2>5. CASE Unlink(p)
    <3>1. proc[p].at = "unlink" /\ files' = [files EXCEPT ![Current(p).dir] = @ \ {Current(p)}]
      BY <2>3, <2>5 DEF Unlink, At
    <3>2. Current(p).dir \in Dirs
      BY <3>1, CurrentIs DEF Writes
    <3> QED BY <2>1, <3>1, <3>2
  <2>6. CASE Undo(p)
    <3>1. files' = [files EXCEPT !["evidence"] = @ \ proc[p].wrote]
      BY <2>3, <2>6 DEF Undo
    <3> QED BY <2>1, <3>1
  <2>7. CASE Link(p)
    <3>1. proc[p].at = "link" /\ files' = [files EXCEPT ![Current(p).dir] = @ \cup {Current(p)}]
      BY <2>3, <2>7 DEF Link, At
    <3>2. /\ proc[p].at \in Writes \cup {"temp"} /\ Current(p).dir \in Dirs
          /\ Current(p) = proc[p].todo[1] /\ Len(proc[p].todo) \in Nat /\ Len(proc[p].todo) >= 1
      BY <3>1, CurrentIs DEF Writes
    <3>3. e = Current(p) /\ Current(p).dir = "evidence"
      BY <2>1, <3>1, <3>2
    <3>4. Pinned(p) /\ 1 \in 1..Len(proc[p].todo)
      BY <3>2 DEF IInv
    <3> QED BY <3>2, <3>3, <3>4 DEF Pinned
  <2> QED BY <2>4, <2>5, <2>6, <2>7
<1> QED BY <1>1, Invariance, PTL DEF Spec, AboutTheLatest
=============================================================================
