--------------------------- MODULE TestCasesProofs ---------------------------
(***************************************************************************)
(* What History promises it keeps.  The commands of internal/quality       *)
(* implement it, for each of the kinds of record that name their parent    *)
(* heads; what is reported current is the latest; and what the files of a  *)
(* clone are, whatever was merged: what may stop it from loading, and that *)
(* no call is applied twice.                                               *)
(***************************************************************************)
EXTENDS TestCases, FiniteSetTheorems, WellFoundedInduction, TLAPS

CONSTANT Ids
VARIABLE held

\* Any history, of records with any names.
Histories == INSTANCE History

Kinds == {"revision", "event", "run"}

Inv ==
    /\ last \in 0..MaxRecords
    /\ records = [c \in Clones |-> records[c]]
    /\ \A c \in Clones : \A r \in records[c] :
        r.kind \in Kinds => \E n \in 1..last : r.id = Given(n)
    /\ \A c \in Clones : Revisions(records[c]) = {} => Of(records[c], "event") = {}

\* What History sees of a record.
Shown(r) == [id |-> r.id, parents |-> r.parents, past |-> r.past]

\* A record of this kind written over every head the clone has of it.
OverHeads(S, i) == [id |-> i, parents |-> Heads(S), past |-> Ancestors(S, Heads(S))]

\* The steps History takes with the records of one kind.
Written(kind) == \E c \in Clones :
    /\ last + 1 \in 1..MaxRecords
    /\ HistoryOf(kind)' = [HistoryOf(kind) EXCEPT
            ![c] = @ \cup {OverHeads(Of(records[c], kind), Given(last + 1))}]
Merged(kind) == \E c, d \in Clones :
    HistoryOf(kind)' = [HistoryOf(kind) EXCEPT ![c] = @ \cup HistoryOf(kind)[d]]
Kept(kind) == HistoryOf(kind)' = HistoryOf(kind)
-----------------------------------------------------------------------------
(* A record written over every head of a clone has everything the clone    *)
(* holds among its ancestors, for any number of clones, records and merges.*)

\* What holds of the records of one clone.
Past(S) ==
    \A r \in S : r.parents \subseteq r.past /\ r.past \subseteq Names(S) /\ r.id \notin r.past
Passed(S) == \A r, s \in S : s.id \in r.past => s.past \subseteq r.past
OneName(S, T) == \A r \in S, s \in T : r.id = s.id => r = s
Traced(S) == IsFiniteSet(Names(S)) /\ Past(S) /\ Passed(S)
Headed(S) == \A r \in S : r.id \in Heads(S) \/ \E h \in S : h.id \in Heads(S) /\ r.id \in h.past

\* What holds of a history: h are the records each clone holds.
Chronicle(h) ==
    /\ h = [c \in Clones |-> h[c]]
    /\ \A c, d \in Clones : OneName(h[c], h[d])
    /\ \A c \in Clones : Traced(h[c])

\* The histories there are at first, and the one after h: a record with a name of
\* its own is written over every head of a clone, or a clone takes another's.
Alone(i) == [id |-> i, parents |-> {}, past |-> {}]
Opens(h) == h = [c \in Clones |-> {}] \/ \E i : h = [c \in Clones |-> {Alone(i)}]
Gains(h, g, c, i) ==
    /\ \A d \in Clones : i \notin Names(h[d])
    /\ g = [h EXCEPT ![c] = @ \cup {OverHeads(h[c], i)}]
Joins(h, g, c, d) == g = [h EXCEPT ![c] = @ \cup h[d]]

\* Of finitely many numbered things one has the largest number.
LEMMA Largest ==
    ASSUME NEW D, D # {}, NEW f \in [D -> Nat], NEW n \in Nat, \A x \in D : f[x] <= n
    PROVE  \E x \in D : \A y \in D : f[y] <= f[x]
<1> DEFINE R == OpToRel(<, Nat)
           T == {n - f[x] : x \in D}
<1>1. T \subseteq Nat /\ T # {}
    OBVIOUS
<1>2. IsWellFoundedOn(R, Nat)
    BY NatLessThanWellFounded
<1>3. PICK m \in T : \A k \in T : ~ (<<k, m>> \in R)
    <2> HIDE DEF R, T
    <2> QED BY <1>1, <1>2, WFMin
<1>4. \A k \in T : ~ (k < m)
    BY <1>1, <1>3 DEF OpToRel
<1>5. PICK x \in D : m = n - f[x]
    OBVIOUS
<1>6. ASSUME NEW y \in D PROVE f[y] <= f[x]
    <2>1. n - f[y] \in T
        OBVIOUS
    <2>2. ~ (n - f[y] < n - f[x])
        BY <1>4, <1>5, <2>1
    <2>3. f[x] \in Nat /\ f[y] \in Nat
        OBVIOUS
    <2> HIDE DEF T
    <2> QED BY <2>2, <2>3
<1> QED BY <1>6

\* Ancestors of fewer ancestors: the step up from a record to its successor.
LEMMA MoreAncestors ==
    ASSUME NEW S, Traced(S), NEW r \in S, NEW s \in S, r.id \in s.past
    PROVE  Cardinality(r.past) < Cardinality(s.past)
<1>1. r.past \subseteq s.past /\ r.id \notin r.past
    BY DEF Traced, Passed, Past
<1>2. s.past \in SUBSET Names(S)
    BY DEF Traced, Past
<1>3. IsFiniteSet(s.past)
    BY <1>2, FS_Subset DEF Traced
<1>4. /\ IsFiniteSet(r.past) /\ Cardinality(r.past) <= Cardinality(s.past)
      /\ Cardinality(s.past) = Cardinality(r.past) => s.past = r.past
    BY <1>1, <1>3, FS_Subset
<1>5. Cardinality(r.past) \in Nat /\ Cardinality(s.past) \in Nat
    BY <1>3, <1>4, FS_CardinalityType
<1> QED BY <1>1, <1>4, <1>5

\* Every record of a clone is a head or an ancestor of one: of the records that
\* descend from it, the one with the most ancestors is a head.
LEMMA Covered ==
    ASSUME NEW S, Traced(S)
    PROVE  Headed(S)
<1> SUFFICES ASSUME NEW r \in S, r.id \notin Heads(S)
             PROVE  \E h \in S : h.id \in Heads(S) /\ r.id \in h.past
    BY DEF Headed
<1> DEFINE D == {s \in S : r.id \in s.past}
           f == [s \in D |-> Cardinality(s.past)]
           n == Cardinality(Names(S))
<1>1. D # {}
    <2>1. PICK s \in S : r.id \in s.parents
        BY DEF Heads, Names
    <2> QED BY <2>1 DEF Traced, Past
<1>2. n \in Nat
    BY FS_CardinalityType DEF Traced
<1>3. \A s \in D : Cardinality(s.past) \in Nat /\ Cardinality(s.past) <= n
    <2> TAKE s \in D
    <2>1. s.past \in SUBSET Names(S)
        BY DEF Traced, Past
    <2>2. IsFiniteSet(s.past) /\ Cardinality(s.past) <= n
        BY <2>1, FS_Subset DEF Traced
    <2> QED BY <2>2, FS_CardinalityType
<1>4. f \in [D -> Nat] /\ \A s \in D : f[s] <= n
    BY <1>3
<1>5. PICK h \in D : \A s \in D : f[s] <= f[h]
    <2> HIDE DEF D, f, n
    <2> QED BY <1>1, <1>2, <1>4, Largest
<1>6. h.id \in Heads(S)
    <2> SUFFICES ASSUME NEW t \in S, h.id \in t.parents PROVE FALSE
        BY DEF Heads, Names
    <2>1. h.id \in t.past /\ h.past \subseteq t.past
        BY DEF Traced, Past, Passed
    <2>2. t \in D
        BY <2>1
    <2>3. Cardinality(h.past) < Cardinality(t.past)
        BY <2>1, MoreAncestors
    <2> QED BY <1>3, <1>5, <2>2, <2>3
<1> QED BY <1>6

\* So the ancestors of a record written over a clone are all of the clone.
LEMMA SucceedsAll ==
    ASSUME NEW S, Traced(S), NEW i
    PROVE  OverHeads(S, i).past = Names(S)
<1>1. Headed(S)
    BY Covered
<1>2. \A r \in S : r.past \subseteq Names(S)
    BY DEF Traced, Past
<1>3. Heads(S) \subseteq Names(S)
    BY DEF Heads
<1>4. ASSUME NEW r \in S PROVE r.id \in OverHeads(S, i).past
    BY <1>1 DEF Headed, OverHeads, Ancestors
<1>5. ASSUME NEW k \in OverHeads(S, i).past PROVE k \in Names(S)
    BY <1>2, <1>3 DEF OverHeads, Ancestors
<1> QED BY <1>4, <1>5 DEF Names

LEMMA OpensTraced ==
    ASSUME NEW h, Opens(h)
    PROVE  Chronicle(h)
<1>1. IsFiniteSet({}) /\ \A i : IsFiniteSet({i})
    BY FS_EmptySet, FS_Singleton
<1>2. CASE h = [c \in Clones |-> {}]
    <2>1. \A c \in Clones : h[c] = {} /\ Names(h[c]) = {}
        BY <1>2 DEF Names
    <2> QED BY <1>1, <1>2, <2>1 DEF Chronicle, Traced, Past, Passed, OneName
<1>3. ASSUME NEW i, h = [c \in Clones |-> {Alone(i)}]
      PROVE  Chronicle(h)
    <2> DEFINE b == Alone(i)
    <2>1. b.id = i /\ b.parents = {} /\ b.past = {}
        BY DEF Alone
    <2> HIDE DEF b
    <2>2. Names({b}) = {i}
        BY <2>1 DEF Names
    <2>3. Traced({b})
        BY <1>1, <2>1, <2>2 DEF Traced, Past, Passed
    <2>4. h = [c \in Clones |-> {b}]
        BY <1>3 DEF b
    <2> QED BY <2>3, <2>4 DEF Chronicle, OneName
<1> QED BY <1>2, <1>3 DEF Opens

\* A clone with one more record, of a name no clone has.
LEMMA GainsTraced ==
    ASSUME NEW h, Chronicle(h), NEW c \in Clones, NEW i, NEW g, Gains(h, g, c, i)
    PROVE  Chronicle(g)
<1> DEFINE S == h[c]
           n == OverHeads(S, i)
<1>1. Traced(S)
    BY DEF Chronicle
<1>2. n.id = i /\ n.parents = Heads(S) /\ n.past = Names(S)
    BY <1>1, SucceedsAll DEF OverHeads
<1>3. n.parents \subseteq n.past
    BY <1>2 DEF Heads
<1>4. \A d \in Clones : i \notin Names(h[d])
    BY DEF Gains
<1>5. g = [h EXCEPT ![c] = S \cup {n}]
    BY DEF Gains
<1>6. g = [d \in Clones |-> g[d]] /\ \A d \in Clones : g[d] = IF d = c THEN S \cup {n} ELSE h[d]
    BY <1>5 DEF Chronicle
<1> HIDE DEF n
<1>7. ASSUME NEW d \in Clones, NEW e \in Clones PROVE OneName(g[d], g[e])
    <2>1. \A x \in Clones : \A r \in h[x] : r.id # n.id
        BY <1>2, <1>4 DEF Names
    <2> QED BY <1>6, <2>1 DEF OneName, Chronicle
<1>8. Traced(S \cup {n})
    <2>1. Names(S \cup {n}) = Names(S) \cup {i}
        BY <1>2 DEF Names
    <2>2. IsFiniteSet(Names(S \cup {n}))
        BY <1>1, <2>1, FS_AddElement DEF Traced
    <2>3. Past(S \cup {n})
        BY <1>1, <1>2, <1>3, <1>4, <2>1 DEF Traced, Past
    <2>4. ASSUME NEW r \in S \cup {n}, NEW s \in S \cup {n}, s.id \in r.past
          PROVE  s.past \subseteq r.past
        <3>1. CASE r \in S
            <4>1. s.id \in Names(S)
                BY <1>1, <2>4, <3>1 DEF Traced, Past
            <4>2. s \in S
                BY <1>2, <1>4, <4>1
            <4> QED BY <1>1, <2>4, <3>1, <4>2 DEF Traced, Passed
        <3>2. CASE r = n
            <4>1. s \in S
                BY <1>2, <1>4, <2>4, <3>2
            <4> QED BY <1>1, <1>2, <3>2, <4>1 DEF Traced, Past
        <3> QED BY <3>1, <3>2
    <2> QED BY <2>2, <2>3, <2>4 DEF Traced, Passed
<1> QED BY <1>6, <1>7, <1>8 DEF Chronicle

LEMMA JoinsTraced ==
    ASSUME NEW h, Chronicle(h), NEW c \in Clones, NEW d \in Clones, NEW g, Joins(h, g, c, d)
    PROVE  Chronicle(g)
<1> DEFINE S == h[c]
           T == h[d]
<1>1. g = [h EXCEPT ![c] = S \cup T]
    BY DEF Joins
<1>2. g = [e \in Clones |-> g[e]] /\ \A e \in Clones : g[e] = IF e = c THEN S \cup T ELSE h[e]
    BY <1>1 DEF Chronicle
<1>3. Traced(S) /\ Traced(T) /\ OneName(S, T) /\ OneName(T, S) /\ OneName(S, S) /\ OneName(T, T)
    BY DEF Chronicle
<1>4. ASSUME NEW e \in Clones, NEW f \in Clones PROVE OneName(g[e], g[f])
    <2>1. \A x, y \in Clones : OneName(h[x], h[y])
        BY DEF Chronicle
    <2> QED BY <1>2, <2>1 DEF OneName
<1>5. Traced(S \cup T)
    <2>1. Names(S \cup T) = Names(S) \cup Names(T)
        BY DEF Names
    <2>2. IsFiniteSet(Names(S \cup T))
        BY <1>3, <2>1, FS_Union DEF Traced
    <2>3. Past(S \cup T)
        BY <1>3, <2>1 DEF Traced, Past
    <2>4. ASSUME NEW r \in S \cup T, NEW s \in S \cup T, s.id \in r.past
          PROVE  s.past \subseteq r.past
        <3>1. CASE r \in S
            <4>1. \E x \in S : x.id = s.id
                BY <1>3, <2>4, <3>1 DEF Traced, Past, Names
            <4>2. s \in S
                BY <1>3, <4>1 DEF OneName
            <4> QED BY <1>3, <2>4, <3>1, <4>2 DEF Traced, Passed
        <3>2. CASE r \in T
            <4>1. \E x \in T : x.id = s.id
                BY <1>3, <2>4, <3>2 DEF Traced, Past, Names
            <4>2. s \in T
                BY <1>3, <4>1 DEF OneName
            <4> QED BY <1>3, <2>4, <3>2, <4>2 DEF Traced, Passed
        <3> QED BY <3>1, <3>2
    <2> QED BY <2>2, <2>3, <2>4 DEF Traced, Passed
<1> QED BY <1>2, <1>4, <1>5 DEF Chronicle
-----------------------------------------------------------------------------
(* So it is in every behaviour of History.                                 *)

LEMMA HistoryStep ==
    ASSUME Chronicle(held), [Histories!Next]_held
    PROVE  Chronicle(held')
<1>1. ASSUME NEW c \in Clones, NEW i \in Ids, Histories!Write(c, i)
      PROVE  Gains(held, held', c, i)
    BY <1>1 DEF Histories!Write, Histories!Fresh, Histories!Names, Histories!Succeed, Histories!Heads,
                Gains, Names, OverHeads, Heads, Ancestors
<1>2. ASSUME NEW c \in Clones, NEW d \in Clones, Histories!Merge(c, d)
      PROVE  Joins(held, held', c, d)
    BY <1>2 DEF Histories!Merge, Joins
<1>3. CASE UNCHANGED held
    BY <1>3
<1> QED BY <1>1, <1>2, <1>3, GainsTraced, JoinsTraced DEF Histories!Next

HistoryInv == Chronicle(held)

\* The inductive invariant: a record's ancestors are in every clone that holds
\* it, theirs are among them, and a name is of one record in all clones.
THEOREM HistoryInvariance == Histories!Spec => []HistoryInv
<1>1. Histories!Init => HistoryInv
    BY OpensTraced DEF Histories!Init, Histories!Begin, Opens, Alone, HistoryInv
<1>2. HistoryInv /\ [Histories!Next]_held => HistoryInv'
    BY HistoryStep DEF HistoryInv
<1> QED BY <1>1, <1>2, PTL DEF Histories!Spec

\* Merging loses no edit: whatever clones are merged in whatever order, every
\* record of a clone is one of its heads, or an ancestor of one.
THEOREM NoRecordLost == Histories!Spec => []Histories!NothingLost
<1>1. HistoryInv => Histories!NothingLost
    <2> SUFFICES ASSUME HistoryInv, NEW c \in Clones PROVE Headed(held[c])
        BY DEF Histories!NothingLost, Histories!Headed, Histories!Heads, Histories!Names,
               Headed, Heads, Names
    <2> QED BY Covered DEF HistoryInv, Chronicle
<1> QED BY <1>1, HistoryInvariance, PTL

\* A record that names every head of its author's clone has the whole clone
\* behind it: what the parent check of each command is for.
THEOREM HeadsReconcileAll == Histories!Spec => Histories!ReconciledExplicitly
<1> DEFINE A == \A c \in Clones : \A r \in held'[c] :
                    Histories!Fresh(r.id) => r.past = Histories!Names(held[c])
<1>1. HistoryInv /\ [Histories!Next]_held => [A]_held
    <2> SUFFICES ASSUME Chronicle(held), Histories!Next,
                        NEW e \in Clones, NEW r \in held'[e], \A x \in Clones : r.id \notin Names(held[x])
                 PROVE  r.past = Names(held[e])
        BY DEF Histories!Fresh, Histories!Names, Names, HistoryInv
    <2>1. r \notin held[e]
        BY DEF Names
    <2>2. ASSUME NEW c \in Clones, NEW i \in Ids, Histories!Write(c, i) PROVE r.past = Names(held[e])
        <3>1. held' = [held EXCEPT ![c] = @ \cup {OverHeads(held[c], i)}]
            BY <2>2 DEF Histories!Write, Histories!Succeed, Histories!Heads, Histories!Names,
                        OverHeads, Heads, Ancestors, Names
        <3>2. held'[e] = IF e = c THEN held[c] \cup {OverHeads(held[c], i)} ELSE held[e]
            BY <3>1 DEF Chronicle
        <3>3. e = c /\ r = OverHeads(held[c], i)
            BY <2>1, <3>2
        <3> QED BY <3>3, SucceedsAll DEF Chronicle
    <2>3. ASSUME NEW c \in Clones, NEW d \in Clones, Histories!Merge(c, d) PROVE FALSE
        <3>1. held'[e] = IF e = c THEN held[c] \cup held[d] ELSE held[e]
            BY <2>3 DEF Histories!Merge, Chronicle
        <3> QED BY <2>1, <3>1 DEF Names
    <2> QED BY <2>2, <2>3 DEF Histories!Next
<1> QED BY <1>1, HistoryInvariance, PTL DEF Histories!Spec, Histories!ReconciledExplicitly
-----------------------------------------------------------------------------
(* The records of a kind.                                                  *)

\* Puts, seen by one kind.
LEMMA PutsOf ==
    ASSUME NEW c \in Clones, NEW new, Inv, Puts(c, new), NEW kind
    PROVE  HistoryOf(kind)' =
              [HistoryOf(kind) EXCEPT ![c] = @ \cup {Shown(r) : r \in Of(new, kind)}]
<1>1. \A d \in Clones : records'[d] = IF d = c THEN records[c] \cup new ELSE records[d]
    BY DEF Inv, Puts
<1>2. \A d \in Clones : Of(records'[d], kind) =
            IF d = c THEN Of(records[c], kind) \cup Of(new, kind) ELSE Of(records[d], kind)
    BY <1>1 DEF Of
<1>3. HistoryOf(kind) = [d \in Clones |-> {Shown(r) : r \in Of(records[d], kind)}]
    BY DEF HistoryOf, Shown
<1>4. HistoryOf(kind)' = [d \in Clones |-> {Shown(r) : r \in Of(records'[d], kind)}]
    BY DEF HistoryOf, Shown
<1>5. ASSUME NEW d \in Clones
      PROVE  {Shown(r) : r \in Of(records'[d], kind)} =
                IF d = c THEN HistoryOf(kind)[c] \cup {Shown(r) : r \in Of(new, kind)}
                         ELSE HistoryOf(kind)[d]
    BY <1>2, <1>3
<1> QED BY <1>3, <1>4, <1>5

\* One record of the kind among the new, a successor of every head.
LEMMA PutsOne ==
    ASSUME NEW c \in Clones, NEW new, Inv, Puts(c, new), Dated(last + 1), NEW kind, NEW n,
           Of(new, kind) = {n}, Shown(n) = OverHeads(Of(records[c], kind), Given(last + 1))
    PROVE  Written(kind)
<1>1. {Shown(r) : r \in Of(new, kind)} = {Shown(n)}
    OBVIOUS
<1>2. last + 1 \in 1..MaxRecords
    BY TestCasesAssumption DEF Dated, Inv
<1> QED BY <1>1, <1>2, PutsOf DEF Written

\* None of the kind among the new.
LEMMA PutsNone ==
    ASSUME NEW c \in Clones, NEW new, Inv, Puts(c, new), NEW kind, Of(new, kind) = {}
    PROVE  Kept(kind)
<1>1. {Shown(r) : r \in Of(new, kind)} = {}
    OBVIOUS
<1>2. HistoryOf(kind)' = [HistoryOf(kind) EXCEPT ![c] = @ \cup {}]
    BY <1>1, PutsOf
<1> QED BY <1>2 DEF Kept, HistoryOf

LEMMA SuccessorOf ==
    ASSUME NEW c \in Clones, NEW kind, NEW feature, NEW parents, NamesEveryHead(c, kind, parents)
    PROVE  LET r == Successor(c, kind, feature, parents) IN
           r.kind = kind /\ Shown(r) = OverHeads(Of(records[c], kind), Given(last + 1))
BY DEF Successor, NamesEveryHead, Shown, OverHeads, Blank

\* The invariant lasts when what is put has a name of its own.
LEMMA PutsInv ==
    ASSUME NEW c \in Clones, NEW new, Inv, Puts(c, new), last' \in last..MaxRecords,
           \A r \in new : r.kind \in Kinds => \E n \in 1..last' : r.id = Given(n),
           Revisions(records[c] \cup new) = {} => Of(new, "event") = {}
    PROVE  Inv'
<1>1. \A d \in Clones : records'[d] = IF d = c THEN records[c] \cup new ELSE records[d]
    BY DEF Inv, Puts
<1>2. records' = [d \in Clones |-> records'[d]]
    BY DEF Inv, Puts
<1>3. last' \in 0..MaxRecords /\ 1..last \subseteq 1..last'
    BY TestCasesAssumption DEF Inv
<1>4. ASSUME NEW d \in Clones, NEW r \in records'[d], r.kind \in Kinds
      PROVE  \E n \in 1..last' : r.id = Given(n)
    BY <1>1, <1>3, <1>4 DEF Inv
<1>5. ASSUME NEW d \in Clones, Revisions(records'[d]) = {}
      PROVE  Of(records'[d], "event") = {}
    BY <1>1, <1>5 DEF Inv, Revisions, Of
<1> QED BY <1>2, <1>3, <1>4, <1>5 DEF Inv

\* What a step does to the histories and to the invariant.
HistoriesStep == Inv' /\ \A kind \in Kinds : Written(kind) \/ Merged(kind) \/ Kept(kind)

\* One record that succeeds every head of its kind.
LEMMA OneStep ==
    ASSUME NEW c \in Clones, NEW n, Inv, Puts(c, {n}), Dated(last + 1),
           Revisions(records[c]) # {}, n.kind \in Kinds,
           Shown(n) = OverHeads(Of(records[c], n.kind), Given(last + 1))
    PROVE  HistoriesStep
<1>1. n.id = Given(last + 1)
    BY DEF Shown, OverHeads
<1>2. last' = last + 1 /\ last' \in last..MaxRecords /\ last' \in 1..last'
    BY TestCasesAssumption DEF Dated, Inv
<1>3. Inv'
    BY <1>1, <1>2, PutsInv DEF Revisions, Of
<1>4. ASSUME NEW kind \in Kinds PROVE Written(kind) \/ Kept(kind)
    <2>1. CASE kind = n.kind
        <3>1. Of({n}, kind) = {n}
            BY <2>1 DEF Of
        <3> QED BY <2>1, <3>1, PutsOne
    <2>2. CASE kind # n.kind
        <3>1. Of({n}, kind) = {}
            BY <2>2 DEF Of
        <3> QED BY <3>1, PutsNone
    <2> QED BY <2>1, <2>2
<1> QED BY <1>3, <1>4 DEF HistoriesStep

\* Records of other kinds.
LEMMA OtherStep ==
    ASSUME NEW c \in Clones, NEW new, Inv, Puts(c, new), last' \in last..MaxRecords,
           \A r \in new : r.kind \notin Kinds
    PROVE  HistoriesStep
<1>1. \A kind \in Kinds : Of(new, kind) = {}
    BY DEF Of
<1>2. Inv'
    BY <1>1, PutsInv DEF Kinds
<1>3. \A kind \in Kinds : Kept(kind)
    BY <1>1, PutsNone
<1> QED BY <1>2, <1>3 DEF HistoriesStep
-----------------------------------------------------------------------------
\* Each operation.

LEMMA AddTestCaseStep == ASSUME NEW c \in Clones, Inv, AddTestCase(c) PROVE HistoriesStep
<1> DEFINE i == Given(last + 1)
<1>1. PICK feature \in left.under, steps \in SUBSET Steps : Puts(c, Package(last + 1, feature, steps))
    BY DEF AddTestCase
<1> DEFINE r == [First("revision", last + 1, feature) EXCEPT !.steps = steps]
           e == [First("event", last + 1, feature) EXCEPT !.state = "proposed"]
           new == {r, e}
<1>2. /\ r.kind = "revision" /\ r.id = i /\ r.parents = {} /\ r.past = {}
      /\ e.kind = "event" /\ e.id = i /\ e.parents = {} /\ e.past = {}
    BY DEF First, Blank
<1>3. Puts(c, new) /\ Dated(last + 1) /\ Revisions(records[c]) = {}
    BY <1>1 DEF Package, AddTestCase
<1> HIDE DEF r, e
<1>4. Of(new, "revision") = {r} /\ Of(new, "event") = {e} /\ Of(new, "run") = {}
    BY <1>2 DEF Of
<1>5. Of(records[c], "revision") = {} /\ Of(records[c], "event") = {}
    BY <1>3 DEF Inv, Revisions
<1>6. OverHeads({}, i) = [id |-> i, parents |-> {}, past |-> {}]
    BY DEF OverHeads, Heads, Names, Ancestors
<1>7. /\ Shown(r) = OverHeads(Of(records[c], "revision"), Given(last + 1))
      /\ Shown(e) = OverHeads(Of(records[c], "event"), Given(last + 1))
    BY <1>2, <1>5, <1>6 DEF Shown
<1>8. Written("revision") /\ Written("event")
  <2> HIDE DEF new
  <2>1. Written("revision")
      BY <1>3, <1>4, <1>7, PutsOne
  <2>2. Written("event")
      BY <1>3, <1>4, <1>7, PutsOne
  <2> QED BY <2>1, <2>2
<1>9. Kept("run")
    BY <1>3, <1>4, PutsNone
<1>10. last' = last + 1 /\ last' \in last..MaxRecords /\ last' \in 1..last'
    BY <1>3, TestCasesAssumption DEF Dated, Inv
<1>11. Revisions(records[c] \cup new) # {}
    BY <1>4 DEF Revisions, Of
<1>12. Inv'
    BY <1>2, <1>3, <1>10, <1>11, PutsInv
<1> QED BY <1>8, <1>9, <1>12 DEF HistoriesStep, Kinds

LEMMA ReviseTestCaseStep == ASSUME NEW c \in Clones, Inv, ReviseTestCase(c) PROVE HistoriesStep
<1>1. PICK parents \in Seen(c, "revision") :
        /\ NamesEveryHead(c, "revision", parents)
        /\ \E new \in Valid(c, {{[Successor(c, "revision", Home(records[c]), parents)
                                    EXCEPT !.steps = steps]} : steps \in SUBSET Steps}) : Puts(c, new)
    BY DEF ReviseTestCase
<1>2. PICK steps \in SUBSET Steps :
        Puts(c, {[Successor(c, "revision", Home(records[c]), parents) EXCEPT !.steps = steps]})
    BY <1>1 DEF Valid
<1> DEFINE s == Successor(c, "revision", Home(records[c]), parents)
           n == [s EXCEPT !.steps = steps]
<1>3. n.kind = s.kind /\ n.id = s.id /\ n.parents = s.parents /\ n.past = s.past
    BY DEF Successor, Blank
<1>4. s.kind = "revision" /\ Shown(s) = OverHeads(Of(records[c], "revision"), Given(last + 1))
    BY <1>1, SuccessorOf
<1>5. Shown(n) = Shown(s)
    BY <1>3 DEF Shown
<1>6. Dated(last + 1) /\ Revisions(records[c]) # {} /\ Puts(c, {n})
    BY <1>2 DEF ReviseTestCase
<1> HIDE DEF n, s
<1> QED BY <1>3, <1>4, <1>5, <1>6, OneStep DEF Kinds

LEMMA SetTestCaseStateStep == ASSUME NEW c \in Clones, Inv, SetTestCaseState(c) PROVE HistoriesStep
<1>1. PICK parents \in Seen(c, "event") :
        /\ NamesEveryHead(c, "event", parents)
        /\ \E new \in Valid(c, {{[Successor(c, "event", Home(records[c]), parents)
                                    EXCEPT !.state = state]} : state \in States}) : Puts(c, new)
    BY DEF SetTestCaseState
<1>2. PICK state \in States :
        Puts(c, {[Successor(c, "event", Home(records[c]), parents) EXCEPT !.state = state]})
    BY <1>1 DEF Valid
<1> DEFINE s == Successor(c, "event", Home(records[c]), parents)
           n == [s EXCEPT !.state = state]
<1>3. n.kind = s.kind /\ n.id = s.id /\ n.parents = s.parents /\ n.past = s.past
    BY DEF Successor, Blank
<1>4. s.kind = "event" /\ Shown(s) = OverHeads(Of(records[c], "event"), Given(last + 1))
    BY <1>1, SuccessorOf
<1>5. Shown(n) = Shown(s)
    BY <1>3 DEF Shown
<1>6. Dated(last + 1) /\ Revisions(records[c]) # {} /\ Puts(c, {n})
    BY <1>2 DEF SetTestCaseState
<1> HIDE DEF n, s
<1> QED BY <1>3, <1>4, <1>5, <1>6, OneStep DEF Kinds

LEMMA RecordRunStep == ASSUME NEW c \in Clones, Inv, RecordRun(c) PROVE HistoriesStep
<1>1. PICK parents \in Seen(c, "run"), uses \in Seen(c, "evidence") \ {{}},
           pin \in {None} \cup Names(Revisions(records[c])), request \in Requests \cup {None} :
        LET r == [Successor(c, "run", Home(records[c]), parents) EXCEPT !.pin = Pin(records[c], pin), !.uses = uses,
                    !.request = request, !.gen = TRUE, !.def = pin = None]
        IN NamesEveryHead(c, "run", parents) /\ \E new \in Valid(c, {{r}}) : Puts(c, new)
    BY DEF RecordRun
<1> DEFINE s == Successor(c, "run", Home(records[c]), parents)
           n == [s EXCEPT !.pin = Pin(records[c], pin), !.uses = uses,
                    !.request = request, !.gen = TRUE, !.def = pin = None]
<1>2. Puts(c, {n})
    BY <1>1 DEF Valid
<1>3. n.kind = s.kind /\ n.id = s.id /\ n.parents = s.parents /\ n.past = s.past
    BY DEF Successor, Blank
<1>4. s.kind = "run" /\ Shown(s) = OverHeads(Of(records[c], "run"), Given(last + 1))
    BY <1>1, SuccessorOf
<1>5. Shown(n) = Shown(s)
    BY <1>3 DEF Shown
<1>6. Dated(last + 1) /\ Revisions(records[c]) # {}
    BY DEF RecordRun
<1> HIDE DEF n, s
<1> QED BY <1>2, <1>3, <1>4, <1>5, <1>6, OneStep DEF Kinds

LEMMA SetPolicyStep == ASSUME NEW c \in Clones, Inv, SetPolicy(c) PROVE HistoriesStep
<1>1. PICK supersedes \in Seen(c, "policy"), feature \in left.under, version \in Versions, gen \in BOOLEAN,
           request \in Requests \cup {None} :
        LET S == Of(records[c], "policy")
            id == IF gen THEN NextID(version, S) ELSE Given(last + 1)
            p == [Successor(c, "policy", feature, supersedes) EXCEPT
                    !.id = id, !.version = version, !.request = request, !.gen = gen]
        IN \E new \in {x \in {{p}} : PoliciesLoad(S \cup x)} : Puts(c, new)
    BY ZenonT(90) DEF SetPolicy
<1> DEFINE s == Successor(c, "policy", feature, supersedes)
           p == [s EXCEPT !.id = IF gen THEN NextID(version, Of(records[c], "policy"))
                                        ELSE Given(last + 1),
                          !.version = version, !.request = request, !.gen = gen]
<1>2. Puts(c, {p})
    BY <1>1
<1>3. p.kind = "policy"
    BY DEF Successor, Blank
<1>4. last' \in last..MaxRecords
    BY TestCasesAssumption DEF SetPolicy, Dated, Inv
<1> HIDE DEF p
<1> QED BY <1>2, <1>3, <1>4, OtherStep DEF Kinds

\* A batch holds evidence, dated after the last record.
LEMMA PrepareEvidence ==
    ASSUME NEW S, NEW batch, NEW x, Inv,
           \A r \in batch.new : r.kind = "evidence" /\ r.created \in {last + 1, last + 2}
    PROVE  \A r \in Prepare(S, batch, x).new :
                r.kind = "evidence" /\ r.created \in {last + 1, last + 2}
<1> DEFINE all == Of(S, "evidence") \cup batch.new
           n == [Blank EXCEPT !.kind = "evidence", !.feature = Home(S),
                    !.created = last + (IF batch.new = {} THEN 1 ELSE 2),
                    !.id = IF x.id = None THEN NextID("evidence", all) ELSE x.id,
                    !.pin = Pin(S, x.pin), !.parents = x.supersedes, !.request = x.request,
                    !.gen = x.id = None, !.def = x.pin = None]
<1>1. n.kind = "evidence" /\ n.created \in {last + 1, last + 2}
    BY DEF Blank
<1>2. \/ Prepare(S, batch, x).new = {}
      \/ Prepare(S, batch, x) = batch
      \/ Prepare(S, batch, x).new = batch.new \cup {n}
    BY DEF Prepare
<1> HIDE DEF n
<1> QED BY <1>1, <1>2

LEMMA AddEvidenceBatchStep == ASSUME NEW c \in Clones, Inv, AddEvidenceBatch(c) PROVE HistoriesStep
<1>1. PICK b \in Batches(c) :
        LET batch == Batch(records[c], b.first, b.more) IN
        \E n \in {r.created : r \in batch.new} :
            Puts(c, {r \in batch.new : r.created <= n}) /\ Dated(n)
    BY DEF AddEvidenceBatch
<1> DEFINE S == records[c]
           batch == Batch(S, b.first, b.more)
           first == Prepare(S, [new |-> {}, ok |-> TRUE], b.first)
<1>2. \A r \in first.new : r.kind = "evidence" /\ r.created \in {last + 1, last + 2}
    BY PrepareEvidence
<1>3. batch = first \/ batch = Prepare(S, first, CHOOSE y \in b.more : TRUE)
    BY DEF Batch
<1> HIDE DEF first, batch
<1>4. \A r \in batch.new : r.kind = "evidence" /\ r.created \in {last + 1, last + 2}
    BY <1>2, <1>3, PrepareEvidence
<1>5. PICK n \in {r.created : r \in batch.new} :
        Puts(c, {r \in batch.new : r.created <= n}) /\ Dated(n)
    BY <1>1 DEF batch
<1>6. last' \in last..MaxRecords
    BY <1>4, <1>5, TestCasesAssumption DEF Dated, Inv
<1> QED BY <1>4, <1>5, <1>6, OtherStep DEF Kinds

LEMMA MergeStep == ASSUME NEW c \in Clones, NEW d \in Clones, Inv, Merge(c, d) PROVE HistoriesStep
<1>1. Puts(c, records[d]) /\ last' = last
    BY DEF Merge
<1>2. last' \in last..MaxRecords
    BY <1>1, TestCasesAssumption DEF Inv
<1>3. Inv'
    <2>1. \A r \in records[d] : r.kind \in Kinds => \E n \in 1..last' : r.id = Given(n)
        BY <1>1 DEF Inv
    <2>2. Revisions(records[c] \cup records[d]) = {} => Of(records[d], "event") = {}
        BY DEF Inv, Revisions, Of
    <2> QED BY <1>1, <1>2, <2>1, <2>2, PutsInv
<1>4. ASSUME NEW kind \in Kinds PROVE Merged(kind)
    <2>1. HistoryOf(kind)[d] = {Shown(r) : r \in Of(records[d], kind)}
        BY DEF HistoryOf, Shown
    <2> QED BY <1>1, <2>1, PutsOf DEF Merged
<1> QED BY <1>3, <1>4 DEF HistoriesStep

LEMMA NextStep == Inv /\ [Next]_vars => HistoriesStep
<1> SUFFICES ASSUME Inv, [Next]_vars PROVE HistoriesStep
    OBVIOUS
<1>1. CASE UNCHANGED vars
    BY <1>1 DEF vars, HistoriesStep, Inv, Kept, HistoryOf, Of, Revisions
<1>2. ASSUME Next PROVE HistoriesStep
    BY <1>2, AddTestCaseStep, ReviseTestCaseStep, SetTestCaseStateStep, SetPolicyStep,
       AddEvidenceBatchStep, RecordRunStep, MergeStep DEF Next
<1> QED BY <1>1, <1>2
-----------------------------------------------------------------------------
\* What History computes from the records it sees, and the clone from its own.
Pasts(S, I) == UNION {r.past : r \in {x \in S : x.id \in I}}

Alike(r, t) == r.id = t.id /\ r.parents = t.parents /\ r.past = t.past

LEMMA SeenAlike ==
    ASSUME NEW S, NEW T, NEW I,
           \A r \in S : \E t \in T : Alike(r, t),
           \A t \in T : \E r \in S : Alike(r, t)
    PROVE  /\ {t.id : t \in T} = {r.id : r \in S}
           /\ UNION {t.parents : t \in T} = UNION {r.parents : r \in S}
           /\ Pasts(T, I) = Pasts(S, I)
<1>1. {t.id : t \in T} = {r.id : r \in S}
    BY DEF Alike
<1>2. UNION {t.parents : t \in T} = UNION {r.parents : r \in S}
    BY DEF Alike
<1>3. Pasts(T, I) = Pasts(S, I)
    BY DEF Alike, Pasts
<1> QED BY <1>1, <1>2, <1>3

LEMMA ShownAlike ==
    ASSUME NEW S, NEW T, T = {Shown(r) : r \in S}
    PROVE  /\ \A r \in S : \E t \in T : Alike(r, t)
           /\ \A t \in T : \E r \in S : Alike(r, t)
<1>1. \A r \in S : Shown(r) \in T /\ Alike(r, Shown(r))
    BY DEF Shown, Alike
<1> QED BY <1>1

\* The next number is the name of no record yet.
LEMMA NextIsFresh ==
    ASSUME Inv, NEW kind \in Kinds, last + 1 \in 1..MaxRecords
    PROVE  \A c \in Clones : Given(last + 1) \notin {r.id : r \in HistoryOf(kind)[c]}
<1> SUFFICES ASSUME NEW c \in Clones, NEW r \in Of(records[c], kind), r.id = Given(last + 1)
             PROVE  FALSE
    BY DEF HistoryOf
<1>1. PICK n \in 1..last : r.id = Given(n)
    BY DEF Inv, Of
<1>2. n = last + 1
    BY <1>1 DEF Given
<1> QED BY <1>1, <1>2, TestCasesAssumption DEF Inv

LEMMA RevisionHistoryStep ==
    ASSUME Inv, Written("revision") \/ Merged("revision") \/ Kept("revision")
    PROVE  [RevisionHistory!Next]_(HistoryOf("revision"))
<1> DEFINE H == HistoryOf("revision")
<1>1. CASE Written("revision")
    <2>1. PICK c \in Clones :
            /\ last + 1 \in 1..MaxRecords
            /\ H' = [H EXCEPT ![c] = @ \cup
                        {OverHeads(Of(records[c], "revision"), Given(last + 1))}]
        BY <1>1 DEF Written
    <2> DEFINE i == Given(last + 1)
               S == Of(records[c], "revision")
    <2>2. H[c] = {Shown(r) : r \in S}
        BY DEF HistoryOf, Shown
    <2> DEFINE I == Heads(S)
               T == H[c]
    <2> HIDE DEF S, I, T, H
    <2>3. /\ \A r \in S : \E t \in T : Alike(r, t)
          /\ \A t \in T : \E r \in S : Alike(r, t)
        BY <2>2, ShownAlike DEF T
    <2>4. RevisionHistory!Heads(T) = I
        BY <2>3, SeenAlike DEF RevisionHistory!Heads, RevisionHistory!Names, Heads, Names, I
    <2>5. Pasts(T, I) = Pasts(S, I)
        BY <2>3, SeenAlike
    <2>6. RevisionHistory!Succeed(i, H[c]) = OverHeads(S, i)
        BY <2>4, <2>5 DEF RevisionHistory!Succeed, OverHeads, Ancestors, Pasts, I, T
    <2>7. i \in {Given(n) : n \in 1..MaxRecords}
        BY <2>1
    <2>8. RevisionHistory!Fresh(i)
        BY <2>1, NextIsFresh DEF RevisionHistory!Fresh, RevisionHistory!Names, Kinds, H
    <2>9. RevisionHistory!Write(c, i)
        BY <2>1, <2>6, <2>8 DEF RevisionHistory!Write, S, H
    <2> QED BY <2>7, <2>9 DEF RevisionHistory!Next
<1>2. CASE Merged("revision")
    BY <1>2 DEF Merged, RevisionHistory!Next, RevisionHistory!Merge
<1>3. CASE Kept("revision")
    BY <1>3 DEF Kept
<1> QED BY <1>1, <1>2, <1>3

LEMMA EventHistoryStep ==
    ASSUME Inv, Written("event") \/ Merged("event") \/ Kept("event")
    PROVE  [EventHistory!Next]_(HistoryOf("event"))
<1> DEFINE H == HistoryOf("event")
<1>1. CASE Written("event")
    <2>1. PICK c \in Clones :
            /\ last + 1 \in 1..MaxRecords
            /\ H' = [H EXCEPT ![c] = @ \cup
                        {OverHeads(Of(records[c], "event"), Given(last + 1))}]
        BY <1>1 DEF Written
    <2> DEFINE i == Given(last + 1)
               S == Of(records[c], "event")
    <2>2. H[c] = {Shown(r) : r \in S}
        BY DEF HistoryOf, Shown
    <2> DEFINE I == Heads(S)
               T == H[c]
    <2> HIDE DEF S, I, T, H
    <2>3. /\ \A r \in S : \E t \in T : Alike(r, t)
          /\ \A t \in T : \E r \in S : Alike(r, t)
        BY <2>2, ShownAlike DEF T
    <2>4. EventHistory!Heads(T) = I
        BY <2>3, SeenAlike DEF EventHistory!Heads, EventHistory!Names, Heads, Names, I
    <2>5. Pasts(T, I) = Pasts(S, I)
        BY <2>3, SeenAlike
    <2>6. EventHistory!Succeed(i, H[c]) = OverHeads(S, i)
        BY <2>4, <2>5 DEF EventHistory!Succeed, OverHeads, Ancestors, Pasts, I, T
    <2>7. i \in {Given(n) : n \in 1..MaxRecords}
        BY <2>1
    <2>8. EventHistory!Fresh(i)
        BY <2>1, NextIsFresh DEF EventHistory!Fresh, EventHistory!Names, Kinds, H
    <2>9. EventHistory!Write(c, i)
        BY <2>1, <2>6, <2>8 DEF EventHistory!Write, S, H
    <2> QED BY <2>7, <2>9 DEF EventHistory!Next
<1>2. CASE Merged("event")
    BY <1>2 DEF Merged, EventHistory!Next, EventHistory!Merge
<1>3. CASE Kept("event")
    BY <1>3 DEF Kept
<1> QED BY <1>1, <1>2, <1>3

LEMMA RunHistoryStep ==
    ASSUME Inv, Written("run") \/ Merged("run") \/ Kept("run")
    PROVE  [RunHistory!Next]_(HistoryOf("run"))
<1> DEFINE H == HistoryOf("run")
<1>1. CASE Written("run")
    <2>1. PICK c \in Clones :
            /\ last + 1 \in 1..MaxRecords
            /\ H' = [H EXCEPT ![c] = @ \cup
                        {OverHeads(Of(records[c], "run"), Given(last + 1))}]
        BY <1>1 DEF Written
    <2> DEFINE i == Given(last + 1)
               S == Of(records[c], "run")
    <2>2. H[c] = {Shown(r) : r \in S}
        BY DEF HistoryOf, Shown
    <2> DEFINE I == Heads(S)
               T == H[c]
    <2> HIDE DEF S, I, T, H
    <2>3. /\ \A r \in S : \E t \in T : Alike(r, t)
          /\ \A t \in T : \E r \in S : Alike(r, t)
        BY <2>2, ShownAlike DEF T
    <2>4. RunHistory!Heads(T) = I
        BY <2>3, SeenAlike DEF RunHistory!Heads, RunHistory!Names, Heads, Names, I
    <2>5. Pasts(T, I) = Pasts(S, I)
        BY <2>3, SeenAlike
    <2>6. RunHistory!Succeed(i, H[c]) = OverHeads(S, i)
        BY <2>4, <2>5 DEF RunHistory!Succeed, OverHeads, Ancestors, Pasts, I, T
    <2>7. i \in {Given(n) : n \in 1..MaxRecords}
        BY <2>1
    <2>8. RunHistory!Fresh(i)
        BY <2>1, NextIsFresh DEF RunHistory!Fresh, RunHistory!Names, Kinds, H
    <2>9. RunHistory!Write(c, i)
        BY <2>1, <2>6, <2>8 DEF RunHistory!Write, S, H
    <2> QED BY <2>7, <2>9 DEF RunHistory!Next
<1>2. CASE Merged("run")
    BY <1>2 DEF Merged, RunHistory!Next, RunHistory!Merge
<1>3. CASE Kept("run")
    BY <1>3 DEF Kept
<1> QED BY <1>1, <1>2, <1>3
-----------------------------------------------------------------------------
LEMMA InitInv == Init => Inv
<1> SUFFICES ASSUME Init PROVE Inv
    OBVIOUS
<1>1. CASE records = [c \in Clones |-> {}] /\ last = 0
    BY <1>1, TestCasesAssumption DEF Inv, Revisions, Of
<1>2. ASSUME NEW feature, NEW steps \in SUBSET Steps, last = 1,
             records = [c \in Clones |-> Package(1, feature, steps)]
      PROVE  Inv
    <2>1. \A r \in Package(1, feature, steps) : r.id = Given(1)
        BY DEF Package, First, Blank
    <2>2. Of(Package(1, feature, steps), "revision") # {}
        <3> DEFINE r == [First("revision", 1, feature) EXCEPT !.steps = steps]
        <3>1. r \in Package(1, feature, steps)
            BY DEF Package
        <3>2. r.kind = "revision"
            BY DEF First, Blank
        <3> QED BY <3>1, <3>2 DEF Of
    <2>3. last \in 0..MaxRecords /\ 1 \in 1..last
        BY <1>2, TestCasesAssumption
    <2> QED BY <1>2, <2>1, <2>2, <2>3 DEF Inv, Revisions
<1> QED BY <1>1, <1>2 DEF Init

\* In a repository that has the test case, its package is the same everywhere.
LEMMA InitHistory ==
    ASSUME Init
    PROVE  /\ HistoryOf("run") = [c \in Clones |-> {}]
           /\ \A kind \in {"revision", "event"} :
                \/ HistoryOf(kind) = [c \in Clones |-> {}]
                \/ HistoryOf(kind) =
                    [c \in Clones |-> {[id |-> Given(1), parents |-> {}, past |-> {}]}]
<1>1. CASE records = [c \in Clones |-> {}]
    BY <1>1 DEF HistoryOf, Of
<1>2. ASSUME NEW feature, NEW steps \in SUBSET Steps, records = [c \in Clones |-> Package(1, feature, steps)]
      PROVE  /\ HistoryOf("run") = [c \in Clones |-> {}]
             /\ \A kind \in {"revision", "event"} : HistoryOf(kind) =
                    [c \in Clones |-> {[id |-> Given(1), parents |-> {}, past |-> {}]}]
    <2> DEFINE r == [First("revision", 1, feature) EXCEPT !.steps = steps]
               e == [First("event", 1, feature) EXCEPT !.state = "proposed"]
    <2>1. /\ r.kind = "revision" /\ r.id = Given(1) /\ r.parents = {} /\ r.past = {}
          /\ e.kind = "event" /\ e.id = Given(1) /\ e.parents = {} /\ e.past = {}
        BY DEF First, Blank
    <2>2. Package(1, feature, steps) = {r, e}
        BY DEF Package
    <2> HIDE DEF r, e
    <2>3. /\ Of(Package(1, feature, steps), "revision") = {r}
          /\ Of(Package(1, feature, steps), "event") = {e}
          /\ Of(Package(1, feature, steps), "run") = {}
        BY <2>1, <2>2 DEF Of
    <2>4. \A c \in Clones : records[c] = Package(1, feature, steps)
        BY <1>2
    <2> DEFINE b == [id |-> Given(1), parents |-> {}, past |-> {}]
    <2>5. /\ {[id |-> x.id, parents |-> x.parents, past |-> x.past] : x \in {r}} = {b}
          /\ {[id |-> x.id, parents |-> x.parents, past |-> x.past] : x \in {e}} = {b}
        BY <2>1
    <2> HIDE DEF b
    <2>6. HistoryOf("run") = [c \in Clones |-> {}]
        BY <2>3, <2>4 DEF HistoryOf
    <2>7. HistoryOf("revision") = [c \in Clones |-> {b}]
        BY <2>3, <2>4, <2>5 DEF HistoryOf
    <2>8. HistoryOf("event") = [c \in Clones |-> {b}]
        BY <2>3, <2>4, <2>5 DEF HistoryOf
    <2> QED BY <2>6, <2>7, <2>8 DEF b
<1> QED BY <1>1, <1>2 DEF Init

\* Whatever was done, each record of these kinds has a number of its own, and an
\* event comes with a revision.
THEOREM Invariance == Spec => []Inv
<1>1. Inv /\ [Next]_vars => Inv'
    BY NextStep DEF HistoriesStep
<1> QED BY <1>1, InitInv, PTL DEF Spec

\* Every behaviour of the commands and of the merges is, seen by one kind of
\* record, a behaviour of History: what History promises holds of them.
THEOREM ImplementsHistory == Spec => Reconciled
<1>1. Init => RevisionHistory!Init /\ EventHistory!Init /\ RunHistory!Init
    <2> SUFFICES ASSUME Init PROVE RevisionHistory!Init /\ EventHistory!Init /\ RunHistory!Init
        OBVIOUS
    <2>1. Given(1) \in {Given(n) : n \in 1..MaxRecords}
        BY TestCasesAssumption
    <2> QED BY <2>1, InitHistory DEF RevisionHistory!Init, EventHistory!Init, RunHistory!Init,
                    RevisionHistory!Begin, EventHistory!Begin
<1>2. ASSUME Inv, [Next]_vars
      PROVE  /\ [RevisionHistory!Next]_(HistoryOf("revision"))
             /\ [EventHistory!Next]_(HistoryOf("event"))
             /\ [RunHistory!Next]_(HistoryOf("run"))
    BY <1>2, NextStep, RevisionHistoryStep, EventHistoryStep, RunHistoryStep
       DEF HistoriesStep, Kinds
<1> QED BY <1>1, <1>2, Invariance, PTL
        DEF Spec, Reconciled, RevisionHistory!Spec, EventHistory!Spec, RunHistory!Spec
-----------------------------------------------------------------------------
(* What is reported current.                                               *)

LEMMA RevisionsTraced ==
    ASSUME Chronicle(HistoryOf("revision")), [RevisionHistory!Next]_(HistoryOf("revision"))
    PROVE  Chronicle(HistoryOf("revision")')
<1> DEFINE h == HistoryOf("revision")
<1>1. ASSUME NEW c \in Clones, NEW i, RevisionHistory!Write(c, i)
      PROVE  Gains(h, h', c, i)
    BY <1>1 DEF RevisionHistory!Write, RevisionHistory!Fresh, RevisionHistory!Names,
                RevisionHistory!Succeed, RevisionHistory!Heads, Gains, Names, OverHeads, Heads, Ancestors
<1>2. ASSUME NEW c \in Clones, NEW d \in Clones, RevisionHistory!Merge(c, d)
      PROVE  Joins(h, h', c, d)
    BY <1>2 DEF RevisionHistory!Merge, Joins
<1>3. CASE UNCHANGED h
    BY <1>3
<1> HIDE DEF h
<1>4. Chronicle(h) => Chronicle(h')
    BY <1>1, <1>2, <1>3, GainsTraced, JoinsTraced DEF RevisionHistory!Next, h
<1> QED BY <1>4 DEF h

LEMMA RunsTraced ==
    ASSUME Chronicle(HistoryOf("run")), [RunHistory!Next]_(HistoryOf("run"))
    PROVE  Chronicle(HistoryOf("run")')
<1> DEFINE h == HistoryOf("run")
<1>1. ASSUME NEW c \in Clones, NEW i, RunHistory!Write(c, i)
      PROVE  Gains(h, h', c, i)
    BY <1>1 DEF RunHistory!Write, RunHistory!Fresh, RunHistory!Names,
                RunHistory!Succeed, RunHistory!Heads, Gains, Names, OverHeads, Heads, Ancestors
<1>2. ASSUME NEW c \in Clones, NEW d \in Clones, RunHistory!Merge(c, d)
      PROVE  Joins(h, h', c, d)
    BY <1>2 DEF RunHistory!Merge, Joins
<1>3. CASE UNCHANGED h
    BY <1>3
<1> HIDE DEF h
<1>4. Chronicle(h) => Chronicle(h')
    BY <1>1, <1>2, <1>3, GainsTraced, JoinsTraced DEF RunHistory!Next, h
<1> QED BY <1>4 DEF h

Traces == Chronicle(HistoryOf("revision")) /\ Chronicle(HistoryOf("run"))

\* What is proved of the abstract histories holds of the revisions and the runs.
LEMMA HistoriesSound == Spec => []Traces
<1>1. RevisionHistory!Init /\ RunHistory!Init => Traces
    BY OpensTraced DEF RevisionHistory!Init, RevisionHistory!Begin, RunHistory!Init, RunHistory!Begin,
                       Opens, Alone, Traces
<1>2. /\ Traces
      /\ [RevisionHistory!Next]_(HistoryOf("revision"))
      /\ [RunHistory!Next]_(HistoryOf("run"))
      => Traces'
    BY RevisionsTraced, RunsTraced DEF Traces
<1> QED BY <1>1, <1>2, ImplementsHistory, PTL
        DEF Reconciled, RevisionHistory!Spec, RunHistory!Spec

\* Whatever the clone holds is behind its only head.
LEMMA BehindTheHead ==
    ASSUME NEW kind, Chronicle(HistoryOf(kind)), NEW c \in Clones, NEW S, S = Of(records[c], kind),
           NEW r \in S, Heads(S) = {r.id}
    PROVE  r.past \cup {r.id} = Names(S) /\ Ancestors(S, {r.id}) = Names(S)
<1> DEFINE T == HistoryOf(kind)[c]
<1>1. T = {Shown(x) : x \in S}
    BY DEF HistoryOf, Shown
<1>2. Traced(T) /\ OneName(T, T)
    BY DEF Chronicle
<1> HIDE DEF T
<1>3. /\ \A x \in S : \E t \in T : Alike(x, t)
      /\ \A t \in T : \E x \in S : Alike(x, t)
    BY <1>1, ShownAlike
<1>4. Names(T) = Names(S) /\ Heads(T) = {r.id}
    BY <1>3, SeenAlike DEF Heads, Names
<1>5. \A x \in T : x.id = r.id \/ \E h \in T : h.id = r.id /\ x.id \in h.past
  <2>1. Headed(T)
      BY <1>2, Covered
  <2> QED BY <1>4, <2>1 DEF Headed
<1>6. \A h \in S : h.id = r.id => h.past = r.past
    BY <1>2, <1>3 DEF OneName, Alike
<1>7. \A x \in S : x.id = r.id \/ x.id \in r.past
    BY <1>3, <1>5, <1>6 DEF Alike
<1>8. r.past \subseteq Names(S)
    BY <1>2, <1>3, <1>4 DEF Traced, Past, Alike
<1>9. r.past \cup {r.id} = Names(S)
    BY <1>7, <1>8 DEF Names
<1>10. Ancestors(S, {r.id}) = r.past \cup {r.id}
    BY <1>6 DEF Ancestors
<1> QED BY <1>9, <1>10

\* Evidence or a run that is reported current is of the revision that succeeds
\* every other revision of the clone, and such a run succeeds every other run
\* and rests on no evidence that was superseded.
THEOREM CurrentSucceedsAll == Spec => []CurrentIsLatest
<1>1. ASSUME Chronicle(HistoryOf("revision")), Chronicle(HistoryOf("run"))
      PROVE  CurrentIsLatest
  <2> SUFFICES ASSUME NEW c \in Clones, NEW S, S = records[c], Loads(S), NEW r \in S,
                      \/ r.kind = "evidence" /\ EvidenceCurrent(S, r)
                      \/ r.kind = "run" /\ RunCurrent(S, r)
               PROVE  /\ Ancestors(Revisions(S), {r.pin}) = Names(Revisions(S))
                      /\ r.kind = "run" =>
                            /\ r.past \cup {r.id} = Names(Of(S, "run"))
                            /\ r.uses \cap UNION {e.parents : e \in Of(S, "evidence")} = {}
      BY DEF CurrentIsLatest
  <2>1. Heads(Revisions(S)) = {r.pin}
      BY DEF EvidenceCurrent, RunCurrent, RevisionHeads
  <2>2. PICK v \in Revisions(S) : v.id = r.pin
      BY <2>1 DEF Heads, Names
  <2>3. Ancestors(Revisions(S), {r.pin}) = Names(Revisions(S))
    <3>1. Revisions(S) = Of(records[c], "revision")
        BY DEF Revisions
    <3> QED BY <1>1, <2>1, <2>2, <3>1, BehindTheHead
  <2>4. ASSUME r.kind = "run"
        PROVE  r.past \cup {r.id} = Names(Of(S, "run"))
    <3>1. r \in Of(S, "run") /\ Heads(Of(S, "run")) = {r.id}
        BY <2>4 DEF Of, RunCurrent
    <3> QED BY <1>1, <3>1, BehindTheHead
  <2>5. ASSUME r.kind = "run", NEW e \in Of(S, "evidence"), NEW u \in r.uses, u \in e.parents
        PROVE  FALSE
    <3>1. r.uses \subseteq Names(Of(S, "evidence"))
        BY <2>2, <2>5 DEF Loads, GraphsLoad, SoundBesides, Pinned, Of
    <3>2. PICK f \in Of(S, "evidence") : f.id = u
        BY <3>1, <2>5 DEF Names
    <3>3. u \in Heads(Of(S, "evidence"))
        BY <2>5, <3>2 DEF RunCurrent, EvidenceCurrent
    <3> QED BY <2>5, <3>3 DEF Heads
  <2> QED BY <2>3, <2>4, <2>5
<1>2. Traces => CurrentIsLatest
    BY <1>1 DEF Traces
<1> QED BY <1>2, HistoriesSound, PTL
-----------------------------------------------------------------------------
(* What every clone holds.                                                 *)

\* Parents are there, and are older; a name is one record's.
Parented(S) == \A r \in S : \A i \in r.parents : \E p \in S : p.kind = r.kind /\ p.id = i
Ordered(S) == \A r, p \in S : p.kind = r.kind /\ p.id \in r.parents => p.created < r.created
Single(S) == \A r, s \in S : r.kind = s.kind /\ r.id = s.id => r = s
PastHeld(S) == \A r \in Revisions(S) : r.past \subseteq Names(Revisions(S))

\* The test case began with one package.
FirstEvent(v) == [First("event", v.created, v.feature) EXCEPT !.state = "proposed"]
Starts(S, v) == Roots(Revisions(S)) = {v} /\ Roots(Of(S, "event")) = {FirstEvent(v)}
Begun(S) ==
    IF Revisions(S) = {} THEN Of(S, "event") = {} ELSE \E v \in Revisions(S) : Starts(S, v)

AllKinds == Kinds \cup {"evidence", "policy"}

Good(S) ==
    /\ IsFiniteSet(S)
    /\ \A r \in S : r.created \in Nat /\ r.kind \in AllKinds
    /\ Parented(S) /\ Ordered(S) /\ Single(S) /\ PastHeld(S)
    /\ Begun(S)
    /\ NoStepReused(Revisions(S))
    /\ LegalStates(Of(S, "event"))
    /\ Pinned(S)

MadeUp(i) == \E version \in Versions, n \in Nat : i = <<version, n>>

GInv ==
    /\ Inv
    /\ \A c \in Clones : IdsClaimed(records[c]) => Good(records[c])
    /\ \A c \in Clones : \A r \in records[c] :
        /\ r.created \in Nat /\ r.created <= last
        /\ r.kind = "policy" => MadeUp(r.id) \/ \E n \in 1..last : r.id = Given(n)

\* A clone that loads has no id twice.
LEMMA LoadedGood ==
    ASSUME GInv, NEW c \in Clones, Mutates(c)
    PROVE  Good(records[c]) /\ IdsClaimed(records[c]) /\ Loads(records[c])
BY DEF GInv, Mutates, Loads

\* Records of the test case are of its feature.
LEMMA AtHome ==
    ASSUME NEW S, IdsClaimed(S), Revisions(S) # {},
           NEW new, \A x \in new : x.kind # "policy" /\ x.feature = Home(S)
    PROVE  IdsClaimed(S \cup new)
<1>1. \E r \in Revisions(S) : Home(S) = r.feature
    BY DEF Home
<1>2. \A s \in S : s.kind # "policy" => s.feature = Home(S)
    BY <1>1 DEF IdsClaimed, Revisions, Of
<1>3. Of(S \cup new, "policy") = Of(S, "policy")
    BY DEF Of
<1> QED BY <1>2, <1>3 DEF IdsClaimed

LEMMA OldestIn ==
    ASSUME NEW T, T # {}, \A r \in T : r.created \in Nat
    PROVE  \E r \in T : \A t \in T : ~(t.created < r.created)
<1> DEFINE R == OpToRel(<, Nat)
           N == {r.created : r \in T}
<1>1. N \subseteq Nat /\ N # {}
    OBVIOUS
<1>2. IsWellFoundedOn(R, Nat)
    BY NatLessThanWellFounded
<1>3. PICK m \in N : \A k \in N : ~ (<<k, m>> \in R)
    <2> HIDE DEF R, N
    <2> QED BY <1>1, <1>2, WFMin
<1>4. \A k \in N : ~ (k < m)
    BY <1>1, <1>3 DEF OpToRel
<1>5. PICK r \in T : r.created = m
    OBVIOUS
<1> QED BY <1>4, <1>5

\* Among dated records nobody succeeds the newest.
LEMMA NewestIsHead ==
    ASSUME NEW T, T # {}, NEW n \in Nat, \A r \in T : r.created \in Nat /\ r.created <= n,
           \A r, p \in T : p.id \in r.parents => p.created < r.created
    PROVE  Heads(T) # {}
<1> DEFINE f == [r \in T |-> r.created]
<1>1. f \in [T -> Nat] /\ \A r \in T : f[r] <= n
    OBVIOUS
<1>2. PICK h \in T : \A r \in T : f[r] <= f[h]
    <2> HIDE DEF f
    <2> QED BY <1>1, Largest
<1>3. \A r \in T : h.id \notin r.parents
    BY <1>2
<1> QED BY <1>3 DEF Heads, Names

LEMMA GoodGraphs ==
    ASSUME NEW S, Good(S), NEW kind
    PROVE  Graph(Of(S, kind))
<1>1. Closed(Of(S, kind))
    BY DEF Good, Parented, Closed, Names, Of
<1>2. ASSUME NEW T \in SUBSET Of(S, kind), T # {}
      PROVE  \E r \in T : r.parents \cap Names(T) = {}
  <2>1. \A r \in T : r \in S /\ r.kind = kind /\ r.created \in Nat
      BY DEF Good, Of
  <2>2. PICK r \in T : \A t \in T : ~(t.created < r.created)
      BY <1>2, <2>1, OldestIn
  <2>3. \A t \in T : t.id \notin r.parents
      BY <2>1, <2>2 DEF Good, Ordered
  <2> QED BY <2>3 DEF Names
<1> QED BY <1>1, <1>2 DEF Graph, Acyclic

\* A clone that holds what is good loads, but for what merges may bring.
LEMMA GoodLoads ==
    ASSUME NEW S, Good(S)
    PROVE  PoliciesLoad(S) /\ (Revisions(S) # {} => SoundBesides(S))
<1>1. PoliciesLoad(S)
    BY GoodGraphs DEF PoliciesLoad
<1>2. ASSUME Revisions(S) # {}
      PROVE  SoundBesides(S)
  <2>1. PICK v : Starts(S, v)
      BY <1>2 DEF Good, Begun
  <2>2. \A kind \in {"revision", "event"} : Cardinality(Roots(Of(S, kind))) = 1
      BY <2>1, FS_Singleton DEF Starts, Revisions
  <2> QED BY <2>2, GoodGraphs DEF Good, SoundBesides
<1> QED BY <1>1, <1>2
-----------------------------------------------------------------------------
(* Merges.                                                                 *)

\* Among more records, those of a good clone keep the parents they had.
LEMMA OwnParents ==
    ASSUME NEW S, NEW U, Good(S), S \subseteq U,
           \A r \in S, s \in U : r.kind = s.kind /\ r.id = s.id => r = s,
           NEW r \in S, NEW p \in U, p.kind = r.kind, p.id \in r.parents
    PROVE  p \in S
<1>1. PICK q \in S : q.kind = r.kind /\ q.id = p.id
    BY DEF Good, Parented
<1> QED BY <1>1

LEMMA OwnSteps ==
    ASSUME NEW S, NEW U, Good(S), S \subseteq U,
           \A r \in S, s \in U : r.kind = s.kind /\ r.id = s.id => r = s,
           NEW r \in Revisions(S)
    PROVE  r.steps \cap StepsOf(Revisions(U), Ancestors(Revisions(U), r.parents))
              \subseteq StepsOf(Revisions(U), r.parents)
<1> SUFFICES ASSUME NEW step \in r.steps, NEW x \in Revisions(U), step \in x.steps,
                    x.id \in Ancestors(Revisions(U), r.parents)
             PROVE  \E y \in Revisions(U) : y.id \in r.parents /\ step \in y.steps
    BY DEF StepsOf
<1>1. Revisions(S) \subseteq Revisions(U) /\ \A y \in Revisions(U) : y \in S => y \in Revisions(S)
    BY DEF Revisions, Of
<1>2. \A y \in Revisions(U) : y.id \in r.parents => y \in Revisions(S)
    BY <1>1, OwnParents DEF Revisions, Of
<1>3. x.id \in Ancestors(Revisions(S), r.parents)
    BY <1>2 DEF Ancestors
<1>4. r.parents \subseteq Names(Revisions(S))
    BY DEF Good, Parented, Names, Revisions, Of
<1>5. \A y \in Revisions(S) : y.past \subseteq Names(Revisions(S))
    BY DEF Good, PastHeld
<1>6. x.id \in Names(Revisions(S))
    BY <1>3, <1>4, <1>5 DEF Ancestors
<1>7. PICK z \in Revisions(S) : z.id = x.id
    BY <1>6 DEF Names
<1>8. x \in Revisions(S)
    BY <1>7 DEF Revisions, Of
<1>9. step \in StepsOf(Revisions(S), Ancestors(Revisions(S), r.parents))
    BY <1>3, <1>8 DEF StepsOf
<1>10. step \in StepsOf(Revisions(S), r.parents)
    BY <1>9 DEF Good, NoStepReused
<1>11. PICK y \in Revisions(S) : y.id \in r.parents /\ step \in y.steps
    BY <1>10 DEF StepsOf
<1> QED BY <1>1, <1>11

\* Two good clones without a clash make a good one, if no id is twice there.
LEMMA MergeGood ==
    ASSUME NEW S, NEW T, Good(S), Good(T), ~Clash(S, T), IdsClaimed(S \cup T)
    PROVE  Good(S \cup T)
<1> DEFINE U == S \cup T
<1>1. /\ \A r \in S, s \in T : r.kind = s.kind /\ r.id = s.id => r = s
      /\ \A r \in Roots(Revisions(S)), s \in Roots(Revisions(T)) : r = s
  <2>1. \A r \in S, s \in T : r.kind = s.kind /\ r.id = s.id => r.feature = s.feature
      BY DEF IdsClaimed, Of
  <2>2. \A r \in Revisions(S), s \in Revisions(T) : r.feature = s.feature
      BY DEF IdsClaimed, Revisions, Of
  <2> QED BY <2>1, <2>2 DEF Clash, Roots
<1>2. Single(S) /\ Single(T)
    BY DEF Good
<1>3. Single(U)
    BY <1>1, <1>2 DEF Single
<1>4. /\ \A r \in S, s \in U : r.kind = s.kind /\ r.id = s.id => r = s
      /\ \A r \in T, s \in U : r.kind = s.kind /\ r.id = s.id => r = s
      /\ S \subseteq U /\ T \subseteq U
    BY <1>3 DEF Single
<1>5. Revisions(U) = Revisions(S) \cup Revisions(T) /\ Of(U, "event") = Of(S, "event") \cup Of(T, "event")
      /\ Names(Revisions(U)) = Names(Revisions(S)) \cup Names(Revisions(T))
      /\ Names(Of(U, "evidence")) = Names(Of(S, "evidence")) \cup Names(Of(T, "evidence"))
    BY DEF Revisions, Of, Names
<1> HIDE DEF U
<1>6. IsFiniteSet(U) /\ \A r \in U : r.created \in Nat /\ r.kind \in AllKinds
  <2>1. IsFiniteSet(S \cup T)
      BY FS_Union DEF Good
  <2> QED BY <2>1 DEF Good, U
<1>7. Parented(U)
  <2>1. \A r \in S : \A i \in r.parents : \E p \in U : p.kind = r.kind /\ p.id = i
      BY <1>4 DEF Good, Parented
  <2>2. \A r \in T : \A i \in r.parents : \E p \in U : p.kind = r.kind /\ p.id = i
      BY <1>4 DEF Good, Parented
  <2> QED BY <2>1, <2>2 DEF Parented, U
<1>8. \A r, p \in U : p.kind = r.kind /\ p.id \in r.parents => (r \in S /\ p \in S) \/ (r \in T /\ p \in T)
  <2>1. \A r \in S, p \in U : p.kind = r.kind /\ p.id \in r.parents => p \in S
      BY <1>4, OwnParents
  <2>2. \A r \in T, p \in U : p.kind = r.kind /\ p.id \in r.parents => p \in T
      BY <1>4, OwnParents
  <2> QED BY <2>1, <2>2 DEF U
<1>9. Ordered(U)
    BY <1>8 DEF Good, Ordered
<1>10. PastHeld(U)
    BY <1>5 DEF Good, PastHeld
<1>11. NoStepReused(Revisions(U))
  <2>1. \A r \in Revisions(S) : r.steps \cap StepsOf(Revisions(U), Ancestors(Revisions(U), r.parents))
                                   \subseteq StepsOf(Revisions(U), r.parents)
      BY <1>4, OwnSteps
  <2>2. \A r \in Revisions(T) : r.steps \cap StepsOf(Revisions(U), Ancestors(Revisions(U), r.parents))
                                   \subseteq StepsOf(Revisions(U), r.parents)
      BY <1>4, OwnSteps
  <2> QED BY <1>5, <2>1, <2>2 DEF NoStepReused
<1>12. LegalStates(Of(U, "event"))
  <2>1. \A r \in Of(S, "event") \cup Of(T, "event") : r.parents = {} => r.state = "proposed"
      BY DEF Good, LegalStates, Roots
  <2>2. ASSUME NEW r \in Of(U, "event"), Cardinality(r.parents) = 1,
               NEW p \in Of(U, "event"), p.id \in r.parents
        PROVE  Allowed(p.state, r.state)
    <3>1. (r \in Of(S, "event") /\ p \in Of(S, "event")) \/ (r \in Of(T, "event") /\ p \in Of(T, "event"))
        BY <1>8, <2>2 DEF Of
    <3> QED BY <3>1, <2>2 DEF Good, LegalStates
  <2> QED BY <1>5, <2>1, <2>2 DEF LegalStates, Roots
<1>13. Pinned(U)
  <2>1. \A r \in U : r.kind \in {"evidence", "run"} =>
             r.pin \in Names(Revisions(U)) /\ r.uses \subseteq Names(Of(U, "evidence"))
      BY <1>5 DEF Good, Pinned, Of, U
  <2> QED BY <2>1 DEF Pinned, Of
<1>14. Begun(U)
  <2>1. CASE Revisions(S) = {}
    <3>1. Of(S, "event") = {}
        BY <2>1 DEF Good, Begun
    <3>2. Revisions(U) = Revisions(T) /\ Of(U, "event") = Of(T, "event")
        BY <2>1, <3>1, <1>5
    <3> QED BY <3>2 DEF Good, Begun, Starts
  <2>2. CASE Revisions(T) = {}
    <3>1. Of(T, "event") = {}
        BY <2>2 DEF Good, Begun
    <3>2. Revisions(U) = Revisions(S) /\ Of(U, "event") = Of(S, "event")
        BY <2>2, <3>1, <1>5
    <3> QED BY <3>2 DEF Good, Begun, Starts
  <2>3. CASE Revisions(S) # {} /\ Revisions(T) # {}
    <3>1. PICK v \in Revisions(S) : Starts(S, v)
        BY <2>3 DEF Good, Begun
    <3>2. PICK w \in Revisions(T) : Starts(T, w)
        BY <2>3 DEF Good, Begun
    <3>3. v = w
        BY <1>1, <3>1, <3>2 DEF Starts
    <3>4. Roots(Revisions(U)) = Roots(Revisions(S)) \cup Roots(Revisions(T))
          /\ Roots(Of(U, "event")) = Roots(Of(S, "event")) \cup Roots(Of(T, "event"))
        BY <1>5 DEF Roots
    <3>5. Starts(U, v) /\ v \in Revisions(U)
        BY <1>5, <3>1, <3>2, <3>3, <3>4 DEF Starts
    <3> QED BY <3>5 DEF Begun
  <2> QED BY <2>1, <2>2, <2>3
<1> QED BY <1>3, <1>6, <1>7, <1>9, <1>10, <1>11, <1>12, <1>13, <1>14 DEF Good, U
-----------------------------------------------------------------------------
(* Writes.                                                                 *)

\* What a command writes leaves its clone good and fit to load, is dated after
\* the records there are, and repeats no call, but for evidence that left both
\* its id and its revision to the writer.
Wrote(c, new) ==
    /\ Puts(c, new)
    /\ Good(records[c] \cup new)
    /\ Loads(records[c] \cup new)
    /\ last <= last' /\ last' \in Nat
    /\ \A r \in new :
        /\ r.created \in Nat /\ r.created <= last'
        /\ r.kind = "policy" => MadeUp(r.id) \/ \E n \in 1..last' : r.id = Given(n)
        /\ \A s \in records[c] : SameCall(r, s) => r.kind = "evidence" /\ r.gen /\ r.def

LEMMA PutGood ==
    ASSUME NEW S, NEW new, Good(S), IsFiniteSet(new), NEW n \in Nat,
           \A s \in S : s.created <= n,
           \A x \in new : x.created \in Nat /\ x.created > n /\ x.kind \in AllKinds,
           \A x \in new : \A s \in S : s.kind = x.kind => s.id # x.id,
           \A x \in new : \A i \in x.parents : \E p \in S \cup new : p.kind = x.kind /\ p.id = i,
           Single(new), Ordered(new),
           PastHeld(S \cup new), Begun(S \cup new), NoStepReused(Revisions(S \cup new)),
           LegalStates(Of(S \cup new, "event")), Pinned(S \cup new)
    PROVE  Good(S \cup new)
<1> DEFINE U == S \cup new
<1>1. IsFiniteSet(S \cup new)
    BY FS_Union DEF Good
<1>2. \A r \in U : r.created \in Nat /\ r.kind \in AllKinds
    BY DEF Good
<1>3. \A r \in U : \A i \in r.parents : \E p \in U : p.kind = r.kind /\ p.id = i
    BY DEF Good, Parented
<1>4. \A r \in S, p \in new : p.kind = r.kind => p.id \notin r.parents
    BY DEF Good, Parented
<1>5. Ordered(S \cup new)
  <2>1. SUFFICES ASSUME NEW r \in S \cup new, NEW p \in S \cup new,
                        p.kind = r.kind, p.id \in r.parents
                 PROVE  p.created < r.created
      BY DEF Ordered
  <2>2. p.kind = r.kind /\ p.id \in r.parents
      BY <2>1
  <2>3. CASE r \in S /\ p \in S
      BY <2>2, <2>3 DEF Good, Ordered
  <2>4. CASE r \in S /\ p \in new
      BY <2>2, <2>4, <1>4
  <2>5. CASE r \in new /\ p \in S
    <3>1. p.created \in Nat /\ r.created \in Nat /\ p.created <= n /\ r.created > n
        BY <2>5 DEF Good
    <3> QED BY <3>1
  <2>6. CASE r \in new /\ p \in new
      BY <2>2, <2>6 DEF Ordered
  <2> QED BY <2>3, <2>4, <2>5, <2>6
<1>6. Single(S \cup new)
    BY DEF Good, Single
<1>7. Parented(S \cup new)
    BY <1>3 DEF Parented
<1> QED BY <1>1, <1>2, <1>5, <1>6, <1>7 DEF Good

\* Evidence and policies leave the rest of a clone as it is.
LEMMA BesidesThese ==
    ASSUME NEW S, NEW new, Good(S), \A x \in new : x.kind \in {"evidence", "policy"}
    PROVE  /\ Revisions(S \cup new) = Revisions(S)
           /\ PastHeld(S \cup new) /\ Begun(S \cup new) /\ NoStepReused(Revisions(S \cup new))
           /\ LegalStates(Of(S \cup new, "event"))
           /\ Good(S \cup new) /\ IdsClaimed(S \cup new) /\ Loads(S) => Loads(S \cup new)
<1>1. Revisions(S \cup new) = Revisions(S) /\ Of(S \cup new, "event") = Of(S, "event")
      /\ Of(S \cup new, "run") = Of(S, "run")
    BY DEF Revisions, Of
<1>2. PastHeld(S \cup new) /\ Begun(S \cup new) /\ NoStepReused(Revisions(S \cup new))
      /\ LegalStates(Of(S \cup new, "event"))
    BY <1>1 DEF Good, PastHeld, Begun, Starts
<1>3. ASSUME Good(S \cup new), IdsClaimed(S \cup new), Loads(S)
      PROVE  Loads(S \cup new)
  <2>1. PoliciesLoad(S \cup new) /\ (Revisions(S) # {} => SoundBesides(S \cup new))
      BY <1>1, <1>3, GoodLoads
  <2>2. ActiveHasSteps(S \cup new) = ActiveHasSteps(S)
      BY <1>1 DEF ActiveHasSteps, Active, RevisionHeads
  <2>3. OneFirstRun(S \cup new) = OneFirstRun(S)
      BY <1>1 DEF OneFirstRun
  <2> QED BY <1>1, <1>3, <2>1, <2>2, <2>3 DEF Loads, GraphsLoad
<1> QED BY <1>1, <1>2, <1>3

LEMMA WroteKeeps ==
    ASSUME GInv, Inv', NEW c \in Clones, NEW new, Wrote(c, new)
    PROVE  GInv'
<1>1. \A d \in Clones : records'[d] = IF d = c THEN records[c] \cup new ELSE records[d]
    BY DEF GInv, Inv, Wrote, Puts
<1>2. \A d \in Clones : IdsClaimed(records'[d]) => Good(records'[d])
    BY <1>1 DEF GInv, Wrote
<1>3. ASSUME NEW d \in Clones, NEW r \in records'[d]
      PROVE  r.created \in Nat /\ r.created <= last' /\ (r.kind = "policy" => MadeUp(r.id) \/ \E n \in 1..last' : r.id = Given(n))
  <2>1. CASE r \in records[d]
    <3>1. r.created \in Nat /\ last \in Nat
        BY <2>1 DEF GInv, Inv
    <3>2. r.created <= last
        BY <2>1 DEF GInv
    <3>3. 1..last \subseteq 1..last'
        BY <3>1 DEF Wrote
    <3>4. r.created <= last'
        BY <3>1, <3>2 DEF Wrote
    <3> QED BY <2>1, <3>1, <3>3, <3>4 DEF GInv
  <2>2. CASE r \notin records[d]
    <3>1. r \in new
        BY <2>2, <1>1, <1>3
    <3> QED BY <3>1 DEF Wrote
  <2> QED BY <2>1, <2>2
<1> QED BY <1>2, <1>3 DEF GInv

\* A record of its kind that succeeds every head of its clone.
LEMMA SucceedGood ==
    ASSUME GInv, NEW c \in Clones, Mutates(c), NEW S, S = records[c], Revisions(S) # {},
           NEW n, n.feature = Home(S), n.kind \in Kinds, n.id = Given(last + 1), n.created = last + 1,
           n.parents = Heads(Of(S, n.kind)),
           n.past = Ancestors(Of(S, n.kind), Heads(Of(S, n.kind))),
           GraphsLoad(S \cup {n})
    PROVE  Good(S \cup {n}) /\ Loads(S \cup {n})
<1>1. Good(S) /\ last \in Nat /\ \A r \in S : r.created \in Nat /\ r.created <= last
    BY LoadedGood DEF GInv, Inv
<1>2. \A r \in S : r.kind = n.kind => r.id # n.id
  <2>1. TAKE r \in S
  <2>2. SUFFICES ASSUME r.kind = n.kind, r.id = n.id PROVE FALSE
      OBVIOUS
  <2>3. PICK m \in 1..last : r.id = Given(m)
      BY <2>2 DEF GInv, Inv
  <2>4. m = last + 1
      BY <2>2, <2>3 DEF Given
  <2> QED BY <1>1, <2>4
<1>3. /\ Revisions(S \cup {n}) = Revisions(S) \cup IF n.kind = "revision" THEN {n} ELSE {}
      /\ Of(S \cup {n}, "event") = Of(S, "event") \cup IF n.kind = "event" THEN {n} ELSE {}
    BY DEF Revisions, Of
<1>4. PICK v \in Revisions(S) : Starts(S, v)
    BY <1>1 DEF Good, Begun
<1>5. n.kind \in {"revision", "event"} => n.parents # {}
  <2>1. SUFFICES ASSUME n.kind \in {"revision", "event"} PROVE n.parents # {}
      OBVIOUS
  <2>2. Of(S, n.kind) # {}
      BY <1>4, <2>1 DEF Starts, Roots, Revisions
  <2>3. \A r \in Of(S, n.kind) : r.created \in Nat /\ r.created <= last
      BY <1>1 DEF Of
  <2>4. \A r, p \in Of(S, n.kind) : p.id \in r.parents => p.created < r.created
      BY <1>1 DEF Good, Ordered, Of
  <2> QED BY <1>1, <2>2, <2>3, <2>4, NewestIsHead
<1>6. Begun(S \cup {n})
  <2>1. Roots(Revisions(S \cup {n})) = Roots(Revisions(S))
        /\ Roots(Of(S \cup {n}, "event")) = Roots(Of(S, "event"))
      BY <1>3, <1>5 DEF Roots
  <2>2. Starts(S \cup {n}, v) /\ v \in Revisions(S \cup {n})
      BY <1>3, <1>4, <2>1 DEF Starts
  <2> QED BY <2>2 DEF Begun
<1>7. PastHeld(S \cup {n})
  <2>1. \A r \in Revisions(S) : r.past \subseteq Names(Revisions(S))
      BY <1>1 DEF Good, PastHeld
  <2>2. Heads(Revisions(S)) \subseteq Names(Revisions(S))
      BY DEF Heads
  <2>3. n.kind = "revision" => n.past \subseteq Names(Revisions(S))
      BY <2>1, <2>2 DEF Ancestors, Revisions
  <2>4. Names(Revisions(S)) \subseteq Names(Revisions(S \cup {n}))
      BY <1>3 DEF Names
  <2>5. \A r \in Revisions(S \cup {n}) : r.past \subseteq Names(Revisions(S))
      BY <1>3, <2>1, <2>3
  <2> QED BY <2>4, <2>5 DEF PastHeld
<1>8. NoStepReused(Revisions(S \cup {n})) /\ LegalStates(Of(S \cup {n}, "event")) /\ Pinned(S \cup {n})
    BY DEF GraphsLoad, SoundBesides
<1>9. \A i \in n.parents : \E p \in S : p.kind = n.kind /\ p.id = i
    BY DEF Heads, Names, Of
<1>10. n.id \notin n.parents
    BY <1>2, <1>9
<1>11. IsFiniteSet({n}) /\ Single({n}) /\ Ordered({n})
    BY <1>10, FS_Singleton DEF Single, Ordered
<1>12. n.created \in Nat /\ n.created > last /\ n.kind \in AllKinds
    BY <1>1 DEF AllKinds
<1>13. Good(S \cup {n})
    BY <1>1, <1>2, <1>6, <1>7, <1>8, <1>9, <1>11, <1>12, PutGood
<1>14. IdsClaimed(S \cup {n})
    BY LoadedGood, AtHome DEF Kinds
<1>15. Loads(S \cup {n})
    BY <1>13, <1>14, GoodLoads DEF Loads
<1> QED BY <1>13, <1>15

\* It repeats no call that named all heads: those would not be heads then.
LEMMA HeadsDiffer ==
    ASSUME GInv, NEW c \in Clones, Mutates(c), NEW kind, NEW s \in Of(records[c], kind)
    PROVE  s.parents # Heads(Of(records[c], kind))
<1> DEFINE T == Of(records[c], kind)
<1>1. last \in Nat /\ \A r \in T : r.created \in Nat /\ r.created <= last
  <2>1. Good(records[c]) /\ last \in Nat /\ \A r \in records[c] : r.created <= last
      BY LoadedGood DEF GInv, Inv
  <2> QED BY <2>1 DEF Good, Of
<1>2. \A r, p \in T : p.id \in r.parents => p.created < r.created
    BY LoadedGood DEF Good, Ordered, Of
<1>3. PICK h : h \in Heads(T)
  <2> HIDE DEF T
  <2>1. T # {}
      BY DEF T
  <2> QED BY <1>1, <1>2, <2>1, NewestIsHead
<1> QED BY <1>3 DEF Heads

LEMMA SucceedWrote ==
    ASSUME GInv, NEW c \in Clones, Mutates(c), Revisions(records[c]) # {},
           NEW n, n.feature = Home(records[c]), n.kind \in Kinds, n.id = Given(last + 1), n.created = last + 1,
           n.parents = Heads(Of(records[c], n.kind)),
           n.past = Ancestors(Of(records[c], n.kind), Heads(Of(records[c], n.kind))),
           GraphsLoad(records[c] \cup {n}), Puts(c, {n}), Dated(last + 1)
    PROVE  Wrote(c, {n})
<1>1. Good(records[c] \cup {n}) /\ Loads(records[c] \cup {n})
    BY SucceedGood
<1>2. last \in Nat /\ last' = last + 1
    BY DEF Dated, GInv, Inv
<1>3. n.kind # "policy"
    BY DEF Kinds
<1>4. ASSUME NEW s \in records[c], SameCall(n, s)
      PROVE  FALSE
  <2>1. s \in Of(records[c], n.kind) /\ s.parents = n.parents
      BY <1>4 DEF SameCall, Of
  <2> QED BY <2>1, HeadsDiffer
<1> QED BY <1>1, <1>2, <1>3, <1>4 DEF Wrote

LEMMA ReviseWrote ==
    ASSUME GInv, NEW c \in Clones, ReviseTestCase(c)
    PROVE  \E new : Wrote(c, new)
<1>1. PICK parents \in Seen(c, "revision") :
        /\ NamesEveryHead(c, "revision", parents)
        /\ \E new \in Valid(c, {{[Successor(c, "revision", Home(records[c]), parents)
                                    EXCEPT !.steps = steps]} : steps \in SUBSET Steps}) : Puts(c, new)
    BY DEF ReviseTestCase
<1>2. PICK steps \in SUBSET Steps :
        /\ Puts(c, {[Successor(c, "revision", Home(records[c]), parents) EXCEPT !.steps = steps]})
        /\ GraphsLoad(records[c] \cup {[Successor(c, "revision", Home(records[c]), parents) EXCEPT !.steps = steps]})
    BY <1>1 DEF Valid
<1> DEFINE n == [Successor(c, "revision", Home(records[c]), parents) EXCEPT !.steps = steps]
<1>3. /\ n.kind = "revision" /\ n.feature = Home(records[c]) /\ n.id = Given(last + 1) /\ n.created = last + 1 /\ n.parents = parents
      /\ n.past = Ancestors(Of(records[c], "revision"), parents)
    BY DEF Successor, Blank
<1>4. Dated(last + 1) /\ Mutates(c) /\ Revisions(records[c]) # {}
      /\ parents = Heads(Of(records[c], "revision"))
    BY <1>1 DEF ReviseTestCase, NamesEveryHead
<1>5. Puts(c, {n}) /\ GraphsLoad(records[c] \cup {n})
    BY <1>2
<1> HIDE DEF n
<1>6. Wrote(c, {n})
    BY <1>3, <1>4, <1>5, SucceedWrote DEF Kinds
<1> QED BY <1>6

LEMMA StateWrote ==
    ASSUME GInv, NEW c \in Clones, SetTestCaseState(c)
    PROVE  \E new : Wrote(c, new)
<1>1. PICK parents \in Seen(c, "event") :
        /\ NamesEveryHead(c, "event", parents)
        /\ \E new \in Valid(c, {{[Successor(c, "event", Home(records[c]), parents)
                                    EXCEPT !.state = state]} : state \in States}) : Puts(c, new)
    BY DEF SetTestCaseState
<1>2. PICK state \in States :
        /\ Puts(c, {[Successor(c, "event", Home(records[c]), parents) EXCEPT !.state = state]})
        /\ GraphsLoad(records[c] \cup {[Successor(c, "event", Home(records[c]), parents) EXCEPT !.state = state]})
    BY <1>1 DEF Valid
<1> DEFINE n == [Successor(c, "event", Home(records[c]), parents) EXCEPT !.state = state]
<1>3. /\ n.kind = "event" /\ n.feature = Home(records[c]) /\ n.id = Given(last + 1) /\ n.created = last + 1 /\ n.parents = parents
      /\ n.past = Ancestors(Of(records[c], "event"), parents)
    BY DEF Successor, Blank
<1>4. Dated(last + 1) /\ Mutates(c) /\ Revisions(records[c]) # {}
      /\ parents = Heads(Of(records[c], "event"))
    BY <1>1 DEF SetTestCaseState, NamesEveryHead
<1>5. Puts(c, {n}) /\ GraphsLoad(records[c] \cup {n})
    BY <1>2
<1> HIDE DEF n
<1>6. Wrote(c, {n})
    BY <1>3, <1>4, <1>5, SucceedWrote DEF Kinds
<1> QED BY <1>6

LEMMA RunWrote ==
    ASSUME GInv, NEW c \in Clones, RecordRun(c)
    PROVE  \E new : Wrote(c, new)
<1>1. PICK parents \in Seen(c, "run"), uses \in Seen(c, "evidence") \ {{}},
           pin \in {None} \cup Names(Revisions(records[c])), request \in Requests \cup {None} :
        LET r == [Successor(c, "run", Home(records[c]), parents) EXCEPT !.pin = Pin(records[c], pin), !.uses = uses,
                    !.request = request, !.gen = TRUE, !.def = pin = None]
        IN NamesEveryHead(c, "run", parents) /\ \E new \in Valid(c, {{r}}) : Puts(c, new)
    BY DEF RecordRun
<1> DEFINE n == [Successor(c, "run", Home(records[c]), parents) EXCEPT !.pin = Pin(records[c], pin), !.uses = uses,
                    !.request = request, !.gen = TRUE, !.def = pin = None]
<1>2. Puts(c, {n}) /\ GraphsLoad(records[c] \cup {n}) /\ parents = Heads(Of(records[c], "run"))
    BY <1>1 DEF Valid, NamesEveryHead
<1>3. /\ n.kind = "run" /\ n.feature = Home(records[c]) /\ n.id = Given(last + 1) /\ n.created = last + 1 /\ n.parents = parents
      /\ n.past = Ancestors(Of(records[c], "run"), parents)
    BY DEF Successor, Blank
<1>4. Dated(last + 1) /\ Mutates(c) /\ Revisions(records[c]) # {}
    BY DEF RecordRun
<1> HIDE DEF n
<1>5. Wrote(c, {n})
    BY <1>2, <1>3, <1>4, SucceedWrote DEF Kinds
<1> QED BY <1>5

\* A package may be put where no revision is.
LEMMA PackageGood ==
    ASSUME NEW S, Good(S), IdsClaimed(S), Revisions(S) = {}, NEW before \in Nat,
           \A s \in S : s.created <= before, NEW feature, NEW steps, NEW n, n = before + 1
    PROVE  Good(S \cup Package(n, feature, steps)) /\ Loads(S \cup Package(n, feature, steps))
<1> DEFINE r == [First("revision", n, feature) EXCEPT !.steps = steps]
           e == [First("event", n, feature) EXCEPT !.state = "proposed"]
           new == {r, e}
           U == S \cup new
<1>1. new = Package(n, feature, steps)
    BY DEF Package
<1>2. /\ r.kind = "revision" /\ r.id = Given(n) /\ r.parents = {} /\ r.past = {}
      /\ r.created = n /\ r.feature = feature /\ e.feature = feature
      /\ e.kind = "event" /\ e.id = Given(n) /\ e.parents = {} /\ e.past = {}
      /\ e.created = n /\ e.state = "proposed"
    BY DEF First, Blank
<1>3. e = FirstEvent(r)
    BY <1>2 DEF FirstEvent
<1> HIDE DEF r, e
<1>4. Of(S, "revision") = {} /\ Of(S, "event") = {} /\ Of(S, "evidence") = {} /\ Of(S, "run") = {}
  <2>1. \A s \in Of(S, "evidence") \cup Of(S, "run") : s.pin \in Names(Revisions(S))
      BY DEF Good, Pinned
  <2>2. Names(Revisions(S)) = {}
      BY DEF Names
  <2> QED BY <2>1, <2>2 DEF Good, Begun, Revisions
<1>5. \A s \in S : s.kind # "revision" /\ s.kind # "event"
    BY <1>4 DEF Of
<1>6. Revisions(U) = {r} /\ Of(U, "event") = {e} /\ Of(U, "evidence") = {} /\ Of(U, "run") = {}
    BY <1>2, <1>4 DEF Of, Revisions
<1>7. Starts(U, r)
    BY <1>2, <1>3, <1>6 DEF Starts, Roots
<1>8. Begun(U) /\ PastHeld(U)
    BY <1>2, <1>6, <1>7 DEF Begun, PastHeld
<1>9. NoStepReused(Revisions(U))
  <2>1. Ancestors({r}, {}) = {}
      BY DEF Ancestors
  <2>2. StepsOf({r}, {}) = {}
      BY DEF StepsOf
  <2> QED BY <1>2, <1>6, <2>1, <2>2 DEF NoStepReused
<1>10. LegalStates(Of(U, "event"))
    BY <1>2, <1>6, FS_EmptySet DEF LegalStates, Roots
<1>11. Pinned(U)
    BY <1>6 DEF Pinned
<1>12. IsFiniteSet(new) /\ Single(new) /\ Ordered(new)
  <2>1. IsFiniteSet({r}) /\ IsFiniteSet({r} \cup {e})
      BY FS_Singleton, FS_AddElement
  <2>2. new = {r} \cup {e}
      OBVIOUS
  <2>3. Single(new) /\ Ordered(new)
      BY <1>2 DEF Single, Ordered
  <2> QED BY <2>1, <2>2, <2>3
<1>13. Good(U)
  <2>1. \A x \in new : x.created \in Nat /\ x.created > before /\ x.parents = {} /\ x.kind \in AllKinds
      BY <1>2 DEF AllKinds, Kinds
  <2>2. \A x \in new : \A s \in S : s.kind = x.kind => s.id # x.id
      BY <1>2, <1>5
  <2> HIDE DEF new
  <2> QED BY <1>8, <1>9, <1>10, <1>11, <1>12, <2>1, <2>2, PutGood
<1>14. Loads(U)
  <2>1. ~Active(U)
      BY <1>2, <1>6 DEF Active
  <2>2. PoliciesLoad(U) /\ (Revisions(U) # {} => SoundBesides(U))
      BY <1>13, GoodLoads
  <2>3. \A s \in S : s.kind = "policy"
      BY <1>4 DEF Good, AllKinds, Kinds, Of
  <2>4. Of(U, "policy") = Of(S, "policy")
      BY <1>2 DEF Of
  <2>5. IdsClaimed(U)
      BY <1>2, <2>3, <2>4 DEF IdsClaimed
  <2> QED BY <1>6, <2>1, <2>2, <2>5 DEF Loads, GraphsLoad, ActiveHasSteps, OneFirstRun
<1> QED BY <1>1, <1>13, <1>14

LEMMA PackageNew ==
    ASSUME NEW n, NEW feature, NEW steps, NEW r \in Package(n, feature, steps)
    PROVE  r.created = n /\ r.kind # "policy" /\ r.request = None
<1>1. CASE r = [First("revision", n, feature) EXCEPT !.steps = steps]
    BY <1>1 DEF First, Blank
<1>2. CASE r = [First("event", n, feature) EXCEPT !.state = "proposed"]
    BY <1>2 DEF First, Blank
<1> QED BY <1>1, <1>2 DEF Package

LEMMA AddWrote ==
    ASSUME GInv, NEW c \in Clones, AddTestCase(c)
    PROVE  \E new : Wrote(c, new)
<1>1. PICK feature \in left.under, steps \in SUBSET Steps : Puts(c, Package(last + 1, feature, steps))
    BY DEF AddTestCase
<1> DEFINE new == Package(last + 1, feature, steps)
<1>2. \A r \in new : r.created = last + 1 /\ r.kind # "policy" /\ r.request = None
    BY PackageNew
<1> HIDE DEF new
<1>3. Good(records[c]) /\ IdsClaimed(records[c]) /\ last \in Nat
      /\ \A s \in records[c] : s.created <= last
    BY LoadedGood DEF AddTestCase, GInv, Inv
<1>4. Revisions(records[c]) = {} /\ last' = last + 1
    BY DEF AddTestCase, Dated
<1>5. Good(records[c] \cup new) /\ Loads(records[c] \cup new)
    BY <1>3, <1>4, PackageGood DEF new
<1>6. \A r \in new : \A s \in records[c] : ~SameCall(r, s)
    BY <1>2 DEF SameCall
<1>7. \A r \in new : r.created \in Nat /\ r.created <= last'
    BY <1>2, <1>3, <1>4
<1>8. Puts(c, new) /\ last <= last' /\ last' \in Nat
    BY <1>1, <1>3, <1>4 DEF new
<1>9. Wrote(c, new)
    BY <1>2, <1>5, <1>6, <1>7, <1>8 DEF Wrote
<1> QED BY <1>9

\* An id that is made up is nobody's yet.
LEMMA NextIDFresh ==
    ASSUME NEW S, IsFiniteSet(S), NEW stem
    PROVE  NextID(stem, S) \notin Names(S) /\ \E n \in Nat : NextID(stem, S) = <<stem, n>>
<1> DEFINE N == Cardinality(S) + 1
           F == {n \in 1..N : <<stem, n>> \notin Names(S)}
<1>1. Cardinality(S) \in Nat /\ N \in Nat /\ 1..N \subseteq Nat
    BY FS_CardinalityType
<1>2. F # {}
  <2> SUFFICES ASSUME \A n \in 1..N : <<stem, n>> \in Names(S) PROVE FALSE
      OBVIOUS
  <2> DEFINE at(n) == CHOOSE r \in S : r.id = <<stem, n>>
             f == [n \in 1..N |-> at(n)]
  <2>1. \A n \in 1..N : f[n] \in S /\ f[n].id = <<stem, n>>
    <3>1. TAKE n \in 1..N
    <3>2. \E r \in S : r.id = <<stem, n>>
        BY DEF Names
    <3>3. at(n) \in S /\ at(n).id = <<stem, n>>
        BY <3>2, Zenon
    <3> HIDE DEF at
    <3> QED BY <3>3
  <2>2. f \in [1..N -> S]
      BY <2>1
  <2>3. IsFiniteSet(1..N) /\ Cardinality(S) < Cardinality(1..N)
    <3>1. 1 \in Int /\ N \in Int /\ N > Cardinality(S)
        BY <1>1
    <3>2. IsFiniteSet(1..N) /\ Cardinality(1..N) = IF 1 > N THEN 0 ELSE N - 1 + 1
      <4> HIDE DEF N
      <4> QED BY <3>1, FS_Interval
    <3>3. Cardinality(1..N) = N
        BY <1>1, <3>2
    <3> QED BY <3>1, <3>2, <3>3
  <2> HIDE DEF f, N
  <2>4. PICK x, y \in 1..N : x # y /\ f[x] = f[y]
      BY <2>2, <2>3, FS_PigeonHole
  <2>5. <<stem, x>> = <<stem, y>>
      BY <2>1, <2>4
  <2> QED BY <2>4, <2>5
<1>3. PICK m \in F : \A k \in F : ~(k < m)
  <2> DEFINE R == OpToRel(<, Nat)
  <2>1. F \subseteq Nat
      BY <1>1
  <2>2. IsWellFoundedOn(R, Nat)
      BY NatLessThanWellFounded
  <2>3. PICK m \in F : \A k \in F : ~ (<<k, m>> \in R)
    <3> HIDE DEF R, F
    <3> QED BY <1>2, <2>1, <2>2, WFMin
  <2>4. \A k \in F : ~(k < m)
      BY <2>1, <2>3 DEF OpToRel
  <2> QED BY <2>4
<1>4. \A k \in 1..(m - 1) : <<stem, k>> \in Names(S)
  <2>1. TAKE k \in 1..(m - 1)
  <2>2. k \in 1..N /\ k < m
      BY <1>1
  <2> QED BY <1>3, <2>2
<1> DEFINE Free(n) == /\ <<stem, n>> \notin Names(S)
                        /\ \A k \in 1..(n - 1) : <<stem, k>> \in Names(S)
           i == CHOOSE n \in 1..N : Free(n)
<1>5. m \in 1..N /\ Free(m)
    BY <1>4
<1>6. i \in 1..N /\ Free(i)
  <2> HIDE DEF Free, N
  <2> QED BY <1>5
<1>7. NextID(stem, S) = <<stem, i>>
    BY DEF NextID
<1> HIDE DEF i
<1> QED BY <1>1, <1>6, <1>7

LEMMA PolicyWrote ==
    ASSUME GInv, NEW c \in Clones, SetPolicy(c)
    PROVE  \E new : Wrote(c, new)
<1> DEFINE S == records[c]
<1>1. PICK supersedes \in Seen(c, "policy"), feature \in left.under, version \in Versions,
          gen \in BOOLEAN, request \in Requests \cup {None} :
        LET P == Of(records[c], "policy")
            id == IF gen THEN NextID(version, P) ELSE Given(last + 1)
            p == [Successor(c, "policy", feature, supersedes) EXCEPT
                    !.id = id, !.version = version, !.request = request, !.gen = gen]
        IN /\ ~Replays(P, p)
           /\ PolicyHeads(P, version) \subseteq supersedes
           /\ supersedes \cap UNION {x.parents : x \in P} = {}
           /\ \E new \in {x \in {{p}} : PoliciesLoad(P \cup x)} : Puts(c, new)
    BY DEF SetPolicy
<1> DEFINE P == Of(records[c], "policy")
           id == IF gen THEN NextID(version, P) ELSE Given(last + 1)
           p == [Successor(c, "policy", feature, supersedes) EXCEPT
                    !.id = id, !.version = version, !.request = request, !.gen = gen]
<1>2. ~Replays(P, p) /\ Puts(c, {p})
    BY <1>1
<1>3. /\ p.kind = "policy" /\ p.id = id /\ p.created = last + 1 /\ p.parents = supersedes
      /\ p.def = FALSE
    BY DEF Successor, Blank
<1> HIDE DEF p
<1>4. Loads(S) /\ Dated(last + 1)
    BY DEF SetPolicy, Mutates
<1>5. Good(S) /\ IdsClaimed(S) /\ last \in Nat /\ \A s \in S : s.created <= last
    BY LoadedGood DEF SetPolicy, GInv, Inv
<1>6. id \notin Names(P) /\ (MadeUp(id) \/ id = Given(last + 1))
  <2>1. CASE gen
    <3>1. IsFiniteSet(P)
        BY <1>5, FS_Subset DEF Good, Of
    <3>2. id = NextID(version, P)
        BY <2>1
    <3> QED BY <3>1, <3>2, NextIDFresh DEF MadeUp
  <2>2. CASE ~gen
    <3>1. id = Given(last + 1)
        BY <2>2
    <3>2. ASSUME NEW s \in P, s.id = id PROVE FALSE
      <4>1. CASE MadeUp(s.id)
        <5>1. PICK v \in Versions : \E n \in Nat : s.id = <<v, n>>
            BY <4>1 DEF MadeUp
        <5>2. v = "given"
            BY <3>1, <3>2, <5>1 DEF Given
        <5> QED BY <5>2, TestCasesAssumption
      <4>2. CASE \E n \in 1..last : s.id = Given(n)
        <5>1. PICK n \in 1..last : s.id = Given(n)
            BY <4>2
        <5>2. n = last + 1
            BY <3>1, <3>2, <5>1 DEF Given
        <5> QED BY <1>5, <5>2
      <4> QED BY <4>1, <4>2 DEF GInv, Of
    <3> QED BY <3>1, <3>2 DEF Names
  <2> QED BY <2>1, <2>2
<1> HIDE DEF id
<1>7. \A s \in S : s.kind = p.kind => s.id # p.id
    BY <1>3, <1>6 DEF Names, Of
<1>8. \A i \in p.parents : \E s \in S : s.kind = p.kind /\ s.id = i
    BY <1>3 DEF Seen, Names, Of
<1>9. IsFiniteSet({p}) /\ Single({p}) /\ Ordered({p})
    BY <1>7, <1>8, FS_Singleton DEF Single, Ordered
<1>10. \A x \in {p} : x.kind \in {"evidence", "policy"}
    BY <1>3
<1>11. Pinned(S \cup {p})
  <2>1. Revisions(S \cup {p}) = Revisions(S)
      BY <1>5, <1>10, BesidesThese
  <2>2. Of(S \cup {p}, "evidence") = Of(S, "evidence") /\ Of(S \cup {p}, "run") = Of(S, "run")
      BY <1>3 DEF Of
  <2> QED BY <1>5, <2>1, <2>2 DEF Good, Pinned
<1>12. /\ PastHeld(S \cup {p}) /\ Begun(S \cup {p}) /\ NoStepReused(Revisions(S \cup {p}))
       /\ LegalStates(Of(S \cup {p}, "event"))
    BY <1>5, <1>10, BesidesThese
<1>13. Good(S \cup {p})
  <2>1. p.created \in Nat /\ p.created > last /\ p.kind \in AllKinds
      BY <1>3, <1>5 DEF AllKinds
  <2> HIDE DEF S
  <2> QED BY <1>5, <1>7, <1>8, <1>9, <1>11, <1>12, <2>1, PutGood
<1>14. Loads(S \cup {p})
  <2>1. /\ Of(S \cup {p}, "policy") = P \cup {p}
        /\ \A r \in S \cup {p} : r.kind # "policy" => r \in S
      BY <1>3 DEF Of
  <2>2. IdsClaimed(S \cup {p})
      BY <1>3, <1>5, <1>6, <2>1 DEF IdsClaimed, Names
  <2> QED BY <1>4, <1>5, <1>10, <1>13, <2>2, BesidesThese
<1>15. ASSUME NEW s \in S, SameCall(p, s) PROVE FALSE
    BY <1>2, <1>3, <1>15 DEF SameCall, Replays, Of
<1>16. last' = last + 1
    BY <1>4 DEF Dated
<1>17. MadeUp(p.id) \/ \E n \in 1..last' : p.id = Given(n)
    BY <1>3, <1>5, <1>6, <1>16
<1>18. last <= last' /\ last' \in Nat /\ p.created \in Nat /\ p.created <= last'
    BY <1>3, <1>5, <1>16
<1>19. Wrote(c, {p})
    BY <1>2, <1>13, <1>14, <1>15, <1>17, <1>18 DEF Wrote
<1> QED BY <1>19

\* Pieces of evidence that may be put into a clone, the older of them first.
Ready(S, new) ==
    /\ IsFiniteSet(new)
    /\ \A r, s \in new : r.id = s.id => r = s
    /\ \A r \in new :
        /\ r.kind = "evidence" /\ r.feature = Home(S) /\ r.uses = {}
        /\ r.created \in {last + 1, last + 2}
        /\ r.id \notin Names(Of(S, "evidence"))
        /\ r.pin \in RevisionHeads(S)
        /\ \A i \in r.parents :
            i \in Names(Of(S, "evidence")) \/ \E p \in new : p.id = i /\ p.created < r.created
        /\ \A s \in S : SameCall(r, s) => r.gen /\ r.def

\* A piece that is taken is ready with those before it.
LEMMA PrepareReady ==
    ASSUME NEW S, NEW batch, NEW x, last \in Nat, Ready(S, batch.new),
           \A r \in batch.new : r.created = last + 1,
           Prepare(S, batch, x).ok
    PROVE  /\ batch.ok
           /\ Ready(S, Prepare(S, batch, x).new)
           /\ batch.new = {} => \A r \in Prepare(S, batch, x).new : r.created = last + 1
<1> DEFINE old == Of(S, "evidence")
           all == old \cup batch.new
           n == [Blank EXCEPT !.kind = "evidence", !.feature = Home(S),
                    !.created = last + (IF batch.new = {} THEN 1 ELSE 2),
                    !.id = IF x.id = None THEN NextID("evidence", all) ELSE x.id,
                    !.pin = Pin(S, x.pin), !.parents = x.supersedes, !.request = x.request,
                    !.gen = x.id = None, !.def = x.pin = None]
<1>1. /\ batch.ok
      /\ \/ Prepare(S, batch, x) = batch
         \/ /\ Prepare(S, batch, x).new = batch.new \cup {n}
            /\ ~Replays(old, n)
            /\ n.id \notin Names(all)
            /\ n.pin \in RevisionHeads(S)
            /\ n.parents \subseteq Heads(all)
    BY DEF Prepare
<1>2. /\ n.kind = "evidence" /\ n.feature = Home(S) /\ n.uses = {} /\ n.version = ""
      /\ n.created = last + (IF batch.new = {} THEN 1 ELSE 2)
    BY DEF Blank
<1> HIDE DEF n
<1>3. CASE Prepare(S, batch, x) = batch
    BY <1>1, <1>3
<1>4. ASSUME Prepare(S, batch, x).new = batch.new \cup {n}, ~Replays(old, n), n.id \notin Names(all),
             n.pin \in RevisionHeads(S), n.parents \subseteq Heads(all)
      PROVE  /\ Ready(S, Prepare(S, batch, x).new)
             /\ batch.new = {} => \A r \in Prepare(S, batch, x).new : r.created = last + 1
  <2> DEFINE new == batch.new \cup {n}
  <2>1. n.id \notin Names(old) /\ \A r \in batch.new : r.id # n.id
      BY <1>4 DEF Names
  <2>2. IsFiniteSet(new)
      BY FS_AddElement DEF Ready
  <2>3. \A r, s \in new : r.id = s.id => r = s
      BY <2>1 DEF Ready
  <2>4. ASSUME NEW i \in n.parents
        PROVE  i \in Names(old) \/ \E p \in new : p.id = i /\ p.created < n.created
    <3>1. i \in Names(all)
        BY <1>4 DEF Heads
    <3>2. CASE i \in Names(old)
        BY <3>2
    <3>3. ASSUME NEW p \in batch.new, p.id = i
          PROVE  \E q \in new : q.id = i /\ q.created < n.created
      <4>1. p.created = last + 1 /\ n.created = last + 2
          BY <1>2
      <4> QED BY <3>3, <4>1
    <3> QED BY <3>1, <3>2, <3>3 DEF Names
  <2>5. ASSUME NEW s \in S, SameCall(n, s)
        PROVE  n.gen /\ n.def
    <3>1. s \in old /\ s.request = n.request /\ n.request # None /\ (n.gen \/ s.id = n.id)
          /\ s.parents = n.parents /\ s.uses = n.uses /\ s.version = n.version
          /\ s.feature = n.feature
        BY <1>2, <2>5 DEF SameCall, Of
    <3>2. s.pin # n.pin
        BY <1>4, <3>1 DEF Replays
    <3>3. s.id # n.id
        BY <2>1, <3>1 DEF Names
    <3> QED BY <2>5, <3>1, <3>2, <3>3 DEF SameCall
  <2>6. ASSUME NEW r \in batch.new, NEW i \in r.parents
        PROVE  i \in Names(old) \/ \E p \in new : p.id = i /\ p.created < r.created
      BY DEF Ready
  <2>7. n.created \in {last + 1, last + 2} /\ (batch.new = {} => n.created = last + 1)
      BY <1>2
  <2> HIDE DEF old, all
  <2>8. \A r \in batch.new :
            /\ r.kind = "evidence" /\ r.feature = Home(S) /\ r.uses = {}
            /\ r.created \in {last + 1, last + 2}
            /\ r.id \notin Names(old) /\ r.pin \in RevisionHeads(S)
            /\ \A s \in S : SameCall(r, s) => r.gen /\ r.def
      BY DEF Ready, old
  <2>9. ASSUME NEW r \in new
        PROVE  /\ r.kind = "evidence" /\ r.feature = Home(S) /\ r.uses = {}
               /\ r.created \in {last + 1, last + 2}
               /\ r.id \notin Names(old) /\ r.pin \in RevisionHeads(S)
               /\ \A i \in r.parents :
                    i \in Names(old) \/ \E p \in new : p.id = i /\ p.created < r.created
               /\ \A s \in S : SameCall(r, s) => r.gen /\ r.def
    <3>1. CASE r = n
        BY <1>2, <1>4, <2>1, <2>4, <2>5, <2>7, <3>1
    <3>2. CASE r \in batch.new
        BY <2>6, <2>8, <3>2
    <3> QED BY <3>1, <3>2
  <2>10. Ready(S, new)
    <3> HIDE DEF new
    <3> QED BY <2>2, <2>3, <2>9 DEF Ready, old
  <2>11. batch.new = {} => \A r \in new : r.created = last + 1
      BY <2>7
  <2> QED BY <1>4, <2>10, <2>11
<1> QED BY <1>1, <1>3, <1>4

LEMMA BatchReady ==
    ASSUME last \in Nat, NEW S, NEW x, NEW more, Batch(S, x, more).ok
    PROVE  Ready(S, Batch(S, x, more).new)
<1> DEFINE none == [new |-> {}, ok |-> TRUE]
           first == Prepare(S, none, x)
           y == CHOOSE z \in more : TRUE
<1>1. Batch(S, x, more) = first \/ Batch(S, x, more) = Prepare(S, first, y)
    BY DEF Batch
<1>2. none.new = {} /\ Ready(S, none.new) /\ \A r \in none.new : r.created = last + 1
    BY FS_EmptySet DEF Ready
<1> HIDE DEF none
<1>3. first.ok => Ready(S, first.new) /\ \A r \in first.new : r.created = last + 1
    BY <1>2, PrepareReady
<1> HIDE DEF first, y
<1>4. CASE Batch(S, x, more) = first
    BY <1>3, <1>4
<1>5. CASE Batch(S, x, more) = Prepare(S, first, y)
  <2>1. first.ok
    <3>1. Prepare(S, first, y).ok
        BY <1>5
    <3> QED BY <3>1 DEF Prepare
  <2> QED BY <1>3, <1>5, <2>1, PrepareReady
<1> QED BY <1>1, <1>4, <1>5

LEMMA EvidenceWrote ==
    ASSUME GInv, NEW c \in Clones, AddEvidenceBatch(c)
    PROVE  \E new : Wrote(c, new)
<1> DEFINE S == records[c]
<1>1. PICK b \in Batches(c) :
        LET batch == Batch(S, b.first, b.more) IN
        /\ batch.ok
        /\ \E n \in {r.created : r \in batch.new} :
            Puts(c, {r \in batch.new : r.created <= n}) /\ Dated(n)
    BY DEF AddEvidenceBatch
<1> DEFINE all == Batch(S, b.first, b.more).new
<1>2. Good(S) /\ IdsClaimed(S) /\ last \in Nat /\ \A s \in S : s.created <= last
    BY LoadedGood DEF AddEvidenceBatch, GInv, Inv
<1>3. Ready(S, all)
    BY <1>1, <1>2, BatchReady
<1> HIDE DEF all
<1>4. PICK n \in {r.created : r \in all} : Puts(c, {r \in all : r.created <= n}) /\ Dated(n)
    BY <1>1 DEF all
<1> DEFINE new == {r \in all : r.created <= n}
<1>5. n \in Nat /\ last < n
    BY <1>2, <1>3 DEF Ready
<1>6. Ready(S, new)
  <2>1. IsFiniteSet(new)
      BY <1>3, FS_Subset DEF Ready
  <2>2. ASSUME NEW r \in new, NEW i \in r.parents, i \notin Names(Of(S, "evidence"))
        PROVE  \E p \in new : p.id = i /\ p.created < r.created
    <3>1. PICK p \in all : p.id = i /\ p.created < r.created
        BY <1>3, <2>2 DEF Ready
    <3>2. p.created \in Nat /\ r.created \in Nat /\ r.created <= n
        BY <1>2, <1>3 DEF Ready
    <3> QED BY <1>5, <3>1, <3>2
  <2> QED BY <1>3, <2>1, <2>2 DEF Ready
<1>7. Puts(c, new) /\ last' = n /\ \A r \in new : r.created <= n
    BY <1>4 DEF Dated
<1> HIDE DEF new
<1>8. \A r \in new : r.kind = "evidence" /\ r.created \in Nat /\ r.created > last /\ r.kind \in AllKinds
    BY <1>2, <1>6 DEF Ready, AllKinds
<1>9. \A x \in new : \A s \in S : s.kind = x.kind => s.id # x.id
  <2>1. \A x \in new : x.id \notin Names(Of(S, "evidence"))
      BY <1>6 DEF Ready
  <2> QED BY <1>8, <2>1 DEF Names, Of
<1>10. \A x \in new : \A i \in x.parents : \E p \in S \cup new : p.kind = x.kind /\ p.id = i
    BY <1>6, <1>8 DEF Ready, Names, Of
<1>11. Single(new)
    BY <1>6 DEF Ready, Single
<1>12. Ordered(new)
  <2>1. SUFFICES ASSUME NEW r \in new, NEW p \in new,
                        p.kind = r.kind, p.id \in r.parents
                 PROVE  p.created < r.created
      BY DEF Ordered
  <2>2. p.kind = r.kind /\ p.id \in r.parents
      BY <2>1
  <2>3. p.id \notin Names(Of(S, "evidence"))
      BY <1>6 DEF Ready
  <2>4. PICK q \in new : q.id = p.id /\ q.created < r.created
      BY <1>6, <2>2, <2>3 DEF Ready
  <2>5. q = p
      BY <1>6, <2>4 DEF Ready
  <2> QED BY <2>4, <2>5
<1>13. \A x \in new : x.kind \in {"evidence", "policy"}
    BY <1>8
<1>14. /\ Revisions(S \cup new) = Revisions(S)
       /\ PastHeld(S \cup new) /\ Begun(S \cup new) /\ NoStepReused(Revisions(S \cup new))
       /\ LegalStates(Of(S \cup new, "event"))
    BY <1>2, <1>13, BesidesThese
<1>15. Pinned(S \cup new)
  <2>1. ASSUME NEW r \in S, r.kind \in {"evidence", "run"}
        PROVE  r.pin \in Names(Revisions(S)) /\ r.uses \subseteq Names(Of(S, "evidence"))
      BY <1>2, <2>1 DEF Good, Pinned, Of
  <2>2. ASSUME NEW r \in new
        PROVE  r.pin \in Names(Revisions(S)) /\ r.uses = {}
      BY <1>6 DEF Ready, RevisionHeads, Heads
  <2>3. Names(Of(S, "evidence")) \subseteq Names(Of(S \cup new, "evidence"))
      BY DEF Names, Of
  <2>4. \A r \in S \cup new : r.kind \in {"evidence", "run"} =>
            /\ r.pin \in Names(Revisions(S \cup new))
            /\ r.uses \subseteq Names(Of(S \cup new, "evidence"))
      BY <1>14, <2>1, <2>2, <2>3
  <2> QED BY <2>4 DEF Pinned, Of
<1>16. IsFiniteSet(new)
    BY <1>6 DEF Ready
<1>17. Loads(S) /\ Revisions(S) # {}
    BY DEF AddEvidenceBatch, Mutates
<1>claimed. IdsClaimed(S \cup new)
  <2>1. \A r \in new : r.kind # "policy" /\ r.feature = Home(S)
      BY <1>6 DEF Ready
  <2> HIDE DEF S
  <2> QED BY <1>2, <1>17, <2>1, AtHome
<1> HIDE DEF S
<1>18. Good(S \cup new)
    BY <1>2, <1>8, <1>9, <1>10, <1>11, <1>12, <1>14, <1>15, <1>16, PutGood
<1>19. Loads(S \cup new)
    BY <1>2, <1>13, <1>17, <1>18, <1>claimed, BesidesThese
<1>20. \A r \in new : \A s \in S : SameCall(r, s) => r.kind = "evidence" /\ r.gen /\ r.def
    BY <1>6 DEF Ready
<1>21. last <= last' /\ last' \in Nat
       /\ \A r \in new : r.created \in Nat /\ r.created <= last' /\ r.kind # "policy"
    BY <1>2, <1>5, <1>7, <1>8
<1>22. Wrote(c, new)
    BY <1>7, <1>18, <1>19, <1>20, <1>21 DEF Wrote, S
<1> QED BY <1>22
-----------------------------------------------------------------------------
(* The properties.                                                         *)

LEMMA NextWrites ==
    ASSUME GInv, Next
    PROVE  \/ \E c \in Clones : \E new : Wrote(c, new)
           \/ \E c, d \in Clones : Merge(c, d)
BY AddWrote, ReviseWrote, StateWrote, PolicyWrote, EvidenceWrote, RunWrote DEF Next

LEMMA MergeKeeps ==
    ASSUME GInv, Inv', NEW c \in Clones, NEW d \in Clones, Merge(c, d)
    PROVE  GInv'
<1>1. \A f \in Clones : records'[f] = IF f = c THEN records[c] \cup records[d] ELSE records[f]
    BY DEF GInv, Inv, Merge, Puts
<1>2. last' = last /\ ~Clash(records[c], records[d])
    BY DEF Merge
<1>3. ASSUME IdsClaimed(records[c] \cup records[d])
      PROVE  Good(records[c] \cup records[d])
  <2>1. IdsClaimed(records[c]) /\ IdsClaimed(records[d])
      BY <1>3 DEF IdsClaimed, Of
  <2> QED BY <1>2, <1>3, <2>1, MergeGood DEF GInv
<1>4. \A f \in Clones : IdsClaimed(records'[f]) => Good(records'[f])
    BY <1>1, <1>3 DEF GInv
<1>5. \A f \in Clones : \A r \in records'[f] : \E g \in Clones : r \in records[g]
    BY <1>1
<1> QED BY <1>2, <1>4, <1>5 DEF GInv

LEMMA InitGInv == Init => GInv
<1> SUFFICES ASSUME Init PROVE GInv
    OBVIOUS
<1>1. Inv
    BY InitInv
<1>2. Good({})
  <2>1. Revisions({}) = {} /\ \A kind : Of({}, kind) = {}
      BY DEF Revisions, Of
  <2>2. IsFiniteSet({})
      BY FS_EmptySet
  <2>3. Parented({}) /\ Ordered({}) /\ Single({}) /\ PastHeld({}) /\ Begun({})
      BY <2>1 DEF Parented, Ordered, Single, PastHeld, Begun
  <2>4. NoStepReused({}) /\ LegalStates({}) /\ Pinned({})
      BY <2>1 DEF NoStepReused, LegalStates, Roots, Pinned
  <2> QED BY <2>1, <2>2, <2>3, <2>4 DEF Good
<1>none. IdsClaimed({})
    BY DEF IdsClaimed, Of
<1>3. CASE records = [c \in Clones |-> {}]
    BY <1>1, <1>2, <1>3 DEF GInv
<1>4. ASSUME NEW feature, NEW steps \in SUBSET Steps, last = 1,
             records = [c \in Clones |-> Package(1, feature, steps)]
      PROVE  GInv
  <2>1. Revisions({}) = {} /\ 1 = 0 + 1
      BY DEF Revisions, Of
  <2>2. Good({} \cup Package(1, feature, steps))
      BY <1>2, <1>none, <2>1, PackageGood
  <2>3. {} \cup Package(1, feature, steps) = Package(1, feature, steps)
      OBVIOUS
  <2>4. \A r \in Package(1, feature, steps) : r.created \in Nat /\ r.created <= last /\ r.kind # "policy"
    <3>1. \A r \in Package(1, feature, steps) : r.created = 1 /\ r.kind # "policy"
        BY PackageNew
    <3> QED BY <1>4, <3>1
  <2> QED BY <1>1, <1>4, <2>2, <2>3, <2>4 DEF GInv
<1> QED BY <1>3, <1>4 DEF Init

LEMMA NextKeeps == GInv /\ [Next]_vars => GInv'
<1> SUFFICES ASSUME GInv, [Next]_vars PROVE GInv'
    OBVIOUS
<1>1. Inv'
    BY NextStep DEF GInv, HistoriesStep
<1>2. CASE UNCHANGED vars
    BY <1>1, <1>2 DEF GInv, vars
<1>3. CASE Next
    BY <1>1, <1>3, NextWrites, WroteKeeps, MergeKeeps
<1> QED BY <1>2, <1>3

\* The files a clone holds, unless it has an id under two features, are whole
\* histories of one test case: each has its parents beside it, older than it is,
\* and a name of its own.
THEOREM GInvariance == Spec => []GInv
BY InitGInv, NextKeeps, PTL DEF Spec

\* Of what a load demands, merges can break three rules only, and writes none.
THEOREM BrokenByMergesOnly == Spec => []FailsOnlyByMerge
<1>1. GInv => FailsOnlyByMerge
    BY GoodLoads DEF GInv, FailsOnlyByMerge
<1> QED BY <1>1, GInvariance, PTL

\* A clone that loads still does after any command, one that died in the middle
\* of a batch included.
THEOREM WritesLeaveItLoading == Spec => WritesLoad
<1>1. ASSUME GInv, [Next]_vars, last' # last, NEW c \in Clones, Loads(records[c])
      PROVE  Loads(records'[c])
  <2>1. PICK d \in Clones : \E new : Wrote(d, new)
      BY <1>1, NextWrites DEF vars, Merge
  <2>2. PICK new : Wrote(d, new)
      BY <2>1
  <2>3. records'[c] = IF c = d THEN records[d] \cup new ELSE records[c]
      BY <1>1, <2>2 DEF GInv, Inv, Wrote, Puts
  <2> QED BY <1>1, <2>2, <2>3 DEF Wrote
<1>2. GInv /\ [Next]_vars =>
        [last' # last => \A c \in Clones : Loads(records[c]) => Loads(records'[c])]_vars
    BY <1>1
<1> QED BY <1>2, GInvariance, PTL DEF Spec, WritesLoad

\* No command writes a second record for a call, whichever clone answers a repeat
\* of it, but for evidence that left both its id and its revision to the writer.
THEOREM RepeatsWriteNothing == Spec => AppliedOnce
<1>1. ASSUME GInv, [Next]_vars, NEW c \in Clones, NEW r \in records'[c], Repeats(r, c)
      PROVE  r.kind = "evidence" /\ r.gen /\ r.def
  <2>1. \A d \in Clones : \A s \in records[d] : ~(s.created > last)
    <3>1. \A d \in Clones : \A s \in records[d] : s.created \in Nat /\ s.created <= last /\ last \in Nat
        BY <1>1 DEF GInv, Inv
    <3> QED BY <3>1
  <2>2. r.created > last /\ \E s \in records[c] : SameCall(r, s)
      BY <1>1 DEF Repeats
  <2>3. CASE UNCHANGED vars
      BY <1>1, <2>1, <2>2, <2>3 DEF vars
  <2>4. ASSUME NEW d \in Clones, NEW new, Wrote(d, new)
        PROVE  r.kind = "evidence" /\ r.gen /\ r.def
    <3>1. records'[c] = IF c = d THEN records[d] \cup new ELSE records[c]
        BY <1>1, <2>4 DEF GInv, Inv, Wrote, Puts
    <3>2. c = d /\ r \in new
        BY <1>1, <2>1, <2>2, <3>1
    <3> QED BY <2>2, <2>4, <3>2 DEF Wrote
  <2>5. ASSUME NEW d \in Clones, NEW f \in Clones, Merge(d, f)
        PROVE  FALSE
    <3>1. records'[c] = IF c = d THEN records[d] \cup records[f] ELSE records[c]
        BY <1>1, <2>5 DEF GInv, Inv, Merge, Puts
    <3> QED BY <1>1, <2>1, <2>2, <3>1
  <2> QED BY <1>1, <2>3, <2>4, <2>5, NextWrites
<1>2. GInv /\ [Next]_vars =>
        [\A c \in Clones : \A r \in records'[c] :
            Repeats(r, c) => r.kind = "evidence" /\ r.gen /\ r.def]_vars
    BY <1>1
<1> QED BY <1>2, GInvariance, PTL DEF Spec, AppliedOnce
=============================================================================
