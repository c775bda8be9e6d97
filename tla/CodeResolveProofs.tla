-------------------------- MODULE CodeResolveProofs --------------------------
(***************************************************************************)
(* What CodeResolve calls current is verbatim, what it settles as stale is *)
(* so, and what it proposes is all that became of the lines, for any       *)
(* repositories, references and callers: Remap's loop finds where Git's    *)
(* hunks leave the lines of a range, ProposeRange finds the run of hunks   *)
(* and kept lines that replaced it, and a listing that names no change of  *)
(* a path rests on one that looked at it. Lines that read like a file's    *)
(* header are left out: with them the first property fails (run            *)
(* code_resolve_headers).                                                  *)
(***************************************************************************)
EXTENDS CodeResolve, SequenceTheorems, FiniteSetTheorems, WellFoundedInduction, TLAPS

\* What Remap knows at its k-th hunk: the first m lie before the range and have
\* moved it, the others lie after.
Passed(hunks, ref, k, shift) ==
    \E m \in 0..(k - 1) :
        /\ shift = Moved(hunks, m)
        /\ \A j \in 1..m : Before(hunks[j], ref)
        /\ \A j \in (m + 1)..(k - 1) : After(hunks[j], ref)

\* A hunk's lines are numbers, and it ends no earlier than a line before its first.
LEMMA HunkLines ==
    ASSUME NEW h \in Hunk
    PROVE  /\ First(h) \in Nat /\ Last(h) \in Int /\ Last(h) >= First(h) - 1
           /\ NewFirst(h) \in Nat /\ NewLast(h) \in Int
           /\ h.oldCount \in Nat /\ h.newCount \in Nat
           /\ Last(h) = First(h) + h.oldCount - 1
           /\ NewLast(h) = NewFirst(h) + h.newCount - 1
<1>1. h.oldStart \in Nat /\ h.oldCount \in Nat /\ h.newStart \in Nat /\ h.newCount \in Nat
  BY DEF Hunk
<1>2. First(h) \in Nat /\ NewFirst(h) \in Nat
  BY <1>1 DEF First, NewFirst
<1>3. Last(h) = First(h) + h.oldCount - 1 /\ NewLast(h) = NewFirst(h) + h.newCount - 1
  BY DEF Last, NewLast
<1> QED BY <1>1, <1>2, <1>3

LEMMA MovedIsInt ==
    ASSUME NEW hunks \in Seq(Hunk), NEW m \in 0..Len(hunks)
    PROVE  Moved(hunks, m) \in Int
<1>1. CASE m = 0
  BY <1>1 DEF Moved
<1>2. CASE m # 0
  <2>1. hunks[m] \in Hunk
    BY <1>2
  <2>2. Last(hunks[m]) \in Int /\ NewLast(hunks[m]) \in Int
    BY <2>1, HunkLines
  <2> QED BY <1>2, <2>2 DEF Moved
<1> QED BY <1>1, <1>2

\* What lies after a hunk moves by the lines it puts there and takes away.
LEMMA MovedBy ==
    ASSUME NEW hunks, NEW old, NEW new, Patch(hunks, old, new), NEW k \in 1..Len(hunks)
    PROVE  /\ Moved(hunks, k) = Moved(hunks, k - 1) + hunks[k].newCount - hunks[k].oldCount
           /\ Moved(hunks, k - 1) \in Int /\ Moved(hunks, k) \in Int
<1>1. hunks \in Seq(Hunk) /\ Len(hunks) \in Nat /\ DOMAIN hunks = 1..Len(hunks)
  BY DEF Patch
<1>2. hunks[k] \in Hunk
  BY <1>1
<1>3. NewFirst(hunks[k]) = First(hunks[k]) + Moved(hunks, k - 1)
  BY <1>1 DEF Patch
<1>4. Moved(hunks, k - 1) \in Int /\ Moved(hunks, k) \in Int
  BY <1>1, MovedIsInt
<1>5. Moved(hunks, k) = NewLast(hunks[k]) - Last(hunks[k])
  BY DEF Moved
<1> DEFINE h == hunks[k]
<1>6. /\ First(h) \in Nat /\ h.oldCount \in Nat /\ h.newCount \in Nat
      /\ Last(h) = First(h) + h.oldCount - 1
      /\ NewLast(h) = NewFirst(h) + h.newCount - 1
  BY <1>2, HunkLines
<1>7. NewLast(h) - Last(h) = Moved(hunks, k - 1) + h.newCount - h.oldCount
  <2>1. NewFirst(h) = First(h) + Moved(hunks, k - 1)
    BY <1>3
  <2>2. PICK a \in Int : a = Moved(hunks, k - 1)
    BY <1>4
  <2>3. PICK first \in Nat : first = First(h)
    BY <1>6
  <2>4. PICK took \in Nat : took = h.oldCount
    BY <1>6
  <2>5. PICK put \in Nat : put = h.newCount
    BY <1>6
  <2>6. Last(h) = first + took - 1 /\ NewFirst(h) = first + a /\ NewLast(h) = NewFirst(h) + put - 1
    BY <1>6, <2>1, <2>2, <2>3, <2>4, <2>5
  <2> HIDE DEF h
  <2>7. NewLast(h) - Last(h) = a + put - took
    BY <2>6
  <2> QED BY <2>2, <2>4, <2>5, <2>7
<1> QED BY <1>4, <1>5, <1>7

\* A hunk before the range moves it, and no earlier one can lie after it.
LEMMA PassedBefore ==
    ASSUME NEW hunks, NEW old, NEW new, Patch(hunks, old, new),
           NEW ref \in References, ref.start <= ref.end,
           NEW k \in 1..Len(hunks), NEW shift, Passed(hunks, ref, k, shift),
           Before(hunks[k], ref)
    PROVE  Passed(hunks, ref, k + 1, shift + hunks[k].newCount - hunks[k].oldCount)
<1>1. hunks \in Seq(Hunk) /\ Len(hunks) \in Nat /\ DOMAIN hunks = 1..Len(hunks)
  BY DEF Patch
<1>2. PICK m \in 0..(k - 1) :
         /\ shift = Moved(hunks, m)
         /\ \A j \in 1..m : Before(hunks[j], ref)
         /\ \A j \in (m + 1)..(k - 1) : After(hunks[j], ref)
  BY DEF Passed
<1>3. hunks[k] \in Hunk
  BY <1>1
<1>4. m = k - 1
  <2> SUFFICES ASSUME m < k - 1 PROVE FALSE
    OBVIOUS
  <2>1. After(hunks[k - 1], ref)
    BY <1>2
  <2>2. k > 1 /\ k \in DOMAIN hunks /\ hunks[k - 1] \in Hunk
    BY <1>1
  <2>3. First(hunks[k]) > Last(hunks[k - 1]) + 1
    BY <2>2 DEF Patch
  <2>4. Last(hunks[k]) >= First(hunks[k - 1])
    <3>1. First(hunks[k]) \in Nat /\ Last(hunks[k]) \in Int
          /\ Last(hunks[k]) >= First(hunks[k]) - 1
      BY <1>3, HunkLines
    <3>2. First(hunks[k - 1]) \in Nat /\ Last(hunks[k - 1]) \in Int
          /\ Last(hunks[k - 1]) >= First(hunks[k - 1]) - 1
      BY <2>2, HunkLines
    <3>3. ASSUME NEW a \in Nat, NEW b \in Int, NEW x \in Nat, NEW y \in Int,
                 b >= a - 1, a > y + 1, y >= x - 1
          PROVE  b >= x
      BY <3>3
    <3> QED BY <2>3, <3>1, <3>2, <3>3
  <2>5. Last(hunks[k]) < ref.start /\ First(hunks[k - 1]) > ref.end
    BY <2>1 DEF Before, After
  <2>6. ref.start \in Nat /\ ref.end \in Nat
    BY DEF References
  <2>7. Last(hunks[k]) \in Int /\ First(hunks[k - 1]) \in Int
    BY <1>3, <2>2, HunkLines
  <2> QED BY <2>4, <2>5, <2>6, <2>7
<1>5. Moved(hunks, k) = shift + hunks[k].newCount - hunks[k].oldCount
  <2>1. shift = Moved(hunks, k - 1)
    BY <1>2, <1>4
  <2> QED BY <2>1, MovedBy
<1>6. \A j \in 1..k : Before(hunks[j], ref)
  BY <1>2, <1>4
<1>7. k \in 0..(k + 1 - 1) /\ \A j \in (k + 1)..(k + 1 - 1) : After(hunks[j], ref)
  OBVIOUS
<1> QED BY <1>5, <1>6, <1>7 DEF Passed

\* A hunk after the range changes nothing.
LEMMA PassedAfter ==
    ASSUME NEW hunks, NEW ref, NEW k \in Nat, NEW shift, Passed(hunks, ref, k, shift),
           After(hunks[k], ref)
    PROVE  Passed(hunks, ref, k + 1, shift)
<1>1. PICK m \in 0..(k - 1) :
         /\ shift = Moved(hunks, m)
         /\ \A j \in 1..m : Before(hunks[j], ref)
         /\ \A j \in (m + 1)..(k - 1) : After(hunks[j], ref)
  BY DEF Passed
<1>2. m \in 0..(k + 1 - 1) /\ \A j \in (m + 1)..(k + 1 - 1) : After(hunks[j], ref)
  BY <1>1
<1> QED BY <1>1, <1>2 DEF Passed

\* Past the last hunk, the range is where the shift says, line by line.
LEMMA PassedAll ==
    ASSUME NEW hunks, NEW old \in Seq(Texts), NEW new \in Seq(Texts), Patch(hunks, old, new),
           NEW ref \in References, Inside(old, ref.start, ref.end), NEW shift,
           Passed(hunks, ref, Len(hunks) + 1, shift)
    PROVE  /\ Inside(new, ref.start + shift, ref.end + shift)
           /\ Content(new, ref.start + shift, ref.end + shift) = Content(old, ref.start, ref.end)
<1> DEFINE s == ref.start
           e == ref.end
<1>1. hunks \in Seq(Hunk) /\ Len(hunks) \in Nat
  BY DEF Patch
<1>2. s \in Nat /\ e \in Nat /\ s >= 1 /\ s <= e /\ e <= Len(old)
  BY DEF References, Inside
<1>3. PICK m \in 0..Len(hunks) :
         /\ shift = Moved(hunks, m)
         /\ \A j \in 1..m : Before(hunks[j], ref)
         /\ \A j \in (m + 1)..Len(hunks) : After(hunks[j], ref)
  BY <1>1 DEF Passed
<1>4. shift \in Int
  BY <1>1, <1>3, MovedIsInt
<1>5. ASSUME NEW i \in s..e PROVE i + shift \in 1..Len(new) /\ new[i + shift] = old[i]
  <2>1. ASSUME m > 0 PROVE Last(hunks[m]) < i
    <3>1. hunks[m] \in Hunk /\ Last(hunks[m]) < s
      BY <1>1, <1>3, <2>1 DEF Before
    <3> QED BY <1>2, <3>1, HunkLines
  <2>2. ASSUME m < Len(hunks) PROVE i < First(hunks[m + 1])
    <3>1. hunks[m + 1] \in Hunk /\ First(hunks[m + 1]) > e
      BY <1>1, <1>3, <2>2 DEF After
    <3> QED BY <1>2, <3>1, HunkLines
  <2>3. Between(hunks, m, i)
    BY <2>1, <2>2 DEF Between
  <2>4. i \in DOMAIN old
    BY <1>2
  <2>5. i + Moved(hunks, m) \in DOMAIN new /\ new[i + Moved(hunks, m)] = old[i]
    BY <2>3, <2>4 DEF Patch
  <2>6. DOMAIN new = 1..Len(new) /\ i + Moved(hunks, m) = i + shift
    BY <1>3
  <2> QED BY <2>5, <2>6
<1>6. Inside(new, s + shift, e + shift)
  BY <1>2, <1>4, <1>5 DEF Inside
<1>7. Content(new, s + shift, e + shift) = Content(old, s, e)
  <2>1. (e + shift) - (s + shift) + 1 = e - s + 1 /\ s # 0 /\ s + shift # 0
    BY <1>2, <1>4, <1>6, SMTT(30) DEF Inside
  <2>2. ASSUME NEW i \in 1..(e - s + 1) PROVE new[(s + shift) + i - 1] = old[s + i - 1]
    <3>1. s + i - 1 \in s..e /\ (s + i - 1) + shift = (s + shift) + i - 1
      BY <1>2, <1>4, SMTT(30)
    <3> QED BY <1>5, <3>1
  <2> QED BY <2>1, <2>2 DEF Content
<1> QED BY <1>6, <1>7

\* A file without hunks holds what it held.
LEMMA NothingTouched ==
    ASSUME NEW old \in Seq(Texts), NEW new \in Seq(Texts), Patch(<<>>, old, new)
    PROVE  new = old
<1>1. Len(<<>>) = 0 /\ Moved(<<>>, 0) = 0
  BY DEF Moved
<1>2. Len(new) = Len(old)
  BY <1>1 DEF Patch
<1>3. ASSUME NEW i \in 1..Len(old) PROVE new[i] = old[i]
  <2>1. Between(<<>>, 0, i)
    BY <1>1 DEF Between
  <2>2. new[i + 0] = old[i]
    BY <1>1, <2>1 DEF Patch
  <2> QED BY <2>2
<1> QED BY <1>2, <1>3, SeqEqual

-----------------------------------------------------------------------------
(***************************************************************************)
(* What Remap calls stale.                                                 *)
(***************************************************************************)

\* Hunks are apart, and not only from the next one: the first that was not would be
\* beside one that is.
LEMMA HunksApart ==
    ASSUME NEW hunks, NEW old, NEW new, Patch(hunks, old, new),
           NEW j \in 1..Len(hunks), NEW k \in (j + 1)..Len(hunks)
    PROVE  First(hunks[k]) > Last(hunks[j]) + 1
<1> DEFINE R == OpToRel(<, Nat)
           D == {n \in (j + 1)..Len(hunks) : ~ (First(hunks[n]) > Last(hunks[j]) + 1)}
<1>1. hunks \in Seq(Hunk) /\ Len(hunks) \in Nat /\ DOMAIN hunks = 1..Len(hunks)
  BY DEF Patch
<1> SUFFICES ASSUME D # {} PROVE FALSE
  OBVIOUS
<1>2. D \subseteq Nat
  BY <1>1
<1>3. IsWellFoundedOn(R, Nat)
  BY Zenon, NatLessThanWellFounded
<1>4. PICK m \in D : \A n \in D : ~ (<<n, m>> \in R)
  <2> HIDE DEF R, D
  <2> QED BY <1>2, <1>3, WFMin
<1>5. m \in (j + 1)..Len(hunks) /\ ~ (First(hunks[m]) > Last(hunks[j]) + 1)
  OBVIOUS
<1>6. m \in DOMAIN hunks /\ m > 1
  BY <1>1, <1>5
<1>7. First(hunks[m]) > Last(hunks[m - 1]) + 1
  BY <1>6 DEF Patch
<1>8. hunks[j] \in Hunk /\ hunks[m] \in Hunk /\ hunks[m - 1] \in Hunk
  BY <1>1, <1>6
<1>9. m # j + 1
  BY <1>5, <1>7, <1>1
<1>10. m - 1 \in (j + 1)..Len(hunks)
  BY <1>1, <1>5, <1>9
<1>11. m - 1 \in D
  <2> SUFFICES ASSUME m - 1 \notin D PROVE FALSE
    OBVIOUS
  <2>1. First(hunks[m - 1]) > Last(hunks[j]) + 1
    BY <1>10
  <2>2. Last(hunks[m - 1]) >= First(hunks[m - 1]) - 1
        /\ Last(hunks[m - 1]) \in Int /\ First(hunks[m - 1]) \in Nat /\ First(hunks[m]) \in Nat
        /\ Last(hunks[j]) \in Int
    BY <1>8, HunkLines
  <2> QED BY <1>5, <1>7, <2>1, <2>2
<1>12. <<m - 1, m>> \in R
  BY <1>2, <1>10, <1>5 DEF OpToRel
<1> QED BY Zenon, <1>4, <1>11, <1>12

\* Which hunks end before a line: the first ones.
LEMMA HunksBefore ==
    ASSUME NEW hunks, NEW old, NEW new, Patch(hunks, old, new),
           NEW i \in Int, NEW m \in 0..Len(hunks),
           m > 0 => Last(hunks[m]) < i,
           m < Len(hunks) => Last(hunks[m + 1]) >= i
    PROVE  /\ {k \in DOMAIN hunks : Last(hunks[k]) < i} = 1..m
           /\ Image(hunks, i) = i + Moved(hunks, m)
<1>1. hunks \in Seq(Hunk) /\ Len(hunks) \in Nat /\ DOMAIN hunks = 1..Len(hunks)
  BY DEF Patch
<1>2. ASSUME NEW k \in 1..Len(hunks)
      PROVE  /\ First(hunks[k]) \in Nat /\ Last(hunks[k]) \in Int
             /\ Last(hunks[k]) >= First(hunks[k]) - 1
  BY <1>1, HunkLines
<1>3. ASSUME NEW k \in 1..Len(hunks), k <= m PROVE Last(hunks[k]) < i
  <2>1. CASE k = m
    BY <1>1, <2>1
  <2>2. CASE k < m
    <3>1. m \in (k + 1)..Len(hunks) /\ m \in 1..Len(hunks)
      BY <1>1, <2>2
    <3>2. First(hunks[m]) > Last(hunks[k]) + 1
      BY <3>1, HunksApart
    <3>3. Last(hunks[m]) < i
      BY <3>1
    <3> QED BY <1>2, <3>1, <3>2, <3>3
  <2> QED BY <1>3, <2>1, <2>2
<1>4. ASSUME NEW k \in 1..Len(hunks), k > m PROVE ~ (Last(hunks[k]) < i)
  <2>1. m + 1 \in 1..Len(hunks) /\ Last(hunks[m + 1]) >= i
    BY <1>1, <1>4
  <2>2. CASE k = m + 1
    BY <1>2, <2>1, <2>2
  <2>3. CASE k # m + 1
    <3>1. k \in ((m + 1) + 1)..Len(hunks)
      BY <1>1, <1>4, <2>3
    <3>2. First(hunks[k]) > Last(hunks[m + 1]) + 1
      BY <2>1, <3>1, HunksApart
    <3> QED BY <1>2, <2>1, <3>2
  <2> QED BY <2>2, <2>3
<1>5. {k \in DOMAIN hunks : Last(hunks[k]) < i} = 1..m
  BY <1>1, <1>3, <1>4
<1>6. Cardinality(1..m) = m
  BY <1>1, FS_Interval
<1> QED BY <1>5, <1>6 DEF Image

\* A hunk that touches a range takes a line of it away or puts lines between two.
LEMMA TouchedIsTorn ==
    ASSUME NEW hunks, NEW old, NEW new, Patch(hunks, old, new),
           NEW ref \in References, ref.start <= ref.end,
           NEW k \in 1..Len(hunks), ~Before(hunks[k], ref), ~After(hunks[k], ref)
    PROVE  ~Carried(hunks, ref)
<1> DEFINE h == hunks[k]
           s == ref.start
           e == ref.end
<1>1. hunks \in Seq(Hunk) /\ Len(hunks) \in Nat /\ DOMAIN hunks = 1..Len(hunks)
  BY DEF Patch
<1>2. h \in Hunk /\ s \in Nat /\ e \in Nat
  BY <1>1 DEF References
<1>3. /\ First(h) \in Nat /\ Last(h) \in Int /\ h.oldCount \in Nat /\ h.newCount \in Nat
      /\ Last(h) = First(h) + h.oldCount - 1
      /\ NewFirst(h) \in Nat /\ NewLast(h) = NewFirst(h) + h.newCount - 1
  BY <1>2, HunkLines
<1>4. s <= Last(h) /\ First(h) <= e
  BY <1>2, <1>3 DEF Before, After
<1>5. CASE h.oldCount > 0
  <2>1. PICK i \in s..e : i \in First(h)..Last(h)
    <3>1. CASE First(h) >= s
      <4>1. First(h) \in s..e /\ First(h) \in First(h)..Last(h)
        BY <1>2, <1>3, <1>4, <1>5, <3>1
      <4> QED BY <4>1
    <3>2. CASE First(h) < s
      <4>1. s \in s..e /\ s \in First(h)..Last(h)
        BY <1>2, <1>3, <1>4, <3>2
      <4> QED BY <4>1
    <3> QED BY <1>2, <1>3, <3>1, <3>2
  <2>2. i \in Taken(hunks[k]) /\ k \in DOMAIN hunks
    BY <1>1, <2>1 DEF Taken
  <2>3. i \notin Surviving(hunks, ref)
    BY <2>2 DEF Surviving
  <2> QED BY <2>1, <2>3 DEF Carried
<1>6. CASE h.oldCount = 0
  <2> DEFINE i == Last(h)
  <2>1. i \in s..(e - 1) /\ i = First(h) - 1
    BY <1>2, <1>3, <1>4, <1>6
  <2>2. Image(hunks, i) = i + Moved(hunks, k - 1)
    <3>1. k - 1 \in 0..Len(hunks) /\ (k - 1) + 1 = k
      BY <1>1
    <3>2. ASSUME k - 1 > 0 PROVE Last(hunks[k - 1]) < i
      <4>1. First(hunks[k]) > Last(hunks[k - 1]) + 1
        BY <1>1, <3>2 DEF Patch
      <4>2. hunks[k - 1] \in Hunk
        BY <1>1, <3>2
      <4>3. Last(hunks[k - 1]) \in Int
        BY <4>2, HunkLines
      <4> QED BY <1>3, <2>1, <4>1, <4>3
    <3>3. Last(hunks[k]) >= i /\ i \in Int
      BY <1>3
    <3> HIDE DEF i
    <3> QED BY <3>1, <3>2, <3>3, HunksBefore
  <2>3. Image(hunks, i + 1) = i + 1 + Moved(hunks, k)
    <3>1. k \in 0..Len(hunks) /\ Last(hunks[k]) < i + 1 /\ i + 1 \in Int
      BY <1>1, <1>3
    <3>2. ASSUME k < Len(hunks) PROVE Last(hunks[k + 1]) >= i + 1
      <4>1. k + 1 \in (k + 1)..Len(hunks) /\ k + 1 \in 1..Len(hunks)
        BY <1>1, <3>2
      <4>2. First(hunks[k + 1]) > Last(hunks[k]) + 1
        BY <4>1, HunksApart
      <4>3. /\ Last(hunks[k + 1]) >= First(hunks[k + 1]) - 1
            /\ First(hunks[k + 1]) \in Nat /\ Last(hunks[k + 1]) \in Int
        BY <1>1, <4>1, HunkLines
      <4>4. Last(hunks[k]) \in Int
        BY <1>3
      <4> HIDE DEF h
      <4>5. Last(hunks[k + 1]) >= Last(hunks[k]) + 1
        BY <4>2, <4>3, <4>4
      <4> QED BY <4>5 DEF h
    <3> HIDE DEF i
    <3> QED BY <3>1, <3>2, HunksBefore
  <2>4. Moved(hunks, k) = Moved(hunks, k - 1) + h.newCount
    <3>1. Moved(hunks, k) = Moved(hunks, k - 1) + h.newCount - h.oldCount
          /\ Moved(hunks, k - 1) \in Int
      BY MovedBy
    <3> HIDE DEF h
    <3> QED BY <1>3, <1>6, <3>1
  <2>5. h.newCount > 0
    <3>1. hunks[k].oldCount + hunks[k].newCount > 0
      BY <1>1 DEF Patch
    <3> QED BY <1>3, <1>6, <3>1
  <2>6. Moved(hunks, k - 1) \in Int
    BY <1>1, MovedIsInt
  <2>7. Image(hunks, i + 1) # Image(hunks, i) + 1
    <3>1. i \in Int
      BY <1>3
    <3>2. h.newCount \in Nat
      BY <1>3
    <3>3. i + 1 + Moved(hunks, k) # i + Moved(hunks, k - 1) + 1
      <4> HIDE DEF i, h
      <4> QED BY <2>4, <2>5, <2>6, <3>1, <3>2
    <3> QED BY <2>2, <2>3, <3>3
  <2> QED BY <2>1, <2>7 DEF Carried
<1> QED BY <1>3, <1>5, <1>6

-----------------------------------------------------------------------------
Fields == {"stage", "op", "pass", "ref", "view", "scope", "listing", "k", "shift",
           "answer", "proposal"}

\* A listing tells, of each of these paths, whether and how it changed.
Tells(listing, paths) ==
    ~listing.err =>
        \A p \in paths \cap DOMAIN repo.pin :
            /\ p \in DOMAIN listing.of <=> p \in DOMAIN repo.change
            /\ p \in DOMAIN repo.change => listing.of[p] = repo.change[p]

\* The loop is over the hunks Git reported for the reference's file.
Remapping(x) ==
    /\ x.ref.path \in DOMAIN repo.change
    /\ x.listing.of[x.ref.path] = repo.change[x.ref.path]
    /\ ~repo.change[x.ref.path].deleted
    /\ ~repo.change[x.ref.path].binary
    /\ ~WholeFile(x.ref)
    /\ x.k \in Nat \ {0}
    /\ x.k <= Len(repo.change[x.ref.path].hunks) + 1
    /\ Passed(repo.change[x.ref.path].hunks, x.ref, x.k, x.shift)

\* What may be called current of a reference.
Verbatim(at, ref) == Holds(at, ref.digest) \/ NotCompared(at, ref)

\* What a call rests on at each stage.
Grounded(x) ==
    /\ DOMAIN x = Fields
    /\ x.stage # "idle" => x.ref \in repo.refs /\ x.view \in Commits
    /\ x.stage \in {"changes", "select", "full", "listing", "judge", "remap"} => Sound(x.ref)
    /\ x.stage = "select" => x.scope \subseteq plan /\ x.ref.path \in x.scope
    /\ x.stage = "judge" => Tells(x.listing, {x.ref.path})
    /\ x.stage = "remap" => Remapping(x)
    /\ x.answer.state = "current" => Verbatim(x.answer.at, x.ref)

CallsGrounded ==
    /\ call = [c \in Callers |-> call[c]]
    /\ \A c \in Callers : Grounded(call[c])

\* What is remembered is so.
BlobsTrue ==
    /\ blobs \in [Commits \X Paths -> {"unread", "found", "missing"}]
    /\ \A commit \in Commits, path \in Paths :
         blobs[<<commit, path>>] = "found" => path \in DOMAIN At(commit)

VerifiedTrue ==
    /\ verified \in [repo.refs -> {"unread", "sound", "unsound", "failed"}]
    /\ \A ref \in repo.refs : verified[ref] = "sound" => Sound(ref)

ListingsTrue ==
    /\ full # None => Tells(full, Paths)
    /\ selected # None => Tells(selected.listing, plan)

PlanKnown ==
    /\ plan \subseteq Paths
    /\ plan # {} => sample \in repo.refs

World ==
    /\ repo \in Repositories
    /\ budget \in Budgets(repo)

IInv == World /\ BlobsTrue /\ VerifiedTrue /\ ListingsTrue /\ PlanKnown /\ CallsGrounded

LEMMA NoCallGrounded == Grounded(NoCall)
BY DEF Grounded, NoCall, NoAnswer, NoProposal, Fields

LEMMA InitInv == Init => IInv
<1> SUFFICES ASSUME Init PROVE IInv
  OBVIOUS
<1>1. World
  BY DEF Init, World
<1>2. BlobsTrue
  BY DEF Init, BlobsTrue
<1>3. VerifiedTrue
  BY DEF Init, VerifiedTrue
<1>4. ListingsTrue
  BY DEF Init, ListingsTrue
<1>5. PlanKnown
  BY DEF Init, PlanKnown
<1>6. CallsGrounded
  <2>1. call = [c \in Callers |-> NoCall]
    BY DEF Init
  <2> QED BY <2>1, NoCallGrounded DEF CallsGrounded
<1> QED BY <1>1, <1>2, <1>3, <1>4, <1>5, <1>6 DEF IInv

\* What a call rests on, it rests on while the repository stays.
LEMMA StillGrounded ==
    ASSUME repo' = repo, plan \subseteq plan', NEW d \in Callers, call'[d] = call[d],
           Grounded(call[d])
    PROVE  Grounded(call[d])'
<1>1. Sound(call[d].ref)' <=> Sound(call[d].ref)
  BY DEF Sound, Holds, At
<1>2. Tells(call[d].listing, {call[d].ref.path})' <=> Tells(call[d].listing, {call[d].ref.path})
  BY DEF Tells
<1>3. Remapping(call[d])' <=> Remapping(call[d])
  BY DEF Remapping
<1>4. Verbatim(call[d].answer.at, call[d].ref)' <=> Verbatim(call[d].answer.at, call[d].ref)
  BY DEF Verbatim, Holds, At
<1> QED BY <1>1, <1>2, <1>3, <1>4 DEF Grounded

\* What a step of one caller has to establish: its own call.
LEMMA OneCall ==
    ASSUME IInv, repo' = repo, plan \subseteq plan', NEW c \in Callers,
           call' = [d \in Callers |-> call'[d]],
           \A d \in Callers \ {c} : call'[d] = call[d],
           Grounded(call[c])'
    PROVE  CallsGrounded'
<1>1. ASSUME NEW d \in Callers, d # c PROVE Grounded(call[d])'
  <2>1. call'[d] = call[d] /\ Grounded(call[d])
    BY <1>1 DEF IInv, CallsGrounded
  <2> QED BY <2>1, StillGrounded
<1> QED BY <1>1 DEF CallsGrounded

\* A call that goes on to a stage that rests on nothing more, or on the reference
\* being sound.
LEMMA GoesToGrounded ==
    ASSUME IInv, repo' = repo, plan \subseteq plan', NEW c \in Callers, NEW stage,
           call[c].stage # "idle", GoesTo(c, stage),
           stage \in {"verify", "digest", "done", "verifying"} \/
             (stage \in {"changes", "full", "listing"} /\ Sound(call[c].ref))
    PROVE  CallsGrounded'
<1>1. /\ call = [d \in Callers |-> call[d]]
      /\ Grounded(call[c])
  BY DEF IInv, CallsGrounded
<1>2. DOMAIN call[c] = Fields
  BY <1>1 DEF Grounded
<1>3. call' = [call EXCEPT ![c] = [call[c] EXCEPT !.stage = stage]]
  BY DEF GoesTo
<1>4. /\ call' = [d \in Callers |-> call'[d]]
      /\ \A d \in Callers \ {c} : call'[d] = call[d]
      /\ call'[c] = [call[c] EXCEPT !.stage = stage]
  BY <1>1, <1>3
<1>5. /\ DOMAIN call'[c] = Fields
      /\ call'[c].stage = stage
      /\ call'[c].ref = call[c].ref /\ call'[c].view = call[c].view
      /\ call'[c].answer = call[c].answer
  BY <1>2, <1>4 DEF Fields
<1>6. Grounded(call[c])'
  BY <1>1, <1>5 DEF Grounded, Verbatim, Sound, Holds, At
<1> QED BY <1>4, <1>6, OneCall

\* A call that is given an answer that is verbatim, or none.
LEMMA GivesGrounded ==
    ASSUME IInv, repo' = repo, plan \subseteq plan', NEW c \in Callers, NEW answer,
           call[c].stage # "idle", Gives(c, answer),
           answer.state = "current" => Verbatim(answer.at, call[c].ref)
    PROVE  CallsGrounded'
<1>1. /\ call = [d \in Callers |-> call[d]]
      /\ Grounded(call[c])
  BY DEF IInv, CallsGrounded
<1>2. DOMAIN call[c] = Fields
  BY <1>1 DEF Grounded
<1>3. CASE call[c].pass # "resolve"
  BY <1>3, GoesToGrounded DEF Gives
<1>4. ASSUME call[c].pass = "resolve", NEW x, DOMAIN x = Fields,
             call' = [call EXCEPT ![c] = x],
             x.stage \in {"exists", "done"}, x.answer = answer,
             x.ref = call[c].ref, x.view = call[c].view
      PROVE  CallsGrounded'
  <2>1. /\ call' = [d \in Callers |-> call'[d]]
        /\ \A d \in Callers \ {c} : call'[d] = call[d]
        /\ call'[c] = x
    BY <1>1, <1>4
  <2>2. /\ DOMAIN call'[c] = Fields
        /\ call'[c].stage \in {"exists", "done"}
        /\ call'[c].ref = call[c].ref /\ call'[c].view = call[c].view
        /\ call'[c].answer = answer
    BY <1>4, <2>1
  <2>3. Grounded(call[c])'
    BY <1>1, <2>2 DEF Grounded, Verbatim, Holds, At
  <2> QED BY <2>1, <2>3, OneCall
<1>5. CASE /\ call[c].pass = "resolve"
           /\ call[c].op = "propose" /\ answer.state = "stale"
  <2>1. call' = [call EXCEPT ![c] = [[[call[c] EXCEPT !.stage = "exists"]
                                        EXCEPT !.pass = "propose"] EXCEPT !.answer = answer]]
    BY <1>1, <1>5 DEF Gives
  <2>2. PICK x : /\ x = [[[call[c] EXCEPT !.stage = "exists"]
                            EXCEPT !.pass = "propose"] EXCEPT !.answer = answer]
                 /\ call' = [call EXCEPT ![c] = x]
    BY <2>1
  <2>3. /\ DOMAIN x = Fields /\ x.stage = "exists" /\ x.answer = answer
        /\ x.ref = call[c].ref /\ x.view = call[c].view
    BY <1>2, <2>2 DEF Fields
  <2> QED BY <1>4, <1>5, <2>2, <2>3
<1>6. CASE /\ call[c].pass = "resolve"
           /\ ~(call[c].op = "propose" /\ answer.state = "stale")
  <2>1. call' = [call EXCEPT ![c] = [[call[c] EXCEPT !.stage = "done"] EXCEPT !.answer = answer]]
    BY <1>1, <1>6 DEF Gives
  <2>2. PICK x : /\ x = [[call[c] EXCEPT !.stage = "done"] EXCEPT !.answer = answer]
                 /\ call' = [call EXCEPT ![c] = x]
    BY <2>1
  <2>3. /\ DOMAIN x = Fields /\ x.stage = "done" /\ x.answer = answer
        /\ x.ref = call[c].ref /\ x.view = call[c].view
    BY <1>2, <2>2 DEF Fields
  <2> QED BY <1>4, <1>6, <2>2, <2>3
<1> QED BY <1>3, <1>5, <1>6

\* A call that is given a listing.
LEMMA ListedGrounded ==
    ASSUME IInv, repo' = repo, plan \subseteq plan', NEW c \in Callers, NEW listing,
           call[c].stage \in {"changes", "select", "full", "listing"}, Listed(c, listing),
           Tells(listing, {call[c].ref.path})
    PROVE  CallsGrounded'
<1>1. /\ call = [d \in Callers |-> call[d]]
      /\ Grounded(call[c])
  BY DEF IInv, CallsGrounded
<1>2. DOMAIN call[c] = Fields
  BY <1>1 DEF Grounded
<1>3. PICK stage \in {"done", "judge"} :
        call' = [call EXCEPT ![c] = [[call[c] EXCEPT !.stage = stage] EXCEPT !.listing = listing]]
  BY <1>1 DEF Listed
<1>4. /\ call' = [d \in Callers |-> call'[d]]
      /\ \A d \in Callers \ {c} : call'[d] = call[d]
      /\ call'[c] = [[call[c] EXCEPT !.stage = stage] EXCEPT !.listing = listing]
  BY <1>1, <1>3
<1>5. /\ DOMAIN call'[c] = Fields
      /\ call'[c].stage = stage /\ call'[c].listing = listing
      /\ call'[c].ref = call[c].ref /\ call'[c].view = call[c].view
      /\ call'[c].answer = call[c].answer
  BY <1>2, <1>4 DEF Fields
<1>6. Grounded(call[c])'
  BY <1>1, <1>5 DEF Grounded, Verbatim, Sound, Holds, At, Tells
<1> QED BY <1>4, <1>6, OneCall

\* A blob that is read is there, and is remembered as what it was.
LEMMA ReadsBlobTrue ==
    ASSUME BlobsTrue, repo' = repo, NEW commit \in Commits, NEW path \in Paths,
           NEW result, ReadsBlob(commit, path, result)
    PROVE  BlobsTrue' /\ (result = "found" => path \in DOMAIN At(commit))
<1>1. CASE blobs[<<commit, path>>] # "unread"
  BY <1>1 DEF ReadsBlob, BlobsTrue, At
<1>2. CASE blobs[<<commit, path>>] = "unread" /\ result = "failed" /\ UNCHANGED blobs
  BY <1>2 DEF BlobsTrue, At
<1>3. CASE /\ blobs[<<commit, path>>] = "unread"
           /\ result = IF InRepository(commit, path) THEN "found" ELSE "missing"
           /\ blobs' = [blobs EXCEPT ![<<commit, path>>] = result]
  <2>1. result \in {"found", "missing"} /\ (result = "found" => path \in DOMAIN At(commit))
    BY <1>3 DEF InRepository
  <2> QED BY <1>3, <2>1 DEF BlobsTrue, At
<1> QED BY <1>1, <1>2, <1>3 DEF ReadsBlob

\* What a step leaves alone stays true.
LEMMA Untouched ==
    ASSUME IInv, repo' = repo, budget' = budget
    PROVE  /\ World'
           /\ UNCHANGED blobs => BlobsTrue'
           /\ UNCHANGED verified => VerifiedTrue'
           /\ UNCHANGED <<full, selected, plan>> => ListingsTrue'
           /\ UNCHANGED <<plan, sample>> => PlanKnown'
<1>1. World'
  BY DEF IInv, World
<1>2. UNCHANGED blobs => BlobsTrue'
  BY DEF IInv, BlobsTrue, At
<1>3. UNCHANGED verified => VerifiedTrue'
  BY DEF IInv, VerifiedTrue, Sound, Holds, At
<1>4. UNCHANGED <<full, selected, plan>> => ListingsTrue'
  BY DEF IInv, ListingsTrue, Tells
<1>5. UNCHANGED <<plan, sample>> => PlanKnown'
  BY DEF IInv, PlanKnown
<1> QED BY <1>1, <1>2, <1>3, <1>4, <1>5

\* So is all that is remembered, by steps that only read it.
LEMMA MemosUntouched ==
    ASSUME IInv, UNCHANGED <<repo, budget, blobs, verified, full, selected, plan, sample>>,
           CallsGrounded'
    PROVE  IInv'
<1>1. repo' = repo /\ budget' = budget /\ UNCHANGED blobs /\ UNCHANGED verified
      /\ UNCHANGED <<full, selected, plan>> /\ UNCHANGED <<plan, sample>>
  OBVIOUS
<1> QED BY <1>1, Untouched DEF IInv

\* Without lines that read like headers, a listing tells of every path it covers.
LEMMA ListingsTell ==
    ASSUME OldHeaders = {}, NewHeaders = {}, NEW paths
    PROVE  /\ Tells(FullListing, paths)
           /\ Tells(SelectedListing(paths), paths)
           /\ Tells(FailedListing, paths)
<1>1. \A p : ~OldPathLost(p) /\ ~NewPathLost(p)
  BY DEF OldPathLost, NewPathLost
<1>2. FullListing = [err |-> FALSE, of |-> [p \in DOMAIN repo.change |-> repo.change[p]]]
  BY <1>1 DEF FullListing
<1>3. SelectedListing(paths) =
        [err |-> FALSE, of |-> [p \in paths \cap DOMAIN repo.change |-> repo.change[p]]]
  BY <1>1 DEF SelectedListing
<1> QED BY <1>2, <1>3 DEF Tells, FailedListing

\* A range or a file, once verified, is a place of the pinned commit.
LEMMA SoundReference ==
    ASSUME World, NEW ref \in repo.refs, Sound(ref)
    PROVE  /\ ref \in References
           /\ ref.path \in DOMAIN repo.pin
           /\ repo.pin[ref.path] \in Seq(Texts)
           /\ ~WholeFile(ref) => Inside(repo.pin[ref.path], ref.start, ref.end)
           /\ Content(repo.pin[ref.path], ref.start, ref.end) = ref.digest
<1>1. ref \in References /\ Valid(ref)
  BY RepositoriesAssumption DEF World
<1>2. /\ ref.path \in DOMAIN repo.pin
      /\ WholeFile(Pinned(ref)) \/ Inside(repo.pin[ref.path], ref.start, ref.end)
      /\ Content(repo.pin[ref.path], ref.start, ref.end) = ref.digest
  BY DEF Sound, Holds, Pinned, At
<1>3. WholeFile(Pinned(ref)) <=> WholeFile(ref)
  BY DEF WholeFile, Pinned
<1>4. repo.pin[ref.path] \in Seq(Texts)
  BY <1>2, RepositoriesAssumption DEF World
<1> QED BY <1>1, <1>2, <1>3, <1>4

\* What no change names is at the head as it was, or was left out.
LEMMA UnchangedHolds ==
    ASSUME World, NEW ref \in repo.refs, Sound(ref), ref.path \notin DOMAIN repo.change
    PROVE  Verbatim([commit |-> "head", path |-> ref.path, start |-> ref.start, end |-> ref.end],
                    ref)
<1>1. /\ ref.path \in DOMAIN repo.pin
      /\ ~WholeFile(ref) => Inside(repo.pin[ref.path], ref.start, ref.end)
      /\ Content(repo.pin[ref.path], ref.start, ref.end) = ref.digest
  BY SoundReference
<1>2. CASE ref.path \in SagaPaths
  BY <1>2 DEF Verbatim, NotCompared, Pinned
<1>3. CASE ref.path \notin SagaPaths
  <2>1. ref.path \in DOMAIN repo.head /\ repo.head[ref.path] = repo.pin[ref.path]
    BY <1>1, <1>3, RepositoriesAssumption DEF World, Comparison
  <2> QED BY <1>1, <2>1 DEF Verbatim, Holds, At, WholeFile
<1> QED BY <1>2, <1>3

\* A file that only has a new name holds what it held.
LEMMA RenamedHolds ==
    ASSUME World, NEW ref \in repo.refs, Sound(ref), WholeFile(ref),
           ref.path \in DOMAIN repo.change,
           ~repo.change[ref.path].deleted, ~repo.change[ref.path].binary,
           repo.change[ref.path].hunks = <<>>
    PROVE  Holds([commit |-> "head", path |-> repo.change[ref.path].to,
                  start |-> ref.start, end |-> ref.end], ref.digest)
<1> DEFINE ch == repo.change[ref.path]
<1>1. /\ ref.path \in DOMAIN repo.pin
      /\ repo.pin[ref.path] \in Seq(Texts)
      /\ Content(repo.pin[ref.path], ref.start, ref.end) = ref.digest
  BY SoundReference
<1>2. ch.to \in DOMAIN repo.head /\ Patch(<<>>, repo.pin[ref.path], repo.head[ch.to])
  BY RepositoriesAssumption DEF World, Comparison
<1>3. repo.head[ch.to] \in Seq(Texts)
  BY <1>2, RepositoriesAssumption DEF World
<1>4. repo.head[ch.to] = repo.pin[ref.path]
  BY <1>1, <1>2, <1>3, NothingTouched
<1> QED BY <1>1, <1>2, <1>4 DEF Holds, At, WholeFile

\* Lines that passed every hunk are where the loop says.
LEMMA RemappedHolds ==
    ASSUME World, NEW x, x.ref \in repo.refs, Sound(x.ref), Remapping(x),
           x.k > Len(repo.change[x.ref.path].hunks)
    PROVE  Holds([commit |-> "head", path |-> repo.change[x.ref.path].to,
                  start |-> x.ref.start + x.shift, end |-> x.ref.end + x.shift], x.ref.digest)
<1> DEFINE ref == x.ref
           ch == repo.change[ref.path]
           old == repo.pin[ref.path]
           new == repo.head[ch.to]
<1>1. /\ ref \in References
      /\ ref.path \in DOMAIN repo.pin /\ old \in Seq(Texts)
      /\ Inside(old, ref.start, ref.end)
      /\ Content(old, ref.start, ref.end) = ref.digest
  BY SoundReference DEF Remapping
<1>2. ch.to \in DOMAIN repo.head /\ Patch(ch.hunks, old, new)
  BY RepositoriesAssumption DEF World, Comparison, Remapping
<1>3. new \in Seq(Texts)
  BY <1>2, RepositoriesAssumption DEF World
<1>4. Passed(ch.hunks, ref, Len(ch.hunks) + 1, x.shift)
  <2>1. PICK hunks \in Seq(Hunk) : hunks = ch.hunks
    BY Zenon, <1>2 DEF Patch
  <2>2. x.k = Len(hunks) + 1
    <3>1. x.k \in Nat /\ x.k <= Len(hunks) + 1 /\ x.k > Len(hunks)
      BY <2>1 DEF Remapping
    <3>2. Len(hunks) \in Nat
      OBVIOUS
    <3> QED BY <3>1, <3>2
  <2> QED BY <2>1, <2>2 DEF Remapping
<1>5. /\ Inside(new, ref.start + x.shift, ref.end + x.shift)
      /\ Content(new, ref.start + x.shift, ref.end + x.shift) = Content(old, ref.start, ref.end)
  <2> HIDE DEF ref, ch, old, new
  <2> QED BY <1>1, <1>2, <1>3, <1>4, PassedAll
<1> QED BY Zenon, <1>1, <1>2, <1>5 DEF Holds, At

\* The one place where the digest is found is verbatim.
LEMMA MatchHolds ==
    ASSUME World, NEW ref \in repo.refs, NEW view \in Commits, ref.path \in DOMAIN At(view),
           NEW i \in Matches(ref, At(view)[ref.path])
    PROVE  Holds([commit |-> view, path |-> ref.path,
                  start |-> i, end |-> i + ref.end - ref.start], ref.digest)
<1> DEFINE lines == At(view)[ref.path]
<1>1. lines \in Seq(Texts) /\ ref \in References /\ Valid(ref)
  BY RepositoriesAssumption DEF World, At, Commits
<1>2. ref.start \in Nat /\ ref.end \in Nat
  BY <1>1 DEF References
<1>3. CASE WholeFile(ref)
  <2>1. i = 0 /\ lines = ref.digest /\ i + ref.end - ref.start = 0
    BY <1>3 DEF Matches, WholeFile
  <2> QED BY <2>1 DEF Holds, WholeFile, Content
<1>4. CASE ~WholeFile(ref)
  <2> DEFINE end == i + ref.end - ref.start
  <2>1. i \in 1..Len(lines) /\ end <= Len(lines) /\ Content(lines, i, end) = ref.digest
    BY <1>1, <1>4 DEF Matches
  <2>2. ref.start \in 1..ref.end
    BY <1>1, <1>4 DEF Valid
  <2>3. Inside(lines, i, end)
    <3>1. i <= end
      BY <1>2, <2>1, <2>2
    <3>2. end \in Int
      BY <1>2, <2>1
    <3> QED BY <2>1, <3>1, <3>2 DEF Inside
  <2> QED BY <2>1, <2>3 DEF Holds
<1> QED BY <1>3, <1>4

\* A call goes on from what verify says, when what it calls sound is sound.
LEMMA GoesOnGrounded ==
    ASSUME IInv, repo' = repo, plan \subseteq plan', NEW c \in Callers, NEW result,
           call[c].stage # "idle", GoesOn(c, result),
           result = "sound" => Sound(call[c].ref)
    PROVE  CallsGrounded'
<1>1. CASE result # "sound"
  <2>1. Stale(c, result = "failed").state = "stale"
    BY DEF Stale
  <2> QED BY <1>1, <2>1, GivesGrounded DEF GoesOn
<1>2. CASE result = "sound" /\ call[c].pass = "propose"
  BY <1>2, GoesToGrounded DEF GoesOn
<1>3. CASE result = "sound" /\ call[c].pass # "propose" /\ call[c].view = "pin"
  <2>1. Current(Pinned(call[c].ref)).at = Pinned(call[c].ref)
    BY DEF Current
  <2> QED BY <1>3, <2>1, GivesGrounded DEF GoesOn, Sound, Verbatim, Pinned
<1>4. CASE result = "sound" /\ call[c].pass # "propose" /\ call[c].view # "pin"
  BY <1>4, GoesToGrounded DEF GoesOn
<1> QED BY <1>1, <1>2, <1>3, <1>4

\* A listing of what was asked for can be kept as one of the plan when the plan has
\* the same size: it has not lost a path meanwhile.
LEMMA ScopeIsPlan ==
    ASSUME PlanKnown, NEW scope, scope \subseteq plan, Cardinality(plan) = Cardinality(scope)
    PROVE  scope = plan
<1>1. IsFiniteSet(plan)
  BY PathsAssumption, FS_Subset DEF PlanKnown
<1>2. IsFiniteSet(scope) /\ Cardinality(scope) <= Cardinality(plan)
      /\ (Cardinality(scope) = Cardinality(plan) => scope = plan)
  BY <1>1, FS_Subset
<1> QED BY <1>2

-----------------------------------------------------------------------------
LEMMA CallsKept ==
    ASSUME IInv, repo' = repo, plan \subseteq plan', call' = call
    PROVE  CallsGrounded'
<1>1. \A d \in Callers : Grounded(call[d])'
  BY StillGrounded DEF IInv, CallsGrounded
<1> QED BY <1>1 DEF IInv, CallsGrounded

LEMMA FetchInv == ASSUME IInv, Fetch PROVE IInv'
BY CallsKept, MemosUntouched DEF Fetch, memos

LEMMA PrepareInv ==
    ASSUME IInv, NEW refs, refs \subseteq repo.refs, Prepare(refs)
    PROVE  IInv'
<1> DEFINE paths == {ref.path : ref \in refs}
<1>1. /\ UNCHANGED <<repo, blobs, verified, full, call, budget>>
      /\ plan' = plan \cup paths /\ selected' = None
      /\ (plan = {} /\ sample' \in refs) \/ (plan # {} /\ sample' = sample)
  BY DEF Prepare
<1>2. paths \subseteq Paths
  <2>1. \A ref \in refs : ref \in References
    BY RepositoriesAssumption DEF IInv, World
  <2> QED BY <2>1 DEF References
<1>3. PlanKnown'
  BY <1>1, <1>2 DEF IInv, PlanKnown
<1>4. ListingsTrue'
  BY <1>1 DEF IInv, ListingsTrue, Tells
<1>5. CallsGrounded'
  BY <1>1, CallsKept
<1> QED BY <1>1, <1>3, <1>4, <1>5, Untouched DEF IInv

\* A new call rests on nothing but what was asked.
LEMMA AskInv ==
    ASSUME IInv, NEW c \in Callers, NEW x, DOMAIN x = Fields, x.stage = "exists",
           x.ref \in repo.refs, x.view \in Commits, x.answer = NoAnswer,
           Asks(c), call' = [call EXCEPT ![c] = x]
    PROVE  IInv'
<1>1. UNCHANGED <<repo, budget, blobs, verified, full, selected, plan, sample>>
  BY DEF Asks, memos
<1>2. /\ call' = [d \in Callers |-> call'[d]]
      /\ \A d \in Callers \ {c} : call'[d] = call[d]
      /\ call'[c] = x
  BY DEF IInv, CallsGrounded
<1>3. Grounded(call[c])'
  BY <1>1, <1>2 DEF Grounded, NoAnswer
<1>4. CallsGrounded'
  BY <1>1, <1>2, <1>3, OneCall
<1> QED BY <1>1, <1>4, MemosUntouched

LEMMA CommitReadInv == ASSUME IInv, NEW c \in Callers, CommitRead(c) PROVE IInv'
<1>1. UNCHANGED <<repo, budget, blobs, verified, full, selected, plan, sample>>
  BY DEF CommitRead
<1>2. call[c].stage = "exists" /\ \E stage \in {"verify", "digest", "done"} : GoesTo(c, stage)
  BY DEF CommitRead
<1>3. CallsGrounded'
  BY <1>1, <1>2, GoesToGrounded
<1> QED BY <1>1, <1>3, MemosUntouched

LEMMA CommitFailsInv == ASSUME IInv, NEW c \in Callers, CommitFails(c) PROVE IInv'
<1>1. UNCHANGED <<repo, budget, blobs, verified, full, selected, plan, sample>>
  BY DEF CommitFails, memos
<1>2. call[c].stage = "exists" /\ Gives(c, Stale(c, TRUE)) /\ Stale(c, TRUE).state = "stale"
  BY DEF CommitFails, Stale
<1>3. CallsGrounded'
  BY <1>1, <1>2, GivesGrounded
<1> QED BY <1>1, <1>3, MemosUntouched

LEMMA LooksForDigestInv == ASSUME IInv, NEW c \in Callers, LooksForDigest(c) PROVE IInv'
<1> DEFINE ref == call[c].ref
           view == call[c].view
<1>1. /\ UNCHANGED <<repo, budget, verified, full, selected, plan, sample>>
      /\ call[c].stage = "digest"
  BY DEF LooksForDigest
<1>2. ref \in repo.refs /\ view \in Commits /\ ref.path \in Paths
  <2>1. ref \in repo.refs /\ view \in Commits
    BY <1>1 DEF IInv, CallsGrounded, Grounded
  <2>2. ref \in References
    BY <2>1, RepositoriesAssumption DEF IInv, World
  <2> QED BY <2>1, <2>2 DEF References
<1>3. PICK result :
         /\ ReadsBlob(view, ref.path, result)
         /\ IF result = "found" /\ Cardinality(Matches(ref, At(view)[ref.path])) = 1
            THEN \E i \in Matches(ref, At(view)[ref.path]) :
                   Gives(c, Found([commit |-> view, path |-> ref.path,
                                   start |-> i, end |-> i + ref.end - ref.start]))
            ELSE Gives(c, Stale(c, TRUE))
  BY DEF LooksForDigest
<1>4. BlobsTrue' /\ (result = "found" => ref.path \in DOMAIN At(view))
  BY <1>1, <1>2, <1>3, ReadsBlobTrue DEF IInv
<1>5. CallsGrounded'
  <2>1. CASE result = "found" /\ Cardinality(Matches(ref, At(view)[ref.path])) = 1
    <3>1. PICK i \in Matches(ref, At(view)[ref.path]) :
            Gives(c, Found([commit |-> view, path |-> ref.path,
                            start |-> i, end |-> i + ref.end - ref.start]))
      BY <1>3, <2>1
    <3> DEFINE at == [commit |-> view, path |-> ref.path,
                      start |-> i, end |-> i + ref.end - ref.start]
    <3>2. Holds(at, ref.digest)
      BY <1>2, <1>4, <2>1, MatchHolds DEF IInv
    <3>3. Found(at).at = at
      BY DEF Found
    <3>4. PICK answer : answer = Found(at)
      OBVIOUS
    <3>5. Gives(c, answer) /\ answer.at = at
      BY <3>1, <3>3, <3>4
    <3> HIDE DEF at
    <3> QED BY <1>1, <3>2, <3>5, GivesGrounded DEF Verbatim
  <2>2. CASE ~(result = "found" /\ Cardinality(Matches(ref, At(view)[ref.path])) = 1)
    <3>1. Gives(c, Stale(c, TRUE)) /\ Stale(c, TRUE).state = "stale"
      BY <1>3, <2>2 DEF Stale
    <3> QED BY <1>1, <3>1, GivesGrounded
  <2> QED BY <2>1, <2>2
<1> QED BY <1>1, <1>4, <1>5, Untouched DEF IInv

LEMMA VerifyKnownInv == ASSUME IInv, NEW c \in Callers, VerifyKnown(c) PROVE IInv'
<1>1. /\ UNCHANGED <<repo, budget, blobs, verified, full, selected, plan, sample>>
      /\ call[c].stage = "verify"
  BY DEF VerifyKnown, memos
<1>2. CallsGrounded'
  <2>1. CASE verified[call[c].ref] # "unread"
    <3>1. call[c].ref \in repo.refs
      BY <1>1 DEF IInv, CallsGrounded, Grounded
    <3>2. verified[call[c].ref] = "sound" => Sound(call[c].ref)
      BY <3>1 DEF IInv, VerifiedTrue
    <3> QED BY <1>1, <2>1, <3>2, GoesOnGrounded DEF VerifyKnown
  <2>2. CASE verified[call[c].ref] = "unread"
    BY <1>1, <2>2, GoesToGrounded DEF VerifyKnown
  <2> QED BY <2>1, <2>2
<1> QED BY <1>1, <1>2, MemosUntouched

LEMMA VerifyInv == ASSUME IInv, NEW c \in Callers, Verify(c) PROVE IInv'
<1> DEFINE ref == call[c].ref
<1>1. /\ UNCHANGED <<repo, budget, full, selected, plan, sample>>
      /\ call[c].stage = "verifying"
  BY DEF Verify
<1>2. ref \in repo.refs /\ ref.path \in Paths
  <2>1. ref \in repo.refs
    BY <1>1 DEF IInv, CallsGrounded, Grounded
  <2>2. ref \in References
    BY <2>1, RepositoriesAssumption DEF IInv, World
  <2> QED BY <2>1, <2>2 DEF References
<1>3. PICK result, checked :
         /\ checked \in {"failed", "sound", "unsound"}
         /\ checked = "sound" => Sound(ref)
         /\ ReadsBlob("pin", ref.path, result)
         /\ verified' = [verified EXCEPT ![ref] = checked]
         /\ GoesOn(c, checked)
  BY DEF Verify
<1>4. BlobsTrue'
  BY <1>1, <1>2, <1>3, ReadsBlobTrue DEF IInv, Commits
<1>5. VerifiedTrue'
  <2>1. \A x \in repo.refs : Sound(x) => Sound(x)'
    BY <1>1 DEF Sound, Holds, At
  <2>2. verified' \in [repo'.refs -> {"unread", "sound", "unsound", "failed"}]
    BY <1>1, <1>2, <1>3 DEF IInv, VerifiedTrue
  <2>3. \A x \in repo.refs : verified'[x] = "sound" => Sound(x)
    BY <1>2, <1>3 DEF IInv, VerifiedTrue
  <2> QED BY <1>1, <2>1, <2>2, <2>3 DEF VerifiedTrue
<1>6. CallsGrounded'
  BY <1>1, <1>3, GoesOnGrounded
<1> QED BY <1>1, <1>4, <1>5, <1>6, Untouched DEF IInv

\* A call past verify is about a reference of the repository, and a sound one.
LEMMA CallOfReference ==
    ASSUME IInv, NEW c \in Callers, call[c].stage # "idle"
    PROVE  /\ call = [d \in Callers |-> call[d]]
           /\ Grounded(call[c])
           /\ call[c].ref \in repo.refs /\ call[c].ref \in References
           /\ call[c].ref.path \in Paths
<1>1. /\ call = [d \in Callers |-> call[d]]
      /\ Grounded(call[c]) /\ call[c].ref \in repo.refs
  BY DEF IInv, CallsGrounded, Grounded
<1>2. call[c].ref \in References
  BY <1>1, RepositoriesAssumption DEF IInv, World
<1> QED BY <1>1, <1>2 DEF References

LEMMA LookUpChangesInv == ASSUME IInv, NEW c \in Callers, LookUpChanges(c) PROVE IInv'
<1>1. /\ UNCHANGED <<repo, budget, blobs, verified, full, selected, plan, sample>>
      /\ call[c].stage = "changes"
  BY DEF LookUpChanges, memos
<1>2. /\ call = [d \in Callers |-> call[d]]
      /\ Grounded(call[c]) /\ Sound(call[c].ref) /\ call[c].ref.path \in Paths
  BY <1>1, CallOfReference DEF Grounded
<1> SUFFICES CallsGrounded'
  BY <1>1, MemosUntouched
<1>3. CASE full # None
  <2>1. Tells(full, {call[c].ref.path})
    BY <1>2, <1>3 DEF IInv, ListingsTrue, Tells
  <2> QED BY <1>1, <1>3, <2>1, ListedGrounded DEF LookUpChanges
<1>4. CASE full = None /\ call[c].ref.path \notin plan
  BY <1>1, <1>2, <1>4, GoesToGrounded DEF LookUpChanges
<1>5. CASE full = None /\ call[c].ref.path \in plan /\ SelectedServes
  <2>1. Tells(selected.listing, {call[c].ref.path})
    BY <1>5 DEF IInv, ListingsTrue, Tells, SelectedServes
  <2> QED BY <1>1, <1>5, <2>1, ListedGrounded DEF LookUpChanges
<1>6. CASE full = None /\ call[c].ref.path \in plan /\ ~SelectedServes
  <2>1. call' = [call EXCEPT ![c] = [[call[c] EXCEPT !.stage = "select"] EXCEPT !.scope = plan]]
    BY <1>2, <1>6 DEF LookUpChanges
  <2>2. /\ call' = [d \in Callers |-> call'[d]]
        /\ \A d \in Callers \ {c} : call'[d] = call[d]
        /\ call'[c] = [[call[c] EXCEPT !.stage = "select"] EXCEPT !.scope = plan]
    BY <1>2, <2>1
  <2>3. /\ DOMAIN call'[c] = Fields
        /\ call'[c].stage = "select" /\ call'[c].scope = plan
        /\ call'[c].ref = call[c].ref /\ call'[c].view = call[c].view
        /\ call'[c].answer = call[c].answer
    BY <1>2, <2>2 DEF Grounded, Fields
  <2>4. Grounded(call[c])'
    BY <1>1, <1>2, <1>6, <2>3 DEF Grounded, Verbatim, Sound, Holds, At
  <2>5. CallsGrounded'
    BY <1>1, <2>2, <2>4, OneCall
  <2> QED BY <2>5
<1> QED BY <1>3, <1>4, <1>5, <1>6

LEMMA SelectInv ==
    ASSUME IInv, OldHeaders = {}, NewHeaders = {}, NEW c \in Callers, Select(c)
    PROVE  IInv'
<1> DEFINE scope == call[c].scope
<1>1. /\ UNCHANGED <<repo, budget, blobs, verified, full, plan, sample>>
      /\ call[c].stage = "select"
  BY DEF Select
<1>2. scope \subseteq plan /\ call[c].ref.path \in scope
  BY <1>1, CallOfReference DEF Grounded
<1>3. PICK listing \in {SelectedListing(scope), FullListing, FailedListing} :
         /\ selected' = IF Cardinality(plan) = Cardinality(scope)
                        THEN [size |-> Cardinality(scope), listing |-> listing]
                        ELSE selected
         /\ Listed(c, listing)
  BY DEF Select
<1>4. Tells(listing, scope)
  BY <1>3, ListingsTell
<1>5. CallsGrounded'
  <2>1. Tells(listing, {call[c].ref.path})
    BY <1>2, <1>4 DEF Tells
  <2> QED BY <1>1, <1>3, <2>1, ListedGrounded
<1>6. ListingsTrue'
  <2>1. ASSUME Cardinality(plan) = Cardinality(scope) PROVE Tells(listing, plan)
    <3>1. scope = plan
      BY <1>2, <2>1, ScopeIsPlan DEF IInv
    <3> QED BY <1>4, <3>1
  <2>2. selected' # None => Tells(selected'.listing, plan)
    BY <1>3, <2>1 DEF IInv, ListingsTrue
  <2> QED BY <1>1, <2>2 DEF IInv, ListingsTrue, Tells
<1> QED BY <1>1, <1>5, <1>6, Untouched DEF IInv

LEMMA LookUpFullInv == ASSUME IInv, NEW c \in Callers, LookUpFull(c) PROVE IInv'
<1>1. /\ UNCHANGED <<repo, budget, blobs, verified, full, selected, plan, sample>>
      /\ call[c].stage = "full"
  BY DEF LookUpFull, memos
<1>2. Sound(call[c].ref) /\ call[c].ref.path \in Paths
  BY <1>1, CallOfReference DEF Grounded
<1>3. CASE full # None
  <2>1. Tells(full, {call[c].ref.path})
    BY <1>2, <1>3 DEF IInv, ListingsTrue, Tells
  <2> QED BY <1>1, <1>3, <2>1, ListedGrounded, MemosUntouched DEF LookUpFull
<1>4. CASE full = None
  BY <1>1, <1>2, <1>4, GoesToGrounded, MemosUntouched DEF LookUpFull
<1> QED BY <1>3, <1>4

LEMMA ListAllInv ==
    ASSUME IInv, OldHeaders = {}, NewHeaders = {}, NEW c \in Callers, ListAll(c)
    PROVE  IInv'
<1>1. /\ UNCHANGED <<repo, budget, blobs, verified, selected, plan, sample>>
      /\ call[c].stage = "listing"
  BY DEF ListAll
<1>2. PICK listing \in {FullListing, FailedListing} : full' = listing /\ Listed(c, listing)
  BY DEF ListAll
<1>3. Tells(listing, Paths) /\ Tells(listing, {call[c].ref.path})
  BY <1>2, ListingsTell
<1>4. CallsGrounded'
  BY <1>1, <1>2, <1>3, ListedGrounded
<1>5. ListingsTrue'
  BY <1>1, <1>2, <1>3 DEF IInv, ListingsTrue, Tells
<1> QED BY <1>1, <1>4, <1>5, Untouched DEF IInv

\* A call whose loop goes on, at another hunk or with another shift.
LEMMA RemapGoesOn ==
    ASSUME IInv, repo' = repo, plan \subseteq plan', NEW c \in Callers,
           call[c].stage \in {"judge", "remap"}, NEW k, NEW shift,
           call' = [call EXCEPT ![c].stage = "remap", ![c].k = k, ![c].shift = shift],
           Remapping([call[c] EXCEPT !.k = k, !.shift = shift])
    PROVE  CallsGrounded'
<1>1. /\ call = [d \in Callers |-> call[d]]
      /\ Grounded(call[c])
  BY CallOfReference
<1>2. DOMAIN call[c] = Fields
  BY <1>1 DEF Grounded
<1>3. call' = [call EXCEPT ![c] = [[[call[c] EXCEPT !.stage = "remap"] EXCEPT !.k = k]
                                     EXCEPT !.shift = shift]]
  BY <1>1
<1>4. /\ call' = [d \in Callers |-> call'[d]]
      /\ \A d \in Callers \ {c} : call'[d] = call[d]
      /\ call'[c] = [[[call[c] EXCEPT !.stage = "remap"] EXCEPT !.k = k] EXCEPT !.shift = shift]
  BY <1>1, <1>3
<1>5. /\ DOMAIN call'[c] = Fields
      /\ call'[c].stage = "remap"
      /\ call'[c].ref = call[c].ref /\ call'[c].view = call[c].view
      /\ call'[c].listing = call[c].listing
      /\ call'[c].k = k /\ call'[c].shift = shift
      /\ call'[c].answer = call[c].answer
  BY Zenon, <1>2, <1>4 DEF Fields
<1>6. PICK x : x = [call[c] EXCEPT !.k = k, !.shift = shift]
  OBVIOUS
<1>7. Remapping(x) /\ x.ref = call[c].ref /\ x.listing = call[c].listing
      /\ x.k = k /\ x.shift = shift
  BY <1>2, <1>6 DEF Fields
<1>8. Remapping(call[c])'
  BY Zenon, <1>5, <1>7 DEF Remapping
<1>9. Grounded(call[c])'
  BY <1>1, <1>5, <1>8 DEF Grounded, Verbatim, Sound, Holds, At
<1> QED BY <1>4, <1>9, OneCall

LEMMA JudgeInv == ASSUME IInv, NEW c \in Callers, Judge(c) PROVE IInv'
<1> DEFINE ref == call[c].ref
           listing == call[c].listing
           ch == listing.of[ref.path]
           Located(path) == [commit |-> "head", path |-> path,
                             start |-> ref.start, end |-> ref.end]
<1>1. /\ UNCHANGED <<repo, budget, blobs, verified, full, selected, plan, sample>>
      /\ call[c].stage = "judge"
  BY DEF Judge, memos
<1>2. /\ IF listing.err THEN Gives(c, Stale(c, TRUE))
         ELSE IF ref.path \notin DOMAIN listing.of THEN Gives(c, Current(Located(ref.path)))
         ELSE IF ch.deleted \/ ch.binary THEN Gives(c, Stale(c, FALSE))
         ELSE IF ~WholeFile(ref)
         THEN call' = [call EXCEPT ![c].stage = "remap", ![c].k = 1, ![c].shift = 0]
         ELSE IF ch.hunks # <<>> \/ ch.mode THEN Gives(c, Stale(c, FALSE))
         ELSE Gives(c, Current(Located(ch.to)))
  BY Zenon DEF Judge
<1> SUFFICES CallsGrounded'
  BY <1>1, MemosUntouched
<1>3. ref \in repo.refs /\ Sound(ref) /\ Tells(listing, {ref.path})
  BY <1>1, CallOfReference DEF Grounded
<1>4. ref.path \in DOMAIN repo.pin
  BY <1>3, SoundReference DEF IInv
<1>5. ASSUME NEW provisional, Gives(c, Stale(c, provisional)) PROVE CallsGrounded'
  <2>1. Stale(c, provisional).state = "stale"
    BY DEF Stale
  <2> QED BY <1>1, <1>5, <2>1, GivesGrounded
<1>6. ASSUME NEW at, Gives(c, Current(at)), Verbatim(at, ref) PROVE CallsGrounded'
  <2>1. Current(at).at = at
    BY DEF Current
  <2> QED BY <1>1, <1>6, <2>1, GivesGrounded
<1>7. CASE listing.err
  BY <1>2, <1>5, <1>7
<1>8. CASE ~listing.err /\ ref.path \notin DOMAIN listing.of
  <2>1. ref.path \notin DOMAIN repo.change
    BY <1>3, <1>4, <1>8 DEF Tells
  <2>2. Verbatim(Located(ref.path), ref)
    BY <1>3, <2>1, UnchangedHolds DEF IInv
  <2>3. Gives(c, Current(Located(ref.path)))
    BY <1>2, <1>8
  <2> HIDE DEF Located
  <2> QED BY <1>6, <2>2, <2>3
<1>9. CASE ~listing.err /\ ref.path \in DOMAIN listing.of /\ (ch.deleted \/ ch.binary)
  BY <1>2, <1>5, <1>9
<1>10. CASE ~listing.err /\ ref.path \in DOMAIN listing.of /\ ~(ch.deleted \/ ch.binary)
  <2>1. ref.path \in DOMAIN repo.change /\ ch = repo.change[ref.path]
    BY <1>3, <1>4, <1>10 DEF Tells
  <2>2. CASE ~WholeFile(ref)
    <3>1. call' = [call EXCEPT ![c].stage = "remap", ![c].k = 1, ![c].shift = 0]
      BY <1>2, <1>10, <2>2
    <3>2. PICK x : x = [call[c] EXCEPT !.k = 1, !.shift = 0]
      OBVIOUS
    <3>3. DOMAIN call[c] = Fields
      BY <1>1, CallOfReference DEF Grounded
    <3>4. x.ref = ref /\ x.listing = listing /\ x.k = 1 /\ x.shift = 0
      BY <3>2, <3>3 DEF Fields
    <3>5. PICK hunks \in Seq(Hunk) : hunks = repo.change[ref.path].hunks
      BY <2>1, RepositoriesAssumption DEF IInv, World, Changes
    <3>6. Len(hunks) \in Nat
      OBVIOUS
    <3>7. Passed(hunks, ref, 1, 0)
      <4>1. Moved(hunks, 0) = 0
        BY DEF Moved
      <4> QED BY <4>1 DEF Passed
    <3>8. Remapping(x)
      <4>1. 1 <= Len(hunks) + 1
        BY <3>6
      <4>2. /\ x.ref.path = ref.path /\ x.k \in Nat \ {0}
            /\ x.k <= Len(repo.change[x.ref.path].hunks) + 1
        BY <3>4, <3>5, <4>1
      <4>3. Passed(repo.change[x.ref.path].hunks, x.ref, x.k, x.shift)
        BY <3>4, <3>5, <3>7
      <4> QED BY <1>10, <2>1, <2>2, <3>4, <4>2, <4>3 DEF Remapping
    <3> QED BY Zenon, <1>1, <3>1, <3>2, <3>8, RemapGoesOn
  <2>3. CASE WholeFile(ref) /\ (ch.hunks # <<>> \/ ch.mode)
    BY <1>2, <1>5, <1>10, <2>3
  <2>4. CASE WholeFile(ref) /\ ~(ch.hunks # <<>> \/ ch.mode)
    <3>1. Gives(c, Current(Located(ch.to)))
      BY <1>2, <1>10, <2>4
    <3>2. Verbatim(Located(ch.to), ref)
      BY <1>3, <1>10, <2>1, <2>4, RenamedHolds DEF IInv, Verbatim
    <3> HIDE DEF Located, ch
    <3> QED BY <1>6, <3>1, <3>2
  <2> QED BY <2>2, <2>3, <2>4
<1> QED BY <1>7, <1>8, <1>9, <1>10

LEMMA RemapHunkInv == ASSUME IInv, NEW c \in Callers, RemapHunk(c) PROVE IInv'
<1> DEFINE x == call[c]
           ref == x.ref
           ch == x.listing.of[ref.path]
           h == ch.hunks[x.k]
<1>1. /\ UNCHANGED <<repo, budget, blobs, verified, full, selected, plan, sample>>
      /\ x.stage = "remap" /\ x.k <= Len(ch.hunks)
  BY Zenon DEF RemapHunk, memos
<1>2. IF Before(h, ref)
      THEN call' = [call EXCEPT ![c].k = @ + 1, ![c].shift = @ + h.newCount - h.oldCount]
      ELSE IF After(h, ref) THEN call' = [call EXCEPT ![c].k = @ + 1]
      ELSE Gives(c, Stale(c, FALSE))
  BY Zenon DEF RemapHunk
<1> SUFFICES CallsGrounded'
  BY <1>1, MemosUntouched
<1>3. /\ call = [d \in Callers |-> call[d]]
      /\ DOMAIN x = Fields /\ Remapping(x) /\ Sound(ref) /\ ref \in repo.refs
  BY <1>1, CallOfReference DEF Grounded
<1>4. PICK hunks \in Seq(Hunk) : hunks = ch.hunks /\ hunks = repo.change[ref.path].hunks
  <2>1. ch = repo.change[ref.path] /\ ref.path \in DOMAIN repo.change
    BY <1>3 DEF Remapping
  <2>2. repo.change[ref.path].hunks \in Seq(Hunk)
    BY <2>1, RepositoriesAssumption DEF IInv, World, Changes
  <2> QED BY <2>1, <2>2
<1>5. Len(hunks) \in Nat /\ DOMAIN hunks = 1..Len(hunks)
  OBVIOUS
<1>6. x.k \in 1..Len(hunks) /\ Passed(hunks, ref, x.k, x.shift)
  <2>1. x.k \in Nat \ {0} /\ x.k <= Len(hunks)
    BY <1>1, <1>3, <1>4 DEF Remapping
  <2>2. Passed(hunks, ref, x.k, x.shift)
    BY <1>3, <1>4 DEF Remapping
  <2>3. PICK k : k = x.k
    OBVIOUS
  <2>4. k \in 1..Len(hunks)
    BY <1>5, <2>1, <2>3
  <2> QED BY <2>2, <2>3, <2>4
<1>7. ASSUME NEW shift, Passed(hunks, ref, x.k + 1, shift),
             NEW y, DOMAIN y = Fields, y.ref = ref, y.listing = x.listing,
             y.k = x.k + 1, y.shift = shift
      PROVE  Remapping(y)
  <2>1. PICK k : k = x.k
    OBVIOUS
  <2>2. k \in 1..Len(hunks) /\ y.k = k + 1
    BY <1>6, <1>7, <2>1
  <2>3. y.k \in Nat \ {0} /\ y.k <= Len(hunks) + 1
    BY <1>5, <2>2
  <2>4. Passed(hunks, y.ref, y.k, y.shift)
    BY <1>7
  <2> QED BY Zenon, <1>3, <1>4, <1>7, <2>3, <2>4 DEF Remapping
<1>8. CASE Before(h, ref)
  <2>1. call' = [call EXCEPT ![c] = [[x EXCEPT !.k = x.k + 1]
                                        EXCEPT !.shift = x.shift + h.newCount - h.oldCount]]
    BY Zenon, <1>2, <1>3, <1>8
  <2>2. PICK shift : shift = x.shift + hunks[x.k].newCount - hunks[x.k].oldCount
    OBVIOUS
  <2>3. Passed(hunks, ref, x.k + 1, shift)
    <3>1. PICK old, new : Patch(hunks, old, new)
      <4>1. ref.path \in DOMAIN repo.change
            /\ ~repo.change[ref.path].deleted /\ ~repo.change[ref.path].binary
        BY <1>3 DEF Remapping
      <4>2. Comparison(repo)
        BY RepositoriesAssumption DEF IInv, World
      <4>3. Patch(repo.change[ref.path].hunks, repo.pin[ref.path],
                  repo.head[repo.change[ref.path].to])
        BY <4>1, <4>2 DEF Comparison
      <4> QED BY Zenon, <1>4, <4>3
    <3>2. ref \in References /\ ref.start <= ref.end
      <4>1. ref \in References /\ Valid(ref) /\ ~WholeFile(ref)
        BY <1>3, RepositoriesAssumption DEF IInv, World, Remapping
      <4> QED BY <4>1 DEF Valid, References
    <3>3. Before(hunks[x.k], ref)
      BY Zenon, <1>4, <1>8
    <3> HIDE DEF x, ref, ch, h
    <3> QED BY <1>6, <2>2, <3>1, <3>2, <3>3, PassedBefore
  <2>4. PICK y : y = [x EXCEPT !.k = x.k + 1, !.shift = shift]
    OBVIOUS
  <2>5. DOMAIN y = Fields /\ y.ref = ref /\ y.listing = x.listing
        /\ y.k = x.k + 1 /\ y.shift = shift
    BY <1>3, <2>4 DEF Fields
  <2>6. Remapping(y)
    BY <1>7, <2>3, <2>5
  <2>7. call' = [call EXCEPT ![c].stage = "remap", ![c].k = x.k + 1, ![c].shift = shift]
    <3>1. shift = x.shift + h.newCount - h.oldCount
      BY Zenon, <1>4, <2>2
    <3>2. [[x EXCEPT !.k = x.k + 1] EXCEPT !.shift = shift]
            = [[[x EXCEPT !.stage = "remap"] EXCEPT !.k = x.k + 1] EXCEPT !.shift = shift]
      BY <1>1, <1>3 DEF Fields
    <3> QED BY Zenon, <1>3, <2>1, <3>1, <3>2
  <2> QED BY Zenon, <1>1, <2>4, <2>6, <2>7, RemapGoesOn
<1>9. CASE ~Before(h, ref) /\ After(h, ref)
  <2>1. call' = [call EXCEPT ![c] = [x EXCEPT !.k = x.k + 1]]
    BY Zenon, <1>2, <1>3, <1>9
  <2>2. Passed(hunks, ref, x.k + 1, x.shift)
    <3>1. After(hunks[x.k], ref)
      BY Zenon, <1>4, <1>9
    <3>2. PICK k \in Nat : k = x.k
      BY <1>5, <1>6
    <3> HIDE DEF x, ref, ch, h
    <3> QED BY <1>6, <3>1, <3>2, PassedAfter
  <2>3. PICK y : y = [x EXCEPT !.k = x.k + 1, !.shift = x.shift]
    OBVIOUS
  <2>4. DOMAIN y = Fields /\ y.ref = ref /\ y.listing = x.listing
        /\ y.k = x.k + 1 /\ y.shift = x.shift
    BY <1>3, <2>3 DEF Fields
  <2>5. Remapping(y)
    BY <1>7, <2>2, <2>4
  <2>6. call' = [call EXCEPT ![c].stage = "remap", ![c].k = x.k + 1, ![c].shift = x.shift]
    <3>1. [x EXCEPT !.k = x.k + 1]
            = [[[x EXCEPT !.stage = "remap"] EXCEPT !.k = x.k + 1] EXCEPT !.shift = x.shift]
      BY <1>1, <1>3 DEF Fields
    <3> QED BY <1>3, <2>1, <3>1
  <2> QED BY Zenon, <1>1, <2>3, <2>5, <2>6, RemapGoesOn
<1>10. CASE ~Before(h, ref) /\ ~After(h, ref)
  <2>1. Gives(c, Stale(c, FALSE)) /\ Stale(c, FALSE).state = "stale"
    BY Zenon, <1>2, <1>10 DEF Stale
  <2> QED BY Zenon, <1>1, <2>1, GivesGrounded
<1> QED BY <1>8, <1>9, <1>10

LEMMA RemapEndsInv == ASSUME IInv, NEW c \in Callers, RemapEnds(c) PROVE IInv'
<1> DEFINE x == call[c]
           ch == x.listing.of[x.ref.path]
           at == [commit |-> "head", path |-> ch.to,
                  start |-> x.ref.start + x.shift, end |-> x.ref.end + x.shift]
<1>1. /\ UNCHANGED <<repo, budget, blobs, verified, full, selected, plan, sample>>
      /\ x.stage = "remap" /\ x.k > Len(ch.hunks)
      /\ Gives(c, Current(at))
  BY DEF RemapEnds, memos
<1>2. Remapping(x) /\ Sound(x.ref) /\ x.ref \in repo.refs
  BY <1>1, CallOfReference DEF Grounded
<1>3. ch = repo.change[x.ref.path]
  BY <1>2 DEF Remapping
<1>4. Holds(at, x.ref.digest)
  BY <1>1, <1>2, <1>3, RemappedHolds DEF IInv
<1>5. PICK answer : answer = Current(at)
  OBVIOUS
<1>6. Gives(c, answer) /\ answer.at = at
  BY <1>1, <1>5 DEF Current
<1>7. CallsGrounded'
  <2> HIDE DEF at, ch
  <2> QED BY <1>1, <1>4, <1>6, GivesGrounded DEF Verbatim
<1> QED BY <1>1, <1>7, MemosUntouched

\* A step that replaces a call by one that rests on nothing new.
LEMMA ProposeInv == ASSUME IInv, NEW c \in Callers, Propose(c) PROVE IInv'
<1>1. /\ UNCHANGED <<repo, budget, blobs, verified, full, selected, plan, sample>>
      /\ call[c].stage = "judge"
  BY DEF Propose, memos
<1>2. /\ call = [d \in Callers |-> call[d]]
      /\ Grounded(call[c]) /\ DOMAIN call[c] = Fields
  BY <1>1, CallOfReference DEF Grounded
<1>3. PICK proposal :
        call' = [call EXCEPT ![c] = [[call[c] EXCEPT !.stage = "done"] EXCEPT !.proposal = proposal]]
  BY Zenon, <1>2 DEF Propose
<1>4. /\ call' = [d \in Callers |-> call'[d]]
      /\ \A d \in Callers \ {c} : call'[d] = call[d]
      /\ call'[c] = [[call[c] EXCEPT !.stage = "done"] EXCEPT !.proposal = proposal]
  BY <1>2, <1>3
<1>5. /\ DOMAIN call'[c] = Fields /\ call'[c].stage = "done"
      /\ call'[c].ref = call[c].ref /\ call'[c].view = call[c].view
      /\ call'[c].answer = call[c].answer
  BY <1>2, <1>4 DEF Fields
<1>6. Grounded(call[c])'
  BY <1>1, <1>2, <1>5 DEF Grounded, Verbatim, Holds, At
<1>7. CallsGrounded'
  BY <1>1, <1>4, <1>6, OneCall
<1> QED BY <1>1, <1>7, MemosUntouched

LEMMA ReturnInv == ASSUME IInv, NEW c \in Callers, Return(c) PROVE IInv'
<1>1. UNCHANGED <<repo, budget, blobs, verified, full, selected, plan, sample>>
      /\ call' = [call EXCEPT ![c] = NoCall]
  BY DEF Return, memos
<1>2. /\ call' = [d \in Callers |-> call'[d]]
      /\ \A d \in Callers \ {c} : call'[d] = call[d]
      /\ call'[c] = NoCall
  BY <1>1 DEF IInv, CallsGrounded
<1>3. Grounded(call[c])'
  BY <1>2 DEF Grounded, NoCall, NoAnswer, NoProposal, Fields
<1>4. CallsGrounded'
  BY <1>1, <1>2, <1>3, OneCall
<1> QED BY <1>1, <1>4, MemosUntouched

-----------------------------------------------------------------------------
LEMMA NextInv ==
    ASSUME OldHeaders = {}, NewHeaders = {}, IInv, [Next]_vars
    PROVE  IInv'
<1>1. budget.callers \subseteq Callers /\ budget.views \subseteq Commits
  BY BudgetsAssumption DEF IInv, World
<1>2. DOMAIN NoCall = Fields /\ NoCall.answer = NoAnswer
  BY DEF NoCall, Fields
<1>3. CASE Fetch
  BY <1>3, FetchInv
<1>4. ASSUME NEW paths \in SUBSET {ref.path : ref \in repo.refs},
             Prepare({ref \in repo.refs : ref.path \in paths})
      PROVE  IInv'
  BY <1>4, PrepareInv
<1>5. ASSUME NEW c \in budget.callers, NEW op, NEW ref \in repo.refs, NEW view \in budget.views,
             Ask(c, op, ref, view)
      PROVE  IInv'
  <2>1. PICK x : x = [NoCall EXCEPT !.stage = "exists", !.op = op, !.pass = "resolve",
                                    !.ref = ref, !.view = view]
    OBVIOUS
  <2>2. /\ DOMAIN x = Fields /\ x.stage = "exists"
        /\ x.ref = ref /\ x.view = view /\ x.answer = NoAnswer
    BY <1>2, <2>1 DEF Fields
  <2>3. Asks(c) /\ call' = [call EXCEPT ![c] = x]
    BY <1>5, <2>1 DEF Ask
  <2> QED BY <1>1, <2>2, <2>3, AskInv
<1>6. ASSUME NEW c \in budget.callers, Warm(c) PROVE IInv'
  <2>1. PICK x : x = [NoCall EXCEPT !.stage = "exists", !.op = "warm", !.pass = "warm",
                                    !.ref = sample, !.view = "head"]
    OBVIOUS
  <2>2. /\ DOMAIN x = Fields /\ x.stage = "exists"
        /\ x.ref = sample /\ x.view = "head" /\ x.answer = NoAnswer
    BY <1>2, <2>1 DEF Fields
  <2>3. Asks(c) /\ call' = [call EXCEPT ![c] = x] /\ sample \in repo.refs
    BY <1>6, <2>1 DEF Warm, IInv, PlanKnown
  <2> QED BY <1>1, <2>2, <2>3, AskInv DEF Commits
<1>7. ASSUME NEW c \in budget.callers,
             \/ CommitRead(c) \/ CommitFails(c) \/ LooksForDigest(c)
             \/ VerifyKnown(c) \/ Verify(c)
             \/ LookUpChanges(c) \/ Select(c) \/ LookUpFull(c) \/ ListAll(c)
             \/ Judge(c) \/ RemapHunk(c) \/ RemapEnds(c) \/ Propose(c) \/ Return(c)
      PROVE  IInv'
  <2>1. c \in Callers
    BY <1>1
  <2>2. CASE CommitRead(c) \/ CommitFails(c) \/ LooksForDigest(c) \/ VerifyKnown(c) \/ Verify(c)
    BY <2>1, <2>2, CommitReadInv, CommitFailsInv, LooksForDigestInv, VerifyKnownInv, VerifyInv
  <2>3. CASE LookUpChanges(c) \/ Select(c) \/ LookUpFull(c) \/ ListAll(c)
    BY <2>1, <2>3, LookUpChangesInv, SelectInv, LookUpFullInv, ListAllInv
  <2>4. CASE Judge(c) \/ RemapHunk(c) \/ RemapEnds(c) \/ Propose(c) \/ Return(c)
    BY <2>1, <2>4, JudgeInv, RemapHunkInv, RemapEndsInv, ProposeInv, ReturnInv
  <2> QED BY <1>7, <2>2, <2>3, <2>4
<1>8. CASE UNCHANGED vars
  <2>1. UNCHANGED <<repo, budget, blobs, verified, full, selected, plan, sample, call>>
    BY <1>8 DEF vars, memos
  <2> QED BY <2>1, CallsKept, MemosUntouched
<1> QED BY <1>3, <1>4, <1>5, <1>6, <1>7, <1>8 DEF Next

\* At every moment, what a resolver remembers is what its repository holds and what
\* Git says of it, and every call rests on as much: the inductive invariant.
THEOREM ResolverInvariant ==
    ASSUME OldHeaders = {}, NewHeaders = {}
    PROVE  Spec => []IInv
<1>1. Init => IInv
  BY InitInv
<1>2. IInv /\ [Next]_vars => IInv'
  BY NextInv
<1> QED BY <1>1, <1>2, PTL DEF Spec

\* What a resolver calls current is, to the letter, what the reference was taken of,
\* at any commit, with any hunks, callers and failures: unless the file lies inside a
\* Saga, where Git is not asked, or a changed line reads like a header of Git's patch,
\* which the code takes for one.
THEOREM CurrentStaysVerbatim ==
    ASSUME OldHeaders = {}, NewHeaders = {}
    PROVE  Spec => []CurrentIsVerbatim
<1>1. IInv => CurrentIsVerbatim
  BY DEF IInv, CallsGrounded, Grounded, Verbatim, CurrentIsVerbatim
<1> QED BY <1>1, ResolverInvariant, PTL

-----------------------------------------------------------------------------
(***************************************************************************)
(* A stale answer that is no guess rests on what was looked at: a commit   *)
(* is only asked about its files once it is there, so that what is missing *)
(* from it never was in it.                                                *)
(***************************************************************************)

\* What makes it true that a reference does not stand at a commit.
Excused(ref, view) ==
    \/ ~Sound(ref)
    \/ /\ view = "head"
       /\ ref.path \in DOMAIN repo.change
       /\ \/ repo.change[ref.path].deleted
          \/ repo.change[ref.path].binary
          \/ WholeFile(ref) /\ (\/ repo.change[ref.path].mode
                                \/ repo.head[repo.change[ref.path].to] # ref.digest)
          \/ ~WholeFile(ref) /\ ~Carried(repo.change[ref.path].hunks, ref)

Definite(answer) == answer.state = "stale" /\ ~answer.provisional

\* What a call knows of its commits at each stage.
SettledCall(x) ==
    /\ x.stage \in {"verify", "verifying"} => commits = "here"
    /\ x.stage = "digest" => commits = "missing"
    /\ x.stage \in {"changes", "select", "full", "listing", "judge", "remap"} =>
         x.pass # "resolve" \/ x.view = "head"
    /\ Definite(x.answer) => Excused(x.ref, x.view)

CommitTrue ==
    /\ commits \in {"unread", "here", "missing"}
    /\ commits = "here" => here

\* A file that was looked for in vain is not there, unless the commit was not.
BlobsSettled ==
    \A p \in Paths :
        blobs[<<"pin", p>>] = "missing" => commits = "missing" \/ p \notin DOMAIN repo.pin

VerifiedSettled == \A ref \in repo.refs : verified[ref] = "unsound" => ~Sound(ref)

CallsSettled == \A c \in Callers : SettledCall(call[c])

SInv == CommitTrue /\ BlobsSettled /\ VerifiedSettled /\ CallsSettled

\* What is known of the commits stays known.
CommitsStay == repo' = repo /\ (commits # "unread" => commits' = commits)

LEMMA InitSettled == Init => SInv
<1> SUFFICES ASSUME Init PROVE SInv
  OBVIOUS
<1>1. SettledCall(NoCall)
  BY DEF SettledCall, NoCall, NoAnswer, Definite
<1>2. CallsSettled
  BY <1>1 DEF Init, CallsSettled
<1>3. BlobsSettled
  BY DEF Init, BlobsSettled, Commits
<1> QED BY <1>2, <1>3 DEF Init, SInv, CommitTrue, VerifiedSettled

LEMMA ExcusedStays ==
    ASSUME repo' = repo
    PROVE  /\ \A ref : Sound(ref)' <=> Sound(ref)
           /\ \A ref, view : Excused(ref, view)' <=> Excused(ref, view)
<1>1. ASSUME NEW ref PROVE Sound(ref)' <=> Sound(ref)
  BY DEF Sound, Holds, At
<1>2. ASSUME NEW ref, NEW view PROVE Excused(ref, view)' <=> Excused(ref, view)
  BY <1>1 DEF Excused
<1> QED BY <1>1, <1>2

\* What a step of one caller has to establish: its own call.
LEMMA OneSettled ==
    ASSUME SInv, CommitsStay, NEW c \in Callers,
           \A d \in Callers \ {c} : call'[d] = call[d],
           SettledCall(call[c])'
    PROVE  CallsSettled'
<1>1. ASSUME NEW d \in Callers, d # c PROVE SettledCall(call[d])'
  <2>1. call'[d] = call[d] /\ SettledCall(call[d])
    BY <1>1 DEF SInv, CallsSettled
  <2>2. Excused(call[d].ref, call[d].view)' <=> Excused(call[d].ref, call[d].view)
    <3>1. \A ref, view : Excused(ref, view)' <=> Excused(ref, view)
      BY ExcusedStays DEF CommitsStay
    <3>2. Excused(call[d].ref, call[d].view) = Excused(call'[d].ref, call'[d].view)
      BY <2>1
    <3> QED BY <3>1, <3>2
  <2> QED BY <2>1, <2>2 DEF SettledCall, CommitsStay
<1> QED BY <1>1 DEF CallsSettled

Later == {"changes", "select", "full", "listing", "judge", "remap"}

\* What a step that replaces a call has to establish.
LEMMA ReplacedSettled ==
    ASSUME IInv, SInv, CommitsStay, NEW c \in Callers, NEW x, call' = [call EXCEPT ![c] = x],
           x.stage \in {"verify", "verifying"} => commits' = "here",
           x.stage = "digest" => commits' = "missing",
           x.stage \in Later => x.pass # "resolve" \/ x.view = "head",
           Definite(x.answer) => Excused(x.ref, x.view)
    PROVE  CallsSettled'
<1>1. call = [d \in Callers |-> call[d]]
  BY DEF IInv, CallsGrounded
<1>2. (\A d \in Callers \ {c} : call'[d] = call[d]) /\ call'[c] = x
  BY <1>1
<1>3. Excused(call[c].ref, call[c].view)' <=> Excused(x.ref, x.view)
  <2>1. \A ref, view : Excused(ref, view)' <=> Excused(ref, view)
    BY ExcusedStays DEF CommitsStay
  <2> QED BY <1>2, <2>1
<1>4. SettledCall(call[c])'
  BY <1>2, <1>3 DEF SettledCall, Later, Definite
<1> QED BY <1>2, <1>4, OneSettled

\* A call that goes on.
LEMMA GoesToSettled ==
    ASSUME IInv, SInv, CommitsStay, NEW c \in Callers, NEW stage, GoesTo(c, stage),
           stage \in {"verify", "verifying"} => commits' = "here",
           stage = "digest" => commits' = "missing",
           stage \in Later => call[c].pass # "resolve" \/ call[c].view = "head"
    PROVE  CallsSettled'
<1>1. /\ call = [d \in Callers |-> call[d]]
      /\ Grounded(call[c]) /\ SettledCall(call[c])
  BY DEF IInv, CallsGrounded, SInv, CallsSettled
<1>2. DOMAIN call[c] = Fields
  BY <1>1 DEF Grounded
<1>3. PICK x : x = [call[c] EXCEPT !.stage = stage]
  OBVIOUS
<1>4. call' = [call EXCEPT ![c] = x]
  BY <1>1, <1>3 DEF GoesTo
<1>5. /\ x.stage = stage /\ x.pass = call[c].pass
      /\ x.ref = call[c].ref /\ x.view = call[c].view /\ x.answer = call[c].answer
  BY <1>2, <1>3 DEF Fields
<1>6. Definite(x.answer) => Excused(x.ref, x.view)
  BY <1>1, <1>5 DEF SettledCall
<1> QED BY <1>4, <1>5, <1>6, ReplacedSettled

\* A call that is given an answer, if only a true one is definite.
LEMMA GivesSettled ==
    ASSUME IInv, SInv, CommitsStay, NEW c \in Callers, NEW answer, Gives(c, answer),
           Definite(answer) => call[c].pass # "resolve" \/ Excused(call[c].ref, call[c].view)
    PROVE  CallsSettled'
<1>1. /\ call = [d \in Callers |-> call[d]]
      /\ Grounded(call[c])
  BY DEF IInv, CallsGrounded
<1>2. DOMAIN call[c] = Fields
  BY <1>1 DEF Grounded
<1>3. CASE call[c].pass # "resolve"
  <2>1. GoesTo(c, "done")
    BY <1>3 DEF Gives
  <2> QED BY <2>1, GoesToSettled DEF Later
<1>4. ASSUME call[c].pass = "resolve", NEW x, call' = [call EXCEPT ![c] = x],
             x.stage \in {"exists", "done"}, x.answer = answer,
             x.ref = call[c].ref, x.view = call[c].view
      PROVE  CallsSettled'
  <2>1. Definite(x.answer) => Excused(x.ref, x.view)
    BY <1>4
  <2> QED BY <1>4, <2>1, ReplacedSettled DEF Later
<1>5. CASE /\ call[c].pass = "resolve"
           /\ call[c].op = "propose" /\ answer.state = "stale"
  <2>1. PICK x : /\ x = [[[call[c] EXCEPT !.stage = "exists"]
                            EXCEPT !.pass = "propose"] EXCEPT !.answer = answer]
                 /\ call' = [call EXCEPT ![c] = x]
    BY <1>1, <1>5 DEF Gives
  <2>2. /\ x.stage = "exists" /\ x.answer = answer
        /\ x.ref = call[c].ref /\ x.view = call[c].view
    BY <1>2, <2>1 DEF Fields
  <2> QED BY <1>4, <1>5, <2>1, <2>2
<1>6. CASE /\ call[c].pass = "resolve"
           /\ ~(call[c].op = "propose" /\ answer.state = "stale")
  <2>1. PICK x : /\ x = [[call[c] EXCEPT !.stage = "done"] EXCEPT !.answer = answer]
                 /\ call' = [call EXCEPT ![c] = x]
    BY <1>1, <1>6 DEF Gives
  <2>2. /\ x.stage = "done" /\ x.answer = answer
        /\ x.ref = call[c].ref /\ x.view = call[c].view
    BY <1>2, <2>1 DEF Fields
  <2> QED BY <1>4, <1>6, <2>1, <2>2
<1> QED BY <1>3, <1>5, <1>6

\* A call that has a listing judges by it, at the head.
LEMMA ListedSettled ==
    ASSUME IInv, SInv, CommitsStay, NEW c \in Callers, NEW listing,
           call[c].stage \in Later, Listed(c, listing)
    PROVE  CallsSettled'
<1>1. /\ call = [d \in Callers |-> call[d]]
      /\ Grounded(call[c]) /\ SettledCall(call[c])
  BY DEF IInv, CallsGrounded, SInv, CallsSettled
<1>2. DOMAIN call[c] = Fields
  BY <1>1 DEF Grounded
<1>3. PICK stage \in {"done", "judge"} :
        call' = [call EXCEPT ![c] = [[call[c] EXCEPT !.stage = stage] EXCEPT !.listing = listing]]
  BY <1>1 DEF Listed
<1>4. PICK x : x = [[call[c] EXCEPT !.stage = stage] EXCEPT !.listing = listing]
  OBVIOUS
<1>5. /\ x.stage = stage /\ x.pass = call[c].pass
      /\ x.ref = call[c].ref /\ x.view = call[c].view /\ x.answer = call[c].answer
  BY <1>2, <1>4 DEF Fields
<1>6. call[c].pass # "resolve" \/ call[c].view = "head"
  BY <1>1 DEF SettledCall, Later
<1>7. Definite(x.answer) => Excused(x.ref, x.view)
  BY <1>1, <1>5 DEF SettledCall
<1>8. call' = [call EXCEPT ![c] = x]
  BY <1>3, <1>4
<1> QED BY <1>5, <1>6, <1>7, <1>8, ReplacedSettled

\* What is remembered, by steps that only read it.
LEMMA SettledUntouched ==
    ASSUME SInv, UNCHANGED <<repo, here, commits, blobs, verified>>, CallsSettled'
    PROVE  SInv'
<1>1. CommitTrue' /\ BlobsSettled'
  BY DEF SInv, CommitTrue, BlobsSettled
<1>2. VerifiedSettled'
  BY ExcusedStays DEF SInv, VerifiedSettled
<1> QED BY <1>1, <1>2 DEF SInv

-----------------------------------------------------------------------------
LEMMA FetchSettled == ASSUME SInv, Fetch PROVE SInv'
<1>1. UNCHANGED <<repo, commits, blobs, verified, call>> /\ here' = TRUE
  BY DEF Fetch, memos
<1>2. CommitTrue' /\ BlobsSettled'
  BY <1>1 DEF SInv, CommitTrue, BlobsSettled
<1>3. VerifiedSettled'
  BY <1>1, ExcusedStays DEF SInv, VerifiedSettled
<1>4. CallsSettled'
  <2> SUFFICES ASSUME NEW d \in Callers PROVE SettledCall(call[d])'
    BY DEF CallsSettled
  <2>1. Excused(call[d].ref, call[d].view)' <=> Excused(call[d].ref, call[d].view)
    <3>1. \A ref, view : Excused(ref, view)' <=> Excused(ref, view)
      BY <1>1, ExcusedStays
    <3> QED BY <1>1, <3>1
  <2> QED BY <1>1, <2>1 DEF SInv, CallsSettled, SettledCall
<1> QED BY <1>2, <1>3, <1>4 DEF SInv

\* Steps that touch neither what is remembered of the pin nor a call.
LEMMA AsideSettled ==
    ASSUME SInv, UNCHANGED <<repo, here, commits, blobs, verified, call>>
    PROVE  SInv'
<1>1. CallsSettled'
  <2> SUFFICES ASSUME NEW d \in Callers PROVE SettledCall(call[d])'
    BY DEF CallsSettled
  <2>1. Excused(call[d].ref, call[d].view)' <=> Excused(call[d].ref, call[d].view)
    <3>1. \A ref, view : Excused(ref, view)' <=> Excused(ref, view)
      BY ExcusedStays
    <3> QED BY <3>1
  <2> QED BY <2>1 DEF SInv, CallsSettled, SettledCall
<1> QED BY <1>1, SettledUntouched

\* A call that starts, or is over, knows nothing.
Blank(x) == x.stage \in {"exists", "idle"} /\ x.answer = NoAnswer

LEMMA NewSettled ==
    ASSUME IInv, SInv, CommitsStay, NEW c \in Callers, NEW x, Blank(x),
           call' = [call EXCEPT ![c] = x]
    PROVE  CallsSettled'
<1>1. ~Definite(x.answer)
  BY DEF Definite, NoAnswer, Blank
<1> QED BY <1>1, ReplacedSettled DEF Later, Blank

LEMMA CommitReadSettled == ASSUME IInv, SInv, NEW c \in Callers, CommitRead(c) PROVE SInv'
<1>1. /\ UNCHANGED <<repo, here, blobs, verified>>
      /\ commits' = IF commits # "unread" THEN commits ELSE IF here THEN "here" ELSE "missing"
      /\ IF commits' = "here" THEN GoesTo(c, "verify")
         ELSE IF call[c].pass = "resolve" THEN GoesTo(c, "digest")
         ELSE GoesTo(c, "done")
  BY DEF CommitRead
<1>2. CommitTrue' /\ commits' \in {"here", "missing"}
  BY <1>1 DEF SInv, CommitTrue
<1>3. CommitsStay
  BY <1>1 DEF CommitsStay
<1>4. BlobsSettled'
  BY <1>1 DEF SInv, CommitTrue, BlobsSettled
<1>5. VerifiedSettled'
  BY <1>1, ExcusedStays DEF SInv, VerifiedSettled
<1>6. CallsSettled'
  <2>1. CASE GoesTo(c, "verify") /\ commits' = "here"
    BY <1>3, <2>1, GoesToSettled DEF Later
  <2>2. CASE GoesTo(c, "digest") /\ commits' = "missing"
    BY <1>3, <2>2, GoesToSettled DEF Later
  <2>3. CASE GoesTo(c, "done")
    BY <1>3, <2>3, GoesToSettled DEF Later
  <2> QED BY <1>1, <1>2, <2>1, <2>2, <2>3
<1> QED BY <1>2, <1>4, <1>5, <1>6 DEF SInv

LEMMA CommitFailsSettled == ASSUME IInv, SInv, NEW c \in Callers, CommitFails(c) PROVE SInv'
<1>1. UNCHANGED <<repo, here, commits, blobs, verified>> /\ Gives(c, Stale(c, TRUE))
  BY DEF CommitFails, memos
<1>2. ~Definite(Stale(c, TRUE))
  BY DEF Definite, Stale
<1>3. CallsSettled'
  BY <1>1, <1>2, GivesSettled DEF CommitsStay
<1> QED BY <1>1, <1>3, SettledUntouched

\* What cannot be read is not there, where the commit is.
LEMMA ReadsBlobSettled ==
    ASSUME IInv, SInv, NEW commit \in Commits, NEW path \in Paths, NEW result,
           ReadsBlob(commit, path, result), UNCHANGED <<repo, commits>>, commits # "unread"
    PROVE  /\ BlobsSettled'
           /\ result = "missing" /\ commits = "here" /\ commit = "pin" => path \notin DOMAIN repo.pin
<1>1. CommitTrue /\ BlobsSettled /\ BlobsTrue
  BY DEF IInv, SInv
<1>2. CASE blobs[<<commit, path>>] # "unread"
  BY <1>1, <1>2 DEF ReadsBlob, BlobsSettled
<1>3. CASE blobs[<<commit, path>>] = "unread" /\ result = "failed" /\ UNCHANGED blobs
  BY <1>1, <1>3 DEF BlobsSettled
<1>4. CASE /\ blobs[<<commit, path>>] = "unread"
           /\ result = IF InRepository(commit, path) THEN "found" ELSE "missing"
           /\ blobs' = [blobs EXCEPT ![<<commit, path>>] = result]
  <2>1. result = "missing" /\ commits = "here" /\ commit = "pin" => path \notin DOMAIN repo.pin
    BY <1>1, <1>4 DEF InRepository, At, CommitTrue
  <2>2. BlobsSettled'
    <3> SUFFICES ASSUME NEW p \in Paths, blobs'[<<"pin", p>>] = "missing", commits # "missing"
                 PROVE  p \notin DOMAIN repo.pin
      BY DEF BlobsSettled
    <3>1. commits = "here"
      BY <1>1 DEF CommitTrue
    <3>2. CASE <<"pin", p>> = <<commit, path>>
      <4>1. commit = "pin" /\ p = path
        BY <3>2
      <4>2. blobs'[<<commit, path>>] = result
        BY <1>1, <1>4 DEF BlobsTrue
      <4> QED BY <2>1, <3>1, <4>1, <4>2
    <3>3. CASE <<"pin", p>> # <<commit, path>>
      <4>1. blobs'[<<"pin", p>>] = blobs[<<"pin", p>>]
        BY <1>1, <1>4, <3>3 DEF BlobsTrue, Commits
      <4> QED BY <1>1, <4>1 DEF BlobsSettled
    <3> QED BY <3>2, <3>3
  <2> QED BY <2>1, <2>2
<1> QED BY <1>2, <1>3, <1>4 DEF ReadsBlob

LEMMA LooksForDigestSettled ==
    ASSUME IInv, SInv, NEW c \in Callers, LooksForDigest(c)
    PROVE  SInv'
<1> DEFINE ref == call[c].ref
           view == call[c].view
<1>1. UNCHANGED <<repo, here, commits, verified>> /\ call[c].stage = "digest"
  BY DEF LooksForDigest
<1>2. commits = "missing"
  BY <1>1 DEF SInv, CallsSettled, SettledCall
<1>3. PICK result :
         /\ ReadsBlob(view, ref.path, result)
         /\ \E answer : Gives(c, answer) /\ ~Definite(answer)
  <2>1. PICK result :
          /\ ReadsBlob(view, ref.path, result)
          /\ IF result = "found" /\ Cardinality(Matches(ref, At(view)[ref.path])) = 1
             THEN \E i \in Matches(ref, At(view)[ref.path]) :
                    Gives(c, Found([commit |-> view, path |-> ref.path,
                                    start |-> i, end |-> i + ref.end - ref.start]))
             ELSE Gives(c, Stale(c, TRUE))
    BY DEF LooksForDigest
  <2>2. ~Definite(Stale(c, TRUE)) /\ \A at : ~Definite(Found(at))
    BY DEF Definite, Stale, Found
  <2> QED BY <2>1, <2>2
<1>4. view \in Commits /\ ref.path \in Paths
  BY <1>1, CallOfReference DEF Grounded
<1>5. BlobsSettled'
  BY <1>1, <1>2, <1>3, <1>4, ReadsBlobSettled
<1>6. CallsSettled'
  BY <1>1, <1>3, GivesSettled DEF CommitsStay
<1>7. VerifiedSettled'
  BY <1>1, ExcusedStays DEF SInv, VerifiedSettled
<1> QED BY <1>1, <1>5, <1>6, <1>7 DEF SInv, CommitTrue

\* A call goes on from what verify says, when what it calls unsound is not sound.
LEMMA GoesOnSettled ==
    ASSUME IInv, SInv, CommitsStay, NEW c \in Callers, NEW result, call[c].stage # "idle",
           GoesOn(c, result), result \in {"sound", "unsound", "failed"},
           result = "unsound" => ~Sound(call[c].ref)
    PROVE  CallsSettled'
<1>1. CASE result # "sound"
  <2>1. Definite(Stale(c, result = "failed")) => Excused(call[c].ref, call[c].view)
    BY <1>1 DEF Definite, Stale, Excused
  <2> QED BY <1>1, <2>1, GivesSettled DEF GoesOn
<1>2. CASE result = "sound" /\ call[c].pass = "propose"
  BY <1>2, GoesToSettled DEF GoesOn
<1>3. CASE result = "sound" /\ call[c].pass # "propose" /\ call[c].view = "pin"
  <2>1. ~Definite(Current(Pinned(call[c].ref)))
    BY DEF Current, Definite
  <2> QED BY <1>3, <2>1, GivesSettled DEF GoesOn
<1>4. CASE result = "sound" /\ call[c].pass # "propose" /\ call[c].view # "pin"
  <2>1. call[c].view = "head"
    BY <1>4, CallOfReference DEF Grounded, Commits
  <2> QED BY <1>4, <2>1, GoesToSettled DEF GoesOn
<1> QED BY <1>1, <1>2, <1>3, <1>4

LEMMA VerifyKnownSettled == ASSUME IInv, SInv, NEW c \in Callers, VerifyKnown(c) PROVE SInv'
<1>1. UNCHANGED <<repo, here, commits, blobs, verified>> /\ call[c].stage = "verify"
  BY DEF VerifyKnown, memos
<1>2. CommitsStay /\ commits = "here"
  BY <1>1 DEF CommitsStay, SInv, CallsSettled, SettledCall
<1>3. CallsSettled'
  <2>1. CASE verified[call[c].ref] # "unread"
    <3>1. call[c].ref \in repo.refs
      BY <1>1, CallOfReference
    <3>2. /\ verified[call[c].ref] \in {"sound", "unsound", "failed"}
          /\ verified[call[c].ref] = "unsound" => ~Sound(call[c].ref)
      BY <2>1, <3>1 DEF IInv, VerifiedTrue, SInv, VerifiedSettled
    <3>3. GoesOn(c, verified[call[c].ref])
      BY <2>1 DEF VerifyKnown
    <3> QED BY <1>1, <1>2, <3>2, <3>3, GoesOnSettled
  <2>2. CASE verified[call[c].ref] = "unread"
    <3>1. GoesTo(c, "verifying")
      BY <2>2 DEF VerifyKnown
    <3> QED BY <1>1, <1>2, <3>1, GoesToSettled DEF Later
  <2> QED BY <2>1, <2>2
<1> QED BY <1>1, <1>3, SettledUntouched

LEMMA VerifySettled == ASSUME IInv, SInv, NEW c \in Callers, Verify(c) PROVE SInv'
<1> DEFINE ref == call[c].ref
<1>1. UNCHANGED <<repo, here, commits>> /\ call[c].stage = "verifying"
  BY DEF Verify
<1>2. commits = "here" /\ CommitsStay
  BY <1>1 DEF CommitsStay, SInv, CallsSettled, SettledCall
<1>3. ref \in repo.refs /\ ref.path \in Paths
  BY <1>1, CallOfReference
<1>4. PICK result \in {"found", "missing", "failed"}, checked \in {"failed", "sound", "unsound"} :
         /\ checked = "unsound" => result = "missing" \/ ~Sound(ref)
         /\ ReadsBlob("pin", ref.path, result)
         /\ verified' = [verified EXCEPT ![ref] = checked]
         /\ GoesOn(c, checked)
  BY DEF Verify
<1>5. BlobsSettled' /\ (result = "missing" => ref.path \notin DOMAIN repo.pin)
  BY <1>1, <1>2, <1>3, <1>4, ReadsBlobSettled DEF Commits
<1>6. checked = "unsound" => ~Sound(ref)
  BY <1>4, <1>5 DEF Sound, Holds, Pinned, At
<1>7. VerifiedSettled'
  <2>1. \A x \in repo.refs : verified'[x] = "unsound" => ~Sound(x)
    BY <1>3, <1>4, <1>6 DEF IInv, VerifiedTrue, SInv, VerifiedSettled
  <2> QED BY <1>1, <2>1, ExcusedStays DEF VerifiedSettled
<1>8. CallsSettled'
  BY <1>1, <1>2, <1>4, <1>6, GoesOnSettled
<1> QED BY <1>1, <1>5, <1>7, <1>8 DEF SInv, CommitTrue

\* A call past verify that answers its caller is about the head.
LEMMA LaterSettled ==
    ASSUME IInv, SInv, NEW c \in Callers, call[c].stage \in Later
    PROVE  /\ Grounded(call[c]) /\ Sound(call[c].ref) /\ call[c].ref \in repo.refs
           /\ call[c].pass # "resolve" \/ call[c].view = "head"
           /\ Definite(call[c].answer) => Excused(call[c].ref, call[c].view)
<1>1. call[c].stage # "idle"
  BY DEF Later
<1>2. Grounded(call[c]) /\ call[c].ref \in repo.refs
  BY <1>1, CallOfReference
<1>3. SettledCall(call[c])
  BY DEF SInv, CallsSettled
<1> QED BY <1>2, <1>3 DEF Grounded, SettledCall, Later

LEMMA ListingsSettled ==
    ASSUME IInv, SInv, NEW c \in Callers,
           LookUpChanges(c) \/ Select(c) \/ LookUpFull(c) \/ ListAll(c)
    PROVE  SInv'
<1>1. UNCHANGED <<repo, here, commits, blobs, verified>>
      /\ call[c].stage \in {"changes", "select", "full", "listing"}
  BY DEF LookUpChanges, Select, LookUpFull, ListAll, memos
<1>2. CommitsStay /\ call[c].stage \in Later
  BY <1>1 DEF CommitsStay, Later
<1>3. /\ Grounded(call[c])
      /\ call[c].pass # "resolve" \/ call[c].view = "head"
      /\ Definite(call[c].answer) => Excused(call[c].ref, call[c].view)
  BY <1>2, LaterSettled
<1>4. CASE \E listing : Listed(c, listing)
  BY <1>2, <1>4, ListedSettled, <1>1, SettledUntouched
<1>5. CASE \E stage \in {"full", "listing"} : GoesTo(c, stage)
  BY <1>1, <1>2, <1>3, <1>5, GoesToSettled, SettledUntouched
<1>6. CASE call' = [call EXCEPT ![c].stage = "select", ![c].scope = plan]
  <2>1. call = [d \in Callers |-> call[d]] /\ DOMAIN call[c] = Fields
    BY <1>3 DEF IInv, CallsGrounded, Grounded
  <2>2. PICK x : /\ x = [[call[c] EXCEPT !.stage = "select"] EXCEPT !.scope = plan]
                 /\ call' = [call EXCEPT ![c] = x]
    BY <1>6, <2>1
  <2>3. /\ x.stage = "select" /\ x.pass = call[c].pass
        /\ x.ref = call[c].ref /\ x.view = call[c].view /\ x.answer = call[c].answer
    BY <2>1, <2>2 DEF Fields
  <2>4. CallsSettled'
    BY <1>2, <1>3, <2>2, <2>3, ReplacedSettled
  <2> QED BY <1>1, <2>4, SettledUntouched
<1>7. \/ \E listing : Listed(c, listing)
      \/ \E stage \in {"full", "listing"} : GoesTo(c, stage)
      \/ call' = [call EXCEPT ![c].stage = "select", ![c].scope = plan]
  <2>1. CASE LookUpChanges(c)
    BY <2>1 DEF LookUpChanges
  <2>2. CASE Select(c)
    BY <2>2 DEF Select
  <2>3. CASE LookUpFull(c)
    BY <2>3 DEF LookUpFull
  <2>4. CASE ListAll(c)
    BY <2>4 DEF ListAll
  <2> QED BY <2>1, <2>2, <2>3, <2>4
<1> QED BY <1>4, <1>5, <1>6, <1>7

\* The loop goes on with the answer it had.
LEMMA RemapSettled ==
    ASSUME IInv, SInv, CommitsStay, NEW c \in Callers, call[c].stage \in Later,
           NEW x, x.stage = "remap", x.pass = call[c].pass,
           x.ref = call[c].ref, x.view = call[c].view, x.answer = call[c].answer,
           call' = [call EXCEPT ![c] = x]
    PROVE  CallsSettled'
<1>1. /\ call[c].pass # "resolve" \/ call[c].view = "head"
      /\ Definite(call[c].answer) => Excused(call[c].ref, call[c].view)
  BY LaterSettled
<1> QED BY Zenon, <1>1, ReplacedSettled

\* A file that differs, whole: Git reports no hunks of one that does not.
LEMMA WholeFileDiffers ==
    ASSUME World, NEW ref \in repo.refs, Sound(ref), WholeFile(ref),
           ref.path \in DOMAIN repo.change,
           ~repo.change[ref.path].deleted, ~repo.change[ref.path].binary,
           repo.change[ref.path].hunks # <<>>
    PROVE  repo.head[repo.change[ref.path].to] # ref.digest
<1>1. repo.pin[ref.path] = ref.digest
  BY SoundReference DEF Content, WholeFile
<1>2. Patch(repo.change[ref.path].hunks, repo.pin[ref.path], repo.head[repo.change[ref.path].to])
  BY RepositoriesAssumption DEF World, Comparison
<1> QED BY Zenon, <1>1, <1>2 DEF Patch

LEMMA JudgeSettled == ASSUME IInv, SInv, NEW c \in Callers, Judge(c) PROVE SInv'
<1> DEFINE ref == call[c].ref
           listing == call[c].listing
           ch == listing.of[ref.path]
           Located(path) == [commit |-> "head", path |-> path,
                             start |-> ref.start, end |-> ref.end]
<1>1. /\ UNCHANGED <<repo, here, commits, blobs, verified>>
      /\ call[c].stage = "judge" /\ call[c].pass = "resolve"
  BY DEF Judge, memos
<1>2. IF listing.err THEN Gives(c, Stale(c, TRUE))
      ELSE IF ref.path \notin DOMAIN listing.of THEN Gives(c, Current(Located(ref.path)))
      ELSE IF ch.deleted \/ ch.binary THEN Gives(c, Stale(c, FALSE))
      ELSE IF ~WholeFile(ref)
      THEN call' = [call EXCEPT ![c].stage = "remap", ![c].k = 1, ![c].shift = 0]
      ELSE IF ch.hunks # <<>> \/ ch.mode THEN Gives(c, Stale(c, FALSE))
      ELSE Gives(c, Current(Located(ch.to)))
  BY Zenon DEF Judge
<1>3. CommitsStay /\ call[c].stage \in Later
  BY <1>1 DEF CommitsStay, Later
<1> SUFFICES CallsSettled'
  BY <1>1, SettledUntouched
<1>4. /\ Grounded(call[c]) /\ Sound(ref) /\ ref \in repo.refs /\ call[c].view = "head"
  BY <1>1, <1>3, LaterSettled
<1>5. Tells(listing, {ref.path}) /\ ref.path \in DOMAIN repo.pin
  <2>1. Tells(listing, {ref.path})
    BY <1>1, <1>4 DEF Grounded
  <2>2. ref.path \in DOMAIN repo.pin
    BY <1>4, SoundReference DEF IInv
  <2> QED BY <2>1, <2>2
<1>6. ASSUME NEW answer, Gives(c, answer), Definite(answer) => Excused(ref, "head")
      PROVE  CallsSettled'
  BY <1>3, <1>4, <1>6, GivesSettled
<1>7. /\ ~Definite(Stale(c, TRUE)) /\ \A at : ~Definite(Current(at))
  BY DEF Definite, Stale, Current
<1>8. CASE listing.err \/ ref.path \notin DOMAIN listing.of
  <2>1. Gives(c, Stale(c, TRUE)) \/ \E at : Gives(c, Current(at))
    BY <1>2, <1>8
  <2> QED BY <1>6, <1>7, <2>1
<1>9. CASE ~listing.err /\ ref.path \in DOMAIN listing.of
  <2>1. ref.path \in DOMAIN repo.change /\ ch = repo.change[ref.path]
    BY <1>5, <1>9 DEF Tells
  <2>2. CASE ch.deleted \/ ch.binary
    <3>1. Excused(ref, "head")
      BY <2>1, <2>2 DEF Excused
    <3> QED BY <1>2, <1>6, <1>9, <2>2, <3>1
  <2>3. CASE ~(ch.deleted \/ ch.binary) /\ ~WholeFile(ref)
    <3>1. call = [d \in Callers |-> call[d]] /\ DOMAIN call[c] = Fields
      BY <1>4 DEF IInv, CallsGrounded, Grounded
    <3>2. PICK x : /\ x = [[[call[c] EXCEPT !.stage = "remap"] EXCEPT !.k = 1] EXCEPT !.shift = 0]
                   /\ call' = [call EXCEPT ![c] = x]
      BY Zenon, <1>2, <1>9, <2>3, <3>1
    <3>3. /\ x.stage = "remap" /\ x.pass = call[c].pass
          /\ x.ref = call[c].ref /\ x.view = call[c].view /\ x.answer = call[c].answer
      BY <3>1, <3>2 DEF Fields
    <3> QED BY <1>3, <3>2, <3>3, RemapSettled
  <2>4. CASE ~(ch.deleted \/ ch.binary) /\ WholeFile(ref) /\ (ch.hunks # <<>> \/ ch.mode)
    <3>1. repo.change[ref.path].mode \/ repo.head[repo.change[ref.path].to] # ref.digest
      BY <1>4, <2>1, <2>4, WholeFileDiffers DEF IInv
    <3>2. Excused(ref, "head")
      BY <2>1, <2>4, <3>1 DEF Excused
    <3> QED BY <1>2, <1>6, <1>9, <2>4, <3>2
  <2>5. CASE ~(ch.deleted \/ ch.binary) /\ WholeFile(ref) /\ ~(ch.hunks # <<>> \/ ch.mode)
    <3>1. \E at : Gives(c, Current(at))
      BY <1>2, <1>9, <2>5
    <3> QED BY <1>6, <1>7, <3>1
  <2> QED BY <2>2, <2>3, <2>4, <2>5
<1> QED BY <1>8, <1>9

LEMMA RemapHunkSettled == ASSUME IInv, SInv, NEW c \in Callers, RemapHunk(c) PROVE SInv'
<1> DEFINE x == call[c]
           ref == x.ref
           ch == x.listing.of[ref.path]
           h == ch.hunks[x.k]
<1>1. /\ UNCHANGED <<repo, here, commits, blobs, verified>>
      /\ x.stage = "remap" /\ x.k <= Len(ch.hunks)
  BY Zenon DEF RemapHunk, memos
<1>2. IF Before(h, ref)
      THEN call' = [call EXCEPT ![c].k = @ + 1, ![c].shift = @ + h.newCount - h.oldCount]
      ELSE IF After(h, ref) THEN call' = [call EXCEPT ![c].k = @ + 1]
      ELSE Gives(c, Stale(c, FALSE))
  BY Zenon DEF RemapHunk
<1>3. CommitsStay /\ x.stage \in Later
  BY <1>1 DEF CommitsStay, Later
<1> SUFFICES CallsSettled'
  BY <1>1, SettledUntouched
<1>4. /\ Grounded(x) /\ Sound(ref) /\ ref \in repo.refs
      /\ x.pass # "resolve" \/ x.view = "head"
  BY <1>3, LaterSettled
<1>5. call = [d \in Callers |-> call[d]] /\ DOMAIN x = Fields /\ Remapping(x)
  BY <1>1, <1>4 DEF IInv, CallsGrounded, Grounded
<1>6. CASE Before(h, ref) \/ After(h, ref)
  <2>1. PICK k, shift : call' = [call EXCEPT ![c] = [[x EXCEPT !.k = k] EXCEPT !.shift = shift]]
    <3>1. CASE Before(h, ref)
      <4>1. PICK k, shift : k = x.k + 1 /\ shift = x.shift + h.newCount - h.oldCount
        BY Zenon
      <4>2. call' = [call EXCEPT ![c] = [[x EXCEPT !.k = k] EXCEPT !.shift = shift]]
        BY Zenon, <1>2, <1>5, <3>1, <4>1
      <4> QED BY Zenon, <4>2
    <3>2. CASE ~Before(h, ref)
      <4>1. call' = [call EXCEPT ![c] = [x EXCEPT !.k = x.k + 1]]
        BY Zenon, <1>2, <1>5, <1>6, <3>2
      <4>2. [x EXCEPT !.k = x.k + 1] = [[x EXCEPT !.k = x.k + 1] EXCEPT !.shift = x.shift]
        BY <1>5 DEF Fields
      <4> QED BY Zenon, <4>1, <4>2
    <3> QED BY Zenon, <3>1, <3>2
  <2>2. PICK y : y = [[x EXCEPT !.k = k] EXCEPT !.shift = shift]
    OBVIOUS
  <2>3. /\ y.stage = "remap" /\ y.pass = x.pass
        /\ y.ref = x.ref /\ y.view = x.view /\ y.answer = x.answer
    BY <1>1, <1>5, <2>2 DEF Fields
  <2>4. call' = [call EXCEPT ![c] = y]
    BY <2>1, <2>2
  <2> QED BY Zenon, <1>3, <2>3, <2>4, RemapSettled
<1>7. CASE ~Before(h, ref) /\ ~After(h, ref)
  <2>1. Gives(c, Stale(c, FALSE))
    BY Zenon, <1>2, <1>7
  <2>2. /\ ref.path \in DOMAIN repo.change /\ ch = repo.change[ref.path]
        /\ ~ch.deleted /\ ~ch.binary /\ ~WholeFile(ref)
    BY <1>5 DEF Remapping
  <2>3. PICK hunks \in Seq(Hunk) : hunks = ch.hunks
    BY <2>2, RepositoriesAssumption DEF IInv, World, Changes
  <2>4. x.k \in 1..Len(hunks)
    <3>1. x.k \in Nat \ {0} /\ x.k <= Len(hunks)
      BY <1>1, <1>5, <2>3 DEF Remapping
    <3>2. PICK k : k = x.k
      OBVIOUS
    <3>3. k \in 1..Len(hunks)
      BY <3>1, <3>2
    <3> QED BY <3>2, <3>3
  <2>5. PICK old, new : Patch(hunks, old, new)
    BY <2>2, <2>3, RepositoriesAssumption DEF IInv, World, Comparison
  <2>6. ref \in References /\ ref.start <= ref.end
    <3>1. ref \in References /\ Valid(ref)
      BY <1>4, RepositoriesAssumption DEF IInv, World
    <3> QED BY <2>2, <3>1 DEF Valid, References
  <2>7. ~Carried(hunks, ref)
    <3>1. ~Before(hunks[x.k], ref) /\ ~After(hunks[x.k], ref)
      BY <1>7, <2>3
    <3> HIDE DEF x, ref, ch, h
    <3> QED BY <2>4, <2>5, <2>6, <3>1, TouchedIsTorn
  <2>8. Excused(ref, "head")
    BY <2>2, <2>3, <2>7 DEF Excused
  <2> QED BY Zenon, <1>3, <1>4, <2>1, <2>8, GivesSettled
<1> QED BY <1>6, <1>7

LEMMA RemapEndsSettled == ASSUME IInv, SInv, NEW c \in Callers, RemapEnds(c) PROVE SInv'
<1>1. UNCHANGED <<repo, here, commits, blobs, verified>> /\ \E at : Gives(c, Current(at))
  BY DEF RemapEnds, memos
<1>2. \A at : ~Definite(Current(at))
  BY DEF Definite, Current
<1>3. CallsSettled'
  BY <1>1, <1>2, GivesSettled DEF CommitsStay
<1> QED BY <1>1, <1>3, SettledUntouched

LEMMA ProposeSettled == ASSUME IInv, SInv, NEW c \in Callers, Propose(c) PROVE SInv'
<1>1. /\ UNCHANGED <<repo, here, commits, blobs, verified>>
      /\ call[c].stage = "judge"
  BY DEF Propose, memos
<1>2. CommitsStay /\ call[c].stage \in Later
  BY <1>1 DEF CommitsStay, Later
<1>3. /\ Grounded(call[c])
      /\ Definite(call[c].answer) => Excused(call[c].ref, call[c].view)
  BY <1>2, LaterSettled
<1>4. call = [d \in Callers |-> call[d]] /\ DOMAIN call[c] = Fields
  BY <1>3 DEF IInv, CallsGrounded, Grounded
<1>5. PICK proposal :
        call' = [call EXCEPT ![c] = [[call[c] EXCEPT !.stage = "done"] EXCEPT !.proposal = proposal]]
  BY Zenon, <1>4 DEF Propose
<1>6. PICK x : x = [[call[c] EXCEPT !.stage = "done"] EXCEPT !.proposal = proposal]
  OBVIOUS
<1>7. /\ x.stage = "done"
      /\ x.ref = call[c].ref /\ x.view = call[c].view /\ x.answer = call[c].answer
  BY <1>4, <1>6 DEF Fields
<1>8. CallsSettled'
  <2>1. call' = [call EXCEPT ![c] = x]
    BY <1>5, <1>6
  <2> QED BY <1>2, <1>3, <1>7, <2>1, ReplacedSettled DEF Later
<1> QED BY <1>1, <1>8, SettledUntouched

LEMMA NextSettled == ASSUME IInv, SInv, [Next]_vars PROVE SInv'
<1>1. budget.callers \subseteq Callers
  BY BudgetsAssumption DEF IInv, World
<1>2. CASE Fetch
  BY <1>2, FetchSettled
<1>3. ASSUME NEW refs, Prepare(refs) PROVE SInv'
  BY <1>3, AsideSettled DEF Prepare
<1>4. ASSUME NEW c \in budget.callers, NEW op, NEW ref, NEW view, Ask(c, op, ref, view)
      PROVE  SInv'
  <2>1. PICK x : x = [NoCall EXCEPT !.stage = "exists", !.op = op, !.pass = "resolve",
                                    !.ref = ref, !.view = view]
    OBVIOUS
  <2>2. Blank(x)
    BY <2>1 DEF NoCall, Blank
  <2>3. UNCHANGED <<repo, here, commits, blobs, verified>>
    BY <1>4 DEF Ask, Asks, memos
  <2>4. CommitsStay
    BY <2>3 DEF CommitsStay
  <2>5. call' = [call EXCEPT ![c] = x]
    BY <1>4, <2>1 DEF Ask
  <2>6. c \in Callers
    BY <1>1
  <2>7. CallsSettled'
    BY <2>2, <2>4, <2>5, <2>6, NewSettled
  <2> QED BY <2>3, <2>7, SettledUntouched
<1>5. ASSUME NEW c \in budget.callers, Warm(c) PROVE SInv'
  <2>1. PICK x : x = [NoCall EXCEPT !.stage = "exists", !.op = "warm", !.pass = "warm",
                                    !.ref = sample, !.view = "head"]
    OBVIOUS
  <2>2. Blank(x)
    BY <2>1 DEF NoCall, Blank
  <2>3. UNCHANGED <<repo, here, commits, blobs, verified>>
    BY <1>5 DEF Warm, Asks, memos
  <2>4. CommitsStay
    BY <2>3 DEF CommitsStay
  <2>5. call' = [call EXCEPT ![c] = x]
    BY <1>5, <2>1 DEF Warm
  <2>6. c \in Callers
    BY <1>1
  <2>7. CallsSettled'
    BY <2>2, <2>4, <2>5, <2>6, NewSettled
  <2> QED BY <2>3, <2>7, SettledUntouched
<1>6. ASSUME NEW c \in budget.callers,
             \/ CommitRead(c) \/ CommitFails(c) \/ LooksForDigest(c)
             \/ VerifyKnown(c) \/ Verify(c)
             \/ LookUpChanges(c) \/ Select(c) \/ LookUpFull(c) \/ ListAll(c)
             \/ Judge(c) \/ RemapHunk(c) \/ RemapEnds(c) \/ Propose(c) \/ Return(c)
      PROVE  SInv'
  <2>1. c \in Callers
    BY <1>1
  <2>2. CASE CommitRead(c) \/ CommitFails(c) \/ LooksForDigest(c) \/ VerifyKnown(c) \/ Verify(c)
    BY <2>1, <2>2, CommitReadSettled, CommitFailsSettled, LooksForDigestSettled,
       VerifyKnownSettled, VerifySettled
  <2>3. CASE LookUpChanges(c) \/ Select(c) \/ LookUpFull(c) \/ ListAll(c)
    BY <2>1, <2>3, ListingsSettled
  <2>4. CASE Judge(c) \/ RemapHunk(c) \/ RemapEnds(c) \/ Propose(c)
    BY <2>1, <2>4, JudgeSettled, RemapHunkSettled, RemapEndsSettled, ProposeSettled
  <2>5. CASE Return(c)
    <3>1. UNCHANGED <<repo, here, commits, blobs, verified>>
      BY <2>5 DEF Return, memos
    <3>2. Blank(NoCall)
      BY DEF NoCall, Blank
    <3>3. CommitsStay
      BY <3>1 DEF CommitsStay
    <3>4. call' = [call EXCEPT ![c] = NoCall]
      BY <2>5 DEF Return
    <3>5. CallsSettled'
      BY <2>1, <3>2, <3>3, <3>4, NewSettled
    <3> QED BY <3>1, <3>5, SettledUntouched
  <2> QED BY <1>6, <2>2, <2>3, <2>4, <2>5
<1>7. CASE UNCHANGED vars
  BY <1>7, AsideSettled DEF vars, memos
<1> QED BY <1>2, <1>3, <1>4, <1>5, <1>6, <1>7 DEF Next

\* A stale answer that a caller may keep is true whatever is fetched or retried
\* later, at any commit, with any hunks, callers and failures: the reference never
\* was what it says, or its lines are not at the head, side by side.
THEOREM SettledStaysTrue ==
    ASSUME OldHeaders = {}, NewHeaders = {}
    PROVE  Spec => []SettledIsTrue
<1>1. Init => SInv
  BY InitSettled
<1>2. IInv /\ SInv /\ [Next]_vars => SInv'
  BY NextSettled
<1>3. SInv => SettledIsTrue
  BY DEF SInv, CallsSettled, SettledCall, SettledIsTrue, Excused, Definite
<1> QED BY <1>1, <1>2, <1>3, ResolverInvariant, PTL DEF Spec

-----------------------------------------------------------------------------
(***************************************************************************)
(* What Propose proposes.  On the new side, the hunks and the lines kept   *)
(* between them lie side by side; a range of the old side is a run of      *)
(* them, from the first hunk that is not before it to the last one that is *)
(* not after it.                                                           *)
(***************************************************************************)

\* Where a hunk lies on either side.
LEMMA HunkLies ==
    ASSUME NEW hunks, NEW old, NEW new, Patch(hunks, old, new), NEW k \in 1..Len(hunks)
    PROVE  /\ hunks[k] \in Hunk
           /\ First(hunks[k]) \in Nat /\ First(hunks[k]) >= 1
           /\ Last(hunks[k]) \in Int /\ Last(hunks[k]) >= First(hunks[k]) - 1
           /\ Last(hunks[k]) <= Len(old)
           /\ NewFirst(hunks[k]) \in Nat /\ NewLast(hunks[k]) \in Int
           /\ NewLast(hunks[k]) >= NewFirst(hunks[k]) - 1
           /\ Moved(hunks, k - 1) \in Int /\ Moved(hunks, k) \in Int
           /\ NewFirst(hunks[k]) = First(hunks[k]) + Moved(hunks, k - 1)
           /\ NewLast(hunks[k]) = Last(hunks[k]) + Moved(hunks, k)
<1>1. hunks \in Seq(Hunk) /\ Len(hunks) \in Nat /\ DOMAIN hunks = 1..Len(hunks)
  BY DEF Patch
<1>2. hunks[k] \in Hunk
  BY <1>1
<1>3. /\ First(hunks[k]) >= 1 /\ Last(hunks[k]) <= Len(old)
      /\ NewFirst(hunks[k]) = First(hunks[k]) + Moved(hunks, k - 1)
  BY <1>1 DEF Patch
<1>4. Moved(hunks, k - 1) \in Int /\ Moved(hunks, k) \in Int
  BY MovedBy
<1> DEFINE h == hunks[k]
<1>5. /\ First(h) \in Nat /\ Last(h) \in Int /\ Last(h) >= First(h) - 1
      /\ NewFirst(h) \in Nat /\ NewLast(h) \in Int
      /\ h.newCount \in Nat /\ NewLast(h) = NewFirst(h) + h.newCount - 1
  BY <1>2, HunkLines
<1>6. NewLast(h) >= NewFirst(h) - 1
  BY <1>5
<1>7. Moved(hunks, k) = NewLast(h) - Last(h)
  BY DEF Moved
<1>8. NewLast(h) = Last(h) + Moved(hunks, k)
  <2> HIDE DEF h
  <2> QED BY <1>5, <1>7
<1> QED BY <1>2, <1>3, <1>4, <1>5, <1>6, <1>8

\* Among the numbers up to n, those that hold with every lower one are the first ones.
LEMMA FirstOnes ==
    ASSUME NEW n \in Nat, NEW S \in SUBSET (1..n), \A k \in S : \A j \in 1..k : j \in S
    PROVE  \E m \in 0..n : S = 1..m
<1> DEFINE R == OpToRel(<, Nat)
           D == (1..(n + 1)) \ S
<1>1. D \subseteq Nat /\ D # {}
  <2>1. n + 1 \in D
    OBVIOUS
  <2> QED BY <2>1
<1>2. IsWellFoundedOn(R, Nat)
  BY Zenon, NatLessThanWellFounded
<1>3. PICK m \in D : \A k \in D : ~ (<<k, m>> \in R)
  <2> HIDE DEF R, D
  <2> QED BY <1>1, <1>2, WFMin
<1>4. m \in 1..(n + 1) /\ m \notin S
  OBVIOUS
<1>5. ASSUME NEW k \in 1..(m - 1) PROVE k \in S
  <2>1. k \in 1..(n + 1) /\ k \in Nat /\ m \in Nat /\ k < m
    BY <1>4
  <2>2. <<k, m>> \in R
    BY <2>1 DEF OpToRel
  <2> QED BY Zenon, <1>3, <2>1, <2>2
<1>6. ASSUME NEW k \in S PROVE k \in 1..(m - 1)
  <2>1. k \in 1..n /\ m \notin 1..k
    BY <1>4
  <2> QED BY <1>4, <2>1
<1>7. m - 1 \in 0..n
  BY <1>4
<1>8. S = 1..(m - 1)
  <2> HIDE DEF D
  <2> QED BY <1>5, <1>6
<1> QED BY <1>7, <1>8

\* Hunks are apart on the new side too.
LEMMA NewHunksApart ==
    ASSUME NEW hunks, NEW old, NEW new, Patch(hunks, old, new),
           NEW j \in 1..Len(hunks), NEW k \in (j + 1)..Len(hunks)
    PROVE  NewFirst(hunks[k]) > NewLast(hunks[j]) + 1
<1> DEFINE R == OpToRel(<, Nat)
           D == {n \in (j + 1)..Len(hunks) : ~ (NewFirst(hunks[n]) > NewLast(hunks[j]) + 1)}
<1>1. Len(hunks) \in Nat /\ DOMAIN hunks = 1..Len(hunks)
  BY DEF Patch
<1> SUFFICES ASSUME D # {} PROVE FALSE
  OBVIOUS
<1>2. D \subseteq Nat
  BY <1>1
<1>3. IsWellFoundedOn(R, Nat)
  BY Zenon, NatLessThanWellFounded
<1>4. PICK m \in D : \A n \in D : ~ (<<n, m>> \in R)
  <2> HIDE DEF R, D
  <2> QED BY <1>2, <1>3, WFMin
<1>5. m \in (j + 1)..Len(hunks) /\ ~ (NewFirst(hunks[m]) > NewLast(hunks[j]) + 1)
  OBVIOUS
<1>6. m - 1 \in 1..Len(hunks) /\ m \in ((m - 1) + 1)..Len(hunks) /\ m \in 1..Len(hunks)
  BY <1>1, <1>5
<1>7. NewFirst(hunks[m]) > NewLast(hunks[m - 1]) + 1
  <2>1. First(hunks[m]) > Last(hunks[m - 1]) + 1
    BY <1>6, HunksApart
  <2>2. /\ NewFirst(hunks[m]) = First(hunks[m]) + Moved(hunks, m - 1)
        /\ First(hunks[m]) \in Nat /\ Moved(hunks, m - 1) \in Int
    BY <1>6, HunkLies
  <2>3. NewLast(hunks[m - 1]) = Last(hunks[m - 1]) + Moved(hunks, m - 1)
        /\ Last(hunks[m - 1]) \in Int
    BY <1>6, HunkLies
  <2> QED BY <2>1, <2>2, <2>3
<1>8. m # j + 1
  BY <1>5, <1>7, <1>1
<1>9. m - 1 \in (j + 1)..Len(hunks)
  BY <1>1, <1>5, <1>8
<1>10. m - 1 \in D
  <2> SUFFICES ASSUME m - 1 \notin D PROVE FALSE
    OBVIOUS
  <2>1. NewFirst(hunks[m - 1]) > NewLast(hunks[j]) + 1
    BY <1>9
  <2>2. /\ NewLast(hunks[m - 1]) >= NewFirst(hunks[m - 1]) - 1
        /\ NewLast(hunks[m - 1]) \in Int /\ NewFirst(hunks[m - 1]) \in Nat
    BY <1>6, HunkLies
  <2>3. NewLast(hunks[j]) \in Int /\ NewFirst(hunks[m]) \in Nat
    BY <1>6, HunkLies
  <2> QED BY <1>5, <1>7, <2>1, <2>2, <2>3
<1>11. <<m - 1, m>> \in R
  BY <1>2, <1>9, <1>5 DEF OpToRel
<1> QED BY Zenon, <1>4, <1>10, <1>11

\* What the loop adds up is how far the last hunk before the line has moved it.
LEMMA ShiftIsMoved ==
    ASSUME NEW hunks, NEW old, NEW new, Patch(hunks, old, new), NEW line \in Int,
           NEW m \in 0..Len(hunks), \A k \in 1..Len(hunks) : Last(hunks[k]) < line <=> k <= m
    PROVE  Shift(hunks, line) = Moved(hunks, m)
<1> DEFINE n == Len(hunks)
           Sum(f, k) == IF k = 0 THEN 0
                        ELSE IF Last(hunks[k]) < line
                        THEN f[k - 1] + hunks[k].newCount - hunks[k].oldCount
                        ELSE f[k - 1]
           Sums(f) == [k \in 0..n |-> Sum(f, k)]
           closed == [k \in 0..n |-> IF k <= m THEN Moved(hunks, k) ELSE Moved(hunks, m)]
           shift == CHOOSE f : f = Sums(f)
           R == OpToRel(<, Nat)
           D == {k \in 0..n : shift[k] # closed[k]}
<1>1. n \in Nat /\ DOMAIN hunks = 1..n
  BY DEF Patch
<1>2. Moved(hunks, 0) = 0
  BY DEF Moved
<1>3. ASSUME NEW k \in 0..n PROVE closed[k] = Sum(closed, k)
  <2>1. CASE k = 0
    BY <1>2, <2>1
  <2>2. CASE k # 0 /\ k <= m
    <3>1. k \in 1..n /\ k - 1 \in 0..n /\ k - 1 <= m
      BY <1>1, <2>2
    <3>2. Moved(hunks, k) = Moved(hunks, k - 1) + hunks[k].newCount - hunks[k].oldCount
      BY <3>1, MovedBy
    <3>3. closed[k - 1] = Moved(hunks, k - 1) /\ closed[k] = Moved(hunks, k)
      BY <2>2, <3>1
    <3>4. Last(hunks[k]) < line
      BY <2>2, <3>1
    <3> HIDE DEF closed
    <3> QED BY <2>2, <3>2, <3>3, <3>4
  <2>3. CASE k # 0 /\ k > m
    <3>1. k \in 1..n /\ k - 1 \in 0..n /\ k - 1 >= m /\ ~ (k <= m)
      BY <1>1, <2>3
    <3>2. closed[k] = Moved(hunks, m)
      BY <3>1
    <3>3. closed[k - 1] = Moved(hunks, m)
      <4>1. CASE k - 1 = m
        BY <3>1, <4>1
      <4>2. CASE k - 1 # m
        <5>1. ~ (k - 1 <= m)
          BY <3>1, <4>2
        <5> QED BY <3>1, <5>1
      <4> QED BY <4>1, <4>2
    <3>4. ~ (Last(hunks[k]) < line)
      BY <3>1
    <3> HIDE DEF closed
    <3> QED BY <2>3, <3>2, <3>3, <3>4
  <2> QED BY <1>1, <2>1, <2>2, <2>3
<1>4. closed = Sums(closed)
  <2>1. Sums(closed) = [k \in 0..n |-> Sum(closed, k)]
    OBVIOUS
  <2>2. closed = [k \in 0..n |-> closed[k]]
    OBVIOUS
  <2> HIDE DEF closed, Sum, Sums
  <2> QED BY <1>3, <2>1, <2>2
<1>5. shift = Sums(shift)
  <2> HIDE DEF closed, Sums
  <2> QED BY <1>4
<1>6. ASSUME NEW k \in 0..n PROVE shift[k] = Sum(shift, k)
  <2>1. Sums(shift)[k] = Sum(shift, k)
    <3> HIDE DEF Sum, shift
    <3> QED OBVIOUS
  <2> HIDE DEF Sum, Sums, shift
  <2> QED BY <1>5, <2>1
<1>7. D = {}
  <2> SUFFICES ASSUME D # {} PROVE FALSE
    OBVIOUS
  <2>1. D \subseteq Nat
    BY <1>1
  <2>2. IsWellFoundedOn(R, Nat)
    BY Zenon, NatLessThanWellFounded
  <2>3. PICK k \in D : \A j \in D : ~ (<<j, k>> \in R)
    <3> HIDE DEF R, D
    <3> QED BY <2>1, <2>2, WFMin
  <2>4. k \in 0..n /\ shift[k] # closed[k]
    <3> HIDE DEF shift, closed
    <3> QED OBVIOUS
  <2>5. k # 0
    <3> HIDE DEF shift, closed
    <3> QED BY <1>1, <1>3, <1>6, <2>4
  <2>6. k - 1 \in 0..n /\ k - 1 \in Nat /\ k \in Nat /\ k - 1 < k
    BY <1>1, <2>4, <2>5
  <2>7. shift[k - 1] = closed[k - 1]
    <3>1. <<k - 1, k>> \in R
      BY <2>6 DEF OpToRel
    <3>2. k - 1 \notin D
      BY Zenon, <2>3, <3>1
    <3> HIDE DEF shift, closed
    <3> QED BY <2>6, <3>2
  <2>8. Sum(shift, k) = Sum(closed, k)
    <3> HIDE DEF shift, closed
    <3> QED BY <2>5, <2>7
  <2> HIDE DEF shift, closed, Sum
  <2> QED BY <1>3, <1>6, <2>4, <2>8
<1>8. Shift(hunks, line) = shift[n]
  BY DEF Shift
<1>9. closed[n] = Moved(hunks, m)
  <2>1. CASE n <= m
    BY <1>1, <2>1
  <2>2. CASE ~ (n <= m)
    BY <1>1, <2>2
  <2> QED BY <2>1, <2>2
<1>10. shift[n] = closed[n]
  <2>1. n \in 0..n
    BY <1>1
  <2> HIDE DEF shift, closed, n
  <2> QED BY <1>7, <2>1
<1> HIDE DEF shift, closed
<1> QED BY <1>8, <1>9, <1>10

\* The first p hunks are before a range, those past the q-th after it.
Splits(hunks, ref, p, q) ==
    /\ p \in 0..Len(hunks) /\ q \in p..Len(hunks)
    /\ \A k \in 1..Len(hunks) : Last(hunks[k]) < ref.start <=> k <= p
    /\ \A k \in 1..Len(hunks) : First(hunks[k]) <= ref.end <=> k <= q

LEMMA RangeSplits ==
    ASSUME NEW hunks, NEW old, NEW new, Patch(hunks, old, new),
           NEW ref \in References, ref.start <= ref.end
    PROVE  \E p, q : Splits(hunks, ref, p, q)
<1> DEFINE n == Len(hunks)
           P == {k \in 1..n : Last(hunks[k]) < ref.start}
           Q == {k \in 1..n : First(hunks[k]) <= ref.end}
<1>1. n \in Nat /\ ref.start \in Nat /\ ref.end \in Nat
  BY DEF Patch, References
<1>2. ASSUME NEW k \in 1..n, NEW j \in 1..k
      PROVE  /\ j \in 1..n
             /\ Last(hunks[j]) <= Last(hunks[k]) /\ First(hunks[j]) <= First(hunks[k])
  <2>1. j \in 1..n
    BY <1>1
  <2>2. /\ First(hunks[j]) \in Nat /\ Last(hunks[j]) \in Int /\ Last(hunks[j]) >= First(hunks[j]) - 1
        /\ First(hunks[k]) \in Nat /\ Last(hunks[k]) \in Int /\ Last(hunks[k]) >= First(hunks[k]) - 1
    BY <2>1, HunkLies
  <2>3. CASE j = k
    BY <2>1, <2>2, <2>3
  <2>4. CASE j # k
    <3>1. k \in (j + 1)..n
      BY <1>1, <2>4
    <3>2. First(hunks[k]) > Last(hunks[j]) + 1
      BY <2>1, <3>1, HunksApart
    <3> QED BY <2>1, <2>2, <3>2
  <2> QED BY <2>3, <2>4
<1>3. ASSUME NEW k \in 1..n
      PROVE  /\ First(hunks[k]) \in Nat /\ Last(hunks[k]) \in Int
             /\ Last(hunks[k]) >= First(hunks[k]) - 1
  BY HunkLies
<1>4. PICK p \in 0..n : P = 1..p
  <2>1. \A k \in P : \A j \in 1..k : j \in P
    <3> SUFFICES ASSUME NEW k \in P, NEW j \in 1..k PROVE j \in P
      OBVIOUS
    <3>1. j \in 1..n /\ Last(hunks[j]) <= Last(hunks[k])
      BY <1>2
    <3>2. Last(hunks[j]) \in Int /\ Last(hunks[k]) \in Int
      BY <1>3, <3>1
    <3> QED BY <1>1, <3>1, <3>2
  <2>2. P \in SUBSET (1..n)
    OBVIOUS
  <2> HIDE DEF P, n
  <2> QED BY <1>1, <2>1, <2>2, FirstOnes
<1>5. PICK q \in 0..n : Q = 1..q
  <2>1. \A k \in Q : \A j \in 1..k : j \in Q
    <3> SUFFICES ASSUME NEW k \in Q, NEW j \in 1..k PROVE j \in Q
      OBVIOUS
    <3>1. j \in 1..n /\ First(hunks[j]) <= First(hunks[k])
      BY <1>2
    <3>2. First(hunks[j]) \in Nat /\ First(hunks[k]) \in Nat
      BY <1>3, <3>1
    <3> QED BY <1>1, <3>1, <3>2
  <2>2. Q \in SUBSET (1..n)
    OBVIOUS
  <2> HIDE DEF Q, n
  <2> QED BY <1>1, <2>1, <2>2, FirstOnes
<1>6. \A k \in 1..n : Last(hunks[k]) < ref.start <=> k <= p
  <2> SUFFICES ASSUME NEW k \in 1..n PROVE Last(hunks[k]) < ref.start <=> k <= p
    OBVIOUS
  <2>1. k \in P <=> k \in 1..p
    BY <1>4
  <2> QED BY <1>1, <2>1
<1>7. \A k \in 1..n : First(hunks[k]) <= ref.end <=> k <= q
  <2> SUFFICES ASSUME NEW k \in 1..n PROVE First(hunks[k]) <= ref.end <=> k <= q
    OBVIOUS
  <2>1. k \in Q <=> k \in 1..q
    BY <1>5
  <2> QED BY <1>1, <2>1
<1>8. p <= q
  <2> SUFFICES ASSUME p > q PROVE FALSE
    BY <1>1
  <2>1. p \in 1..n /\ Last(hunks[p]) < ref.start /\ ~ (First(hunks[p]) <= ref.end)
    BY <1>1, <1>6, <1>7
  <2> QED BY <1>1, <1>3, <2>1
<1>9. q \in p..n
  BY <1>1, <1>8
<1> QED BY <1>6, <1>7, <1>9 DEF Splits

\* What a line of the range says of the hunks: which are touched, which lines survive.
LEMMA SplitTouched ==
    ASSUME NEW hunks, NEW old, NEW new, Patch(hunks, old, new),
           NEW ref \in References, NEW p, NEW q, Splits(hunks, ref, p, q)
    PROVE  Touched(hunks, ref) = (p + 1)..q
<1>1. hunks \in Seq(Hunk) /\ Len(hunks) \in Nat /\ DOMAIN hunks = 1..Len(hunks)
  BY DEF Patch
<1>2. p \in 0..Len(hunks) /\ q \in p..Len(hunks) /\ ref.start \in Nat /\ ref.end \in Nat
  BY DEF Splits, References
<1>3. ASSUME NEW k \in 1..Len(hunks)
      PROVE  ~Before(hunks[k], ref) /\ ~After(hunks[k], ref) <=> k \in (p + 1)..q
  <2>1. Last(hunks[k]) < ref.start <=> k <= p
    BY DEF Splits
  <2>2. First(hunks[k]) <= ref.end <=> k <= q
    BY DEF Splits
  <2>3. First(hunks[k]) \in Nat
    BY HunkLies
  <2>4. First(hunks[k]) > ref.end <=> ~ (k <= q)
    BY <1>2, <2>2, <2>3
  <2> QED BY <1>1, <1>2, <2>1, <2>4 DEF Before, After
<1>4. (p + 1)..q \subseteq 1..Len(hunks)
  BY <1>1, <1>2
<1> QED BY <1>1, <1>3, <1>4 DEF Touched

LEMMA StartProposed ==
    ASSUME NEW hunks, NEW old, NEW new, Patch(hunks, old, new),
           NEW ref \in References, NEW p, NEW q, Splits(hunks, ref, p, q)
    PROVE  ProposedStart(hunks, ref) =
             IF p < Len(hunks) /\ First(hunks[p + 1]) <= ref.start
             THEN NewFirst(hunks[p + 1]) ELSE ref.start + Moved(hunks, p)
<1> DEFINE n == Len(hunks)
           s == ref.start
           at == {k \in DOMAIN hunks : s \in Taken(hunks[k])}
<1>1. n \in Nat /\ DOMAIN hunks = 1..n /\ s \in Nat /\ p \in 0..n
  BY DEF Patch, References, Splits
<1>2. \A k \in 1..n : Last(hunks[k]) < s <=> k <= p
  BY DEF Splits
<1>3. ASSUME NEW k \in at
      PROVE  /\ k \in 1..n /\ p < n /\ p + 1 \in 1..n
             /\ First(hunks[p + 1]) <= s /\ k = p + 1
  <2>1. k \in 1..n /\ First(hunks[k]) <= s /\ s <= Last(hunks[k])
    BY <1>1 DEF Taken
  <2>2. First(hunks[k]) \in Nat /\ Last(hunks[k]) \in Int
    BY <2>1, HunkLies
  <2>3. k > p /\ p + 1 \in 1..n
    BY <1>1, <1>2, <2>1, <2>2
  <2>4. ~ (Last(hunks[p + 1]) < s)
    BY <1>1, <1>2, <2>3
  <2>5. Last(hunks[p + 1]) \in Int
    BY <2>3, HunkLies
  <2>6. k = p + 1
    <3> SUFFICES ASSUME k # p + 1 PROVE FALSE
      OBVIOUS
    <3>1. k \in ((p + 1) + 1)..n
      BY <1>1, <2>1, <2>3
    <3>2. First(hunks[k]) > Last(hunks[p + 1]) + 1
      BY <2>3, <3>1, HunksApart
    <3> QED BY <1>1, <2>1, <2>2, <2>4, <2>5, <3>2
  <2> QED BY <1>1, <2>1, <2>3, <2>6
<1>4. CASE p < n /\ First(hunks[p + 1]) <= s
  <2>1. p + 1 \in 1..n
    BY <1>1, <1>4
  <2>2. ~ (Last(hunks[p + 1]) < s)
    BY <1>1, <1>2, <2>1
  <2>3. First(hunks[p + 1]) \in Nat /\ Last(hunks[p + 1]) \in Int
    BY <2>1, HunkLies
  <2>4. p + 1 \in at
    BY <1>1, <1>4, <2>1, <2>2, <2>3 DEF Taken
  <2>5. (CHOOSE k \in at : TRUE) = p + 1
    <3> HIDE DEF at, n, s
    <3> QED BY <1>3, <2>4
  <2>6. ProposedStart(hunks, ref) = NewFirst(hunks[CHOOSE k \in at : TRUE])
    BY <2>4 DEF ProposedStart
  <2> HIDE DEF at
  <2> QED BY <1>4, <2>5, <2>6
<1>5. CASE ~ (p < n /\ First(hunks[p + 1]) <= s)
  <2>1. at = {}
    <3> HIDE DEF at, n, s
    <3> QED BY <1>3, <1>5
  <2>2. ProposedStart(hunks, ref) = s + Shift(hunks, s)
    BY <2>1 DEF ProposedStart
  <2>3. Shift(hunks, s) = Moved(hunks, p)
    <3>1. s \in Int
      BY <1>1
    <3> QED BY <1>1, <1>2, <3>1, ShiftIsMoved
  <2> HIDE DEF at
  <2> QED BY <1>5, <2>2, <2>3
<1> QED BY <1>4, <1>5

LEMMA EndProposed ==
    ASSUME NEW hunks, NEW old, NEW new, Patch(hunks, old, new),
           NEW ref \in References, NEW p, NEW q, Splits(hunks, ref, p, q)
    PROVE  ProposedEnd(hunks, ref) =
             IF q > 0 /\ Last(hunks[q]) >= ref.end
             THEN NewLast(hunks[q]) ELSE ref.end + Moved(hunks, q)
<1> DEFINE n == Len(hunks)
           e == ref.end
           at == {k \in DOMAIN hunks : e \in Taken(hunks[k])}
<1>1. n \in Nat /\ DOMAIN hunks = 1..n /\ e \in Nat /\ q \in 0..n
  BY DEF Patch, References, Splits
<1>2. \A k \in 1..n : First(hunks[k]) <= e <=> k <= q
  BY DEF Splits
<1>3. ASSUME NEW k \in 1..n
      PROVE  /\ First(hunks[k]) \in Nat /\ Last(hunks[k]) \in Int
             /\ Last(hunks[k]) >= First(hunks[k]) - 1
  BY HunkLies
<1>4. ASSUME NEW k \in 1..n, k < q PROVE Last(hunks[k]) < e /\ q \in 1..n
  <2>1. q \in (k + 1)..n /\ q \in 1..n
    BY <1>1, <1>4
  <2>2. First(hunks[q]) > Last(hunks[k]) + 1
    BY <2>1, HunksApart
  <2>3. First(hunks[q]) <= e
    BY <1>1, <1>2, <2>1
  <2> QED BY <1>1, <1>3, <2>1, <2>2, <2>3
<1>5. ASSUME NEW k \in at PROVE k = q /\ q > 0 /\ Last(hunks[q]) >= e
  <2>1. k \in 1..n /\ First(hunks[k]) <= e /\ e <= Last(hunks[k])
    BY <1>1 DEF Taken
  <2>2. k <= q
    BY <1>2, <2>1
  <2>3. ~ (k < q)
    BY <1>1, <1>3, <1>4, <2>1
  <2>4. k = q /\ q > 0
    BY <1>1, <2>1, <2>2, <2>3
  <2> QED BY <1>1, <1>3, <2>1, <2>4
<1>6. CASE q > 0 /\ Last(hunks[q]) >= e
  <2>1. q \in 1..n
    BY <1>1, <1>6
  <2>2. First(hunks[q]) <= e
    BY <1>1, <1>2, <2>1
  <2>3. q \in at
    BY <1>1, <1>3, <1>6, <2>1, <2>2 DEF Taken
  <2>4. (CHOOSE k \in at : TRUE) = q
    <3> HIDE DEF at, n, e
    <3> QED BY <1>5, <2>3
  <2>5. ProposedEnd(hunks, ref) = NewLast(hunks[CHOOSE k \in at : TRUE])
    BY <2>3 DEF ProposedEnd
  <2> HIDE DEF at
  <2> QED BY <1>6, <2>4, <2>5
<1>7. CASE ~ (q > 0 /\ Last(hunks[q]) >= e)
  <2>1. at = {}
    <3> HIDE DEF at, n, e
    <3> QED BY <1>5, <1>7
  <2>2. ProposedEnd(hunks, ref) = e + Shift(hunks, e)
    BY <2>1 DEF ProposedEnd
  <2>3. ASSUME NEW k \in 1..n PROVE Last(hunks[k]) < e <=> k <= q
    <3>1. CASE k < q
      BY <1>1, <1>4, <3>1
    <3>2. CASE k = q
      <4>1. q > 0 /\ q \in 1..n
        BY <1>1, <3>2
      <4> QED BY <1>1, <1>3, <1>7, <3>2, <4>1
    <3>3. CASE k > q
      <4>1. ~ (First(hunks[k]) <= e)
        BY <1>1, <1>2, <3>3
      <4> QED BY <1>1, <1>3, <3>3, <4>1
    <3> QED BY <1>1, <3>1, <3>2, <3>3
  <2>4. Shift(hunks, e) = Moved(hunks, q)
    <3>1. e \in Int
      BY <1>1
    <3> QED BY <1>1, <2>3, <3>1, ShiftIsMoved
  <2> HIDE DEF at
  <2> QED BY <1>7, <2>2, <2>4
<1> QED BY <1>6, <1>7

\* A line between two hunks is in none, and is where the first of the two moved it.
LEMMA GapImage ==
    ASSUME NEW hunks, NEW old, NEW new, Patch(hunks, old, new),
           NEW m \in 0..Len(hunks), NEW i \in Int, Between(hunks, m, i)
    PROVE  /\ Image(hunks, i) = i + Moved(hunks, m)
           /\ \A k \in 1..Len(hunks) : i \notin Taken(hunks[k])
<1>1. Len(hunks) \in Nat
  BY DEF Patch
<1>2. ASSUME NEW k \in 1..Len(hunks)
      PROVE  /\ First(hunks[k]) \in Nat /\ Last(hunks[k]) \in Int
             /\ Last(hunks[k]) >= First(hunks[k]) - 1
  BY HunkLies
<1>3. m > 0 => Last(hunks[m]) < i
  BY DEF Between
<1>4. m < Len(hunks) => Last(hunks[m + 1]) >= i /\ i < First(hunks[m + 1])
  <2> SUFFICES ASSUME m < Len(hunks) PROVE Last(hunks[m + 1]) >= i /\ i < First(hunks[m + 1])
    OBVIOUS
  <2>1. i < First(hunks[m + 1]) /\ m + 1 \in 1..Len(hunks)
    BY <1>1 DEF Between
  <2> QED BY <1>2, <2>1
<1>5. Image(hunks, i) = i + Moved(hunks, m)
  BY <1>3, <1>4, HunksBefore
<1>6. ASSUME NEW k \in 1..Len(hunks), i \in Taken(hunks[k]) PROVE FALSE
  <2>1. First(hunks[k]) <= i /\ i <= Last(hunks[k])
    BY <1>6 DEF Taken
  <2>2. CASE k < m
    <3>1. m \in (k + 1)..Len(hunks) /\ m \in 1..Len(hunks)
      BY <1>1, <2>2
    <3>2. First(hunks[m]) > Last(hunks[k]) + 1 /\ Last(hunks[m]) < i
      BY <1>3, <3>1, HunksApart
    <3> QED BY <1>2, <2>1, <3>1, <3>2
  <2>3. CASE k = m
    <3>1. Last(hunks[k]) < i
      BY <1>1, <1>3, <2>3
    <3> QED BY <1>2, <2>1, <3>1
  <2>4. CASE k = m + 1
    <3>1. i < First(hunks[k])
      BY <1>1, <1>4, <2>4
    <3> QED BY <1>2, <2>1, <3>1
  <2>5. CASE k > m + 1
    <3>1. k \in ((m + 1) + 1)..Len(hunks) /\ m + 1 \in 1..Len(hunks) /\ m < Len(hunks)
      BY <1>1, <2>5
    <3>2. First(hunks[k]) > Last(hunks[m + 1]) + 1
      BY <3>1, HunksApart
    <3> QED BY <1>2, <1>4, <2>1, <3>1, <3>2
  <2> QED BY <1>1, <2>2, <2>3, <2>4, <2>5
<1> QED BY <1>5, <1>6

\* A line in no hunk is between two.
LEMMA LineInGap ==
    ASSUME NEW hunks, NEW old, NEW new, Patch(hunks, old, new), NEW i \in Int,
           \A k \in 1..Len(hunks) : i \notin Taken(hunks[k])
    PROVE  \E m \in 0..Len(hunks) : Between(hunks, m, i)
<1> DEFINE n == Len(hunks)
           S == {k \in 1..n : First(hunks[k]) <= i}
<1>1. n \in Nat
  BY DEF Patch
<1>2. ASSUME NEW k \in 1..n
      PROVE  /\ First(hunks[k]) \in Nat /\ Last(hunks[k]) \in Int
             /\ Last(hunks[k]) >= First(hunks[k]) - 1
  BY HunkLies
<1>3. \A k \in S : \A j \in 1..k : j \in S
  <2> SUFFICES ASSUME NEW k \in S, NEW j \in 1..k PROVE j \in S
    OBVIOUS
  <2>1. j \in 1..n /\ k \in 1..n /\ First(hunks[k]) <= i
    BY <1>1
  <2>2. CASE j = k
    BY <2>2
  <2>3. CASE j # k
    <3>1. k \in (j + 1)..n
      BY <1>1, <2>1, <2>3
    <3>2. First(hunks[k]) > Last(hunks[j]) + 1
      BY <2>1, <3>1, HunksApart
    <3>3. First(hunks[j]) <= i
      BY <1>2, <2>1, <3>2
    <3> QED BY <2>1, <3>3
  <2> QED BY <2>2, <2>3
<1>4. PICK m \in 0..n : S = 1..m
  <2>1. S \in SUBSET (1..n)
    OBVIOUS
  <2> HIDE DEF S, n
  <2> QED BY <1>1, <1>3, <2>1, FirstOnes
<1>5. ASSUME m > 0 PROVE Last(hunks[m]) < i
  <2>1. m \in 1..n /\ First(hunks[m]) <= i
    <3>1. m \in 1..m
      BY <1>1, <1>5
    <3> QED BY <1>4, <3>1
  <2>2. i \notin Taken(hunks[m])
    BY <2>1
  <2> QED BY <1>2, <2>1, <2>2 DEF Taken
<1>6. ASSUME m < n PROVE i < First(hunks[m + 1])
  <2>1. m + 1 \in 1..n /\ m + 1 \notin 1..m
    BY <1>1, <1>6
  <2>2. ~ (First(hunks[m + 1]) <= i)
    BY <1>4, <2>1
  <2> QED BY <1>2, <2>1, <2>2
<1> QED BY <1>5, <1>6 DEF Between

LEMMA NewHunksGrow ==
    ASSUME NEW hunks, NEW old, NEW new, Patch(hunks, old, new),
           NEW j \in 1..Len(hunks), NEW k \in j..Len(hunks)
    PROVE  /\ NewFirst(hunks[j]) <= NewFirst(hunks[k])
           /\ NewLast(hunks[j]) <= NewLast(hunks[k])
<1>1. Len(hunks) \in Nat /\ k \in 1..Len(hunks)
  BY DEF Patch
<1>2. /\ NewFirst(hunks[j]) \in Nat /\ NewLast(hunks[j]) \in Int
      /\ NewLast(hunks[j]) >= NewFirst(hunks[j]) - 1
      /\ NewFirst(hunks[k]) \in Nat /\ NewLast(hunks[k]) \in Int
      /\ NewLast(hunks[k]) >= NewFirst(hunks[k]) - 1
  BY <1>1, HunkLies
<1>3. CASE j = k
  BY <1>2, <1>3
<1>4. CASE j # k
  <2>1. k \in (j + 1)..Len(hunks)
    BY <1>1, <1>4
  <2>2. NewFirst(hunks[k]) > NewLast(hunks[j]) + 1
    BY <2>1, NewHunksApart
  <2> QED BY <1>2, <2>2
<1> QED BY <1>3, <1>4

\* A range's proposal: from where its first line is now, or the lines that replaced
\* it begin, to where its last line is, or the lines that replaced it end.
Spans(hunks, ref, p, q, start, end) ==
    /\ Splits(hunks, ref, p, q)
    /\ start \in Int /\ end \in Int
    /\ start <= ref.start + Moved(hunks, p)
    /\ p < Len(hunks) => start <= NewFirst(hunks[p + 1])
    /\ \/ start = ref.start + Moved(hunks, p)
       \/ p < Len(hunks) /\ start = NewFirst(hunks[p + 1]) /\ First(hunks[p + 1]) <= ref.start
    /\ end >= ref.end + Moved(hunks, q)
    /\ q > 0 => end >= NewLast(hunks[q])
    /\ \/ end = ref.end + Moved(hunks, q)
       \/ q > 0 /\ end = NewLast(hunks[q]) /\ Last(hunks[q]) >= ref.end

LEMMA ProposalSpans ==
    ASSUME NEW hunks, NEW old, NEW new, Patch(hunks, old, new),
           NEW ref \in References, NEW p, NEW q, Splits(hunks, ref, p, q)
    PROVE  Spans(hunks, ref, p, q, ProposedStart(hunks, ref), ProposedEnd(hunks, ref))
<1> DEFINE n == Len(hunks)
           s == ref.start
           e == ref.end
<1>1. hunks \in Seq(Hunk) /\ n \in Nat /\ s \in Nat /\ e \in Nat /\ p \in 0..n /\ q \in 0..n
  BY DEF Patch, References, Splits
<1>2. Moved(hunks, p) \in Int /\ Moved(hunks, q) \in Int
  BY <1>1, MovedIsInt
<1>3. PICK start : start = ProposedStart(hunks, ref)
  OBVIOUS
<1>4. PICK end : end = ProposedEnd(hunks, ref)
  OBVIOUS
<1>5. /\ start \in Int
      /\ start <= s + Moved(hunks, p)
      /\ p < n => start <= NewFirst(hunks[p + 1])
      /\ \/ start = s + Moved(hunks, p)
         \/ p < n /\ start = NewFirst(hunks[p + 1]) /\ First(hunks[p + 1]) <= s
  <2>1. start = IF p < n /\ First(hunks[p + 1]) <= s
                THEN NewFirst(hunks[p + 1]) ELSE s + Moved(hunks, p)
    BY <1>3, StartProposed
  <2>2. ASSUME p < n
        PROVE  /\ NewFirst(hunks[p + 1]) = First(hunks[p + 1]) + Moved(hunks, p)
               /\ First(hunks[p + 1]) \in Nat
    <3>1. p + 1 \in 1..n /\ (p + 1) - 1 = p
      BY <1>1, <2>2
    <3> QED BY <3>1, HunkLies
  <2> HIDE DEF n, s
  <2>3. CASE p < n /\ First(hunks[p + 1]) <= s
    BY <1>1, <1>2, <2>1, <2>2, <2>3
  <2>4. CASE ~ (p < n /\ First(hunks[p + 1]) <= s)
    BY <1>1, <1>2, <2>1, <2>2, <2>4
  <2> QED BY <2>3, <2>4
<1>6. /\ end \in Int
      /\ end >= e + Moved(hunks, q)
      /\ q > 0 => end >= NewLast(hunks[q])
      /\ \/ end = e + Moved(hunks, q)
         \/ q > 0 /\ end = NewLast(hunks[q]) /\ Last(hunks[q]) >= e
  <2>1. end = IF q > 0 /\ Last(hunks[q]) >= e THEN NewLast(hunks[q]) ELSE e + Moved(hunks, q)
    BY <1>4, EndProposed
  <2>2. ASSUME q > 0
        PROVE  /\ NewLast(hunks[q]) = Last(hunks[q]) + Moved(hunks, q)
               /\ Last(hunks[q]) \in Int
    <3>1. q \in 1..n
      BY <1>1, <2>2
    <3> QED BY <3>1, HunkLies
  <2> HIDE DEF n, e
  <2>3. CASE q > 0 /\ Last(hunks[q]) >= e
    BY <1>1, <1>2, <2>1, <2>2, <2>3
  <2>4. CASE ~ (q > 0 /\ Last(hunks[q]) >= e)
    BY <1>1, <1>2, <2>1, <2>2, <2>4
  <2> QED BY <2>3, <2>4
<1> QED BY <1>3, <1>4, <1>5, <1>6 DEF Spans

\* Whatever becomes of the lines of the range is within its proposal.
LEMMA SpanCovers ==
    ASSUME NEW hunks, NEW old, NEW new, Patch(hunks, old, new), NEW ref \in References,
           NEW p, NEW q, NEW start, NEW end, Spans(hunks, ref, p, q, start, end)
    PROVE  /\ \A k \in (p + 1)..q : Put(hunks[k]) \subseteq start..end
           /\ \A m \in p..q : \A i \in ref.start..ref.end :
                Between(hunks, m, i) => i + Moved(hunks, m) \in start..end
<1> DEFINE n == Len(hunks)
<1>1. /\ hunks \in Seq(Hunk) /\ n \in Nat /\ ref.start \in Nat /\ ref.end \in Nat
      /\ p \in 0..n /\ q \in p..n /\ q \in 0..n /\ start \in Int /\ end \in Int
  BY DEF Patch, References, Spans, Splits
<1>2. ASSUME NEW k \in (p + 1)..q
      PROVE  /\ k \in 1..n
             /\ NewFirst(hunks[k]) \in Nat /\ NewLast(hunks[k]) \in Int
             /\ NewLast(hunks[k]) >= NewFirst(hunks[k]) - 1
             /\ start <= NewFirst(hunks[k]) /\ NewLast(hunks[k]) <= end
  <2>1. k \in 1..n /\ p + 1 \in 1..n /\ k \in (p + 1)..n /\ q \in k..n /\ q \in 1..n
    BY <1>1
  <2>2. NewFirst(hunks[p + 1]) <= NewFirst(hunks[k])
    BY <2>1, NewHunksGrow
  <2>3. NewLast(hunks[k]) <= NewLast(hunks[q])
    BY <2>1, NewHunksGrow
  <2>4. /\ NewFirst(hunks[k]) \in Nat /\ NewLast(hunks[k]) \in Int
        /\ NewLast(hunks[k]) >= NewFirst(hunks[k]) - 1
    BY <2>1, HunkLies
  <2>5. NewFirst(hunks[p + 1]) \in Nat /\ NewLast(hunks[q]) \in Int
    BY <2>1, HunkLies
  <2>6. start <= NewFirst(hunks[p + 1]) /\ end >= NewLast(hunks[q])
    BY <1>1, <2>1 DEF Spans
  <2>7. start <= NewFirst(hunks[k])
    BY <1>1, <2>2, <2>4, <2>5, <2>6
  <2>8. NewLast(hunks[k]) <= end
    BY <1>1, <2>3, <2>4, <2>5, <2>6
  <2> QED BY <2>1, <2>4, <2>7, <2>8
<1>3. ASSUME NEW k \in (p + 1)..q, NEW y \in Put(hunks[k]) PROVE y \in start..end
  <2>1. y \in Int /\ NewFirst(hunks[k]) <= y /\ y <= NewLast(hunks[k])
    BY <1>2 DEF Put
  <2> QED BY <1>1, <1>2, <2>1
<1>4. ASSUME NEW m \in p..q, NEW i \in ref.start..ref.end, Between(hunks, m, i)
      PROVE  i + Moved(hunks, m) \in start..end
  <2>1. m \in 0..n /\ i \in Int
    BY <1>1
  <2>2. Moved(hunks, m) \in Int
    BY <1>1, <2>1, MovedIsInt
  <2>3. start <= i + Moved(hunks, m)
    <3>1. CASE m = p
      <4>1. start <= ref.start + Moved(hunks, m)
        BY <3>1 DEF Spans
      <4> QED BY <1>1, <2>1, <2>2, <4>1
    <3>2. CASE m # p
      <4>1. m \in (p + 1)..q /\ m > 0 /\ m \in 1..n
        BY <1>1, <3>2
      <4>2. Last(hunks[m]) < i
        BY <1>4, <4>1 DEF Between
      <4>3. NewLast(hunks[m]) = Last(hunks[m]) + Moved(hunks, m) /\ Last(hunks[m]) \in Int
        BY <4>1, HunkLies
      <4>4. /\ NewFirst(hunks[m]) \in Nat /\ NewLast(hunks[m]) >= NewFirst(hunks[m]) - 1
            /\ start <= NewFirst(hunks[m])
        BY <4>1, <1>2
      <4> QED BY <1>1, <2>1, <2>2, <4>2, <4>3, <4>4
    <3> QED BY <3>1, <3>2
  <2>4. i + Moved(hunks, m) <= end
    <3>1. CASE m = q
      <4>1. end >= ref.end + Moved(hunks, m)
        BY <3>1 DEF Spans
      <4> QED BY <1>1, <2>1, <2>2, <4>1
    <3>2. CASE m # q
      <4>1. m + 1 \in (p + 1)..q /\ m < n /\ m + 1 \in 1..n /\ (m + 1) - 1 = m
        BY <1>1, <2>1, <3>2
      <4>2. i < First(hunks[m + 1])
        BY <1>4, <4>1 DEF Between
      <4>3. NewFirst(hunks[m + 1]) = First(hunks[m + 1]) + Moved(hunks, m)
            /\ First(hunks[m + 1]) \in Nat
        BY <4>1, HunkLies
      <4>4. /\ NewFirst(hunks[m + 1]) \in Nat /\ NewLast(hunks[m + 1]) \in Int
            /\ NewLast(hunks[m + 1]) >= NewFirst(hunks[m + 1]) - 1
            /\ NewLast(hunks[m + 1]) <= end
        BY <4>1, <1>2
      <4>5. i + Moved(hunks, m) < NewFirst(hunks[m + 1])
        BY <2>1, <2>2, <4>2, <4>3
      <4>6. i + Moved(hunks, m) \in Int
        BY <2>1, <2>2
      <4> QED BY <1>1, <4>4, <4>5, <4>6
    <3> QED BY <3>1, <3>2
  <2> QED BY <1>1, <2>1, <2>2, <2>3, <2>4
<1> QED BY <1>3, <1>4

\* The hunks that begin by a line of the new side are the first ones.
LEMMA NewGap ==
    ASSUME NEW hunks, NEW old, NEW new, Patch(hunks, old, new), NEW y \in Int
    PROVE  \E m \in 0..Len(hunks) :
             \A k \in 1..Len(hunks) : NewFirst(hunks[k]) <= y <=> k <= m
<1> DEFINE n == Len(hunks)
           S == {k \in 1..n : NewFirst(hunks[k]) <= y}
<1>1. n \in Nat
  BY DEF Patch
<1>2. \A k \in S : \A j \in 1..k : j \in S
  <2> SUFFICES ASSUME NEW k \in S, NEW j \in 1..k PROVE j \in S
    OBVIOUS
  <2>1. j \in 1..n /\ k \in j..n /\ k \in 1..n
    BY <1>1
  <2>2. NewFirst(hunks[j]) <= NewFirst(hunks[k])
    BY <2>1, NewHunksGrow
  <2>3. NewFirst(hunks[j]) \in Nat /\ NewFirst(hunks[k]) \in Nat
    BY <2>1, HunkLies
  <2> QED BY <2>1, <2>2, <2>3
<1>3. PICK m \in 0..n : S = 1..m
  <2>1. S \in SUBSET (1..n)
    OBVIOUS
  <2> HIDE DEF S, n
  <2> QED BY <1>1, <1>2, <2>1, FirstOnes
<1>4. ASSUME NEW k \in 1..n PROVE NewFirst(hunks[k]) <= y <=> k <= m
  <2>1. k \in S <=> k \in 1..m
    BY <1>3
  <2> QED BY <1>1, <2>1
<1> QED BY <1>4

\* And within its proposal is nothing else.
LEMMA SpanFilled ==
    ASSUME NEW hunks, NEW old, NEW new, Patch(hunks, old, new),
           NEW ref \in References, ref.start <= ref.end,
           NEW p, NEW q, NEW start, NEW end, Spans(hunks, ref, p, q, start, end),
           NEW y \in start..end
    PROVE  \/ \E k \in (p + 1)..q : y \in Put(hunks[k])
           \/ \E m \in p..q : \E i \in ref.start..ref.end :
                Between(hunks, m, i) /\ y = i + Moved(hunks, m)
<1> DEFINE n == Len(hunks)
           s == ref.start
           e == ref.end
<1>1. /\ hunks \in Seq(Hunk) /\ n \in Nat /\ s \in Nat /\ e \in Nat
      /\ p \in 0..n /\ q \in p..n /\ q \in 0..n /\ start \in Int /\ end \in Int /\ y \in Int
      /\ start <= y /\ y <= end
  BY DEF Patch, References, Spans, Splits
<1>2. /\ \A k \in 1..n : Last(hunks[k]) < s <=> k <= p
      /\ \A k \in 1..n : First(hunks[k]) <= e <=> k <= q
  BY DEF Spans, Splits
<1>3. PICK m \in p..q :
        /\ m > p => NewFirst(hunks[m]) <= y
        /\ m < q => ~ (NewFirst(hunks[m + 1]) <= y)
  <2>1. PICK z \in 0..n : \A k \in 1..n : NewFirst(hunks[k]) <= y <=> k <= z
    BY <1>1, NewGap
  <2>2. CASE z > q
    <3>1. q > p => q \in 1..n /\ q <= z
      BY <1>1, <2>2
    <3>2. q \in p..q /\ (q > p => NewFirst(hunks[q]) <= y) /\ ~ (q < q)
      BY <1>1, <2>1, <3>1
    <3> QED BY <3>2
  <2>3. CASE z < p
    <3>1. p < q => p + 1 \in 1..n /\ ~ (p + 1 <= z)
      BY <1>1, <2>3
    <3>2. p \in p..q /\ (p < q => ~ (NewFirst(hunks[p + 1]) <= y)) /\ ~ (p > p)
      BY <1>1, <2>1, <3>1
    <3> QED BY <3>2
  <2>4. CASE p <= z /\ z <= q
    <3>1. z \in p..q /\ (z > p => z \in 1..n /\ z <= z) /\ (z < q => z + 1 \in 1..n /\ ~ (z + 1 <= z))
      BY <1>1, <2>4
    <3>2. (z > p => NewFirst(hunks[z]) <= y) /\ (z < q => ~ (NewFirst(hunks[z + 1]) <= y))
      BY <2>1, <3>1
    <3> QED BY <3>1, <3>2
  <2> QED BY <1>1, <2>2, <2>3, <2>4
<1>4. m \in 0..n /\ m \in Nat /\ Moved(hunks, m) \in Int
  <2>1. m \in 0..n
    BY <1>1
  <2> QED BY <1>1, <2>1, MovedIsInt
<1>5. ASSUME m > p
      PROVE  /\ m \in 1..n /\ m \in (p + 1)..q
             /\ NewLast(hunks[m]) = Last(hunks[m]) + Moved(hunks, m)
             /\ Last(hunks[m]) \in Int /\ NewFirst(hunks[m]) \in Nat /\ NewLast(hunks[m]) \in Int
             /\ Last(hunks[m]) >= s
  <2>1. m \in 1..n /\ m \in (p + 1)..q /\ ~ (m <= p)
    BY <1>1, <1>5
  <2>2. /\ NewLast(hunks[m]) = Last(hunks[m]) + Moved(hunks, m)
        /\ Last(hunks[m]) \in Int /\ NewFirst(hunks[m]) \in Nat /\ NewLast(hunks[m]) \in Int
    BY <2>1, HunkLies
  <2>3. ~ (Last(hunks[m]) < s)
    BY <1>2, <2>1
  <2> QED BY <1>1, <2>1, <2>2, <2>3
<1>6. ASSUME m < q
      PROVE  /\ NewFirst(hunks[m + 1]) = First(hunks[m + 1]) + Moved(hunks, m)
             /\ First(hunks[m + 1]) \in Nat /\ First(hunks[m + 1]) <= e
             /\ y - Moved(hunks, m) < First(hunks[m + 1])
  <2>1. m + 1 \in 1..n /\ (m + 1) - 1 = m /\ m + 1 <= q
    BY <1>1, <1>4, <1>6
  <2>2. /\ NewFirst(hunks[m + 1]) = First(hunks[m + 1]) + Moved(hunks, m)
        /\ First(hunks[m + 1]) \in Nat
    BY <2>1, HunkLies
  <2>3. First(hunks[m + 1]) <= e
    BY <1>2, <2>1
  <2>4. ~ (NewFirst(hunks[m + 1]) <= y)
    BY <1>3, <1>6
  <2> QED BY <1>1, <1>4, <2>2, <2>3, <2>4
<1>7. CASE m > p /\ y <= NewLast(hunks[m])
  <2>1. y \in Put(hunks[m])
    BY <1>1, <1>3, <1>5, <1>7 DEF Put
  <2> QED BY <1>5, <1>7, <2>1
<1>8. CASE ~ (m > p /\ y <= NewLast(hunks[m]))
  <2> DEFINE i == y - Moved(hunks, m)
  <2>1. i \in Int /\ y = i + Moved(hunks, m)
    BY <1>1, <1>4
  <2>2. m > p => Last(hunks[m]) < i
    BY <1>1, <1>4, <1>5, <1>8
  <2>3. i >= s
    <3>1. CASE m > p
      BY <1>1, <1>5, <2>1, <2>2, <3>1
    <3>2. CASE m = p
      <4>1. CASE start = s + Moved(hunks, p)
        BY <1>1, <1>4, <3>2, <4>1
      <4>2. CASE p < n /\ start = NewFirst(hunks[p + 1]) /\ First(hunks[p + 1]) <= s
        <5>1. p + 1 \in 1..n
          BY <1>1, <4>2
        <5>2. First(hunks[p + 1]) \in Nat /\ NewFirst(hunks[p + 1]) \in Nat
          BY <5>1, HunkLies
        <5>3. p + 1 <= q
          BY <1>1, <1>2, <4>2, <5>1, <5>2
        <5>4. ~ (NewFirst(hunks[p + 1]) <= y)
          BY <1>1, <1>3, <3>2, <5>3
        <5> QED BY <1>1, <4>2, <5>4
      <4> QED BY <4>1, <4>2 DEF Spans
    <3> QED BY <1>1, <1>3, <3>1, <3>2
  <2>4. i <= e
    <3>1. CASE m < q
      <4>1. First(hunks[m + 1]) \in Nat /\ First(hunks[m + 1]) <= e /\ i < First(hunks[m + 1])
        BY <1>6, <3>1
      <4> HIDE DEF i, e
      <4> QED BY <1>1, <2>1, <4>1
    <3>2. CASE m = q
      <4>1. CASE end = e + Moved(hunks, q)
        BY <1>1, <1>4, <3>2, <4>1
      <4>2. CASE q > 0 /\ end = NewLast(hunks[q]) /\ Last(hunks[q]) >= e
        <5>1. CASE m > p
          <6>1. ~ (y <= NewLast(hunks[q]))
            BY <1>8, <3>2, <5>1
          <6> QED BY <1>1, <4>2, <6>1
        <5>2. CASE m = p
          <6>1. p \in 1..n /\ p <= p
            BY <1>1, <3>2, <4>2, <5>2
          <6>2. Last(hunks[p]) < s /\ Last(hunks[p]) \in Int
            BY <1>2, <6>1, HunkLies
          <6> QED BY <1>1, <3>2, <4>2, <5>2, <6>2
        <5> QED BY <1>1, <1>3, <5>1, <5>2
      <4> QED BY <4>1, <4>2 DEF Spans
    <3> QED BY <1>1, <1>3, <3>1, <3>2
  <2>5. Between(hunks, m, i)
    <3>1. ASSUME m > 0 PROVE Last(hunks[m]) < i
      <4>1. CASE m > p
        BY <2>2, <4>1
      <4>2. CASE m = p
        <5>1. m \in 1..n /\ m <= p
          BY <1>1, <3>1, <4>2
        <5>2. Last(hunks[m]) < s /\ Last(hunks[m]) \in Int
          BY <1>2, <5>1, HunkLies
        <5> QED BY <1>1, <2>1, <2>3, <5>2
      <4> QED BY <1>1, <1>3, <4>1, <4>2
    <3>2. ASSUME m < n PROVE i < First(hunks[m + 1])
      <4>1. CASE m < q
        BY <1>6, <4>1
      <4>2. CASE m = q
        <5>1. m + 1 \in 1..n /\ ~ (m + 1 <= q)
          BY <1>1, <1>4, <3>2, <4>2
        <5>2. ~ (First(hunks[m + 1]) <= e) /\ First(hunks[m + 1]) \in Nat
          BY <1>2, <5>1, HunkLies
        <5> QED BY <1>1, <2>1, <2>4, <5>2
      <4> QED BY <1>1, <1>3, <4>1, <4>2
    <3> HIDE DEF i
    <3> QED BY <3>1, <3>2 DEF Between
  <2>6. i \in s..e
    BY <1>1, <2>1, <2>3, <2>4
  <2> HIDE DEF i
  <2> QED BY <2>1, <2>5, <2>6
<1> QED BY <1>7, <1>8

\* A proposal does not go past the end of the new file.
LEMMA SpanInside ==
    ASSUME NEW hunks, NEW old \in Seq(Texts), NEW new \in Seq(Texts), Patch(hunks, old, new),
           NEW ref \in References, ref.end <= Len(old),
           NEW p, NEW q, NEW start, NEW end, Spans(hunks, ref, p, q, start, end)
    PROVE  end <= Len(new)
<1> DEFINE n == Len(hunks)
           e == ref.end
<1>1. /\ hunks \in Seq(Hunk) /\ n \in Nat /\ e \in Nat /\ q \in 0..n /\ end \in Int
      /\ Len(old) \in Nat /\ Len(new) \in Nat
  BY DEF Patch, References, Spans, Splits
<1>2. Len(new) = Len(old) + Moved(hunks, n) /\ Moved(hunks, n) \in Int /\ Moved(hunks, q) \in Int
  <2>1. n \in 0..n
    BY <1>1
  <2>2. Moved(hunks, n) \in Int /\ Moved(hunks, q) \in Int
    BY <1>1, <2>1, MovedIsInt
  <2> QED BY <2>2 DEF Patch
<1>3. \/ end = e + Moved(hunks, q)
      \/ q > 0 /\ end = NewLast(hunks[q])
  BY DEF Spans
<1>4. ASSUME NEW k \in 1..n
      PROVE  /\ Last(hunks[k]) \in Int /\ Last(hunks[k]) <= Len(old) /\ First(hunks[k]) \in Nat
             /\ NewFirst(hunks[k]) \in Nat /\ NewLast(hunks[k]) \in Int
             /\ NewLast(hunks[k]) >= NewFirst(hunks[k]) - 1
             /\ NewFirst(hunks[k]) = First(hunks[k]) + Moved(hunks, k - 1)
             /\ NewLast(hunks[k]) = Last(hunks[k]) + Moved(hunks, k)
  BY HunkLies
<1>5. CASE q = n
  <2>1. CASE end = e + Moved(hunks, q)
    BY <1>1, <1>2, <1>5, <2>1
  <2>2. CASE q > 0 /\ end = NewLast(hunks[q])
    <3>1. n \in 1..n
      BY <1>1, <1>5, <2>2
    <3>2. NewLast(hunks[n]) = Last(hunks[n]) + Moved(hunks, n)
          /\ Last(hunks[n]) <= Len(old) /\ Last(hunks[n]) \in Int
      BY <1>4, <3>1
    <3>3. end = Last(hunks[n]) + Moved(hunks, n)
      BY <1>5, <2>2, <3>2
    <3> HIDE DEF n
    <3> QED BY <1>1, <1>2, <3>2, <3>3
  <2> QED BY <1>3, <2>1, <2>2
<1>6. CASE q # n
  <2>1. q + 1 \in 1..n /\ (q + 1) - 1 = q /\ n \in 1..n /\ n \in (q + 1)..n /\ ~ (q + 1 <= q)
    BY <1>1, <1>6
  <2>2. ~ (First(hunks[q + 1]) <= e)
    BY <2>1 DEF Spans, Splits
  <2>3. NewLast(hunks[q + 1]) <= NewLast(hunks[n])
    BY <2>1, NewHunksGrow
  <2>4. end < NewFirst(hunks[q + 1])
    <3>1. CASE end = e + Moved(hunks, q)
      <4>1. NewFirst(hunks[q + 1]) = First(hunks[q + 1]) + Moved(hunks, q)
            /\ First(hunks[q + 1]) \in Nat
        BY <1>4, <2>1
      <4>2. e < First(hunks[q + 1]) /\ Moved(hunks, q) \in Int
        BY <1>1, <1>2, <2>2, <4>1
      <4> HIDE DEF n, e
      <4> QED BY <1>1, <3>1, <4>1, <4>2
    <3>2. CASE q > 0 /\ end = NewLast(hunks[q])
      <4>1. q \in 1..n /\ q + 1 \in (q + 1)..n
        BY <1>1, <2>1, <3>2
      <4>2. NewFirst(hunks[q + 1]) > NewLast(hunks[q]) + 1
        BY <4>1, NewHunksApart
      <4>3. NewFirst(hunks[q + 1]) \in Nat
        BY <1>4, <2>1
      <4> QED BY <1>1, <3>2, <4>2, <4>3
    <3> QED BY <1>3, <3>1, <3>2
  <2>5. /\ NewFirst(hunks[q + 1]) \in Nat /\ NewLast(hunks[q + 1]) \in Int
        /\ NewLast(hunks[q + 1]) >= NewFirst(hunks[q + 1]) - 1
    BY <1>4, <2>1
  <2>6. NewLast(hunks[n]) <= Len(new) /\ NewLast(hunks[n]) \in Int
    <3>1. NewLast(hunks[n]) = Last(hunks[n]) + Moved(hunks, n)
          /\ Last(hunks[n]) <= Len(old) /\ Last(hunks[n]) \in Int
      BY <1>4, <2>1
    <3> HIDE DEF n
    <3> QED BY <1>1, <1>2, <3>1
  <2> QED BY <1>1, <2>3, <2>4, <2>5, <2>6
<1> QED BY <1>5, <1>6

\* Hunks that put no more lines than they take move nothing forward.
LEMMA MovedBack ==
    ASSUME NEW hunks, NEW old, NEW new, Patch(hunks, old, new),
           NEW p \in 0..Len(hunks), NEW q \in p..Len(hunks),
           \A k \in (p + 1)..q : hunks[k].newCount <= hunks[k].oldCount
    PROVE  Moved(hunks, q) <= Moved(hunks, p)
<1> DEFINE n == Len(hunks)
           R == OpToRel(<, Nat)
           D == {m \in p..q : ~ (Moved(hunks, m) <= Moved(hunks, p))}
<1>1. n \in Nat /\ hunks \in Seq(Hunk)
  BY DEF Patch
<1>2. ASSUME NEW m \in p..q PROVE m \in 0..n /\ Moved(hunks, m) \in Int
  <2>1. m \in 0..n
    BY <1>1
  <2> QED BY <1>1, <2>1, MovedIsInt
<1>3. p \in p..q /\ q \in p..q
  BY <1>1
<1> SUFFICES ASSUME D # {} PROVE FALSE
  BY <1>3
<1>4. D \subseteq Nat
  BY <1>1
<1>5. IsWellFoundedOn(R, Nat)
  BY Zenon, NatLessThanWellFounded
<1>6. PICK m \in D : \A j \in D : ~ (<<j, m>> \in R)
  <2> HIDE DEF R, D
  <2> QED BY <1>4, <1>5, WFMin
<1>7. m \in p..q /\ ~ (Moved(hunks, m) <= Moved(hunks, p))
  OBVIOUS
<1>8. m # p
  BY <1>2, <1>3, <1>7
<1>9. m - 1 \in p..q /\ m \in (p + 1)..q /\ m \in 1..n /\ m - 1 \in Nat /\ m \in Nat /\ m - 1 < m
  BY <1>1, <1>7, <1>8
<1>10. m - 1 \notin D
  <2>1. <<m - 1, m>> \in R
    BY <1>9 DEF OpToRel
  <2> QED BY Zenon, <1>6, <2>1
<1>11. Moved(hunks, m - 1) <= Moved(hunks, p)
  BY <1>9, <1>10
<1>12. Moved(hunks, m) = Moved(hunks, m - 1) + hunks[m].newCount - hunks[m].oldCount
  BY <1>9, MovedBy
<1>13. hunks[m].newCount \in Nat /\ hunks[m].oldCount \in Nat /\ hunks[m].newCount <= hunks[m].oldCount
  <2>1. hunks[m] \in Hunk
    BY <1>9, HunkLies
  <2>2. hunks[m].newCount \in Nat /\ hunks[m].oldCount \in Nat
    BY <2>1, HunkLines
  <2>3. hunks[m].newCount <= hunks[m].oldCount
    BY <1>9
  <2> QED BY <2>2, <2>3
<1>14. Moved(hunks, m) \in Int /\ Moved(hunks, m - 1) \in Int /\ Moved(hunks, p) \in Int
  BY <1>2, <1>3, <1>7, <1>9
<1>15. Moved(hunks, m) <= Moved(hunks, m - 1)
  <2>1. PICK a \in Int : a = Moved(hunks, m)
    BY <1>14
  <2>2. PICK b \in Int : b = Moved(hunks, m - 1)
    BY <1>14
  <2>3. PICK x \in Nat : x = hunks[m].newCount
    BY <1>13
  <2>4. PICK y \in Nat : y = hunks[m].oldCount
    BY <1>13
  <2>5. a = b + x - y /\ x <= y
    BY <1>12, <1>13, <2>1, <2>2, <2>3, <2>4
  <2>6. a <= b
    BY <2>5
  <2> QED BY <2>1, <2>2, <2>6
<1>16. Moved(hunks, m) <= Moved(hunks, p)
  BY <1>11, <1>14, <1>15
<1> QED BY <1>7, <1>16

\* A proposal that is not called widened is no longer than the range.
LEMMA NotWidened ==
    ASSUME NEW hunks, NEW old, NEW new, Patch(hunks, old, new),
           NEW ref \in References, ref.start <= ref.end,
           NEW p, NEW q, NEW start, NEW end, Spans(hunks, ref, p, q, start, end),
           \A k \in (p + 1)..q :
             ~Crosses(hunks[k], ref) /\ hunks[k].newCount <= hunks[k].oldCount
    PROVE  end - start <= ref.end - ref.start
<1> DEFINE n == Len(hunks)
           s == ref.start
           e == ref.end
<1>1. /\ hunks \in Seq(Hunk) /\ n \in Nat /\ s \in Nat /\ e \in Nat
      /\ p \in 0..n /\ q \in p..n /\ q \in 0..n /\ start \in Int /\ end \in Int
  BY DEF Patch, References, Spans, Splits
<1>2. /\ \A k \in 1..n : Last(hunks[k]) < s <=> k <= p
      /\ \A k \in 1..n : First(hunks[k]) <= e <=> k <= q
  BY DEF Spans, Splits
<1>3. Moved(hunks, p) \in Int /\ Moved(hunks, q) \in Int
  BY <1>1, MovedIsInt
<1>4. Moved(hunks, q) <= Moved(hunks, p)
  BY <1>1, MovedBack
<1>5. ASSUME NEW k \in (p + 1)..q
      PROVE  /\ k \in 1..n
             /\ First(hunks[k]) \in Nat /\ Last(hunks[k]) \in Int
             /\ Last(hunks[k]) >= s /\ First(hunks[k]) <= e
             /\ First(hunks[k]) <= s => First(hunks[k]) >= s
             /\ Last(hunks[k]) >= e => Last(hunks[k]) <= e
  <2>1. k \in 1..n /\ ~ (k <= p) /\ k <= q
    BY <1>1
  <2>2. /\ First(hunks[k]) \in Nat /\ Last(hunks[k]) \in Int
        /\ ~ (Last(hunks[k]) < s) /\ First(hunks[k]) <= e
    BY <1>2, <2>1, HunkLies
  <2>3. hunks[k] \in Hunk
    BY <2>1, HunkLies
  <2>4. hunks[k].oldCount \in Nat /\ Last(hunks[k]) = First(hunks[k]) + hunks[k].oldCount - 1
    BY <2>3, HunkLines
  <2>5. ~Crosses(hunks[k], ref)
    OBVIOUS
  <2>6. CASE hunks[k].oldCount = 0
    BY <1>1, <2>1, <2>2, <2>4, <2>6
  <2>7. CASE hunks[k].oldCount # 0
    <3>1. First(hunks[k]) = hunks[k].oldStart
      BY <2>7 DEF First
    <3>2. ~ (First(hunks[k]) < s) /\ ~ (Last(hunks[k]) > e)
      BY <2>4, <2>5, <2>7, <3>1 DEF Crosses
    <3> QED BY <1>1, <2>1, <2>2, <3>2
  <2> QED BY <2>6, <2>7
<1>6. start = s + Moved(hunks, p)
  <2>1. CASE start = s + Moved(hunks, p)
    BY <2>1
  <2>2. CASE p < n /\ start = NewFirst(hunks[p + 1]) /\ First(hunks[p + 1]) <= s
    <3>1. p + 1 \in 1..n /\ (p + 1) - 1 = p
      BY <1>1, <2>2
    <3>2. NewFirst(hunks[p + 1]) = First(hunks[p + 1]) + Moved(hunks, p)
          /\ First(hunks[p + 1]) \in Nat
      BY <3>1, HunkLies
    <3>3. First(hunks[p + 1]) <= e
      BY <1>1, <2>2, <3>2
    <3>4. p + 1 <= q
      BY <1>2, <3>1, <3>3
    <3>5. p + 1 \in (p + 1)..q
      BY <1>1, <3>4
    <3>6. First(hunks[p + 1]) = s
      BY <1>1, <1>5, <2>2, <3>2, <3>5
    <3> QED BY <2>2, <3>2, <3>6
  <2> QED BY <2>1, <2>2 DEF Spans
<1>7. end = e + Moved(hunks, q)
  <2>1. CASE end = e + Moved(hunks, q)
    BY <2>1
  <2>2. CASE q > 0 /\ end = NewLast(hunks[q]) /\ Last(hunks[q]) >= e
    <3>1. q \in 1..n
      BY <1>1, <2>2
    <3>2. NewLast(hunks[q]) = Last(hunks[q]) + Moved(hunks, q) /\ Last(hunks[q]) \in Int
      BY <3>1, HunkLies
    <3>3. ~ (Last(hunks[q]) < s)
      BY <1>1, <2>2, <3>2
    <3>4. ~ (q <= p)
      BY <1>2, <3>1, <3>3
    <3>5. q \in (p + 1)..q
      BY <1>1, <3>4
    <3>6. Last(hunks[q]) = e
      BY <1>1, <1>5, <2>2, <3>2, <3>5
    <3> QED BY <2>2, <3>2, <3>6
  <2> QED BY <2>1, <2>2 DEF Spans
<1> HIDE DEF s, e
<1>8. end - start <= e - s
  BY <1>1, <1>3, <1>4, <1>6, <1>7
<1> QED BY <1>8 DEF s, e

\* What a proposal for lines is of.
Proposes(hunks, ref, new, at, widened) ==
    /\ Inside(new, at.start, at.end)
    /\ at.start..at.end =
         {Image(hunks, i) : i \in Surviving(hunks, ref)}
           \cup UNION {Put(hunks[k]) : k \in Touched(hunks, ref)}
    /\ widened \/ at.end - at.start <= ref.end - ref.start

\* A line of the range in no hunk lies between two that bound the range's.
LEMMA GapOfRange ==
    ASSUME NEW hunks, NEW old, NEW new, Patch(hunks, old, new),
           NEW ref \in References, NEW p, NEW q, Splits(hunks, ref, p, q),
           NEW i \in ref.start..ref.end, NEW m \in 0..Len(hunks), Between(hunks, m, i)
    PROVE  m \in p..q
<1> DEFINE n == Len(hunks)
           s == ref.start
           e == ref.end
<1>1. /\ n \in Nat /\ s \in Nat /\ e \in Nat /\ p \in 0..n /\ q \in p..n /\ m \in 0..n
      /\ i \in Int /\ s <= i /\ i <= e
  BY DEF Patch, References, Splits
<1>2. /\ \A k \in 1..n : Last(hunks[k]) < s <=> k <= p
      /\ \A k \in 1..n : First(hunks[k]) <= e <=> k <= q
  BY DEF Splits
<1>3. m >= p
  <2> SUFFICES ASSUME m < p PROVE FALSE
    BY <1>1
  <2>1. m + 1 \in 1..n /\ m + 1 <= p /\ m < n
    BY <1>1
  <2>2. Last(hunks[m + 1]) < s /\ i < First(hunks[m + 1])
    BY <1>2, <2>1 DEF Between
  <2>3. /\ First(hunks[m + 1]) \in Nat /\ Last(hunks[m + 1]) \in Int
        /\ Last(hunks[m + 1]) >= First(hunks[m + 1]) - 1
    BY <2>1, HunkLies
  <2> QED BY <1>1, <2>2, <2>3
<1>4. m <= q
  <2> SUFFICES ASSUME m > q PROVE FALSE
    BY <1>1
  <2>1. m \in 1..n /\ ~ (m <= q) /\ m > 0
    BY <1>1
  <2>2. ~ (First(hunks[m]) <= e) /\ Last(hunks[m]) < i
    BY <1>2, <2>1 DEF Between
  <2>3. /\ First(hunks[m]) \in Nat /\ Last(hunks[m]) \in Int
        /\ Last(hunks[m]) >= First(hunks[m]) - 1
    BY <2>1, HunkLies
  <2> QED BY <1>1, <2>2, <2>3
<1> QED BY <1>1, <1>3, <1>4

\* ProposeRange, for any hunks and any range: all of what became of the range, and
\* nothing else.
LEMMA RangeProposed ==
    ASSUME NEW hunks, NEW old \in Seq(Texts), NEW new \in Seq(Texts), Patch(hunks, old, new),
           NEW ref \in References, Inside(old, ref.start, ref.end),
           NEW lines, ~Refused(hunks, ref, lines),
           NEW at, at.start = ProposedStart(hunks, ref), at.end = ProposedEnd(hunks, ref),
           NEW widened,
           widened = \E k \in Touched(hunks, ref) :
                       \/ Crosses(hunks[k], ref)
                       \/ hunks[k].newCount > hunks[k].oldCount
    PROVE  Proposes(hunks, ref, new, at, widened)
<1> DEFINE n == Len(hunks)
           s == ref.start
           e == ref.end
           kept == {Image(hunks, i) : i \in Surviving(hunks, ref)}
           put == UNION {Put(hunks[k]) : k \in Touched(hunks, ref)}
<1>1. /\ hunks \in Seq(Hunk) /\ n \in Nat /\ DOMAIN hunks = 1..n /\ s \in Nat /\ e \in Nat
      /\ s <= e /\ e <= Len(old)
  BY DEF Patch, References, Inside
<1>2. PICK p, q : Splits(hunks, ref, p, q)
  BY <1>1, RangeSplits
<1>3. Touched(hunks, ref) = (p + 1)..q
  BY <1>2, SplitTouched
<1>4. Spans(hunks, ref, p, q, at.start, at.end)
  BY <1>2, ProposalSpans
<1>5. p \in 0..n /\ q \in p..n /\ at.start \in Int /\ at.end \in Int
  BY <1>2, <1>4 DEF Splits, Spans
<1>6. Inside(new, at.start, at.end)
  <2>1. ~ (at.end < at.start) /\ ~ (at.start < 1)
    BY DEF Refused
  <2>2. at.end <= Len(new)
    BY <1>1, <1>4, SpanInside
  <2> QED BY <1>5, <2>1, <2>2 DEF Inside
<1>7. ASSUME NEW i \in s..e, NEW m \in p..q, Between(hunks, m, i)
      PROVE  i \in Surviving(hunks, ref) /\ Image(hunks, i) = i + Moved(hunks, m)
  <2>1. m \in 0..n /\ i \in Int
    BY <1>1, <1>5
  <2>2. Image(hunks, i) = i + Moved(hunks, m) /\ \A k \in 1..n : i \notin Taken(hunks[k])
    BY <1>7, <2>1, GapImage
  <2> QED BY <1>1, <2>2 DEF Surviving
<1>8. ASSUME NEW i \in Surviving(hunks, ref)
      PROVE  Image(hunks, i) \in at.start..at.end
  <2>1. i \in s..e /\ \A k \in 1..n : i \notin Taken(hunks[k])
    BY <1>1 DEF Surviving
  <2>2. i \in Int
    BY <1>1, <2>1
  <2>3. PICK m \in 0..n : Between(hunks, m, i)
    BY <2>1, <2>2, LineInGap
  <2>4. m \in p..q
    BY <1>2, <2>1, <2>3, GapOfRange
  <2>5. i + Moved(hunks, m) \in at.start..at.end
    BY <1>4, <2>1, <2>3, <2>4, SpanCovers
  <2> QED BY <1>7, <2>1, <2>3, <2>4, <2>5
<1>9. ASSUME NEW k \in Touched(hunks, ref) PROVE Put(hunks[k]) \subseteq at.start..at.end
  <2>1. \A j \in (p + 1)..q : Put(hunks[j]) \subseteq at.start..at.end
    BY <1>4, SpanCovers
  <2> QED BY <1>3, <2>1
<1>10. ASSUME NEW y \in at.start..at.end PROVE y \in kept \cup put
  <2>1. \/ \E k \in (p + 1)..q : y \in Put(hunks[k])
        \/ \E m \in p..q : \E i \in s..e : Between(hunks, m, i) /\ y = i + Moved(hunks, m)
    <3>1. ref.start <= ref.end
      BY <1>1
    <3> HIDE DEF kept, put
    <3> QED BY <1>4, <3>1, SpanFilled
  <2>2. CASE \E k \in (p + 1)..q : y \in Put(hunks[k])
    BY <1>3, <2>2
  <2>3. CASE \E m \in p..q : \E i \in s..e : Between(hunks, m, i) /\ y = i + Moved(hunks, m)
    BY <1>7, <2>3
  <2> QED BY <2>1, <2>2, <2>3
<1>11. at.start..at.end = kept \cup put
  BY <1>8, <1>9, <1>10
<1>12. widened \/ at.end - at.start <= e - s
  <2> SUFFICES ASSUME ~widened PROVE at.end - at.start <= e - s
    OBVIOUS
  <2>1. \A k \in (p + 1)..q :
          ~Crosses(hunks[k], ref) /\ ~ (hunks[k].newCount > hunks[k].oldCount)
    BY <1>3
  <2>2. ASSUME NEW k \in (p + 1)..q PROVE hunks[k].newCount <= hunks[k].oldCount
    <3>1. k \in 1..n
      BY <1>1, <1>5
    <3>2. hunks[k] \in Hunk
      BY <3>1, HunkLies
    <3>3. hunks[k].newCount \in Nat /\ hunks[k].oldCount \in Nat
      BY <3>2, HunkLines
    <3> QED BY <2>1, <3>3
  <2> QED BY <1>1, <1>4, <2>1, <2>2, NotWidened
<1> QED BY <1>6, <1>11, <1>12 DEF Proposes

\* A call has made no proposal, or one that holds.
Offers(x) ==
    x.proposal.at # None /\ ~WholeFile(x.ref) =>
        Proposes(repo.change[x.ref.path].hunks, x.ref, repo.head[x.proposal.at.path],
                 x.proposal.at, x.proposal.widened)

CallsOffer == \A c \in Callers : Offers(call[c])

\* What a step that replaces a call has to establish.
LEMMA ReplacedOffers ==
    ASSUME IInv, CallsOffer, repo' = repo, NEW c \in Callers, NEW x,
           call' = [call EXCEPT ![c] = x], Offers(x)
    PROVE  CallsOffer'
<1>1. call = [d \in Callers |-> call[d]]
  BY DEF IInv, CallsGrounded
<1>2. (\A d \in Callers \ {c} : call'[d] = call[d]) /\ call'[c] = x
  BY <1>1
<1>3. ASSUME NEW d \in Callers PROVE Offers(call[d])'
  <2>1. CASE d = c
    BY <1>2, <2>1 DEF Offers
  <2>2. CASE d # c
    BY <1>2, <2>2 DEF Offers, CallsOffer
  <2> QED BY <2>1, <2>2
<1> QED BY <1>3 DEF CallsOffer

\* A call that goes on with what it was asked and what it has proposed.
KeepsOffer(c) ==
    \E x : call' = [call EXCEPT ![c] = x] /\ x.ref = call[c].ref /\ x.proposal = call[c].proposal

LEMMA KeptOffers ==
    ASSUME IInv, CallsOffer, repo' = repo, NEW c \in Callers, KeepsOffer(c)
    PROVE  CallsOffer'
<1>1. PICK x : call' = [call EXCEPT ![c] = x]
               /\ x.ref = call[c].ref /\ x.proposal = call[c].proposal
  BY DEF KeepsOffer
<1>2. Offers(x)
  BY <1>1 DEF CallsOffer, Offers
<1> QED BY <1>1, <1>2, ReplacedOffers

LEMMA GoesToKeeps ==
    ASSUME IInv, NEW c \in Callers, NEW stage, GoesTo(c, stage)
    PROVE  KeepsOffer(c)
<1>1. call = [d \in Callers |-> call[d]] /\ DOMAIN call[c] = Fields
  BY DEF IInv, CallsGrounded, Grounded
<1>2. PICK x : x = [call[c] EXCEPT !.stage = stage]
  OBVIOUS
<1>3. call' = [call EXCEPT ![c] = x]
  BY <1>1, <1>2 DEF GoesTo
<1>4. x.ref = call[c].ref /\ x.proposal = call[c].proposal
  BY <1>1, <1>2 DEF Fields
<1> QED BY <1>3, <1>4 DEF KeepsOffer

LEMMA GivesKeeps ==
    ASSUME IInv, NEW c \in Callers, NEW answer, Gives(c, answer)
    PROVE  KeepsOffer(c)
<1>1. call = [d \in Callers |-> call[d]] /\ DOMAIN call[c] = Fields
  BY DEF IInv, CallsGrounded, Grounded
<1>2. CASE call[c].pass # "resolve"
  BY <1>2, GoesToKeeps DEF Gives
<1>3. CASE /\ call[c].pass = "resolve"
           /\ call[c].op = "propose" /\ answer.state = "stale"
  <2>1. PICK x : x = [[[call[c] EXCEPT !.stage = "exists"] EXCEPT !.pass = "propose"]
                        EXCEPT !.answer = answer]
    OBVIOUS
  <2>2. call' = [call EXCEPT ![c] = x]
    BY <1>1, <1>3, <2>1 DEF Gives
  <2>3. x.ref = call[c].ref /\ x.proposal = call[c].proposal
    BY <1>1, <2>1 DEF Fields
  <2> QED BY <2>2, <2>3 DEF KeepsOffer
<1>4. CASE /\ call[c].pass = "resolve"
           /\ ~(call[c].op = "propose" /\ answer.state = "stale")
  <2>1. PICK x : x = [[call[c] EXCEPT !.stage = "done"] EXCEPT !.answer = answer]
    OBVIOUS
  <2>2. call' = [call EXCEPT ![c] = x]
    BY <1>1, <1>4, <2>1 DEF Gives
  <2>3. x.ref = call[c].ref /\ x.proposal = call[c].proposal
    BY <1>1, <2>1 DEF Fields
  <2> QED BY <2>2, <2>3 DEF KeepsOffer
<1> QED BY <1>2, <1>3, <1>4

LEMMA ListedKeeps ==
    ASSUME IInv, NEW c \in Callers, NEW listing, Listed(c, listing)
    PROVE  KeepsOffer(c)
<1>1. call = [d \in Callers |-> call[d]] /\ DOMAIN call[c] = Fields
  BY DEF IInv, CallsGrounded, Grounded
<1>2. PICK stage :
        call' = [call EXCEPT ![c] = [[call[c] EXCEPT !.stage = stage] EXCEPT !.listing = listing]]
  BY Zenon, <1>1 DEF Listed
<1>3. PICK x : x = [[call[c] EXCEPT !.stage = stage] EXCEPT !.listing = listing]
  OBVIOUS
<1>4. call' = [call EXCEPT ![c] = x]
  BY <1>2, <1>3
<1>5. x.ref = call[c].ref /\ x.proposal = call[c].proposal
  BY <1>1, <1>3 DEF Fields
<1> QED BY <1>4, <1>5 DEF KeepsOffer

LEMMA GoesOnKeeps ==
    ASSUME IInv, NEW c \in Callers, NEW result, GoesOn(c, result)
    PROVE  KeepsOffer(c)
<1>1. \/ Gives(c, Stale(c, result = "failed"))
      \/ GoesTo(c, "full")
      \/ Gives(c, Current(Pinned(call[c].ref)))
      \/ GoesTo(c, "changes")
  BY DEF GoesOn
<1> QED BY <1>1, GivesKeeps, GoesToKeeps

\* Every step of a call but Propose, and the one that ends it.
LEMMA StepsKeep ==
    ASSUME IInv, NEW c \in Callers,
           \/ CommitRead(c) \/ CommitFails(c) \/ LooksForDigest(c)
           \/ VerifyKnown(c) \/ Verify(c)
           \/ LookUpChanges(c) \/ Select(c) \/ LookUpFull(c) \/ ListAll(c)
           \/ Judge(c) \/ RemapHunk(c) \/ RemapEnds(c)
    PROVE  repo' = repo /\ KeepsOffer(c)
<1>1. call = [d \in Callers |-> call[d]] /\ DOMAIN call[c] = Fields
  BY DEF IInv, CallsGrounded, Grounded
<1>2. CASE CommitRead(c)
  <2>1. repo' = repo /\ \E stage : GoesTo(c, stage)
    BY <1>2 DEF CommitRead
  <2> QED BY <2>1, GoesToKeeps
<1>3. CASE CommitFails(c)
  <2>1. repo' = repo /\ Gives(c, Stale(c, TRUE))
    BY <1>3 DEF CommitFails
  <2> QED BY <2>1, GivesKeeps
<1>4. CASE LooksForDigest(c)
  <2>1. repo' = repo /\ \E answer : Gives(c, answer)
    BY <1>4 DEF LooksForDigest
  <2> QED BY <2>1, GivesKeeps
<1>5. CASE VerifyKnown(c)
  <2>1. repo' = repo /\ (GoesOn(c, verified[call[c].ref]) \/ GoesTo(c, "verifying"))
    BY <1>5 DEF VerifyKnown
  <2> QED BY <2>1, GoesOnKeeps, GoesToKeeps
<1>6. CASE Verify(c)
  <2>1. repo' = repo /\ \E result : GoesOn(c, result)
    BY <1>6 DEF Verify
  <2> QED BY <2>1, GoesOnKeeps
<1>7. CASE LookUpChanges(c)
  <2>1. /\ repo' = repo
        /\ \/ \E listing : Listed(c, listing)
           \/ GoesTo(c, "full")
           \/ call' = [call EXCEPT ![c].stage = "select", ![c].scope = plan]
    BY <1>7 DEF LookUpChanges
  <2>2. CASE call' = [call EXCEPT ![c].stage = "select", ![c].scope = plan]
    <3>1. PICK x : x = [[call[c] EXCEPT !.stage = "select"] EXCEPT !.scope = plan]
      OBVIOUS
    <3>2. call' = [call EXCEPT ![c] = x]
      BY <1>1, <2>2, <3>1
    <3>3. x.ref = call[c].ref /\ x.proposal = call[c].proposal
      BY <1>1, <3>1 DEF Fields
    <3> QED BY <2>1, <3>2, <3>3 DEF KeepsOffer
  <2> QED BY <2>1, <2>2, ListedKeeps, GoesToKeeps
<1>8. CASE Select(c)
  <2>1. repo' = repo /\ \E listing : Listed(c, listing)
    BY <1>8 DEF Select
  <2> QED BY <2>1, ListedKeeps
<1>9. CASE LookUpFull(c)
  <2>1. repo' = repo /\ (Listed(c, full) \/ GoesTo(c, "listing"))
    BY <1>9 DEF LookUpFull
  <2> QED BY <2>1, ListedKeeps, GoesToKeeps
<1>10. CASE ListAll(c)
  <2>1. repo' = repo /\ \E listing : Listed(c, listing)
    BY <1>10 DEF ListAll
  <2> QED BY <2>1, ListedKeeps
<1>11. CASE Judge(c)
  <2>1. /\ repo' = repo
        /\ \/ \E answer : Gives(c, answer)
           \/ call' = [call EXCEPT ![c].stage = "remap", ![c].k = 1, ![c].shift = 0]
    BY Zenon, <1>11 DEF Judge
  <2>2. CASE call' = [call EXCEPT ![c].stage = "remap", ![c].k = 1, ![c].shift = 0]
    <3>1. PICK x : x = [[[call[c] EXCEPT !.stage = "remap"] EXCEPT !.k = 1] EXCEPT !.shift = 0]
      OBVIOUS
    <3>2. call' = [call EXCEPT ![c] = x]
      BY <1>1, <2>2, <3>1
    <3>3. x.ref = call[c].ref /\ x.proposal = call[c].proposal
      BY <1>1, <3>1 DEF Fields
    <3> QED BY <2>1, <3>2, <3>3 DEF KeepsOffer
  <2> QED BY <2>1, <2>2, GivesKeeps
<1>12. CASE RemapHunk(c)
  <2>1. /\ repo' = repo
        /\ \/ \E shift : call' = [call EXCEPT ![c].k = call[c].k + 1, ![c].shift = shift]
           \/ call' = [call EXCEPT ![c].k = call[c].k + 1]
           \/ Gives(c, Stale(c, FALSE))
    BY Zenon, <1>1, <1>12 DEF RemapHunk
  <2>2. ASSUME NEW k, NEW shift, call' = [call EXCEPT ![c].k = k, ![c].shift = shift]
        PROVE  KeepsOffer(c)
    <3>1. PICK x : x = [[call[c] EXCEPT !.k = k] EXCEPT !.shift = shift]
      OBVIOUS
    <3>2. call' = [call EXCEPT ![c] = x]
      BY <1>1, <2>2, <3>1
    <3>3. x.ref = call[c].ref /\ x.proposal = call[c].proposal
      BY <1>1, <3>1 DEF Fields
    <3> QED BY <3>2, <3>3 DEF KeepsOffer
  <2>3. ASSUME NEW k, call' = [call EXCEPT ![c].k = k] PROVE KeepsOffer(c)
    <3>1. PICK x : x = [call[c] EXCEPT !.k = k]
      OBVIOUS
    <3>2. call' = [call EXCEPT ![c] = x]
      BY <1>1, <2>3, <3>1
    <3>3. x.ref = call[c].ref /\ x.proposal = call[c].proposal
      BY <1>1, <3>1 DEF Fields
    <3> QED BY <3>2, <3>3 DEF KeepsOffer
  <2> QED BY Zenon, <2>1, <2>2, <2>3, GivesKeeps
<1>13. CASE RemapEnds(c)
  <2>1. repo' = repo /\ \E answer : Gives(c, answer)
    BY <1>13 DEF RemapEnds
  <2> QED BY <2>1, GivesKeeps
<1> QED BY <1>2, <1>3, <1>4, <1>5, <1>6, <1>7, <1>8, <1>9, <1>10, <1>11, <1>12, <1>13

\* A proposal for a reference that is what it says, from a listing that tells of it.
LEMMA ProposalOffers ==
    ASSUME World, NEW ref \in repo.refs, Sound(ref), ~WholeFile(ref),
           ref.path \in DOMAIN repo.change,
           ~repo.change[ref.path].deleted, ~repo.change[ref.path].binary,
           NEW proposal, proposal = Proposal(repo.change[ref.path], ref, repo.pin[ref.path]),
           proposal.at # None
    PROVE  Proposes(repo.change[ref.path].hunks, ref, repo.head[proposal.at.path],
                    proposal.at, proposal.widened)
<1>1. PICK ch : ch = repo.change[ref.path]
  OBVIOUS
<1>2. PICK old : old = repo.pin[ref.path]
  OBVIOUS
<1>3. PICK new : new = repo.head[ch.to]
  OBVIOUS
<1>4. /\ ref \in References
      /\ ref.path \in DOMAIN repo.pin /\ old \in Seq(Texts)
      /\ Inside(old, ref.start, ref.end)
  BY <1>2, SoundReference
<1>5. ch.to \in DOMAIN repo.head /\ Patch(ch.hunks, old, new)
  BY <1>1, <1>2, <1>3, RepositoriesAssumption DEF World, Comparison
<1>6. new \in Seq(Texts)
  BY <1>3, <1>5, RepositoriesAssumption DEF World
<1>7. ~Refused(ch.hunks, ref, old)
  BY <1>1, <1>2 DEF Proposal, NoProposal
<1>8. /\ proposal.at.path = ch.to
      /\ proposal.at.start = ProposedStart(ch.hunks, ref)
      /\ proposal.at.end = ProposedEnd(ch.hunks, ref)
      /\ proposal.widened = \E k \in Touched(ch.hunks, ref) :
                              \/ Crosses(ch.hunks[k], ref)
                              \/ ch.hunks[k].newCount > ch.hunks[k].oldCount
  BY <1>1, <1>2, <1>7 DEF Proposal
<1>9. Proposes(ch.hunks, ref, new, proposal.at, proposal.widened)
  BY <1>4, <1>5, <1>6, <1>7, <1>8, RangeProposed
<1> QED BY Zenon, <1>1, <1>3, <1>8, <1>9

LEMMA ProposeOffers ==
    ASSUME IInv, CallsOffer, NEW c \in Callers, Propose(c)
    PROVE  CallsOffer'
<1> DEFINE ref == call[c].ref
           listing == call[c].listing
           ch == listing.of[ref.path]
<1>1. repo' = repo /\ call[c].stage = "judge"
  BY DEF Propose
<1>2. /\ call = [d \in Callers |-> call[d]]
      /\ Grounded(call[c]) /\ ref \in repo.refs
  BY <1>1, CallOfReference
<1>3. /\ DOMAIN call[c] = Fields /\ Sound(ref) /\ Tells(listing, {ref.path})
  BY <1>1, <1>2 DEF Grounded
<1>4. PICK proposal :
        proposal = IF listing.err \/ ref.path \notin DOMAIN listing.of \/ ch.deleted \/ ch.binary
                   THEN NoProposal ELSE Proposal(ch, ref, repo.pin[ref.path])
  OBVIOUS
<1>5. PICK x : x = [[call[c] EXCEPT !.stage = "done"] EXCEPT !.proposal = proposal]
  OBVIOUS
<1>6. call' = [call EXCEPT ![c] = x]
  BY Zenon, <1>2, <1>4, <1>5 DEF Propose
<1>7. x.ref = ref /\ x.proposal = proposal
  BY <1>3, <1>5 DEF Fields
<1>8. Offers(x)
  <2> SUFFICES ASSUME proposal.at # None, ~WholeFile(ref)
               PROVE  Proposes(repo.change[ref.path].hunks, ref, repo.head[proposal.at.path],
                               proposal.at, proposal.widened)
    BY <1>7 DEF Offers
  <2>1. /\ ~listing.err /\ ref.path \in DOMAIN listing.of /\ ~ch.deleted /\ ~ch.binary
        /\ proposal = Proposal(ch, ref, repo.pin[ref.path])
    BY <1>4 DEF NoProposal
  <2>2. ref.path \in DOMAIN repo.pin
    BY <1>2, <1>3, SoundReference DEF IInv
  <2>3. ref.path \in DOMAIN repo.change /\ ch = repo.change[ref.path]
    BY Zenon, <1>3, <2>1, <2>2 DEF Tells
  <2> QED BY Zenon, <1>2, <1>3, <2>1, <2>3, ProposalOffers DEF IInv
<1> QED BY <1>1, <1>6, <1>8, ReplacedOffers

LEMMA NextOffers == ASSUME IInv, CallsOffer, [Next]_vars PROVE CallsOffer'
<1>1. budget.callers \subseteq Callers
  BY BudgetsAssumption DEF IInv, World
<1>2. ASSUME repo' = repo, call' = call PROVE CallsOffer'
  BY <1>2 DEF CallsOffer, Offers
<1>3. ASSUME NEW c \in Callers, NEW x, repo' = repo, call' = [call EXCEPT ![c] = x],
             x.proposal = NoProposal
      PROVE  CallsOffer'
  <2>1. Offers(x)
    BY <1>3 DEF Offers, NoProposal
  <2> QED BY <1>3, <2>1, ReplacedOffers
<1>4. CASE Fetch
  BY <1>2, <1>4 DEF Fetch
<1>5. ASSUME NEW refs, Prepare(refs) PROVE CallsOffer'
  BY <1>2, <1>5 DEF Prepare
<1>6. ASSUME NEW c \in budget.callers, NEW op, NEW ref, NEW view, Ask(c, op, ref, view)
      PROVE  CallsOffer'
  <2>1. PICK x : x = [NoCall EXCEPT !.stage = "exists", !.op = op, !.pass = "resolve",
                                    !.ref = ref, !.view = view]
    OBVIOUS
  <2>2. x.proposal = NoProposal
    BY <2>1 DEF NoCall
  <2>3. repo' = repo /\ call' = [call EXCEPT ![c] = x]
    BY <1>6, <2>1 DEF Ask, Asks
  <2> QED BY <1>1, <1>3, <2>2, <2>3
<1>7. ASSUME NEW c \in budget.callers, Warm(c) PROVE CallsOffer'
  <2>1. PICK x : x = [NoCall EXCEPT !.stage = "exists", !.op = "warm", !.pass = "warm",
                                    !.ref = sample, !.view = "head"]
    OBVIOUS
  <2>2. x.proposal = NoProposal
    BY <2>1 DEF NoCall
  <2>3. repo' = repo /\ call' = [call EXCEPT ![c] = x]
    BY <1>7, <2>1 DEF Warm, Asks
  <2> QED BY <1>1, <1>3, <2>2, <2>3
<1>8. ASSUME NEW c \in budget.callers, Return(c) PROVE CallsOffer'
  <2>1. repo' = repo /\ call' = [call EXCEPT ![c] = NoCall] /\ NoCall.proposal = NoProposal
    BY <1>8 DEF Return, NoCall
  <2> QED BY <1>1, <1>3, <2>1
<1>9. ASSUME NEW c \in budget.callers,
             \/ CommitRead(c) \/ CommitFails(c) \/ LooksForDigest(c)
             \/ VerifyKnown(c) \/ Verify(c)
             \/ LookUpChanges(c) \/ Select(c) \/ LookUpFull(c) \/ ListAll(c)
             \/ Judge(c) \/ RemapHunk(c) \/ RemapEnds(c)
      PROVE  CallsOffer'
  <2>1. c \in Callers
    BY <1>1
  <2>2. repo' = repo /\ KeepsOffer(c)
    BY <1>9, <2>1, StepsKeep
  <2> QED BY <2>1, <2>2, KeptOffers
<1>10. ASSUME NEW c \in budget.callers, Propose(c) PROVE CallsOffer'
  BY <1>1, <1>10, ProposeOffers
<1>11. CASE UNCHANGED vars
  BY <1>2, <1>11 DEF vars
<1> QED BY <1>4, <1>5, <1>6, <1>7, <1>8, <1>9, <1>10, <1>11 DEF Next

\* A proposal for lines is all of what became of the range it stands for and nothing
\* else, wherever Git's hunks lie and however many there are, within the new file,
\* and it is called widened if it is longer than the range was.
THEOREM ProposalsHold ==
    ASSUME OldHeaders = {}, NewHeaders = {}
    PROVE  Spec => []ProposalHolds
<1>1. Init => CallsOffer
  BY DEF Init, CallsOffer, Offers, NoCall, NoProposal
<1>2. IInv /\ CallsOffer /\ [Next]_vars => CallsOffer'
  BY NextOffers
<1>3. CallsOffer => ProposalHolds
  BY DEF CallsOffer, Offers, Proposes, ProposalHolds
<1> QED BY <1>1, <1>2, <1>3, ResolverInvariant, PTL DEF Spec
=============================================================================
