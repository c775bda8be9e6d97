-------------------------- MODULE RequirementsProofs --------------------------
(***************************************************************************)
(* The packages and the relations of internal/requirements, in any number  *)
(* of clones, with any budget: the revisions and events of a package are   *)
(* histories; a relation goes out of force for a replacement that is there;*)
(* merges can break three rules of what a load demands, and calls none.    *)
(***************************************************************************)
EXTENDS Requirements, Integers, FiniteSetTheorems, SequenceTheorems, WellFoundedInduction, TLAPS

-----------------------------------------------------------------------------
(* The relations.                                                          *)

Fields == {"id", "type", "from", "to", "pins", "made", "ended", "how"}
IsLink(l) ==
    /\ DOMAIN l = Fields
    /\ l.id = [n |-> l.id.n, to |-> l.id.to] /\ l.id.to \in Seq(Stories)
    /\ l.id.n \in Nat /\ l.made \in Nat /\ l.ended \in Nat

\* Whatever clones hold: a name is of one relation in a clone; relations made of
\* one another are of one type; of one relation there are in all clones the file
\* as it was made and the files it was superseded with, each at another time.
LinksKnown ==
    /\ last \in Nat
    /\ links = [c \in Clones |-> links[c]]
    /\ \A c \in Clones : \A l \in links[c] :
        IsLink(l) /\ l.id.n <= last /\ l.made <= last /\ l.ended <= last
LinksNamed ==
    /\ \A c, d \in Clones : \A l \in links[c], m \in links[d] : l.id.n = m.id.n => l.type = m.type
    /\ \A c, d \in Clones : \A l \in links[c], m \in links[d] :
        l.id = m.id /\ l.made = m.made /\ l.ended = m.ended => l = m
    /\ \A c \in Clones : \A l, m \in links[c] : l.id = m.id => l = m

LInv == LinksKnown /\ LinksNamed /\ LinksKept

\* m replaces l.
Replaces(m, l) ==
    m.type = l.type /\ m.id.n = l.id.n /\ \E canonical \in Stories : m.id.to = Append(l.id.to, canonical)

\* done is how the relations of gone, of this clone, are superseded.
Closes(done, gone, new) ==
    /\ \A m \in done : \E l \in gone :
        /\ IsLink(m) /\ m.id = l.id /\ m.type = l.type /\ m.made = l.made /\ m.ended = last + 1
        /\ m.how = "replaced" => \E k \in new : Replaces(k, l)
    /\ \A l \in gone : \E m \in done : m.id = l.id /\ m.type = l.type
    /\ \A l, m \in done : l.id = m.id => l = m

\* new has relations with names of their own, or made of one the clone has.
Opens(new, L) ==
    /\ \A m \in new : IsLink(m) /\ m.made = last + 1 /\ m.ended = 0 /\ m.how # "replaced"
    /\ \A m \in new, l \in L : m.id # l.id
    /\ \A m \in new : \/ m.id.n = last + 1 /\ new = {m}
                      \/ \E l \in L : m.id.n = l.id.n /\ m.type = l.type
    /\ \A l, m \in new : l.id = m.id => l = m

LEMMA SupersededLink ==
    ASSUME NEW l, IsLink(l), last \in Nat, NEW how
    PROVE  LET m == Superseded(l, how) IN
           /\ IsLink(m) /\ m.id = l.id /\ m.type = l.type /\ m.from = l.from /\ m.to = l.to
           /\ m.pins = l.pins /\ m.made = l.made /\ m.ended = last + 1 /\ m.how = how
<1> DEFINE m == Superseded(l, how)
<1>1. /\ m.id = l.id /\ m.type = l.type /\ m.from = l.from /\ m.to = l.to
      /\ m.pins = l.pins /\ m.made = l.made /\ m.ended = last + 1 /\ m.how = how
      /\ DOMAIN m = Fields
    BY DEF IsLink, Superseded, Fields
<1> HIDE DEF m
<1>2. IsLink(m)
    BY <1>1 DEF IsLink
<1> QED BY <1>1, <1>2 DEF m

\* What a call does to the relations of a clone: some are superseded, others are
\* new, each with a name of its own, or made of one the clone has.
LEMMA LinksWritten ==
    ASSUME LInv, NEW c \in Clones, last' = last + 1,
           NEW gone \in SUBSET links[c], NEW new, NEW done,
           links' = [links EXCEPT ![c] = (@ \ gone) \cup new \cup done],
           Opens(new, links[c]), Closes(done, gone, new)
    PROVE  LInv'
<1> DEFINE K == (links[c] \ gone) \cup new \cup done
<1>1. \A d \in Clones : links'[d] = IF d = c THEN K ELSE links[d]
    BY DEF LInv, LinksKnown
<1>2. \A m \in done : \E l \in gone :
        /\ IsLink(m) /\ m.id = l.id /\ m.type = l.type /\ m.made = l.made
        /\ m.ended = last + 1
    BY DEF Closes
<1>3. \A l \in gone : \E m \in done : m.id = l.id /\ m.type = l.type
    BY DEF Closes
<1>4. \A d \in Clones : \A l \in links[d] :
        /\ IsLink(l) /\ l.id.n <= last /\ l.made <= last /\ l.ended <= last
        /\ l.id.n \in Nat /\ l.made \in Nat /\ l.ended \in Nat /\ last \in Nat
    BY DEF LInv, LinksKnown, IsLink
\* What a relation of the clone comes from.
<1>5. \A m \in K :
        \/ m \in links[c] /\ m \notin gone
        \/ m \in new
        \/ \E l \in gone : /\ m.id = l.id /\ m.type = l.type /\ m.made = l.made
                           /\ m.ended = last + 1 /\ m \in done
    BY <1>2
<1>6. LinksKnown'
  <2>1. \A m \in new : m.id.n <= last + 1
    <3> TAKE m \in new
    <3>1. m.id.n = last + 1 \/ \E l \in links[c] : m.id.n = l.id.n
        BY DEF Opens
    <3>2. last \in Nat
        BY DEF LInv, LinksKnown
    <3> QED BY <1>4, <3>1, <3>2
  <2>2. \A m \in K : IsLink(m) /\ m.id.n <= last + 1 /\ m.made <= last + 1 /\ m.ended <= last + 1
    <3> TAKE m \in K
    <3>1. CASE m \in links[c]
        BY <1>4, <3>1
    <3>2. CASE m \in new
      <4>1. last \in Nat
          BY DEF LInv, LinksKnown
      <4>2. IsLink(m) /\ m.made = last + 1 /\ m.ended = 0
          BY <3>2 DEF Opens
      <4> QED BY <2>1, <3>2, <4>1, <4>2
    <3>3. CASE m \in done
        BY <1>2, <1>4, <3>3
    <3> QED BY <3>1, <3>2, <3>3
  <2>3. links' = [d \in Clones |-> links'[d]]
      BY DEF LInv, LinksKnown
  <2>4. \A d \in Clones : \A l \in links'[d] :
            IsLink(l) /\ l.id.n <= last + 1 /\ l.made <= last + 1 /\ l.ended <= last + 1
    <3> TAKE d \in Clones
    <3> TAKE l \in links'[d]
    <3>1. CASE d = c
        BY <1>1, <2>2, <3>1
    <3>2. CASE d # c
        BY <1>1, <1>4, <3>2
    <3> QED BY <3>1, <3>2
  <2>5. last + 1 \in Nat
      BY DEF LInv, LinksKnown
  <2> QED BY <2>3, <2>4, <2>5 DEF LinksKnown
\* The type of a relation, by what all clones held or by the new number.
<1>7. ASSUME NEW d \in Clones, NEW e \in Clones, NEW l \in links'[d], NEW m \in links'[e],
             l.id.n = m.id.n
      PROVE  l.type = m.type
  <2>1. \A x \in Clones : \A y \in links'[x] :
            \/ \E z \in Clones : \E k \in links[z] : y.id.n = k.id.n /\ y.type = k.type
            \/ y.id.n = last + 1 /\ new = {y} /\ y \in new
    <3> TAKE x \in Clones
    <3> TAKE y \in links'[x]
    <3>1. CASE y \in links[x]
        BY <3>1
    <3>2. CASE y \notin links[x]
      <4>1. x = c /\ y \in K
          BY <1>1, <3>2
      <4>2. CASE y \in new
        <5>1. \/ y.id.n = last + 1 /\ new = {y}
              \/ \E g \in links[c] : y.id.n = g.id.n /\ y.type = g.type
            BY <4>2 DEF Opens
        <5> QED BY <4>2, <5>1
      <4>3. CASE y \notin new
        <5>1. PICK g \in gone : y.id = g.id /\ y.type = g.type
            BY <1>5, <3>2, <4>1, <4>3
        <5> QED BY <5>1
      <4> QED BY <4>2, <4>3
    <3> QED BY <3>1, <3>2
  <2>2. \A z \in Clones : \A k \in links[z] : k.id.n # last + 1
      BY <1>4
  <2> QED BY <1>7, <2>1, <2>2 DEF LInv, LinksNamed
<1>8. \A l, m \in K : l.id = m.id => l = m
  <2> TAKE l \in K, m \in K
  <2> SUFFICES ASSUME l.id = m.id PROVE l = m
      OBVIOUS
  <2>1. \A x, y \in links[c] : x.id = y.id => x = y
      BY DEF LInv, LinksNamed
  <2>2. \A x, y \in done : x.id = y.id => x = y
      BY DEF Closes
  <2>3. \A x \in new, y \in links[c] : x.id # y.id
      BY DEF Opens
  <2>4. \A y \in done : \E x \in gone : x.id = y.id
      BY <1>2
  <2>5. CASE l \in new \/ m \in new
      BY <2>3, <2>4, <2>5 DEF Opens
  <2>6. CASE l \in done /\ m \in done
      BY <2>2, <2>6
  <2>7. CASE l \in links[c] \ gone /\ m \in done
      BY <2>1, <2>4, <2>7
  <2>8. CASE m \in links[c] \ gone /\ l \in done
      BY <2>1, <2>4, <2>8
  <2>9. CASE l \in links[c] \ gone /\ m \in links[c] \ gone
      BY <2>1, <2>9
  <2> QED BY <2>5, <2>6, <2>7, <2>8, <2>9
<1>9. ASSUME NEW d \in Clones, NEW e \in Clones, NEW l \in links'[d], NEW m \in links'[e],
             l.id = m.id, l.made = m.made, l.ended = m.ended
      PROVE  l = m
  <2>1. \A x \in Clones : \A y \in links'[x] :
            \/ y \in links[x]
            \/ x = c /\ y \in K /\ (y.ended = last + 1 \/ y.made = last + 1)
    <3> TAKE x \in Clones
    <3> TAKE y \in links'[x]
    <3> SUFFICES ASSUME y \notin links[x] PROVE x = c /\ y \in K /\ (y.ended = last + 1 \/ y.made = last + 1)
        OBVIOUS
    <3>1. x = c /\ y \in K
        BY <1>1
    <3> QED BY <1>5, <3>1 DEF Opens
  <2>2. \A z \in Clones : \A k \in links[z] : k.made # last + 1 /\ k.ended # last + 1
      BY <1>4
  <2>3. CASE l \in links[d] /\ m \in links[e]
      BY <1>9, <2>3 DEF LInv, LinksNamed
  <2>4. CASE ~(l \in links[d] /\ m \in links[e])
    <3>1. d = c /\ l \in K /\ e = c /\ m \in K
        BY <1>9, <2>1, <2>2, <2>4
    <3> QED BY <1>8, <1>9, <3>1
  <2> QED BY <2>3, <2>4
<1>10. LinksNamed'
  <2>1. \A d \in Clones : \A l, m \in links'[d] : l.id = m.id => l = m
    <3> TAKE d \in Clones
    <3>1. CASE d = c
        BY <1>1, <1>8, <3>1
    <3>2. CASE d # c
        BY <1>1, <3>2 DEF LInv, LinksNamed
    <3> QED BY <3>1, <3>2
  <2> QED BY <1>7, <1>9, <2>1 DEF LinksNamed
<1>11. LinksKept'
  <2> SUFFICES ASSUME NEW d \in Clones, NEW l \in links'[d], l.how = "replaced"
               PROVE  \E m \in links'[d] : Replaces(m, l)
      BY DEF LinksKept, Replaces
  <2>0. l.how = "replaced"
      OBVIOUS
  <2>1. \A z \in Clones : \A k \in links[z] : k.how = "replaced" => \E m \in links[z] : Replaces(m, k)
      BY DEF LInv, LinksKept, Replaces
  <2>2. CASE d # c
      BY <1>1, <2>1, <2>2
  <2>3. ASSUME d = c, l \in links[c]
        PROVE  \E m \in links'[d] : Replaces(m, l)
    <3>1. PICK k \in links[c] : Replaces(k, l)
        BY <2>1, <2>3
    <3>2. CASE k \in gone
      <4>1. PICK m \in done : m.id = k.id /\ m.type = k.type
          BY <1>3, <3>2
      <4>2. Replaces(m, l)
          BY <3>1, <4>1 DEF Replaces
      <4> QED BY <1>1, <2>3, <4>2
    <3>3. CASE k \notin gone
        BY <1>1, <2>3, <3>1, <3>3
    <3> QED BY <3>2, <3>3
  <2>4. ASSUME d = c, l \notin links[c]
        PROVE  \E m \in links'[d] : Replaces(m, l)
    <3>1. l \in K
        BY <1>1, <2>4
    <3>2. l \notin new
        BY <2>0 DEF Opens
    <3>3. l \in done
        BY <2>4, <3>1, <3>2
    <3>4. PICK k \in gone, m \in new : l.id = k.id /\ l.type = k.type /\ Replaces(m, k)
        BY <2>0, <3>3 DEF Closes
    <3>5. Replaces(m, l)
        BY <3>4 DEF Replaces
    <3> QED BY <1>1, <2>4, <3>5
  <2> QED BY <2>2, <2>3, <2>4
<1> QED BY <1>6, <1>10, <1>11 DEF LInv
-----------------------------------------------------------------------------
(* The calls, seen by the records.                                         *)

Kinds == {"revision", "event"}

RInv ==
    /\ last \in 0..MaxRecords
    /\ "of" \in DOMAIN left
    /\ records = [c \in Clones |-> records[c]]
    /\ \A c \in Clones : \A r \in records[c] :
        r.id \in 1..last /\ r.kind \in Kinds /\ \A x \in r.says : x[1] \in Criteria
    /\ \A c \in Clones, owner \in Owners :
        Has(records[c], owner) \/ Events(records[c], owner) = {}

\* A package appears in a clone that has none of this owner.
Adds(c) == \E owner \in Owners : \E says \in Contents(owner), state \in First(owner) :
    ~Has(records[c], owner) /\ Puts(c, Package(owner, last + 1, says, state))

\* n is written over every head of its kind, into a clone that loads with it.
Succeeds(c, n) ==
    LET S == Of(records[c], n.owner, n.kind) IN
    /\ n.owner \in Owners /\ n.kind \in Kinds /\ Has(records[c], n.owner)
    /\ n.id = last + 1 /\ n.parents = Heads(S) /\ n.past = Ancestors(S, n.parents)
    /\ \A x \in n.says : x[1] \in Criteria
    /\ PackagesLoad(records[c] \cup {n})
    /\ Puts(c, {n})

Call(c) ==
    /\ Dated(last + 1) /\ "of" \in DOMAIN left' /\ left'.of = left.of
    /\ Adds(c) \/ (\E n : Succeeds(c, n)) \/ UNCHANGED records

\* What a call spends of the budget is not the packages it names.
LEMMA Spent ==
    ASSUME RInv, NEW what, Spend(what), what # "of"
    PROVE  "of" \in DOMAIN left' /\ left'.of = left.of
BY DEF RInv, Spend

LEMMA SuccessorOf ==
    ASSUME NEW c, NEW owner, NEW kind, NEW parents, NEW says, NEW state
    PROVE  /\ LET r == [Successor(c, owner, kind, parents) EXCEPT !.says = says] IN
              /\ r.says = says
              /\ r.owner = owner /\ r.kind = kind /\ r.id = last + 1 /\ r.parents = parents
              /\ r.past = Ancestors(Of(records[c], owner, kind), parents)
           /\ LET r == [Successor(c, owner, kind, parents) EXCEPT !.state = state] IN
              /\ r.says = {}
              /\ r.owner = owner /\ r.kind = kind /\ r.id = last + 1 /\ r.parents = parents
              /\ r.past = Ancestors(Of(records[c], owner, kind), parents)
BY DEF Successor, Blank

LEMMA AddCall ==
    ASSUME RInv, NEW c \in Clones, NEW owner \in Owners, Add(c, owner)
    PROVE  Call(c)
<1>1. "of" \in DOMAIN left' /\ left'.of = left.of
    BY Spent DEF Add
<1>2. Adds(c)
    BY DEF Add, Adds
<1> QED BY <1>1, <1>2 DEF Add, Call

LEMMA ContentsKnown ==
    ASSUME NEW owner, NEW says \in Contents(owner), NEW x \in says
    PROVE  x[1] \in Criteria
BY DEF Contents

LEMMA ReviseCall ==
    ASSUME RInv, NEW c \in Clones, NEW owner \in Owners, Revise(c, owner)
    PROVE  Call(c)
<1>1. "of" \in DOMAIN left' /\ left'.of = left.of
    BY Spent DEF Revise
<1>2. PICK parents \in Seen(c, owner, "revision") :
        /\ NamesEveryHead(c, owner, "revision", parents)
        /\ \E new \in Valid(c, {{[Successor(c, owner, "revision", parents) EXCEPT !.says = says]} :
                                says \in Contents(owner)}) : Puts(c, new)
    BY DEF Revise
<1>3. PICK says \in Contents(owner) :
        LET n == [Successor(c, owner, "revision", parents) EXCEPT !.says = says] IN
        PackagesLoad(records[c] \cup {n}) /\ Puts(c, {n})
    BY <1>2 DEF Valid
<1> DEFINE n == [Successor(c, owner, "revision", parents) EXCEPT !.says = says]
<1>4. /\ n.owner = owner /\ n.kind = "revision" /\ n.id = last + 1 /\ n.parents = parents /\ n.says = says
      /\ n.past = Ancestors(Of(records[c], owner, "revision"), parents)
    BY SuccessorOf
<1>5. PackagesLoad(records[c] \cup {n}) /\ Puts(c, {n})
    BY <1>3
<1> HIDE DEF n
<1>6. \A x \in says : x[1] \in Criteria
    BY ContentsKnown
<1>7. Succeeds(c, n)
    BY <1>2, <1>4, <1>5, <1>6 DEF Succeeds, NamesEveryHead, Kinds, Revise
<1> QED BY <1>1, <1>7 DEF Revise, Call

LEMMA SetStateCall ==
    ASSUME RInv, NEW c \in Clones, NEW owner \in Owners, SetState(c, owner)
    PROVE  Call(c)
<1>1. "of" \in DOMAIN left' /\ left'.of = left.of
    BY Spent DEF SetState
<1>2. PICK parents \in Seen(c, owner, "event") :
        /\ NamesEveryHead(c, owner, "event", parents)
        /\ \E new \in Valid(c, {{[Successor(c, owner, "event", parents) EXCEPT !.state = state]} :
                                state \in States(owner)}) : Puts(c, new)
    BY DEF SetState
<1>3. PICK state \in States(owner) :
        LET n == [Successor(c, owner, "event", parents) EXCEPT !.state = state] IN
        PackagesLoad(records[c] \cup {n}) /\ Puts(c, {n})
    BY <1>2 DEF Valid
<1> DEFINE n == [Successor(c, owner, "event", parents) EXCEPT !.state = state]
<1>4. /\ n.owner = owner /\ n.kind = "event" /\ n.id = last + 1 /\ n.parents = parents /\ n.says = {}
      /\ n.past = Ancestors(Of(records[c], owner, "event"), parents)
    BY SuccessorOf
<1>5. PackagesLoad(records[c] \cup {n}) /\ Puts(c, {n})
    BY <1>3
<1> HIDE DEF n
<1>6. Succeeds(c, n)
    BY <1>2, <1>4, <1>5 DEF Succeeds, NamesEveryHead, Kinds, SetState
<1> QED BY <1>1, <1>6 DEF SetState, Call

LEMMA EditedKnown ==
    ASSUME NEW R, R # {}, Settled(R), \A r \in R : \A x \in r.says : x[1] \in Criteria,
           NEW says \in Edited(R), NEW x \in says
    PROVE  x[1] \in Criteria
<1>1. \A y \in Current(R).says : y[1] \in Criteria
  <2>1. \E r \in R : r.id \in Heads(R)
    <3>1. Heads(R) # {}
        BY FS_EmptySet DEF Settled
    <3> QED BY <3>1 DEF Heads, Names
  <2>2. Current(R) \in R
      BY <2>1 DEF Current
  <2> QED BY <2>2
<1> QED BY <1>1 DEF Edited

LEMMA MutateCriterionCall ==
    ASSUME RInv, NEW c \in Clones, NEW s \in Stories, MutateCriterion(c, s)
    PROVE  Call(c)
<1> DEFINE R == Revisions(records[c], s)
<1>1. "of" \in DOMAIN left' /\ left'.of = left.of
    BY Spent DEF MutateCriterion
<1>2. PICK says \in Edited(R) :
        LET n == [Successor(c, s, "revision", Heads(R)) EXCEPT !.says = says] IN
        PackagesLoad(records[c] \cup {n}) /\ Puts(c, {n})
    BY DEF MutateCriterion, Valid
<1> DEFINE n == [Successor(c, s, "revision", Heads(R)) EXCEPT !.says = says]
<1>3. /\ n.owner = s /\ n.kind = "revision" /\ n.id = last + 1 /\ n.parents = Heads(R) /\ n.says = says
      /\ n.past = Ancestors(Of(records[c], s, "revision"), Heads(R))
    BY SuccessorOf
<1>4. PackagesLoad(records[c] \cup {n}) /\ Puts(c, {n})
    BY <1>2
<1> HIDE DEF n
<1>5. Has(records[c], s) /\ s \in Owners
    BY DEF MutateCriterion, Has, Owners
<1>6. \A x \in says : x[1] \in Criteria
  <2>1. \A r \in R : r \in records[c]
      BY DEF Revisions, Of
  <2>2. R # {} /\ Settled(R)
      BY DEF MutateCriterion
  <2> HIDE DEF R
  <2> QED BY <1>2, <2>1, <2>2, EditedKnown DEF RInv
<1>7. Succeeds(c, n)
    BY <1>3, <1>4, <1>5, <1>6 DEF Succeeds, Kinds, Revisions
<1> QED BY <1>1, <1>7 DEF MutateCriterion, Call

LEMMA RelationCall ==
    ASSUME RInv, NEW c \in Clones, AddRelation(c) \/ SupersedeRelation(c)
    PROVE  Call(c)
<1>1. "of" \in DOMAIN left' /\ left'.of = left.of
  <2>1. Spend("link") \/ Spend("end")
      BY DEF AddRelation, SupersedeRelation
  <2> QED BY <2>1, Spent
<1> QED BY <1>1 DEF AddRelation, SupersedeRelation, Call

\* How far a consolidation got.
Extents(old) == [new : SUBSET old, ended : SUBSET old, event : BOOLEAN, litter : BOOLEAN]

LEMMA CutOff ==
    ASSUME NEW old, NEW cut \in Cuts(old)
    PROVE  cut \in Extents(old) /\ cut.ended \subseteq cut.new
<1>1. ASSUME NEW rest \in BOOLEAN, cut = Cut(old, old, TRUE, rest)
      PROVE  cut \in Extents(old) /\ cut.ended \subseteq cut.new
    BY <1>1 DEF Extents, Cut
<1>2. ASSUME NEW done \in SUBSET old, NEW half \in SUBSET old, cut = Cut(done \cup half, done, FALSE, TRUE)
      PROVE  cut \in Extents(old) /\ cut.ended \subseteq cut.new
    BY <1>2 DEF Extents, Cut
<1>3. ASSUME NEW done \in SUBSET old, NEW half \in {{}} \cup {{l} : l \in old},
             cut = Cut(done \cup half, done, FALSE, TRUE)
      PROVE  cut \in Extents(old) /\ cut.ended \subseteq cut.new
  <2>1. half \in SUBSET old
      OBVIOUS
  <2> QED BY <1>2, <1>3, <2>1
<1> DEFINE halves == {{}} \cup {{l} : l \in old}
<1>4. \/ cut \in {[new |-> done \cup half, ended |-> done, event |-> FALSE, litter |-> TRUE] :
                     done \in SUBSET old, half \in halves}
      \/ cut \in {[new |-> old, ended |-> old, event |-> TRUE, litter |-> rest] : rest \in BOOLEAN}
    BY DEF Cuts, Cut
<1> HIDE DEF halves
<1>5. \/ \E rest \in BOOLEAN : cut = [new |-> old, ended |-> old, event |-> TRUE, litter |-> rest]
      \/ \E done \in SUBSET old, half \in halves :
            cut = [new |-> done \cup half, ended |-> done, event |-> FALSE, litter |-> TRUE]
    BY <1>4
<1> QED BY <1>1, <1>3, <1>5 DEF halves, Cut

\* What a consolidation writes: relations in place of others, those that were
\* superseded without the replacement being there marked, and the event or not.
Written(c, plan, decision, cut, unrestored) ==
    /\ records' = [records EXCEPT ![c] = @ \cup {decision : x \in {y \in {1} : cut.event}}]
    /\ links' = [links EXCEPT ![c] = (@ \ cut.ended) \cup {plan.new[l] : l \in cut.new}
          \cup {Superseded(l, IF l \in unrestored THEN "unrestored" ELSE "replaced") : l \in cut.ended}]
Consolidates(c, plan, decision) ==
    /\ Decides(c, records[c], links[c], plan, decision)
    /\ \E cut \in Extents(plan.old), unrestored \in SUBSET plan.old :
        cut.ended \ unrestored \subseteq cut.new /\ Written(c, plan, decision, cut, unrestored)

Plan(c, dup, canonical, map) == Prepared(records[c], links[c], dup, canonical, map)
Decision(c, dup, canonical, map) ==
    [Successor(c, dup, "event", Heads(Events(records[c], dup))) EXCEPT
        !.state = Plan(c, dup, canonical, map).state]

LEMMA ConsolidateWrites ==
    ASSUME NEW c \in Clones, NEW dup \in Stories, NEW canonical \in Stories,
           ConsolidateProposal(c, dup, canonical)
    PROVE  \E map \in CriterionMaps(records[c], dup, canonical) :
                Consolidates(c, Plan(c, dup, canonical, map), Decision(c, dup, canonical, map))
<1> DEFINE S == records[c]
           plan(map) == Plan(c, dup, canonical, map)
           decision(map) == Decision(c, dup, canonical, map)
           write(map, cut, unrestored) == Written(c, plan(map), decision(map), cut, unrestored)
<1>1. PICK map \in CriterionMaps(S, dup, canonical) :
        /\ Decides(c, S, links[c], plan(map), decision(map)) = TRUE
        /\ \/ \E cut \in Cuts(plan(map).old) : write(map, cut, {})
           \/ \E cut \in Remains(plan(map).old) : write(map, cut, cut.ended \ cut.new)
    BY DEF ConsolidateProposal, Written, Plan, Decision
<1> HIDE DEF write, plan, decision
<1>2. \A cut \in Cuts(plan(map).old) :
        cut \in Extents(plan(map).old) /\ cut.ended \subseteq cut.new
    BY CutOff
<1>3. \A cut \in Remains(plan(map).old) :
        cut \in Extents(plan(map).old) /\ cut.ended \ cut.new \in SUBSET plan(map).old
        /\ cut.ended \ (cut.ended \ cut.new) \subseteq cut.new
    BY DEF Remains, Cut, Extents
<1>4. \E cut \in Extents(plan(map).old), unrestored \in SUBSET plan(map).old :
        cut.ended \ unrestored \subseteq cut.new /\ write(map, cut, unrestored)
  <2>1. CASE \E cut \in Cuts(plan(map).old) : write(map, cut, {})
    <3>1. PICK cut \in Cuts(plan(map).old) : write(map, cut, {})
        BY <2>1
    <3>2. cut \in Extents(plan(map).old) /\ cut.ended \ {} \subseteq cut.new /\ {} \in SUBSET plan(map).old
        BY <1>2
    <3> QED BY <3>1, <3>2
  <2>2. CASE \E cut \in Remains(plan(map).old) : write(map, cut, cut.ended \ cut.new)
    <3>1. PICK cut \in Remains(plan(map).old) : write(map, cut, cut.ended \ cut.new)
        BY <2>2
    <3> QED BY <1>3, <3>1
  <2> QED BY <1>1, <2>1, <2>2
<1>5. Decides(c, S, links[c], plan(map), decision(map))
    BY <1>1
<1> QED BY <1>4, <1>5 DEF write, plan, decision, Consolidates

LEMMA ConsolidateCall ==
    ASSUME RInv, NEW c \in Clones, NEW dup \in Stories, NEW canonical \in Stories,
           ConsolidateProposal(c, dup, canonical)
    PROVE  Call(c)
<1>1. PICK map : Consolidates(c, Plan(c, dup, canonical, map), Decision(c, dup, canonical, map))
    BY ConsolidateWrites
<1> DEFINE n == Decision(c, dup, canonical, map)
           old == Plan(c, dup, canonical, map).old
<1>2. /\ n.owner = dup /\ n.kind = "event" /\ n.id = last + 1
      /\ n.parents = Heads(Events(records[c], dup)) /\ n.says = {}
      /\ n.past = Ancestors(Of(records[c], dup, "event"), Heads(Events(records[c], dup)))
    BY SuccessorOf DEF Decision
<1> HIDE DEF n
<1>3. PackagesLoad(records[c] \cup {n})
  <2>1. Valid(c, {{n}}) # {}
      BY <1>1 DEF Consolidates, Decides, n
  <2> QED BY <2>1 DEF Valid
<1>4. Puts(c, {n}) \/ UNCHANGED records
  <2>1. PICK cut \in Extents(old) :
            records' = [records EXCEPT ![c] = @ \cup {n : x \in {y \in {1} : cut.event}}]
      BY <1>1 DEF Consolidates, Written, n
  <2>2. CASE cut.event
    <3>1. {n : x \in {y \in {1} : cut.event}} = {n}
        BY <2>2
    <3> QED BY <2>1, <3>1 DEF Puts
  <2>3. CASE ~cut.event
    <3>1. {n : x \in {y \in {1} : cut.event}} = {}
        BY <2>3
    <3> QED BY <2>1, <3>1 DEF RInv
  <2> QED BY <2>2, <2>3
<1>5. "of" \in DOMAIN left' /\ left'.of = left.of
    BY DEF ConsolidateProposal, RInv
<1>6. Has(records[c], dup) /\ dup \in Owners /\ Dated(last + 1)
    BY DEF ConsolidateProposal, Owners
<1>7. Puts(c, {n}) => Succeeds(c, n)
    BY <1>2, <1>3, <1>6 DEF Succeeds, Kinds, Events
<1> QED BY <1>4, <1>5, <1>6, <1>7 DEF Call

\* Next is a call in a clone, or a merge, or neither writes nor loses a record.
LEMMA Steps ==
    ASSUME RInv, Next
    PROVE  \/ \E c \in Clones : Call(c)
           \/ \E c, d \in Clones : Merge(c, d)
           \/ UNCHANGED <<records, links, last, left>>
<1>1. ASSUME NEW c \in Clones, NEW s \in Stories,
             AddStory(c, s) \/ ReviseStory(c, s) \/ MutateCriterion(c, s) \/ SetStoryState(c, s)
      PROVE  Call(c)
  <2>1. s \in Owners
      BY DEF Owners
  <2> QED BY <1>1, <2>1, AddCall, ReviseCall, SetStateCall, MutateCriterionCall
          DEF AddStory, ReviseStory, SetStoryState
<1>2. ASSUME NEW c \in Clones, NEW owner \in {"persona", "flag", "term", "deprecation"},
             Add(c, owner) \/ Revise(c, owner) \/ SetState(c, owner)
      PROVE  Call(c)
  <2>1. owner \in Owners
      BY DEF Owners
  <2> QED BY <1>2, <2>1, AddCall, ReviseCall, SetStateCall
<1>3. ASSUME NEW c \in Clones,
             \/ AddPersona(c) \/ RevisePersona(c) \/ SetPersonaState(c)
             \/ AddFlag(c) \/ ReviseFlag(c) \/ SetFlagState(c)
             \/ AddTerm(c) \/ ReviseTerm(c) \/ SetTermState(c)
             \/ AddDeprecation(c) \/ ReviseDeprecation(c) \/ SetDeprecationState(c)
      PROVE  Call(c)
    BY <1>2, <1>3 DEF AddPersona, RevisePersona, SetPersonaState, AddFlag, ReviseFlag, SetFlagState,
        AddTerm, ReviseTerm, SetTermState, AddDeprecation, ReviseDeprecation, SetDeprecationState
<1>4. ASSUME NEW c \in Clones, AddRelation(c) \/ SupersedeRelation(c)
      PROVE  Call(c)
    BY <1>4, RelationCall
<1>5. ASSUME NEW c \in Clones, NEW dup \in Stories, NEW canonical \in Stories,
             ConsolidateProposal(c, dup, canonical)
      PROVE  Call(c)
    BY <1>5, ConsolidateCall
<1>6. ASSUME NEW c \in Clones, Tidy(c)
      PROVE  UNCHANGED <<records, links, last, left>>
    BY <1>6 DEF Tidy
<1> QED BY <1>1, <1>3, <1>4, <1>5, <1>6 DEF Next
-----------------------------------------------------------------------------
(* The calls, seen by the relations.                                       *)

LEMMA NewLink ==
    ASSUME last \in Nat, NEW n \in Nat, NEW path \in Seq(Stories), NEW type, NEW from, NEW to, NEW pins,
           NEW id, id = [n |-> n, to |-> path]
    PROVE  LET m == Link(id, type, from, to, pins) IN
           /\ IsLink(m) /\ m.id = id /\ m.type = type /\ m.made = last + 1
           /\ m.from = from /\ m.to = to /\ m.pins = pins /\ m.ended = 0 /\ m.how # "replaced"
<1> DEFINE m == Link(id, type, from, to, pins)
<1>1. id.n \in Nat /\ id.to \in Seq(Stories) /\ id = [n |-> id.n, to |-> id.to]
    OBVIOUS
<1>2. /\ m.id = id /\ m.type = type /\ m.made = last + 1 /\ m.ended = 0 /\ m.how # "replaced"
      /\ m.from = from /\ m.to = to /\ m.pins = pins /\ DOMAIN m = Fields
    BY DEF Link, Fields
<1> HIDE DEF m
<1>3. m.made \in Nat /\ m.ended \in Nat
    BY <1>2
<1>4. IsLink(m)
    BY <1>1, <1>2, <1>3, Zenon DEF IsLink
<1> QED BY <1>2, <1>4 DEF m

LEMMA ReplacementLink ==
    ASSUME last \in Nat, NEW l, IsLink(l), NEW canonical \in Stories, NEW S, NEW dup, NEW map
    PROVE  LET m == Replacement(S, l, dup, canonical, map) IN
           /\ IsLink(m) /\ m.id.n = l.id.n /\ m.id.to = Append(l.id.to, canonical) /\ m.type = l.type
           /\ m.made = last + 1 /\ m.ended = 0 /\ m.how # "replaced"
           /\ m.from = InOrder(l.type, Endpoint(l.from, dup, canonical, map), Endpoint(l.to, dup, canonical, map))[1]
           /\ m.to = InOrder(l.type, Endpoint(l.from, dup, canonical, map), Endpoint(l.to, dup, canonical, map))[2]
<1> DEFINE ends == InOrder(l.type, Endpoint(l.from, dup, canonical, map), Endpoint(l.to, dup, canonical, map))
           pins == [e \in Requirement({ends[1], ends[2]}) |-> Current(Revisions(S, StoryOf(e))).id]
           path == Append(l.id.to, canonical)
           id == [n |-> l.id.n, to |-> path]
<1>1. l.id.n \in Nat /\ path \in Seq(Stories)
    BY DEF IsLink
<1>2. Replacement(S, l, dup, canonical, map) = Link(id, l.type, ends[1], ends[2], pins)
    BY DEF Replacement
<1>3. id = [n |-> l.id.n, to |-> path] /\ id.n = l.id.n /\ id.to = path
    OBVIOUS
<1> HIDE DEF pins, path, id, ends
<1>4. LET m == Link(id, l.type, ends[1], ends[2], pins) IN
           /\ IsLink(m) /\ m.id = id /\ m.type = l.type /\ m.made = last + 1
           /\ m.from = ends[1] /\ m.to = ends[2] /\ m.pins = pins /\ m.ended = 0 /\ m.how # "replaced"
    BY <1>1, <1>3, NewLink
<1> QED BY <1>2, <1>3, <1>4 DEF path, ends

LEMMA AddRelationKeeps ==
    ASSUME LInv, NEW c \in Clones, AddRelation(c)
    PROVE  LInv'
<1> DEFINE path == <<>>
           id == [n |-> last + 1, to |-> path]
<1>1. PICK type, ends, pins :
        links' = [links EXCEPT ![c] = @ \cup {Link(id, type, ends[1], ends[2], pins)}]
    BY DEF AddRelation
<1> DEFINE m == Link(id, type, ends[1], ends[2], pins)
<1>2. last \in Nat /\ last + 1 \in Nat /\ path \in Seq(Stories)
    BY DEF LInv, LinksKnown
<1>3. id = [n |-> last + 1, to |-> path] /\ id.n = last + 1
    OBVIOUS
<1> HIDE DEF id, path
<1>4. IsLink(m) /\ m.id = id /\ m.made = last + 1 /\ m.ended = 0 /\ m.how # "replaced"
    BY <1>2, <1>3, NewLink
<1> HIDE DEF m
<1>5. links' = [links EXCEPT ![c] = (@ \ {}) \cup {m} \cup {}]
    BY <1>1 DEF m
<1>6. \A l \in links[c] : m.id # l.id
  <2>1. \A l \in links[c] : l.id.n <= last /\ l.id.n \in Nat
      BY DEF LInv, LinksKnown, IsLink
  <2> QED BY <1>2, <1>3, <1>4, <2>1
<1>7. Opens({m}, links[c])
    BY <1>3, <1>4, <1>6 DEF Opens
<1>8. Closes({}, {}, {m})
    BY DEF Closes
<1>9. last' = last + 1 /\ {} \in SUBSET links[c]
    BY DEF AddRelation, Dated
<1> QED BY <1>5, <1>7, <1>8, <1>9, LinksWritten

LEMMA SupersedeRelationKeeps ==
    ASSUME LInv, NEW c \in Clones, SupersedeRelation(c)
    PROVE  LInv'
<1>1. PICK l \in links[c] : links' = [links EXCEPT ![c] = (@ \ {l}) \cup {Superseded(l, "hand")}]
    BY DEF SupersedeRelation, Active
<1> DEFINE m == Superseded(l, "hand")
<1>2. IsLink(l) /\ last \in Nat
    BY DEF LInv, LinksKnown
<1>3. /\ IsLink(m) /\ m.id = l.id /\ m.type = l.type /\ m.made = l.made
      /\ m.ended = last + 1 /\ m.how = "hand"
    BY <1>2, SupersededLink
<1> HIDE DEF m
<1>4. links' = [links EXCEPT ![c] = (@ \ {l}) \cup {} \cup {m}]
    BY <1>1 DEF m
<1>5. Opens({}, links[c])
    BY DEF Opens
<1>6. Closes({m}, {l}, {})
    BY <1>3 DEF Closes
<1>7. last' = last + 1 /\ {l} \in SUBSET links[c]
    BY DEF SupersedeRelation, Dated
<1> QED BY <1>4, <1>5, <1>6, <1>7, LinksWritten

LEMMA ConsolidateKeeps ==
    ASSUME LInv, NEW c \in Clones, NEW dup \in Stories, NEW canonical \in Stories,
           ConsolidateProposal(c, dup, canonical)
    PROVE  LInv'
<1> DEFINE S == records[c]
           L == links[c]
<1>1. PICK map : Consolidates(c, Plan(c, dup, canonical, map), Decision(c, dup, canonical, map))
    BY ConsolidateWrites
<1> DEFINE old == Plan(c, dup, canonical, map).old
           anew == Plan(c, dup, canonical, map).new
<1>2. PICK cut \in Extents(old), unrestored \in SUBSET old :
        /\ cut.ended \ unrestored \subseteq cut.new
        /\ links' = [links EXCEPT ![c] = (@ \ cut.ended) \cup {anew[l] : l \in cut.new}
              \cup {Superseded(l, IF l \in unrestored THEN "unrestored" ELSE "replaced") :
                      l \in cut.ended}]
    BY <1>1 DEF Consolidates, Written
<1>3. old \subseteq L /\ \A l \in old : anew[l] = Replacement(S, l, dup, canonical, map)
    BY DEF Plan, Prepared, Active
<1>4. \A l \in old : \A k \in L : anew[l].id # k.id
    BY <1>1 DEF Consolidates, Decides, Names
<1>5. cut.new \subseteq old /\ cut.ended \subseteq old
    BY <1>2 DEF Extents
<1> HIDE DEF old, anew
<1>6. last \in Nat /\ \A l \in L : IsLink(l)
    BY DEF LInv, LinksKnown
<1>7. \A l \in old : LET m == anew[l] IN
        /\ IsLink(m) /\ m.id.n = l.id.n /\ m.id.to = Append(l.id.to, canonical) /\ m.type = l.type
        /\ m.made = last + 1 /\ m.ended = 0 /\ m.how # "replaced"
  <2> TAKE l \in old
  <2>1. IsLink(l)
      BY <1>3, <1>6
  <2>2. LET m == Replacement(S, l, dup, canonical, map) IN
        /\ IsLink(m) /\ m.id.n = l.id.n /\ m.id.to = Append(l.id.to, canonical) /\ m.type = l.type
        /\ m.made = last + 1 /\ m.ended = 0 /\ m.how # "replaced"
      BY <1>6, <2>1, ReplacementLink
  <2> QED BY <1>3, <2>2
<1>8. \A l \in old : Replaces(anew[l], l)
    BY <1>7 DEF Replaces
<1> DEFINE how(l) == IF l \in unrestored THEN "unrestored" ELSE "replaced"
           new == {anew[l] : l \in cut.new}
           done == {Superseded(l, how(l)) : l \in cut.ended}
<1>9. links' = [links EXCEPT ![c] = (@ \ cut.ended) \cup new \cup done]
    BY <1>2
<1>10. Opens(new, L)
  <2>1. \A m \in new : \E l \in old : m = anew[l]
      BY <1>5
  <2> HIDE DEF new, done
  <2>2. \A m \in new : IsLink(m) /\ m.made = last + 1 /\ m.ended = 0 /\ m.how # "replaced"
      BY <1>7, <2>1
  <2>3. \A m \in new, l \in L : m.id # l.id
      BY <1>4, <2>1
  <2>4. \A m \in new : \E l \in L : m.id.n = l.id.n /\ m.type = l.type
      BY <1>3, <1>7, <2>1
  <2>5. ASSUME NEW x \in new, NEW y \in new, x.id = y.id
        PROVE  x = y
    <3>1. PICK l \in old, k \in old : x = anew[l] /\ y = anew[k]
        BY <2>1
    <3>2. l.id.n = k.id.n /\ Append(l.id.to, canonical) = Append(k.id.to, canonical)
        BY <1>7, <2>5, <3>1
    <3>3. IsLink(l) /\ IsLink(k)
        BY <1>3, <1>6
    <3>4. l.id.to \in Seq(Stories) /\ k.id.to \in Seq(Stories)
        BY <3>3 DEF IsLink
    <3>5. l.id.to = k.id.to
        BY <3>2, <3>4
    <3>6. l.id = k.id
        BY <3>2, <3>3, <3>5 DEF IsLink
    <3>7. l = k
        BY <1>3, <3>6 DEF LInv, LinksNamed
    <3> QED BY <3>1, <3>7
  <2> QED BY <2>2, <2>3, <2>4, <2>5 DEF Opens
<1>11. Closes(done, cut.ended, new)
  <2>1. \A l \in cut.ended : LET m == Superseded(l, how(l)) IN
            /\ IsLink(m) /\ m.id = l.id /\ m.type = l.type /\ m.made = l.made
            /\ m.ended = last + 1 /\ m.how = how(l)
    <3> TAKE l \in cut.ended
    <3>1. IsLink(l)
        BY <1>3, <1>5, <1>6
    <3> HIDE DEF how
    <3> QED BY <1>6, <3>1, SupersededLink
  <2>2. \A l \in cut.ended : how(l) = "replaced" => \E k \in new : Replaces(k, l)
    <3> TAKE l \in cut.ended
    <3> SUFFICES ASSUME how(l) = "replaced" PROVE \E k \in new : Replaces(k, l)
        OBVIOUS
    <3>1. l \in cut.new /\ l \in old
        BY <1>2, <1>5
    <3> QED BY <1>8, <3>1
  <2>3. \A l, k \in cut.ended : l.id = k.id => l = k
      BY <1>3, <1>5 DEF LInv, LinksNamed
  <2>4. \A m \in done : \E l \in cut.ended : m = Superseded(l, how(l))
      OBVIOUS
  <2>5. \A l \in cut.ended : Superseded(l, how(l)) \in done
      OBVIOUS
  <2> HIDE DEF done, new, how
  <2>6. \A m \in done : \E l \in cut.ended :
            /\ IsLink(m) /\ m.id = l.id /\ m.type = l.type /\ m.made = l.made /\ m.ended = last + 1
            /\ m.how = "replaced" => \E k \in new : Replaces(k, l)
    <3> TAKE m \in done
    <3>1. PICK l \in cut.ended : m = Superseded(l, how(l))
        BY <2>4
    <3> QED BY <2>1, <2>2, <3>1
  <2>7. \A l \in cut.ended : \E m \in done : m.id = l.id /\ m.type = l.type
      BY <2>1, <2>5
  <2>8. \A x, y \in done : x.id = y.id => x = y
    <3> TAKE x \in done, y \in done
    <3>1. PICK l \in cut.ended, k \in cut.ended : x = Superseded(l, how(l)) /\ y = Superseded(k, how(k))
        BY <2>4
    <3>2. x.id = l.id /\ y.id = k.id
        BY <2>1, <3>1
    <3> QED BY <2>3, <3>1, <3>2
  <2> QED BY <2>6, <2>7, <2>8 DEF Closes
<1>12. last' = last + 1 /\ cut.ended \in SUBSET L
    BY <1>3, <1>5 DEF ConsolidateProposal, Dated
<1> HIDE DEF new, done, how
<1> QED BY <1>9, <1>10, <1>11, <1>12, LinksWritten

\* A merge takes of each relation the file superseded last.
LEMMA MergeKeeps ==
    ASSUME LInv, NEW c \in Clones, NEW d \in Clones, Merge(c, d)
    PROVE  LInv'
<1> DEFINE L == links[c]
           M == links[d]
           J == Join(L, M)
<1>1. last' = last /\ links' = [links EXCEPT ![c] = J]
    BY DEF Merge
<1>2. \A e \in Clones : links'[e] = IF e = c THEN J ELSE links[e]
    BY <1>1 DEF LInv, LinksKnown
<1>3. \A l \in J : l \in L \/ l \in M
    BY DEF Join
<1>4. \A l, m \in J : l.id = m.id => m.ended <= l.ended
    BY DEF Join
<1>5. \A l \in L \cup M : IsLink(l) /\ l.ended \in Nat
    BY DEF LInv, LinksKnown, IsLink
<1>6. \A l \in L, m \in M : l.id = m.id => l.made = m.made
    BY DEF Merge, Clash
\* Of the two files of one name the merge has one at least.
<1>7. \A l \in L \cup M : \E m \in J : m.id = l.id
  <2> TAKE l \in L \cup M
  <2>1. \A x, y \in L : x.id = y.id => x = y
      BY DEF LInv, LinksNamed
  <2>2. \A x, y \in M : x.id = y.id => x = y
      BY DEF LInv, LinksNamed
  <2>3. CASE \E m \in L \cup M : m.id = l.id /\ ~(m.ended <= l.ended)
    <3>1. PICK m \in L \cup M : m.id = l.id /\ ~(m.ended <= l.ended)
        BY <2>3
    <3>2. \A k \in L \cup M : k.id = m.id => k = l \/ k = m
        BY <1>5, <2>1, <2>2, <3>1
    <3>3. \A k \in L \cup M : k.id = m.id => k.ended <= m.ended
        BY <1>5, <3>1, <3>2
    <3> QED BY <3>1, <3>3 DEF Join
  <2>4. CASE ~\E m \in L \cup M : m.id = l.id /\ ~(m.ended <= l.ended)
      BY <2>4 DEF Join
  <2> QED BY <2>3, <2>4
<1> HIDE DEF J
<1>8. LinksKnown'
  <2>1. links' = [e \in Clones |-> links'[e]]
      BY <1>1 DEF LInv, LinksKnown
  <2>2. \A e \in Clones : \A l \in links[e] : IsLink(l) /\ l.id.n <= last /\ l.made <= last /\ l.ended <= last
      BY DEF LInv, LinksKnown
  <2>3. last \in Nat
      BY DEF LInv, LinksKnown
  <2>4. \A e \in Clones : \A l \in links'[e] : l \in links[e] \/ l \in L \/ l \in M
      BY <1>2, <1>3
  <2> QED BY <1>1, <2>1, <2>2, <2>3, <2>4 DEF LinksKnown
\* Every relation of a clone was one of a clone.
<1>9. \A e \in Clones : \A l \in links'[e] : \E f \in Clones : l \in links[f]
    BY <1>2, <1>3
<1>10. LinksNamed'
  <2>1. \A e, f \in Clones : \A l \in links'[e], m \in links'[f] : l.id.n = m.id.n => l.type = m.type
      BY <1>9 DEF LInv, LinksNamed
  <2>2. \A e, f \in Clones : \A l \in links'[e], m \in links'[f] :
            l.id = m.id /\ l.made = m.made /\ l.ended = m.ended => l = m
      BY <1>9 DEF LInv, LinksNamed
  <2>3. ASSUME NEW l \in J, NEW m \in J, l.id = m.id
        PROVE  l = m
    <3>1. l.ended = m.ended
        BY <1>3, <1>4, <1>5, <2>3
    <3>2. CASE l \in L /\ m \in L
        BY <2>3, <3>2 DEF LInv, LinksNamed
    <3>3. CASE l \in M /\ m \in M
        BY <2>3, <3>3 DEF LInv, LinksNamed
    <3>4. CASE (l \in L /\ m \in M) \/ (l \in M /\ m \in L)
      <4>1. l.made = m.made
          BY <1>6, <2>3, <3>4
      <4> QED BY <2>3, <3>1, <3>4, <4>1 DEF LInv, LinksNamed
    <3> QED BY <1>3, <3>2, <3>3, <3>4
  <2>4. \A e \in Clones : \A l, m \in links'[e] : l.id = m.id => l = m
      BY <1>2, <2>3 DEF LInv, LinksNamed
  <2> QED BY <2>1, <2>2, <2>4 DEF LinksNamed
<1>11. LinksKept'
  <2>1. \A e \in Clones : \A l \in links[e] : l.how = "replaced" => \E m \in links[e] : Replaces(m, l)
      BY DEF LInv, LinksKept, Replaces
  <2>2. ASSUME NEW l \in J, l.how = "replaced"
        PROVE  \E m \in J : Replaces(m, l)
    <3>1. PICK k \in L \cup M : Replaces(k, l)
        BY <1>3, <2>1, <2>2
    <3>2. PICK m \in J : m.id = k.id
        BY <1>7, <3>1
    <3>3. m.type = k.type
        BY <1>3, <3>1, <3>2 DEF LInv, LinksNamed
    <3>4. Replaces(m, l)
        BY <3>1, <3>2, <3>3 DEF Replaces
    <3> QED BY <3>4
  <2>3. \A e \in Clones : \A l \in links'[e] : l.how = "replaced" => \E m \in links'[e] : Replaces(m, l)
      BY <1>2, <2>1, <2>2
  <2> QED BY <2>3 DEF LinksKept, Replaces
<1> QED BY <1>8, <1>10, <1>11 DEF LInv

LEMMA LinksUntouched ==
    ASSUME LInv, UNCHANGED links, last' = last \/ last' = last + 1
    PROVE  LInv'
<1>1. last' \in Nat /\ last <= last'
    BY DEF LInv, LinksKnown
<1>2. \A c \in Clones : \A l \in links[c] :
        /\ IsLink(l) /\ l.id.n <= last /\ l.made <= last /\ l.ended <= last
        /\ l.id.n \in Nat /\ l.made \in Nat /\ l.ended \in Nat /\ last \in Nat
    BY DEF LInv, LinksKnown, IsLink
<1>3. \A c \in Clones : \A l \in links[c] :
        IsLink(l) /\ l.id.n <= last' /\ l.made <= last' /\ l.ended <= last'
    BY <1>1, <1>2
<1>4. LinksKnown'
    BY <1>1, <1>3 DEF LInv, LinksKnown
<1>5. LinksNamed' /\ LinksKept'
    BY DEF LInv, LinksNamed, LinksKept
<1> QED BY <1>4, <1>5 DEF LInv

LEMMA InitLinks == Init => LInv
<1> SUFFICES ASSUME Init PROVE LInv
    OBVIOUS
<1>1. last \in Nat /\ links = [c \in Clones |-> {}]
    BY DEF Init
<1> QED BY <1>1 DEF LInv, LinksKnown, LinksNamed, LinksKept

LEMMA LinksStep ==
    ASSUME LInv, [Next]_vars
    PROVE  LInv'
<1>1. CASE UNCHANGED vars \/ \E c \in Clones : Tidy(c)
    BY <1>1, LinksUntouched DEF vars, Tidy
<1>2. ASSUME NEW c \in Clones, NEW owner, Add(c, owner) \/ Revise(c, owner) \/ SetState(c, owner)
      PROVE  LInv'
    BY <1>2, LinksUntouched DEF Add, Revise, SetState, Dated
<1>3. ASSUME NEW c \in Clones, NEW s \in Stories, MutateCriterion(c, s)
      PROVE  LInv'
    BY <1>3, LinksUntouched DEF MutateCriterion, Dated
<1>4. ASSUME NEW c \in Clones, AddRelation(c) \/ SupersedeRelation(c)
      PROVE  LInv'
    BY <1>4, AddRelationKeeps, SupersedeRelationKeeps
<1>5. ASSUME NEW c \in Clones, NEW dup \in Stories, NEW canonical \in Stories,
             ConsolidateProposal(c, dup, canonical)
      PROVE  LInv'
    BY <1>5, ConsolidateKeeps
<1>6. ASSUME NEW c \in Clones, NEW d \in Clones, Merge(c, d)
      PROVE  LInv'
    BY <1>6, MergeKeeps
<1> QED BY <1>1, <1>2, <1>3, <1>4, <1>5, <1>6
        DEF Next, AddStory, ReviseStory, SetStoryState, AddPersona, RevisePersona, SetPersonaState,
            AddFlag, ReviseFlag, SetFlagState, AddTerm, ReviseTerm, SetTermState,
            AddDeprecation, ReviseDeprecation, SetDeprecationState

\* What is known of the relations of all clones, whatever was merged and wherever
\* a consolidation stopped.
THEOREM LinksInvariance == Spec => []LInv
BY InitLinks, LinksStep, PTL DEF Spec

\* A relation goes out of force by hand, or for a replacement that is there from
\* then on, though it is replaced in its turn, and in whatever clone.
THEOREM ReplacedOnlyByAnother == Spec => []LinksKept
<1>1. LInv => LinksKept
    BY DEF LInv
<1> QED BY <1>1, LinksInvariance, PTL
-----------------------------------------------------------------------------
(* The histories of a package.                                             *)

\* The two records of a new package.
FirstRevision(owner, n, says) == [Blank EXCEPT !.owner = owner, !.kind = "revision", !.id = n, !.says = says]
FirstEvent(owner, n, state) == [Blank EXCEPT !.owner = owner, !.kind = "event", !.id = n, !.state = state]

LEMMA PackageOf ==
    ASSUME NEW owner, NEW n, NEW says, NEW state
    PROVE  LET v == FirstRevision(owner, n, says)
               e == FirstEvent(owner, n, state)
           IN /\ Package(owner, n, says, state) = {v, e}
              /\ v.owner = owner /\ v.kind = "revision" /\ v.id = n /\ v.parents = {} /\ v.past = {}
              /\ v.says = says
              /\ e.owner = owner /\ e.kind = "event" /\ e.id = n /\ e.parents = {} /\ e.past = {}
              /\ e.says = {} /\ e.state = state
BY DEF Blank, Package, FirstRevision, FirstEvent

LEMMA PutsRecords ==
    ASSUME RInv, NEW c \in Clones, NEW new, Puts(c, new), last' = last \/ last' = last + 1,
           last' <= MaxRecords,
           \A r \in new : r.id \in 1..last' /\ r.kind \in Kinds /\ \A x \in r.says : x[1] \in Criteria,
           \A owner \in Owners : Has(records[c] \cup new, owner) \/ Events(new, owner) = {},
           "of" \in DOMAIN left'
    PROVE  RInv'
<1>1. \A d \in Clones : records'[d] = IF d = c THEN records[c] \cup new ELSE records[d]
    BY DEF RInv, Puts
<1>2. records' = [d \in Clones |-> records'[d]]
    BY DEF RInv, Puts
<1>3. last' \in 0..MaxRecords /\ 1..last \subseteq 1..last'
    BY RequirementsAssumption DEF RInv
<1>4. \A d \in Clones : \A r \in records'[d] :
        r.id \in 1..last' /\ r.kind \in Kinds /\ \A x \in r.says : x[1] \in Criteria
    BY <1>1, <1>3 DEF RInv
<1>5. ASSUME NEW d \in Clones, NEW owner \in Owners
      PROVE  Has(records'[d], owner) \/ Events(records'[d], owner) = {}
  <2>1. Has(records[d], owner) \/ Events(records[d], owner) = {}
      BY DEF RInv
  <2>2. CASE d = c
      BY <1>1, <2>1, <2>2 DEF Has, Revisions, Events, Of
  <2>3. CASE d # c
      BY <1>1, <2>1, <2>3
  <2> QED BY <2>2, <2>3
<1> QED BY <1>2, <1>3, <1>4, <1>5 DEF RInv

LEMMA InitRecords == Init => RInv
<1> SUFFICES ASSUME Init PROVE RInv
    OBVIOUS
<1>1. "of" \in DOMAIN left /\ left.of \subseteq Owners
    BY RequirementsAssumption DEF Init
<1>2. CASE records = [c \in Clones |-> {}] /\ last = 0
    BY <1>1, <1>2, RequirementsAssumption DEF RInv, Events, Of
<1>3. ASSUME last = 1, NEW says, NEW state, \A o \in left.of : says[o] \in Contents(o),
             records = [c \in Clones |-> UNION {Package(o, 1, says[o], state[o]) : o \in left.of}]
      PROVE  RInv
  <2>1. \A o \in left.of : \A r \in Package(o, 1, says[o], state[o]) :
            r.id = 1 /\ r.kind \in Kinds /\ r.owner = o /\ (r.says = says[o] \/ r.says = {})
      BY PackageOf DEF Kinds
  <2>2. \A o \in left.of : \E v \in Package(o, 1, says[o], state[o]) : v.owner = o /\ v.kind = "revision"
      BY PackageOf
  <2>3. \A c \in Clones : \A r \in records[c] : \E o \in left.of : r \in Package(o, 1, says[o], state[o])
      BY <1>3
  <2>4. \A c \in Clones : \A o \in left.of : Package(o, 1, says[o], state[o]) \subseteq records[c]
      BY <1>3
  <2>5. \A c \in Clones : \A r \in records[c] :
            r.id \in 1..1 /\ r.kind \in Kinds /\ \A x \in r.says : x[1] \in Criteria
    <3> TAKE c \in Clones
    <3> TAKE r \in records[c]
    <3>1. PICK o \in left.of : r \in Package(o, 1, says[o], state[o])
        BY <2>3
    <3>2. r.id = 1 /\ r.kind \in Kinds /\ (r.says = says[o] \/ r.says = {})
        BY <2>1, <3>1
    <3>3. \A x \in says[o] : x[1] \in Criteria
        BY <1>3, ContentsKnown
    <3> QED BY <3>2, <3>3
  <2>6. ASSUME NEW c \in Clones, NEW owner \in Owners, Events(records[c], owner) # {}
        PROVE  Has(records[c], owner)
    <3>1. PICK r \in records[c] : r.owner = owner
        BY <2>6 DEF Events, Of
    <3>2. owner \in left.of
        BY <2>1, <2>3, <3>1
    <3>3. PICK v \in records[c] : v.owner = owner /\ v.kind = "revision"
        BY <2>2, <2>4, <3>2
    <3> QED BY <3>3 DEF Has, Revisions, Of
  <2>7. records = [c \in Clones |-> records[c]]
      BY <1>3
  <2>8. last \in 0..MaxRecords
      BY <1>3, RequirementsAssumption
  <2> QED BY <1>1, <1>3, <2>5, <2>6, <2>7, <2>8 DEF RInv
<1> QED BY <1>2, <1>3 DEF Init

\* What History sees of a record.
Shown(r) == [id |-> r.id, parents |-> r.parents, past |-> r.past]

\* A record written over every head of S.
OverHeads(S, i) == [id |-> i, parents |-> Heads(S), past |-> Ancestors(S, Heads(S))]

\* The steps History takes.
Gains(kind) == \E c \in Clones :
    /\ last + 1 \in 1..MaxRecords
    /\ HistoryOf(kind)' = [HistoryOf(kind) EXCEPT
            ![c] = @ \cup {OverHeads(Of(records[c], Subject, kind), last + 1)}]
Joins(kind) == \E c, d \in Clones :
    HistoryOf(kind)' = [HistoryOf(kind) EXCEPT ![c] = @ \cup HistoryOf(kind)[d]]
Keeps(kind) == HistoryOf(kind)' = HistoryOf(kind)

LEMMA PutsOf ==
    ASSUME RInv, NEW c \in Clones, NEW new, Puts(c, new), left'.of = left.of, NEW kind
    PROVE  HistoryOf(kind)' =
              [HistoryOf(kind) EXCEPT ![c] = @ \cup {Shown(r) : r \in Of(new, Subject, kind)}]
<1>0. Subject' = Subject
    BY DEF Subject
<1>1. \A d \in Clones : records'[d] = IF d = c THEN records[c] \cup new ELSE records[d]
    BY DEF RInv, Puts
<1>2. \A d \in Clones : Of(records'[d], Subject, kind) =
            IF d = c THEN Of(records[c], Subject, kind) \cup Of(new, Subject, kind)
                     ELSE Of(records[d], Subject, kind)
    BY <1>1 DEF Of
<1>3. HistoryOf(kind) = [d \in Clones |-> {Shown(r) : r \in Of(records[d], Subject, kind)}]
    BY DEF HistoryOf, Shown
<1>4. HistoryOf(kind)' = [d \in Clones |-> {Shown(r) : r \in Of(records'[d], Subject, kind)}]
    BY <1>0 DEF HistoryOf, Shown
<1>5. ASSUME NEW d \in Clones
      PROVE  {Shown(r) : r \in Of(records'[d], Subject, kind)} =
                IF d = c THEN HistoryOf(kind)[c] \cup {Shown(r) : r \in Of(new, Subject, kind)}
                         ELSE HistoryOf(kind)[d]
    BY <1>2, <1>3
<1> QED BY <1>3, <1>4, <1>5

LEMMA PutsOne ==
    ASSUME RInv, NEW c \in Clones, NEW new, Puts(c, new), left'.of = left.of, Dated(last + 1),
           NEW kind, NEW n, Of(new, Subject, kind) = {n},
           Shown(n) = OverHeads(Of(records[c], Subject, kind), last + 1)
    PROVE  Gains(kind)
<1>1. {Shown(r) : r \in Of(new, Subject, kind)} = {Shown(n)}
    OBVIOUS
<1>2. last + 1 \in 1..MaxRecords
    BY RequirementsAssumption DEF Dated, RInv
<1> QED BY <1>1, <1>2, PutsOf DEF Gains

LEMMA PutsNone ==
    ASSUME RInv, NEW c \in Clones, NEW new, Puts(c, new), left'.of = left.of,
           NEW kind, Of(new, Subject, kind) = {}
    PROVE  Keeps(kind)
<1>1. {Shown(r) : r \in Of(new, Subject, kind)} = {}
    OBVIOUS
<1>2. HistoryOf(kind)' = [HistoryOf(kind) EXCEPT ![c] = @ \cup {}]
    BY <1>1, PutsOf
<1> QED BY <1>2 DEF Keeps, HistoryOf

HistoriesStep == RInv' /\ \A kind \in Kinds : Gains(kind) \/ Joins(kind) \/ Keeps(kind)

LEMMA AddsStep ==
    ASSUME RInv, NEW c \in Clones, Call(c), Adds(c)
    PROVE  HistoriesStep
<1>1. PICK owner \in Owners : \E says \in Contents(owner), state \in First(owner) :
        ~Has(records[c], owner) /\ Puts(c, Package(owner, last + 1, says, state))
    BY DEF Adds
<1>2. PICK says \in Contents(owner), state \in First(owner) :
        ~Has(records[c], owner) /\ Puts(c, Package(owner, last + 1, says, state))
    BY <1>1
<1> DEFINE i == last + 1
           new == Package(owner, i, says, state)
           v == FirstRevision(owner, i, says)
           e == FirstEvent(owner, i, state)
<1> HIDE DEF i
<1>3. /\ new = {v, e}
        /\ v.owner = owner /\ v.kind = "revision" /\ v.id = i /\ v.parents = {} /\ v.past = {}
        /\ v.says = says
        /\ e.owner = owner /\ e.kind = "event" /\ e.id = i /\ e.parents = {} /\ e.past = {}
        /\ e.says = {}
    BY PackageOf
<1> USE DEF i
<1> HIDE DEF new, v, e
<1>4. Puts(c, new)
    BY <1>2 DEF new
<1>5. /\ last' = last + 1 /\ last' <= MaxRecords /\ last + 1 \in 1..last'
      /\ "of" \in DOMAIN left' /\ left'.of = left.of
    BY RequirementsAssumption DEF Call, Dated, RInv
<1>6. RInv'
  <2>1. \A r \in new : r.id \in 1..last' /\ r.kind \in Kinds /\ \A x \in r.says : x[1] \in Criteria
    <3>1. \A x \in says : x[1] \in Criteria
        BY ContentsKnown
    <3> QED BY <1>3, <1>5, <3>1 DEF Kinds
  <2>2. v \in Revisions(records[c] \cup new, owner)
      BY <1>3 DEF Revisions, Of
  <2>3. \A o \in Owners : Has(records[c] \cup new, o) \/ Events(new, o) = {}
      BY <1>3, <2>2 DEF Has, Events, Of
  <2> QED BY <1>4, <1>5, <2>1, <2>3, PutsRecords
<1>7. ASSUME NEW kind \in Kinds
      PROVE  Gains(kind) \/ Keeps(kind)
  <2>1. CASE owner = Subject
    <3>1. PICK n \in {v, e} : Of(new, Subject, kind) = {n} /\ n.id = last + 1 /\ n.parents = {} /\ n.past = {}
        BY <1>3, <2>1 DEF Of, Kinds
    <3>2. Of(records[c], Subject, kind) = {}
      <4>1. Has(records[c], owner) \/ Events(records[c], owner) = {}
          BY DEF RInv
      <4> QED BY <1>2, <2>1, <4>1 DEF Has, Revisions, Events, Kinds
    <3>3. Heads({}) = {} /\ Ancestors({}, {}) = {}
        BY DEF Heads, Names, Ancestors
    <3>4. Shown(n) = OverHeads(Of(records[c], Subject, kind), last + 1)
        BY <3>1, <3>2, <3>3 DEF Shown, OverHeads
    <3>5. Dated(last + 1)
        BY DEF Call
    <3> QED BY <1>4, <1>5, <3>1, <3>4, <3>5, PutsOne
  <2>2. CASE owner # Subject
    <3>1. Of(new, Subject, kind) = {}
        BY <1>3, <2>2 DEF Of
    <3> QED BY <1>4, <1>5, <3>1, PutsNone
  <2> QED BY <2>1, <2>2
<1> QED BY <1>6, <1>7 DEF HistoriesStep

LEMMA SucceedsStep ==
    ASSUME RInv, NEW c \in Clones, Call(c), NEW n, Succeeds(c, n)
    PROVE  HistoriesStep
<1>1. /\ n.owner \in Owners /\ n.kind \in Kinds /\ Has(records[c], n.owner) /\ n.id = last + 1
      /\ n.parents = Heads(Of(records[c], n.owner, n.kind))
      /\ n.past = Ancestors(Of(records[c], n.owner, n.kind), n.parents)
      /\ (\A x \in n.says : x[1] \in Criteria) /\ Puts(c, {n})
    BY DEF Succeeds
<1>2. /\ last' = last + 1 /\ last' <= MaxRecords /\ last + 1 \in 1..last'
      /\ "of" \in DOMAIN left' /\ left'.of = left.of
    BY RequirementsAssumption DEF Call, Dated, RInv
<1>3. RInv'
  <2>1. \A o \in Owners : Has(records[c] \cup {n}, o) \/ Events({n}, o) = {}
      BY <1>1 DEF Has, Revisions, Events, Of
  <2>2. \A r \in {n} : r.id \in 1..last' /\ r.kind \in Kinds /\ \A x \in r.says : x[1] \in Criteria
      BY <1>1, <1>2
  <2> QED BY <1>1, <1>2, <2>1, <2>2, PutsRecords
<1>4. ASSUME NEW kind \in Kinds
      PROVE  Gains(kind) \/ Keeps(kind)
  <2>1. CASE n.owner = Subject /\ n.kind = kind
    <3>1. Of({n}, Subject, kind) = {n}
        BY <2>1 DEF Of
    <3>2. Shown(n) = OverHeads(Of(records[c], Subject, kind), last + 1)
        BY <1>1, <2>1 DEF Shown, OverHeads
    <3>3. Dated(last + 1)
        BY DEF Call
    <3> QED BY <1>1, <1>2, <3>1, <3>2, <3>3, PutsOne
  <2>2. CASE ~(n.owner = Subject /\ n.kind = kind)
    <3>1. Of({n}, Subject, kind) = {}
        BY <2>2 DEF Of
    <3> QED BY <1>1, <1>2, <3>1, PutsNone
  <2> QED BY <2>1, <2>2
<1> QED BY <1>3, <1>4 DEF HistoriesStep

LEMMA HistoriesMerge ==
    ASSUME RInv, NEW c \in Clones, NEW d \in Clones, Merge(c, d)
    PROVE  HistoriesStep
<1>1. Puts(c, records[d]) /\ last' = last
    BY DEF Merge
<1>2. "of" \in DOMAIN left' /\ left'.of = left.of
    BY Spent DEF Merge
<1>3. RInv'
  <2>1. last' <= MaxRecords
      BY <1>1, RequirementsAssumption DEF RInv
  <2>2. \A o \in Owners : Has(records[c] \cup records[d], o) \/ Events(records[d], o) = {}
      BY DEF RInv, Has, Revisions, Of
  <2>3. \A r \in records[d] : r.id \in 1..last' /\ r.kind \in Kinds /\ \A x \in r.says : x[1] \in Criteria
      BY <1>1 DEF RInv
  <2> QED BY <1>1, <1>2, <2>1, <2>2, <2>3, PutsRecords
<1>4. ASSUME NEW kind \in Kinds
      PROVE  Joins(kind)
  <2>1. HistoryOf(kind)[d] = {Shown(r) : r \in Of(records[d], Subject, kind)}
      BY DEF HistoryOf, Shown
  <2> QED BY <1>1, <1>2, <2>1, PutsOf DEF Joins
<1> QED BY <1>3, <1>4 DEF HistoriesStep

LEMMA NextStep == RInv /\ [Next]_vars => HistoriesStep
<1> SUFFICES ASSUME RInv, [Next]_vars PROVE HistoriesStep
    OBVIOUS
<1>1. CASE UNCHANGED <<records, links, last, left>>
    BY <1>1 DEF HistoriesStep, RInv, Keeps, HistoryOf, Subject
<1>2. ASSUME NEW c \in Clones, Call(c)
      PROVE  HistoriesStep
  <2>1. CASE UNCHANGED records
    <3>1. left'.of = left.of /\ "of" \in DOMAIN left' /\ last' = last + 1 /\ last' <= MaxRecords
        BY <1>2 DEF Call, Dated
    <3>2. Puts(c, {})
        BY <2>1 DEF Puts, RInv
    <3>3. \A o \in Owners : Events({}, o) = {}
        BY DEF Events, Of
    <3>4. RInv'
        BY <3>1, <3>2, <3>3, PutsRecords
    <3>5. \A kind \in Kinds : Keeps(kind)
      <4>1. \A kind \in Kinds : Of({}, Subject, kind) = {}
          BY DEF Of
      <4> QED BY <3>1, <3>2, <4>1, PutsNone
    <3> QED BY <3>4, <3>5 DEF HistoriesStep
  <2> QED BY <1>2, <2>1, AddsStep, SucceedsStep DEF Call
<1> QED BY <1>1, <1>2, Steps, HistoriesMerge DEF vars

\* What History computes from the records it sees, and the clone from its own.
Pasts(S, I) == UNION {r.past : r \in {x \in S : x.id \in I}}

Alike(r, t) == r.id = t.id /\ r.parents = t.parents /\ r.past = t.past

LEMMA SeenAlike ==
    ASSUME NEW S, NEW T, NEW I,
           \A r \in S : \E t \in T : Alike(r, t),
           \A t \in T : \E r \in S : Alike(r, t)
    PROVE  /\ {t.id : t \in T} = {r.id : r \in S}
           /\ UNION {t.parents : t \in T} = UNION {r.parents : r \in S}
           /\ Pasts(T, I) = Pasts(S, I)
<1>1. {t.id : t \in T} = {r.id : r \in S}
    BY DEF Alike
<1>2. UNION {t.parents : t \in T} = UNION {r.parents : r \in S}
    BY DEF Alike
<1>3. Pasts(T, I) = Pasts(S, I)
    BY DEF Alike, Pasts
<1> QED BY <1>1, <1>2, <1>3

LEMMA ShownAlike ==
    ASSUME NEW S, NEW T, T = {Shown(r) : r \in S}
    PROVE  /\ \A r \in S : \E t \in T : Alike(r, t)
           /\ \A t \in T : \E r \in S : Alike(r, t)
<1>1. \A r \in S : Shown(r) \in T /\ Alike(r, Shown(r))
    BY DEF Shown, Alike
<1> QED BY <1>1

LEMMA NextIsFresh ==
    ASSUME RInv, NEW kind, last + 1 \in 1..MaxRecords
    PROVE  \A c \in Clones : last + 1 \notin {r.id : r \in HistoryOf(kind)[c]}
<1> SUFFICES ASSUME NEW c \in Clones, NEW r \in Of(records[c], Subject, kind), r.id = last + 1
             PROVE  FALSE
    BY DEF HistoryOf
<1>1. r.id \in 1..last
    BY DEF RInv, Of
<1> QED BY <1>1, RequirementsAssumption DEF RInv

LEMMA RevisionHistoryStep ==
    ASSUME RInv, Gains("revision") \/ Joins("revision") \/ Keeps("revision")
    PROVE  [RevisionHistory!Next]_(HistoryOf("revision"))
<1> DEFINE H == HistoryOf("revision")
<1>1. CASE Gains("revision")
    <2>1. PICK c \in Clones :
            /\ last + 1 \in 1..MaxRecords
            /\ H' = [H EXCEPT ![c] = @ \cup {OverHeads(Of(records[c], Subject, "revision"), last + 1)}]
        BY <1>1 DEF Gains
    <2> DEFINE i == last + 1
               S == Of(records[c], Subject, "revision")
               I == Heads(S)
               T == H[c]
    <2>2. T = {Shown(r) : r \in S}
        BY DEF HistoryOf, Shown
    <2> HIDE DEF S, I, T, H
    <2>3. /\ \A r \in S : \E t \in T : Alike(r, t)
          /\ \A t \in T : \E r \in S : Alike(r, t)
        BY <2>2, ShownAlike
    <2>4. RevisionHistory!Heads(T) = I
        BY <2>3, SeenAlike DEF RevisionHistory!Heads, RevisionHistory!Names, Heads, Names, I
    <2>5. Pasts(T, I) = Pasts(S, I)
        BY <2>3, SeenAlike
    <2>6. RevisionHistory!Succeed(i, H[c]) = OverHeads(S, i)
        BY <2>4, <2>5 DEF RevisionHistory!Succeed, OverHeads, Ancestors, Pasts, I, T
    <2>7. RevisionHistory!Fresh(i)
        BY <2>1, NextIsFresh DEF RevisionHistory!Fresh, RevisionHistory!Names, H
    <2>8. RevisionHistory!Write(c, i)
        BY <2>1, <2>6, <2>7 DEF RevisionHistory!Write, S, H
    <2> QED BY <2>1, <2>8 DEF RevisionHistory!Next
<1>2. CASE Joins("revision")
    BY <1>2 DEF Joins, RevisionHistory!Next, RevisionHistory!Merge
<1>3. CASE Keeps("revision")
    BY <1>3 DEF Keeps
<1> QED BY <1>1, <1>2, <1>3

LEMMA EventHistoryStep ==
    ASSUME RInv, Gains("event") \/ Joins("event") \/ Keeps("event")
    PROVE  [EventHistory!Next]_(HistoryOf("event"))
<1> DEFINE H == HistoryOf("event")
<1>1. CASE Gains("event")
    <2>1. PICK c \in Clones :
            /\ last + 1 \in 1..MaxRecords
            /\ H' = [H EXCEPT ![c] = @ \cup {OverHeads(Of(records[c], Subject, "event"), last + 1)}]
        BY <1>1 DEF Gains
    <2> DEFINE i == last + 1
               S == Of(records[c], Subject, "event")
               I == Heads(S)
               T == H[c]
    <2>2. T = {Shown(r) : r \in S}
        BY DEF HistoryOf, Shown
    <2> HIDE DEF S, I, T, H
    <2>3. /\ \A r \in S : \E t \in T : Alike(r, t)
          /\ \A t \in T : \E r \in S : Alike(r, t)
        BY <2>2, ShownAlike
    <2>4. EventHistory!Heads(T) = I
        BY <2>3, SeenAlike DEF EventHistory!Heads, EventHistory!Names, Heads, Names, I
    <2>5. Pasts(T, I) = Pasts(S, I)
        BY <2>3, SeenAlike
    <2>6. EventHistory!Succeed(i, H[c]) = OverHeads(S, i)
        BY <2>4, <2>5 DEF EventHistory!Succeed, OverHeads, Ancestors, Pasts, I, T
    <2>7. EventHistory!Fresh(i)
        BY <2>1, NextIsFresh DEF EventHistory!Fresh, EventHistory!Names, H
    <2>8. EventHistory!Write(c, i)
        BY <2>1, <2>6, <2>7 DEF EventHistory!Write, S, H
    <2> QED BY <2>1, <2>8 DEF EventHistory!Next
<1>2. CASE Joins("event")
    BY <1>2 DEF Joins, EventHistory!Next, EventHistory!Merge
<1>3. CASE Keeps("event")
    BY <1>3 DEF Keeps
<1> QED BY <1>1, <1>2, <1>3

\* In a repository that has packages, they are the same everywhere.
LEMMA InitHistory ==
    ASSUME Init
    PROVE  \A kind \in Kinds :
            \/ HistoryOf(kind) = [c \in Clones |-> {}]
            \/ HistoryOf(kind) = [c \in Clones |-> {[id |-> 1, parents |-> {}, past |-> {}]}]
<1>1. CASE records = [c \in Clones |-> {}]
    BY <1>1 DEF HistoryOf, Of
<1>2. ASSUME NEW says, NEW state, NEW kind \in Kinds,
             records = [c \in Clones |-> UNION {Package(o, 1, says[o], state[o]) : o \in left.of}]
      PROVE  \/ HistoryOf(kind) = [c \in Clones |-> {}]
             \/ HistoryOf(kind) = [c \in Clones |-> {[id |-> 1, parents |-> {}, past |-> {}]}]
  <2> DEFINE b == [id |-> 1, parents |-> {}, past |-> {}]
             U == UNION {Package(o, 1, says[o], state[o]) : o \in left.of}
  <2>1. \A r \in Of(U, Subject, kind) : Shown(r) = b
    <3> TAKE r \in Of(U, Subject, kind)
    <3>1. PICK o \in left.of : r \in Package(o, 1, says[o], state[o])
        BY DEF Of
    <3> DEFINE v == FirstRevision(o, 1, says[o])
               e == FirstEvent(o, 1, state[o])
    <3>2. /\ Package(o, 1, says[o], state[o]) = {v, e}
          /\ v.id = 1 /\ v.parents = {} /\ v.past = {} /\ e.id = 1 /\ e.parents = {} /\ e.past = {}
        BY PackageOf
    <3> HIDE DEF v, e
    <3> QED BY <3>1, <3>2 DEF Shown
  <2> HIDE DEF b, U
  <2>2. \A c \in Clones : records[c] = U
      BY <1>2 DEF U
  <2>3. HistoryOf(kind) = [c \in Clones |-> {Shown(r) : r \in Of(U, Subject, kind)}]
      BY <2>2 DEF HistoryOf, Shown
  <2>4. {Shown(r) : r \in Of(U, Subject, kind)} = {} \/ {Shown(r) : r \in Of(U, Subject, kind)} = {b}
      BY <2>1
  <2> QED BY <2>3, <2>4 DEF b
<1>3. \/ records = [c \in Clones |-> {}]
      \/ \E says, state : records = [c \in Clones |-> UNION {Package(o, 1, says[o], state[o]) : o \in left.of}]
    BY DEF Init
<1> QED BY <1>1, <1>2, <1>3

\* Every revision and event has the number of one call, in all clones; an event
\* comes with a revision.
THEOREM RecordsInvariance == Spec => []RInv
<1>1. RInv /\ [Next]_vars => RInv'
    BY NextStep DEF HistoriesStep
<1> QED BY <1>1, InitRecords, PTL DEF Spec

\* Seen by one package's revisions, or by its events, every behaviour of the calls
\* and of the merges is a behaviour of History: what History promises holds.
THEOREM ImplementsHistory == Spec => Reconciled
<1>1. Init => RevisionHistory!Init /\ EventHistory!Init
    <2> SUFFICES ASSUME Init PROVE RevisionHistory!Init /\ EventHistory!Init
        OBVIOUS
    <2>1. 1 \in 1..MaxRecords
        BY RequirementsAssumption
    <2> QED BY <2>1, InitHistory DEF RevisionHistory!Init, EventHistory!Init, Kinds,
                    RevisionHistory!Begin, EventHistory!Begin
<1>2. ASSUME RInv, [Next]_vars
      PROVE  /\ [RevisionHistory!Next]_(HistoryOf("revision"))
             /\ [EventHistory!Next]_(HistoryOf("event"))
    BY <1>2, NextStep, RevisionHistoryStep, EventHistoryStep DEF HistoriesStep, Kinds
<1> QED BY <1>1, <1>2, RecordsInvariance, PTL
        DEF Spec, Reconciled, RevisionHistory!Spec, EventHistory!Spec
-----------------------------------------------------------------------------
(* What every clone holds.                                                 *)

\* The states a lifecycle begins in, and those it goes to from another.
Starts(owner, state) ==
    /\ owner \in Stories => state \in {"proposed"}
    /\ owner \in {"persona", "term", "deprecation"} => state \in {"active"}
    /\ owner = "flag" => state \in {"off", "on"}
Goes(owner, from, to) ==
    /\ owner \in Stories => AllowedLifecycleTransition(from, to)
    /\ owner \in {"persona", "term", "deprecation"} => Changes(from, to)
    /\ owner = "flag" => Toggles(from, to)

\* What is demanded of one package.
OwnerSound(R, E, owner) ==
    /\ Graph(R) /\ Graph(E)
    /\ owner \in Stories => CriterionHistory(R)
    /\ \A r \in Roots(E) : Starts(owner, r.state)
    /\ \A r, p \in E : Cardinality(r.parents) = 1 /\ p.id \in r.parents => Goes(owner, p.state, r.state)

\* A package begins with a revision and an event of one number.
Begun(R, E) == \E v \in R, e \in E : Roots(R) = {v} /\ Roots(E) = {e} /\ e.id = v.id

\* Parents are there, with all ancestors, and have smaller numbers.
Parented(S) == \A r \in S :
    r.parents \subseteq Names(Of(S, r.owner, r.kind)) /\ r.past \subseteq Names(Of(S, r.owner, r.kind))
Ordered(S) == \A r, p \in S :
    p.owner = r.owner /\ p.kind = r.kind /\ p.id \in r.parents => p.id < r.id

Finite(S) == \A owner \in Owners :
    IsFiniteSet(Of(S, owner, "revision")) /\ IsFiniteSet(Of(S, owner, "event"))

Good(S) ==
    /\ Finite(S)
    /\ \A r \in S : r.id \in Nat
    /\ Parented(S) /\ Ordered(S)
    /\ \A owner \in Owners :
        IF Has(S, owner)
        THEN Begun(Revisions(S, owner), Events(S, owner))
             /\ OwnerSound(Revisions(S, owner), Events(S, owner), owner)
        ELSE Events(S, owner) = {}

\* T has the records of S, and no other record of the name of one.
Own(S, T) ==
    /\ S \subseteq T
    /\ \A r \in S, s \in T : r.owner = s.owner /\ r.kind = s.kind /\ r.id = s.id => r = s

LEMMA OwnersSound ==
    ASSUME NEW S
    PROVE  PackagesSoundBesides(S) <=> \A owner \in Owners :
                Has(S, owner) => OwnerSound(Revisions(S, owner), Events(S, owner), owner)
<1>1. ASSUME NEW s \in Stories
      PROVE  StorySoundBesides(S, s) <=> OwnerSound(Revisions(S, s), Events(S, s), s)
  <2>1. s \notin {"persona", "flag", "term", "deprecation"}
      BY RequirementsAssumption
  <2> QED BY <2>1 DEF StorySoundBesides, OwnerSound, Starts, Goes, Begins, Moves
<1>2. \A owner \in {"persona", "flag", "term", "deprecation"} : owner \notin Stories
    BY RequirementsAssumption
<1>3. PersonaLoads(S) <=> OwnerSound(Revisions(S, "persona"), Events(S, "persona"), "persona")
    BY <1>2 DEF PersonaLoads, AppGraph, OwnerSound, Starts, Goes, Begins, Moves
<1>4. FlagLoads(S) <=> OwnerSound(Revisions(S, "flag"), Events(S, "flag"), "flag")
    BY <1>2 DEF FlagLoads, AppGraph, OwnerSound, Starts, Goes, Begins, Moves
<1>5. TermLoads(S) <=> OwnerSound(Revisions(S, "term"), Events(S, "term"), "term")
    BY <1>2 DEF TermLoads, AppGraph, OwnerSound, Starts, Goes, Begins, Moves
<1>6. DeprecationLoads(S) <=> OwnerSound(Revisions(S, "deprecation"), Events(S, "deprecation"), "deprecation")
    BY <1>2 DEF DeprecationLoads, AppGraph, OwnerSound, Starts, Goes, Begins, Moves
<1> QED BY <1>1, <1>3, <1>4, <1>5, <1>6 DEF PackagesSoundBesides, Owners

\* Of finitely or infinitely many numbered records one has the smallest number.
LEMMA OldestIn ==
    ASSUME NEW T, T # {}, \A r \in T : r.id \in Nat
    PROVE  \E r \in T : \A t \in T : ~(t.id < r.id)
<1> DEFINE R == OpToRel(<, Nat)
           N == {r.id : r \in T}
<1>1. N \subseteq Nat /\ N # {}
    OBVIOUS
<1>2. IsWellFoundedOn(R, Nat)
    BY NatLessThanWellFounded
<1>3. PICK m \in N : \A k \in N : ~ (<<k, m>> \in R)
    <2> HIDE DEF R, N
    <2> QED BY <1>1, <1>2, WFMin
<1>4. \A k \in N : ~ (k < m)
    BY <1>1, <1>3 DEF OpToRel
<1>5. PICK r \in T : r.id = m
    OBVIOUS
<1> QED BY <1>4, <1>5

\* Records whose parents are there and older, with one root, are a graph.
LEMMA OneRootGraph ==
    ASSUME NEW S, \A r \in S : r.id \in Nat, Parented(S), Ordered(S), NEW owner, NEW kind,
           NEW v, Roots(Of(S, owner, kind)) = {v}
    PROVE  Graph(Of(S, owner, kind))
<1> DEFINE G == Of(S, owner, kind)
<1>1. \A r \in G : r \in S /\ r.owner = owner /\ r.kind = kind
    BY DEF Of
<1>2. Closed(G)
    BY <1>1 DEF Parented, Closed
<1>3. ASSUME NEW T \in SUBSET G, T # {}
      PROVE  \E r \in T : r.parents \cap Names(T) = {}
  <2>1. \A r \in T : r \in S /\ r.owner = owner /\ r.kind = kind /\ r.id \in Nat
      BY <1>1
  <2>2. PICK r \in T : \A t \in T : ~(t.id < r.id)
      BY <1>3, <2>1, OldestIn
  <2>3. \A t \in T : t.id \notin r.parents
      BY <2>1, <2>2 DEF Ordered
  <2> QED BY <2>3 DEF Names
<1>4. Cardinality(Roots(G)) = 1
    BY FS_Singleton
<1> QED BY <1>2, <1>3, <1>4 DEF Graph, Acyclic
-----------------------------------------------------------------------------
(* Merges.                                                                 *)

\* Among more records, those of a good clone keep the parents they had.
LEMMA OwnParents ==
    ASSUME NEW S, NEW U, Parented(S), Own(S, U), NEW r \in S, NEW p \in U,
           p.owner = r.owner, p.kind = r.kind, p.id \in r.parents \cup r.past
    PROVE  p \in S
<1>1. PICK q \in S : q.owner = r.owner /\ q.kind = r.kind /\ q.id = p.id
    BY DEF Parented, Names, Of
<1> QED BY <1>1 DEF Own

LEMMA OwnCriteria ==
    ASSUME NEW S, NEW U, Parented(S), Own(S, U), NEW owner,
           NEW R, R = Revisions(S, owner), CriterionHistory(R),
           NEW V, V = Revisions(U, owner), NEW r \in R
    PROVE  CriteriaOf(V, {r.id}) \cap CriteriaOf(V, Ancestors(V, r.parents)) \subseteq CriteriaOf(V, r.parents)
<1>1. /\ \A y \in R : y \in S /\ y \in V /\ y.owner = owner /\ y.kind = "revision"
      /\ \A y \in V : y \in U /\ y.owner = owner /\ y.kind = "revision" /\ (y \in S => y \in R)
    BY DEF Revisions, Of, Own
<1>2. \A y \in V : y.id = r.id => y = r
    BY <1>1 DEF Own
<1>3. \A y \in V : y.id \in r.parents => y \in R
    BY <1>1, OwnParents
<1>4. Ancestors(V, r.parents) = Ancestors(R, r.parents)
    BY <1>1, <1>3 DEF Ancestors
<1>5. Ancestors(R, r.parents) \subseteq Names(R)
  <2>1. \A y \in R : Of(S, y.owner, y.kind) = R
      BY <1>1 DEF Revisions
  <2>2. \A y \in R : y.parents \subseteq Names(R) /\ y.past \subseteq Names(R)
      BY <1>1, <2>1 DEF Parented
  <2> QED BY <2>2 DEF Ancestors
<1>6. \A y \in V : y.id \in Names(R) => y \in R
  <2> TAKE y \in V
  <2> SUFFICES ASSUME y.id \in Names(R) PROVE y \in R
      OBVIOUS
  <2>1. PICK q \in R : q.id = y.id
      BY DEF Names
  <2> QED BY <1>1, <2>1 DEF Own
<1> DEFINE says(y) == {x[1] : x \in y.says}
<1>7. \A W, ids : CriteriaOf(W, ids) = UNION {says(y) : y \in {z \in W : z.id \in ids}}
    BY DEF CriteriaOf
<1> HIDE DEF says
<1>8. SUFFICES ASSUME NEW k, NEW y \in V, y.id = r.id, k \in says(y),
                      NEW a \in V, a.id \in Ancestors(V, r.parents), k \in says(a)
               PROVE  \E p \in V : p.id \in r.parents /\ k \in says(p)
    BY <1>7
<1>9. k \in CriteriaOf(R, {r.id})
    BY <1>2, <1>7, <1>8
<1>10. k \in CriteriaOf(R, Ancestors(R, r.parents))
    BY <1>4, <1>5, <1>6, <1>7, <1>8
<1>11. k \in CriteriaOf(R, r.parents)
    BY <1>9, <1>10 DEF CriterionHistory
<1>12. PICK p \in R : p.id \in r.parents /\ k \in says(p)
    BY <1>7, <1>11
<1> QED BY <1>1, <1>12

\* Both packages, of one beginning, are one sound package.
LEMMA MergeOwner ==
    ASSUME NEW S, NEW T, NEW U, U = S \cup T, Good(S), Good(T), Own(S, U), Own(T, U),
           \A r \in U : r.id \in Nat, Parented(U), Ordered(U),
           NEW owner \in Owners, Has(S, owner), Has(T, owner),
           \A r \in Roots(Revisions(S, owner)), s \in Roots(Revisions(T, owner)) : r = s
    PROVE  Begun(Revisions(U, owner), Events(U, owner))
           /\ OwnerSound(Revisions(U, owner), Events(U, owner), owner)
<1> DEFINE R == Revisions(S, owner)
           E == Events(S, owner)
           Q == Revisions(T, owner)
           F == Events(T, owner)
<1>1. Revisions(U, owner) = R \cup Q /\ Events(U, owner) = E \cup F
    BY DEF Revisions, Events, Of
<1>2. Begun(R, E) /\ OwnerSound(R, E, owner) /\ Begun(Q, F) /\ OwnerSound(Q, F, owner)
    BY DEF Good
<1>3. /\ \A r \in E : r \in S /\ r \in U /\ r.owner = owner /\ r.kind = "event"
      /\ \A r \in F : r \in T /\ r \in U /\ r.owner = owner /\ r.kind = "event"
      /\ \A r \in U : r.owner = owner /\ r.kind = "event" => (r \in S => r \in E) /\ (r \in T => r \in F)
    BY DEF Events, Of
<1>4. PICK v \in R, e \in E : Roots(R) = {v} /\ Roots(E) = {e} /\ e.id = v.id
    BY <1>2 DEF Begun
<1>5. PICK w \in Q, f \in F : Roots(Q) = {w} /\ Roots(F) = {f} /\ f.id = w.id
    BY <1>2 DEF Begun
<1>6. v = w
    BY <1>4, <1>5
<1>7. e = f
    BY <1>3, <1>4, <1>5, <1>6 DEF Own
<1> HIDE DEF R, E, Q, F
<1>8. Roots(R \cup Q) = {v} /\ Roots(E \cup F) = {e}
    BY <1>4, <1>5, <1>6, <1>7 DEF Roots
<1>9. Begun(R \cup Q, E \cup F)
    BY <1>4, <1>8 DEF Begun
<1>10. Graph(R \cup Q) /\ Graph(E \cup F)
  <2>1. Graph(Of(U, owner, "revision"))
      BY <1>1, <1>8, OneRootGraph DEF Revisions
  <2>2. Graph(Of(U, owner, "event"))
      BY <1>1, <1>8, OneRootGraph DEF Events
  <2> QED BY <1>1, <2>1, <2>2 DEF Revisions, Events
<1>11. ASSUME owner \in Stories
       PROVE  CriterionHistory(R \cup Q)
  <2>1. CriterionHistory(R) /\ CriterionHistory(Q)
      BY <1>2, <1>11 DEF OwnerSound
  <2>2. Parented(S) /\ Parented(T)
      BY DEF Good
  <2> DEFINE V == R \cup Q
  <2>3. V = Revisions(U, owner)
      BY <1>1
  <2> HIDE DEF V
  <2>4. \A r \in R : CriteriaOf(V, {r.id}) \cap CriteriaOf(V, Ancestors(V, r.parents)) \subseteq CriteriaOf(V, r.parents)
      BY <2>1, <2>2, <2>3, OwnCriteria DEF R
  <2>5. \A r \in Q : CriteriaOf(V, {r.id}) \cap CriteriaOf(V, Ancestors(V, r.parents)) \subseteq CriteriaOf(V, r.parents)
      BY <2>1, <2>2, <2>3, OwnCriteria DEF Q
  <2> QED BY <2>4, <2>5 DEF CriterionHistory, V
<1>12. \A r \in Roots(E \cup F) : Starts(owner, r.state)
    BY <1>2, <1>4, <1>8 DEF OwnerSound
<1>13. ASSUME NEW r \in E \cup F, NEW p \in E \cup F, Cardinality(r.parents) = 1, p.id \in r.parents
       PROVE  Goes(owner, p.state, r.state)
  <2>1. Parented(S) /\ Parented(T)
      BY DEF Good
  <2>2. p \in U /\ r \in U /\ p.owner = r.owner /\ p.kind = r.kind /\ p.owner = owner /\ p.kind = "event"
      BY <1>3
  <2>3. CASE r \in E
    <3>1. p \in S
        BY <1>3, <1>13, <2>1, <2>2, <2>3, OwnParents
    <3>2. p \in E
        BY <1>3, <2>2, <3>1
    <3> QED BY <1>2, <1>13, <2>3, <3>2 DEF OwnerSound
  <2>4. CASE r \in F
    <3>1. p \in T
        BY <1>3, <1>13, <2>1, <2>2, <2>4, OwnParents
    <3>2. p \in F
        BY <1>3, <2>2, <3>1
    <3> QED BY <1>2, <1>13, <2>4, <3>2 DEF OwnerSound
  <2> QED BY <2>3, <2>4
<1> QED BY <1>1, <1>9, <1>10, <1>11, <1>12, <1>13 DEF OwnerSound

LEMMA MergeGood ==
    ASSUME NEW S, NEW T, Good(S), Good(T), Own(S, S \cup T), Own(T, S \cup T),
           \A owner \in Owners : \A r \in Roots(Revisions(S, owner)), s \in Roots(Revisions(T, owner)) : r = s
    PROVE  Good(S \cup T)
<1> DEFINE U == S \cup T
<1>1. Parented(S) /\ Parented(T) /\ Ordered(S) /\ Ordered(T) /\ Own(S, U) /\ Own(T, U)
    BY DEF Good
<1>2. \A r \in U : r.id \in Nat
    BY DEF Good
<1>3. \A owner, kind : Of(U, owner, kind) = Of(S, owner, kind) \cup Of(T, owner, kind)
    BY DEF Of
<1>9. Finite(U)
  <2>1. \A A, B : IsFiniteSet(A) /\ IsFiniteSet(B) => IsFiniteSet(A \cup B)
      BY FS_Union
  <2>2. Finite(S) /\ Finite(T)
      BY DEF Good
  <2> SUFFICES ASSUME NEW owner \in Owners
               PROVE  IsFiniteSet(Of(U, owner, "revision")) /\ IsFiniteSet(Of(U, owner, "event"))
      BY DEF Finite
  <2> HIDE DEF U
  <2>3. /\ IsFiniteSet(Of(S, owner, "revision")) /\ IsFiniteSet(Of(T, owner, "revision"))
        /\ IsFiniteSet(Of(S, owner, "event")) /\ IsFiniteSet(Of(T, owner, "event"))
      BY <2>2 DEF Finite
  <2> QED BY <1>3, <2>1, <2>3
<1>4. Parented(U)
  <2>1. \A owner, kind : /\ Names(Of(S, owner, kind)) \subseteq Names(Of(U, owner, kind))
                         /\ Names(Of(T, owner, kind)) \subseteq Names(Of(U, owner, kind))
      BY <1>3 DEF Names
  <2> QED BY <1>1, <2>1 DEF Parented
<1>5. ASSUME NEW r \in U, NEW p \in U, p.owner = r.owner, p.kind = r.kind, p.id \in r.parents
      PROVE  p.id < r.id
  <2>1. CASE r \in S
    <3>1. p \in S
        BY <1>1, <1>5, <2>1, OwnParents
    <3> QED BY <1>1, <1>5, <2>1, <3>1 DEF Ordered
  <2>2. CASE r \in T
    <3>1. p \in T
        BY <1>1, <1>5, <2>2, OwnParents
    <3> QED BY <1>1, <1>5, <2>2, <3>1 DEF Ordered
  <2> QED BY <2>1, <2>2
<1>6. Ordered(U)
    BY <1>5 DEF Ordered
<1>7. ASSUME NEW owner \in Owners
      PROVE  IF Has(U, owner)
             THEN Begun(Revisions(U, owner), Events(U, owner))
                  /\ OwnerSound(Revisions(U, owner), Events(U, owner), owner)
             ELSE Events(U, owner) = {}
  <2>1. CASE Has(S, owner) /\ Has(T, owner)
    <3> HIDE DEF U
    <3>1. Begun(Revisions(U, owner), Events(U, owner))
             /\ OwnerSound(Revisions(U, owner), Events(U, owner), owner)
        BY <1>1, <1>2, <1>4, <1>6, <2>1, MergeOwner DEF U
    <3>2. Has(U, owner)
        BY <1>3, <2>1 DEF Has, Revisions
    <3> QED BY <3>1, <3>2
  <2>2. CASE ~Has(T, owner)
    <3>1. Of(T, owner, "revision") = {} /\ Of(T, owner, "event") = {}
        BY <2>2 DEF Good, Has, Revisions, Events
    <3>2. Revisions(U, owner) = Revisions(S, owner) /\ Events(U, owner) = Events(S, owner)
        BY <1>3, <3>1 DEF Revisions, Events
    <3>3. Has(U, owner) <=> Has(S, owner)
        BY <3>2 DEF Has
    <3> HIDE DEF U
    <3> QED BY <3>2, <3>3 DEF Good
  <2>3. CASE ~Has(S, owner)
    <3>1. Of(S, owner, "revision") = {} /\ Of(S, owner, "event") = {}
        BY <2>3 DEF Good, Has, Revisions, Events
    <3>2. Revisions(U, owner) = Revisions(T, owner) /\ Events(U, owner) = Events(T, owner)
        BY <1>3, <3>1 DEF Revisions, Events
    <3>3. Has(U, owner) <=> Has(T, owner)
        BY <3>2 DEF Has
    <3> HIDE DEF U
    <3> QED BY <3>2, <3>3 DEF Good
  <2> QED BY <2>1, <2>2, <2>3
<1> HIDE DEF U
<1>8. Good(U)
    BY <1>2, <1>4, <1>6, <1>7, <1>9 DEF Good
<1> QED BY <1>8 DEF U
-----------------------------------------------------------------------------
(* Calls.                                                                  *)

\* A new package, in a clone that has none of its owner, is sound.
LEMMA AddsGood ==
    ASSUME NEW S, Good(S), NEW i \in Nat, \A r \in S : r.id < i,
           NEW owner \in Owners, NEW says, NEW state \in First(owner), ~Has(S, owner),
           NEW v, v = FirstRevision(owner, i, says), NEW e, e = FirstEvent(owner, i, state)
    PROVE  Good(S \cup {v, e})
<1> DEFINE U == S \cup {v, e}
<1>1. /\ v.owner = owner /\ v.kind = "revision" /\ v.id = i /\ v.parents = {} /\ v.past = {}
      /\ e.owner = owner /\ e.kind = "event" /\ e.id = i /\ e.parents = {} /\ e.past = {}
      /\ e.state = state
    BY DEF Blank, FirstRevision, FirstEvent
<1>2. Events(S, owner) = {} /\ Revisions(S, owner) = {}
    BY DEF Good, Has
<1>3. Of(U, owner, "revision") = {v} /\ Of(U, owner, "event") = {e}
    BY <1>1, <1>2 DEF Of, Revisions, Events
<1>4. \A o \in Owners : o # owner =>
        Of(U, o, "revision") = Of(S, o, "revision") /\ Of(U, o, "event") = Of(S, o, "event")
    BY <1>1 DEF Of
<1>5. Finite(U)
  <2>1. IsFiniteSet({v}) /\ IsFiniteSet({e})
      BY FS_Singleton
  <2>2. Finite(S)
      BY DEF Good
  <2> HIDE DEF U
  <2> QED BY <1>3, <1>4, <2>1, <2>2 DEF Finite
<1>6. \A r \in U : r.id \in Nat
    BY <1>1 DEF Good
<1>7. Parented(U)
  <2>1. Parented(S)
      BY DEF Good
  <2>2. \A o, kind : Names(Of(S, o, kind)) \subseteq Names(Of(U, o, kind))
      BY DEF Names, Of
  <2> QED BY <1>1, <2>1, <2>2 DEF Parented
<1>8. Ordered(U)
  <2> SUFFICES ASSUME NEW r \in U, NEW p \in U, p.owner = r.owner, p.kind = r.kind, p.id \in r.parents
               PROVE  p.id < r.id
      BY DEF Ordered
  <2>1. r \in S
      BY <1>1
  <2>2. PICK q \in S : q.owner = r.owner /\ q.kind = r.kind /\ q.id = p.id
      BY <2>1 DEF Good, Parented, Names, Of
  <2> QED BY <2>1, <2>2 DEF Good, Ordered
<1>9. Roots({v}) = {v} /\ Roots({e}) = {e}
    BY <1>1 DEF Roots
<1>10. Begun({v}, {e})
    BY <1>1, <1>9 DEF Begun
<1>11. OwnerSound({v}, {e}, owner)
  <2>1. Graph({v}) /\ Graph({e})
    <3> HIDE DEF U
    <3>1. Graph(Of(U, owner, "revision"))
        BY <1>3, <1>6, <1>7, <1>8, <1>9, OneRootGraph
    <3>2. Graph(Of(U, owner, "event"))
        BY <1>3, <1>6, <1>7, <1>8, <1>9, OneRootGraph
    <3> QED BY <1>3, <3>1, <3>2
  <2>2. CriterionHistory({v})
    <3>1. Ancestors({v}, v.parents) = {}
        BY <1>1 DEF Ancestors
    <3>2. CriteriaOf({v}, {}) = {}
        BY DEF CriteriaOf
    <3> QED BY <3>1, <3>2 DEF CriterionHistory
  <2>3. Starts(owner, state)
    <3>1. owner \notin Stories \/ owner \notin {"persona", "flag", "term", "deprecation"}
        BY RequirementsAssumption
    <3> QED BY <3>1 DEF Starts, First
  <2>4. e.parents = {} /\ v.parents = {}
      BY <1>1
  <2>5. Cardinality({}) # 1
      BY FS_EmptySet
  <2> QED BY <1>1, <1>9, <2>1, <2>2, <2>3, <2>4, <2>5 DEF OwnerSound
<1>12. ASSUME NEW o \in Owners
       PROVE  IF Has(U, o)
              THEN Begun(Revisions(U, o), Events(U, o)) /\ OwnerSound(Revisions(U, o), Events(U, o), o)
              ELSE Events(U, o) = {}
  <2> HIDE DEF U
  <2>1. CASE o = owner
      BY <1>3, <1>10, <1>11, <2>1 DEF Has, Revisions, Events
  <2>2. CASE o # owner
      BY <1>4, <2>2 DEF Good, Has, Revisions, Events
  <2> QED BY <2>1, <2>2
<1> HIDE DEF U
<1>13. Good(U)
    BY <1>5, <1>6, <1>7, <1>8, <1>12 DEF Good
<1> QED BY <1>13 DEF U

\* So is one with a record over its heads, when the packages load with it.
LEMMA SucceedsGood ==
    ASSUME NEW S, Good(S), NEW n, n.owner \in Owners, n.kind \in Kinds, Has(S, n.owner),
           n.id \in Nat, \A r \in S : r.id < n.id,
           NEW H, H = Of(S, n.owner, n.kind), n.parents = Heads(H), n.past = Ancestors(H, n.parents),
           PackagesLoad(S \cup {n})
    PROVE  Good(S \cup {n})
<1> DEFINE U == S \cup {n}
<1>1. \A o, kind : Of(U, o, kind) = IF o = n.owner /\ kind = n.kind THEN H \cup {n} ELSE Of(S, o, kind)
    BY DEF Of
<1>2. Finite(U)
  <2>1. \A A : IsFiniteSet(A) => IsFiniteSet(A \cup {n})
      BY FS_AddElement
  <2>2. Finite(S)
      BY DEF Good
  <2> HIDE DEF U
  <2> QED BY <1>1, <2>1, <2>2 DEF Finite
<1>3. \A r \in U : r.id \in Nat
    BY DEF Good
<1>4. Parented(S) /\ Ordered(S)
    BY DEF Good
<1>5. n.parents \subseteq Names(H) /\ n.past \subseteq Names(H)
  <2>1. n.parents \subseteq Names(H)
      BY DEF Heads
  <2>2. \A x \in H : x \in S /\ x.owner = n.owner /\ x.kind = n.kind
      BY DEF Of
  <2>3. \A x \in H : x.past \subseteq Names(H)
      BY <1>4, <2>2 DEF Parented
  <2> QED BY <2>1, <2>3 DEF Ancestors
<1>6. Parented(U)
  <2>1. \A o, kind : Names(Of(S, o, kind)) \subseteq Names(Of(U, o, kind))
      BY DEF Names, Of
  <2> QED BY <1>4, <1>5, <2>1 DEF Parented
<1>7. Ordered(U)
  <2> SUFFICES ASSUME NEW r \in U, NEW p \in U, p.owner = r.owner, p.kind = r.kind, p.id \in r.parents
               PROVE  p.id < r.id
      BY DEF Ordered
  <2>1. PICK q \in S : q.owner = r.owner /\ q.kind = r.kind /\ q.id = p.id
      BY <1>4, <1>5 DEF Parented, Names, Of
  <2>2. CASE r \in S
      BY <1>4, <2>1, <2>2 DEF Ordered
  <2>3. CASE r = n
      BY <2>1, <2>3
  <2> QED BY <2>2, <2>3
<1>8. \A o \in Owners : Has(U, o) => OwnerSound(Revisions(U, o), Events(U, o), o)
    BY OwnersSound DEF PackagesLoad
<1>9. \A o \in Owners : Has(U, o) <=> Has(S, o)
    BY <1>1 DEF Has, Revisions
<1>10. ASSUME NEW o \in Owners, Has(S, o)
       PROVE  Begun(Revisions(U, o), Events(U, o))
  <2>1. PICK v \in Revisions(S, o), e \in Events(S, o) :
            Roots(Revisions(S, o)) = {v} /\ Roots(Events(S, o)) = {e} /\ e.id = v.id
      BY <1>10 DEF Good, Begun
  <2>2. v \in Roots(Revisions(U, o)) /\ e \in Roots(Events(U, o))
      BY <2>1 DEF Roots, Revisions, Events, Of
  <2>3. Cardinality(Roots(Revisions(U, o))) = 1 /\ Cardinality(Roots(Events(U, o))) = 1
      BY <1>8, <1>9, <1>10 DEF OwnerSound, Graph
  <2>4. IsFiniteSet(Roots(Revisions(U, o))) /\ IsFiniteSet(Roots(Events(U, o)))
    <3>1. IsFiniteSet(Revisions(U, o)) /\ IsFiniteSet(Events(U, o))
        BY <1>2 DEF Finite, Revisions, Events
    <3>2. Roots(Revisions(U, o)) \in SUBSET Revisions(U, o) /\ Roots(Events(U, o)) \in SUBSET Events(U, o)
        BY DEF Roots
    <3> QED BY <3>1, <3>2, FS_Subset
  <2>5. Roots(Revisions(U, o)) = {v} /\ Roots(Events(U, o)) = {e}
    <3>1. \A A, x : IsFiniteSet(A) /\ Cardinality(A) = 1 /\ x \in A => A = {x}
        BY FS_Singleton
    <3> QED BY <2>2, <2>3, <2>4, <3>1
  <2> QED BY <2>1, <2>2, <2>5 DEF Begun, Roots
<1>11. \A o \in Owners : ~Has(S, o) => Events(U, o) = {}
    BY <1>1 DEF Events, Good
<1> HIDE DEF U
<1>12. Good(U)
    BY <1>2, <1>3, <1>6, <1>7, <1>8, <1>9, <1>10, <1>11 DEF Good
<1> QED BY <1>12 DEF U
-----------------------------------------------------------------------------
(* What every clone holds.                                                 *)

\* In all clones a name is of one record of its package and kind.
Named ==
    \A c, d \in Clones : \A r \in records[c], s \in records[d] :
        r.owner = s.owner /\ r.kind = s.kind /\ r.id = s.id => r = s

GoodInv == Named /\ \A c \in Clones : Good(records[c])

\* A call's records have its number.
LEMMA PutsGood ==
    ASSUME RInv, GoodInv, NEW c \in Clones, NEW new, Puts(c, new), Good(records[c] \cup new),
           \A r \in new : r.id = last + 1,
           \A r, s \in new : r.owner = s.owner /\ r.kind = s.kind => r = s
    PROVE  GoodInv'
<1>1. \A d \in Clones : records'[d] = IF d = c THEN records[c] \cup new ELSE records[d]
    BY DEF RInv, Puts
<1>2. \A d \in Clones : Good(records'[d])
    BY <1>1 DEF GoodInv
<1>3. \A d \in Clones : \A r \in records[d] : r.id # last + 1
    BY RequirementsAssumption DEF RInv
<1>4. ASSUME NEW d \in Clones, NEW e \in Clones, NEW r \in records'[d], NEW s \in records'[e],
             r.owner = s.owner, r.kind = s.kind, r.id = s.id
      PROVE  r = s
  <2>1. /\ r \in new \/ \E x \in Clones : r \in records[x]
        /\ s \in new \/ \E x \in Clones : s \in records[x]
      BY <1>1
  <2> QED BY <1>3, <1>4, <2>1 DEF GoodInv, Named
<1> QED BY <1>2, <1>4 DEF GoodInv, Named

LEMMA CallGood ==
    ASSUME RInv, GoodInv, NEW c \in Clones, Call(c)
    PROVE  GoodInv'
<1> DEFINE S == records[c]
           i == last + 1
<1>1. Good(S) /\ i \in Nat /\ \A r \in S : r.id < i
    BY RequirementsAssumption DEF GoodInv, RInv
<1>2. CASE UNCHANGED records
    BY <1>2 DEF GoodInv, Named
<1>3. ASSUME Adds(c)
      PROVE  GoodInv'
  <2>1. PICK owner \in Owners : \E says \in Contents(owner), state \in First(owner) :
            ~Has(S, owner) /\ Puts(c, Package(owner, i, says, state))
      BY <1>3 DEF Adds
  <2>2. PICK says \in Contents(owner), state \in First(owner) :
            ~Has(S, owner) /\ Puts(c, Package(owner, i, says, state))
      BY <2>1
  <2> HIDE DEF i
  <2> DEFINE v == FirstRevision(owner, i, says)
             e == FirstEvent(owner, i, state)
             new == Package(owner, i, says, state)
  <2>3. /\ new = {v, e}
        /\ v.kind = "revision" /\ v.id = i /\ e.kind = "event" /\ e.id = i
    <3>1. new = {v, e}
        BY DEF Package, FirstRevision, FirstEvent
    <3>2. v.kind = "revision" /\ v.id = i /\ e.kind = "event" /\ e.id = i
        BY DEF Blank, FirstRevision, FirstEvent
    <3> QED BY <3>1, <3>2
  <2> HIDE DEF S
  <2>4. Good(S \cup {v, e})
      BY <1>1, <2>2, AddsGood
  <2> HIDE DEF v, e, new
  <2>5. Good(S \cup new)
      BY <2>3, <2>4
  <2>6. Puts(c, new)
      BY <2>2 DEF new
  <2>7. /\ \A r \in new : r.id = i
        /\ \A r, s \in new : r.owner = s.owner /\ r.kind = s.kind => r = s
      BY <2>3
  <2> QED BY <2>5, <2>6, <2>7, PutsGood DEF i, S
<1>4. ASSUME NEW n, Succeeds(c, n)
      PROVE  GoodInv'
  <2> DEFINE H == Of(S, n.owner, n.kind)
  <2>1. /\ n.owner \in Owners /\ n.kind \in Kinds /\ Has(S, n.owner) /\ n.id = i
        /\ n.parents = Heads(H) /\ n.past = Ancestors(H, n.parents)
        /\ PackagesLoad(S \cup {n}) /\ Puts(c, {n})
      BY <1>4 DEF Succeeds
  <2> HIDE DEF S, i
  <2>2. Good(S \cup {n})
      BY <1>1, <2>1, SucceedsGood
  <2>3. /\ \A r \in {n} : r.id = i
        /\ \A r, s \in {n} : r.owner = s.owner /\ r.kind = s.kind => r = s
      BY <2>1
  <2> QED BY <2>1, <2>2, <2>3, PutsGood DEF S, i
<1> QED BY <1>2, <1>3, <1>4 DEF Call

LEMMA MergeKeepsGood ==
    ASSUME RInv, GoodInv, NEW c \in Clones, NEW d \in Clones, Merge(c, d)
    PROVE  GoodInv'
<1> DEFINE S == records[c]
           T == records[d]
<1>1. \A e \in Clones : records'[e] = IF e = c THEN S \cup T ELSE records[e]
    BY DEF RInv, Merge, Puts
<1>2. \A owner \in Owners :
        \A r \in Roots(Revisions(S, owner)), s \in Roots(Revisions(T, owner)) : r = s
    BY DEF Merge, Clash
<1>3. Good(S) /\ Good(T) /\ Own(S, S \cup T) /\ Own(T, S \cup T)
    BY DEF GoodInv, Named, Own
<1>4. Good(S \cup T)
    BY <1>2, <1>3, MergeGood
<1>5. \A e \in Clones : Good(records'[e])
    BY <1>1, <1>4 DEF GoodInv
<1>6. Named'
    BY <1>1 DEF GoodInv, Named
<1> QED BY <1>5, <1>6 DEF GoodInv

\* Every clone has the same packages.
Furnished(says, state) ==
    /\ \A o \in left.of : state[o] \in First(o)
    /\ records = [c \in Clones |-> UNION {Package(o, 1, says[o], state[o]) : o \in left.of}]

LEMMA InitGood == Init => GoodInv
<1> SUFFICES ASSUME Init PROVE GoodInv
    OBVIOUS
<1>1. Good({})
  <2>1. \A o, k : Of({}, o, k) = {}
      BY DEF Of
  <2> QED BY <2>1, FS_EmptySet DEF Good, Finite, Parented, Ordered, Has, Revisions, Events
<1>2. CASE records = [c \in Clones |-> {}]
    BY <1>1, <1>2 DEF GoodInv, Named
<1>3. ASSUME NEW says, NEW state, Furnished(says, state)
      PROVE  GoodInv
  <2> DEFINE S == UNION {Package(o, 1, says[o], state[o]) : o \in left.of}
             v(o) == FirstRevision(o, 1, says[o])
             e(o) == FirstEvent(o, 1, state[o])
  <2>1. left.of \subseteq Owners
      BY RequirementsAssumption DEF Init
  <2>0. \A o \in left.of : state[o] \in First(o)
      BY <1>3 DEF Furnished
  <2>2. \A o \in left.of :
            /\ Package(o, 1, says[o], state[o]) = {v(o), e(o)}
            /\ v(o).owner = o /\ v(o).kind = "revision" /\ v(o).id = 1 /\ v(o).parents = {} /\ v(o).past = {}
            /\ e(o).owner = o /\ e(o).kind = "event" /\ e(o).id = 1 /\ e(o).parents = {} /\ e(o).past = {}
      BY PackageOf
  <2>3. \A o \in Owners : Good({} \cup {v(o), e(o)}) \/ o \notin left.of
    <3> SUFFICES ASSUME NEW o \in left.of PROVE Good({} \cup {v(o), e(o)})
        OBVIOUS
    <3>1. o \in Owners /\ state[o] \in First(o) /\ 1 \in Nat /\ ~Has({}, o)
        BY <2>0, <2>1 DEF Has, Revisions, Of
    <3> QED BY <1>1, <3>1, AddsGood
  <2>4. S = UNION {{v(o), e(o)} : o \in left.of}
      BY <2>2
  <2> HIDE DEF v, e, S
  <2>5. \A r \in S : \E o \in left.of : r \in {v(o), e(o)}
      BY <2>4
  <2>6. \A r \in S : r.id = 1 /\ r.parents = {} /\ r.past = {}
      BY <2>2, <2>5
  <2>7. \A o \in Owners : \A k \in Kinds :
            Of(S, o, k) = IF o \in left.of THEN Of({v(o), e(o)}, o, k) ELSE {}
    <3> SUFFICES ASSUME NEW o \in Owners, NEW k \in Kinds
                 PROVE  Of(S, o, k) = IF o \in left.of THEN Of({v(o), e(o)}, o, k) ELSE {}
        OBVIOUS
    <3>1. \A r \in S : r.owner = o => o \in left.of /\ r \in {v(o), e(o)}
        BY <2>2, <2>5
    <3>2. o \in left.of => {v(o), e(o)} \subseteq S
        BY <2>4
    <3> QED BY <3>1, <3>2 DEF Of
  <2>8. Good(S)
    <3>1. \A o \in Owners :
            /\ Revisions(S, o) = IF o \in left.of THEN Revisions({v(o), e(o)}, o) ELSE {}
            /\ Events(S, o) = IF o \in left.of THEN Events({v(o), e(o)}, o) ELSE {}
        BY <2>7 DEF Revisions, Events, Kinds
    <3>2. \A o \in left.of : Good({v(o), e(o)})
      <4>1. \A A : {} \cup A = A
          OBVIOUS
      <4> QED BY <2>1, <2>3, <4>1
    <3>3. Finite(S)
      <4>1. \A o \in left.of : Finite({v(o), e(o)})
          BY <3>2 DEF Good
      <4> QED BY <3>1, <4>1, FS_EmptySet DEF Finite, Revisions, Events
    <3>4. Parented(S) /\ Ordered(S) /\ \A r \in S : r.id \in Nat
        BY <2>6 DEF Parented, Ordered
    <3>5. ASSUME NEW o \in Owners
          PROVE  IF Has(S, o)
                 THEN Begun(Revisions(S, o), Events(S, o)) /\ OwnerSound(Revisions(S, o), Events(S, o), o)
                 ELSE Events(S, o) = {}
      <4>1. CASE o \in left.of
        <5>1. Good({v(o), e(o)})
            BY <3>2, <4>1
        <5>2. Revisions(S, o) = Revisions({v(o), e(o)}, o) /\ Events(S, o) = Events({v(o), e(o)}, o)
            BY <3>1, <4>1
        <5> QED BY <5>1, <5>2 DEF Good, Has
      <4>2. CASE o \notin left.of
          BY <3>1, <4>2 DEF Has
      <4> QED BY <4>1, <4>2
    <3> QED BY <3>3, <3>4, <3>5 DEF Good
  <2>9. \A c \in Clones : records[c] = S
      BY <1>3 DEF S, Furnished
  <2>10. \A r, s \in S : r.owner = s.owner /\ r.kind = s.kind => r = s
    <3> SUFFICES ASSUME NEW r \in S, NEW s \in S, r.owner = s.owner, r.kind = s.kind
                 PROVE  r = s
        OBVIOUS
    <3>1. PICK o \in left.of : r \in {v(o), e(o)}
        BY <2>5
    <3>2. PICK p \in left.of : s \in {v(p), e(p)}
        BY <2>5
    <3>3. o = p
        BY <2>2, <3>1, <3>2
    <3>4. v(o).kind = "revision" /\ e(o).kind = "event"
        BY <2>2
    <3>5. r \in {v(o), e(o)} /\ s \in {v(o), e(o)}
        BY <3>1, <3>2, <3>3
    <3> QED BY <3>4, <3>5
  <2> QED BY <2>8, <2>9, <2>10 DEF GoodInv, Named
<1>4. \/ records = [c \in Clones |-> {}]
      \/ \E says, state : Furnished(says, state)
  <2>1. CASE left.add > 0 /\ records = [c \in Clones |-> {}] /\ last = 0
    BY <2>1
  <2>2. ASSUME NEW says \in [left.of -> UNION {Contents(o) : o \in left.of}],
               NEW state \in [left.of -> UNION {First(o) : o \in left.of}],
               \A o \in left.of : says[o] \in Contents(o) /\ state[o] \in First(o),
               records = [c \in Clones |-> UNION {Package(o, 1, says[o], state[o]) : o \in left.of}]
        PROVE  \E asked, begun : Furnished(asked, begun)
    <3>1. Furnished(says, state)
        BY <2>2, Zenon DEF Furnished
    <3> QED BY <3>1, Zenon
  <2> QED BY <2>1, <2>2, Zenon DEF Init
<1> QED BY <1>2, <1>3, <1>4
-----------------------------------------------------------------------------
(* The ends of relations.                                                  *)

KnownIn(S, l) == \A e \in Requirement(Ends(l)) :
    e \in Points(S) /\ l.pins[e] \in Names(Revisions(S, StoryOf(e)))
KnownInv == \A c \in Clones : EndsKnown(records[c], links[c])

LEMMA KnownMore ==
    ASSUME NEW S, NEW U, S \subseteq U, NEW l, KnownIn(S, l)
    PROVE  KnownIn(U, l)
<1>1. \A s : Revisions(S, s) \subseteq Revisions(U, s)
    BY DEF Revisions, Of
<1>2. \A s : Names(Revisions(S, s)) \subseteq Names(Revisions(U, s))
    BY <1>1 DEF Names
<1>3. \A s : CriteriaOf(Revisions(S, s), Names(Revisions(S, s)))
                \subseteq CriteriaOf(Revisions(U, s), Names(Revisions(U, s)))
    BY <1>1, <1>2 DEF CriteriaOf
<1>4. Points(S) \subseteq Points(U)
    BY <1>1, <1>3 DEF Points, Has
<1> QED BY <1>2, <1>4 DEF KnownIn

\* A relation is about revisions, not about events.
LEMMA KnownBesides ==
    ASSUME NEW S, NEW n, n.kind = "event", NEW l, KnownIn(S \cup {n}, l)
    PROVE  KnownIn(S, l)
<1>1. \A s : Revisions(S \cup {n}, s) = Revisions(S, s)
    BY DEF Revisions, Of
<1> QED BY <1>1 DEF KnownIn, Points, Has

LEMMA KnownAlike ==
    ASSUME NEW S, NEW l, KnownIn(S, l), NEW m, m.from = l.from, m.to = l.to, m.pins = l.pins
    PROVE  KnownIn(S, m)
BY DEF KnownIn, Ends

LEMMA CallGrows ==
    ASSUME RInv, NEW c \in Clones, Call(c)
    PROVE  \A d \in Clones : records[d] \subseteq records'[d]
<1>1. ASSUME NEW new, Puts(c, new)
      PROVE  \A d \in Clones : records[d] \subseteq records'[d]
    BY <1>1 DEF Puts, RInv
<1> QED BY <1>1 DEF Call, Adds, Succeeds

LEMMA KnownUntouched ==
    ASSUME RInv, KnownInv, NEW c \in Clones, Call(c), UNCHANGED links
    PROVE  KnownInv'
<1> SUFFICES ASSUME NEW d \in Clones, NEW l \in links[d]
             PROVE  KnownIn(records'[d], l)
    BY DEF KnownInv, EndsKnown, KnownIn
<1>1. KnownIn(records[d], l)
    BY DEF KnownInv, EndsKnown, KnownIn
<1>2. records[d] \subseteq records'[d]
    BY CallGrows
<1> QED BY <1>1, <1>2, KnownMore

\* A call that writes relations known in its clone.
LEMMA KnownWritten ==
    ASSUME RInv, LInv, KnownInv, NEW c \in Clones, Call(c),
           NEW K, links' = [links EXCEPT ![c] = K], \A l \in K : KnownIn(records[c], l)
    PROVE  KnownInv'
<1> SUFFICES ASSUME NEW d \in Clones, NEW l \in links'[d]
             PROVE  KnownIn(records'[d], l)
    BY DEF KnownInv, EndsKnown, KnownIn
<1>1. links'[d] = IF d = c THEN K ELSE links[d]
    BY DEF LInv, LinksKnown
<1>2. KnownIn(records[d], l)
  <2>1. CASE d = c
      BY <1>1, <2>1
  <2>2. CASE d # c
      BY <1>1, <2>2 DEF KnownInv, EndsKnown, KnownIn
  <2> QED BY <2>1, <2>2
<1>3. records[d] \subseteq records'[d]
    BY CallGrows
<1> QED BY <1>2, <1>3, KnownMore

LEMMA AddRelationKnown ==
    ASSUME RInv, LInv, KnownInv, NEW c \in Clones, AddRelation(c)
    PROVE  KnownInv'
<1>1. PICK m : LinksLoad(records[c], links[c] \cup {m}) /\ links' = [links EXCEPT ![c] = @ \cup {m}]
    BY DEF AddRelation
<1>2. \A l \in links[c] \cup {m} : KnownIn(records[c], l)
    BY <1>1 DEF LinksLoad, EndsKnown, KnownIn
<1> QED BY <1>1, <1>2, RelationCall, KnownWritten

LEMMA SupersedeRelationKnown ==
    ASSUME RInv, LInv, KnownInv, NEW c \in Clones, SupersedeRelation(c)
    PROVE  KnownInv'
<1>1. PICK l \in links[c] : links' = [links EXCEPT ![c] = (@ \ {l}) \cup {Superseded(l, "hand")}]
    BY DEF SupersedeRelation, Active
<1> DEFINE m == Superseded(l, "hand")
<1>2. IsLink(l) /\ last \in Nat
    BY DEF LInv, LinksKnown
<1>3. m.from = l.from /\ m.to = l.to /\ m.pins = l.pins
    BY <1>2, SupersededLink
<1> HIDE DEF m
<1>4. \A k \in links[c] : KnownIn(records[c], k)
    BY DEF KnownInv, EndsKnown, KnownIn
<1>5. KnownIn(records[c], m)
    BY <1>3, <1>4, KnownAlike
<1>6. links' = [links EXCEPT ![c] = (links[c] \ {l}) \cup {m}]
    BY <1>1 DEF m
<1> QED BY <1>4, <1>5, <1>6, RelationCall, KnownWritten

LEMMA ConsolidateKnown ==
    ASSUME RInv, LInv, KnownInv, NEW c \in Clones, NEW dup \in Stories, NEW canonical \in Stories,
           ConsolidateProposal(c, dup, canonical)
    PROVE  KnownInv'
<1> DEFINE S == records[c]
           L == links[c]
<1>1. PICK map : Consolidates(c, Plan(c, dup, canonical, map), Decision(c, dup, canonical, map))
    BY ConsolidateWrites
<1> DEFINE old == Plan(c, dup, canonical, map).old
           anew == Plan(c, dup, canonical, map).new
           n == Decision(c, dup, canonical, map)
<1>2. PICK cut \in Extents(old), unrestored \in SUBSET old :
        links' = [links EXCEPT ![c] = (@ \ cut.ended) \cup {anew[l] : l \in cut.new}
              \cup {Superseded(l, IF l \in unrestored THEN "unrestored" ELSE "replaced") :
                      l \in cut.ended}]
    BY <1>1 DEF Consolidates, Written
<1>3. n.kind = "event"
    BY SuccessorOf DEF Decision
<1>4. \A l \in old : KnownIn(S \cup {n}, anew[l])
    BY <1>1 DEF Consolidates, Decides, LinksLoad, EndsKnown, KnownIn
<1>5. old \subseteq L
    BY DEF Plan, Prepared, Active
<1> HIDE DEF old, anew, n
<1>6. cut.new \subseteq old /\ cut.ended \subseteq old
    BY <1>2 DEF Extents
<1>7. \A l \in old : KnownIn(S, anew[l])
    BY <1>3, <1>4, KnownBesides
<1>8. \A l \in L : KnownIn(S, l) /\ IsLink(l) /\ last \in Nat
    BY DEF KnownInv, EndsKnown, KnownIn, LInv, LinksKnown
<1>9. ASSUME NEW l \in cut.ended, NEW how PROVE KnownIn(S, Superseded(l, how))
  <2> DEFINE m == Superseded(l, how)
  <2>1. KnownIn(S, l) /\ IsLink(l) /\ last \in Nat
      BY <1>5, <1>6, <1>8
  <2>2. m.from = l.from /\ m.to = l.to /\ m.pins = l.pins
      BY <2>1, SupersededLink
  <2> HIDE DEF m
  <2>3. KnownIn(S, m)
      BY <2>1, <2>2, KnownAlike
  <2> QED BY <2>3 DEF m
<1> DEFINE K == (L \ cut.ended) \cup {anew[l] : l \in cut.new}
              \cup {Superseded(l, IF l \in unrestored THEN "unrestored" ELSE "replaced") :
                      l \in cut.ended}
<1>10. \A l \in K : KnownIn(S, l)
    BY <1>6, <1>7, <1>8, <1>9
<1>11. links' = [links EXCEPT ![c] = K]
    BY <1>2
<1> HIDE DEF K
<1> QED BY <1>10, <1>11, ConsolidateCall, KnownWritten

LEMMA MergeKnown ==
    ASSUME RInv, LInv, KnownInv, NEW c \in Clones, NEW d \in Clones, Merge(c, d)
    PROVE  KnownInv'
<1> SUFFICES ASSUME NEW e \in Clones, NEW l \in links'[e]
             PROVE  KnownIn(records'[e], l)
    BY DEF KnownInv, EndsKnown, KnownIn
<1>1. \A x \in Clones : links'[x] = IF x = c THEN Join(links[c], links[d]) ELSE links[x]
    BY DEF Merge, LInv, LinksKnown
<1>2. \A x \in Clones : records'[x] = IF x = c THEN records[c] \cup records[d] ELSE records[x]
    BY DEF Merge, Puts, RInv
<1>3. Join(links[c], links[d]) \subseteq links[c] \cup links[d]
    BY DEF Join
<1>4. PICK x \in Clones : l \in links[x] /\ records[x] \subseteq records'[e]
    BY <1>1, <1>2, <1>3
<1>5. KnownIn(records[x], l)
    BY <1>4 DEF KnownInv, EndsKnown, KnownIn
<1> QED BY <1>4, <1>5, KnownMore

GInv == RInv /\ LInv /\ GoodInv /\ KnownInv

LEMMA KnownStep ==
    ASSUME GInv, Next
    PROVE  KnownInv'
<1>1. ASSUME NEW c \in Clones, NEW owner \in Owners, Add(c, owner) \/ Revise(c, owner) \/ SetState(c, owner)
      PROVE  KnownInv'
  <2>1. UNCHANGED links
      BY <1>1 DEF Add, Revise, SetState
  <2> QED BY <1>1, <2>1, AddCall, ReviseCall, SetStateCall, KnownUntouched DEF GInv
<1>2. ASSUME NEW c \in Clones, NEW s \in Stories, MutateCriterion(c, s)
      PROVE  KnownInv'
  <2>1. UNCHANGED links
      BY <1>2 DEF MutateCriterion
  <2> QED BY <1>2, <2>1, MutateCriterionCall, KnownUntouched DEF GInv
<1>3. ASSUME NEW c \in Clones, AddRelation(c) \/ SupersedeRelation(c)
      PROVE  KnownInv'
    BY <1>3, AddRelationKnown, SupersedeRelationKnown DEF GInv
<1>4. ASSUME NEW c \in Clones, NEW dup \in Stories, NEW canonical \in Stories,
             ConsolidateProposal(c, dup, canonical)
      PROVE  KnownInv'
    BY <1>4, ConsolidateKnown DEF GInv
<1>5. ASSUME NEW c \in Clones, NEW d \in Clones, Merge(c, d)
      PROVE  KnownInv'
    BY <1>5, MergeKnown DEF GInv
<1>6. Stories \subseteq Owners /\ {"persona", "flag", "term", "deprecation"} \subseteq Owners
    BY DEF Owners
<1>7. ASSUME NEW c \in Clones, Tidy(c)
      PROVE  KnownInv'
    BY <1>7 DEF Tidy, GInv, KnownInv
<1> QED BY <1>1, <1>2, <1>3, <1>4, <1>5, <1>6, <1>7
        DEF Next, AddStory, ReviseStory, SetStoryState, AddPersona, RevisePersona, SetPersonaState,
            AddFlag, ReviseFlag, SetFlagState, AddTerm, ReviseTerm, SetTermState,
            AddDeprecation, ReviseDeprecation, SetDeprecationState

LEMMA GStep == GInv /\ [Next]_vars => GInv'
<1> SUFFICES ASSUME GInv, [Next]_vars PROVE GInv'
    OBVIOUS
<1>1. RInv' /\ LInv'
    BY NextStep, LinksStep DEF GInv, HistoriesStep
<1>2. CASE UNCHANGED <<records, links, last, left>>
    BY <1>1, <1>2 DEF GInv, GoodInv, Named, KnownInv
<1>3. CASE Next /\ ~UNCHANGED <<records, links, last, left>>
  <2>1. GoodInv'
      BY <1>3, Steps, CallGood, MergeKeepsGood DEF GInv
  <2>2. KnownInv'
      BY <1>3, KnownStep
  <2> QED BY <1>1, <2>1, <2>2 DEF GInv
<1> QED BY <1>2, <1>3 DEF vars

LEMMA InitG == Init => GInv
<1> SUFFICES ASSUME Init PROVE GInv
    OBVIOUS
<1>1. KnownInv
    BY DEF Init, KnownInv, EndsKnown
<1> QED BY <1>1, InitRecords, InitLinks, InitGood DEF GInv

\* In every clone, merged in whatever order, a package is one graph for each kind
\* of record, begun by one revision and one event, whose ancestors are there; and
\* what relations are about is there.
THEOREM GoodInvariance == Spec => []GInv
BY InitG, GStep, PTL DEF Spec

\* A merge breaks nothing but what two sound sides can only break together: an
\* accepted story's criteria, a circle of refinements, a conflict stated twice.
THEOREM MergeFailures == Spec => []FailsOnlyByMerge
<1>1. GInv => FailsOnlyByMerge
    BY OwnersSound DEF GInv, GoodInv, Good, KnownInv, FailsOnlyByMerge
<1> QED BY <1>1, GoodInvariance, PTL
-----------------------------------------------------------------------------
(* What a call leaves behind loads.                                        *)

LEMMA OneIsCurrent ==
    ASSUME NEW e, e.parents = {}
    PROVE  Current({e}) = e
<1>1. e.id \in Heads({e})
    BY DEF Heads, Names
<1> QED BY <1>1 DEF Current

LEMMA AddsLoads ==
    ASSUME NEW S, PackagesLoad(S), NEW i \in Nat,
           NEW owner \in Owners, NEW says, NEW state \in First(owner), ~Has(S, owner),
           NEW v, v = FirstRevision(owner, i, says), NEW e, e = FirstEvent(owner, i, state),
           Good(S), Good(S \cup {v, e})
    PROVE  PackagesLoad(S \cup {v, e})
<1> DEFINE U == S \cup {v, e}
<1>1. /\ v.owner = owner /\ v.kind = "revision" /\ v.parents = {}
      /\ e.owner = owner /\ e.kind = "event" /\ e.parents = {} /\ e.state = state
    BY DEF Blank, FirstRevision, FirstEvent
<1>2. PackagesSoundBesides(U)
    BY OwnersSound DEF Good
<1>3. ASSUME NEW s \in Stories, Has(U, s)
      PROVE  StoryLoads(U, s)
  <2>1. StorySoundBesides(U, s)
      BY <1>2, <1>3 DEF PackagesSoundBesides
  <2>2. CASE s # owner
    <3>1. Revisions(U, s) = Revisions(S, s) /\ Events(U, s) = Events(S, s)
        BY <1>1, <2>2 DEF Revisions, Events, Of
    <3>2. AcceptedHasCriteria(Revisions(S, s), Events(S, s))
        BY <1>3, <3>1 DEF PackagesLoad, StoryLoads, Has
    <3> QED BY <2>1, <3>1, <3>2 DEF StoryLoads
  <2>3. CASE s = owner
    <3>1. Events(S, s) = {}
        BY <2>3 DEF Good
    <3>2. Events(U, s) = {e}
        BY <1>1, <2>3, <3>1 DEF Events, Of
    <3>3. state = "proposed"
      <4>1. owner \in Stories /\ owner # "flag"
          BY <2>3, RequirementsAssumption
      <4> QED BY <4>1 DEF First
    <3>4. Current({e}) = e
        BY <1>1, OneIsCurrent
    <3>5. ~Accepted({e})
        BY <1>1, <3>3, <3>4 DEF Accepted
    <3> QED BY <2>1, <3>2, <3>5 DEF StoryLoads, AcceptedHasCriteria
  <2> QED BY <2>2, <2>3
<1> HIDE DEF U
<1>4. PackagesLoad(U)
    BY <1>2, <1>3 DEF PackagesLoad
<1> QED BY <1>4 DEF U

LEMMA CallLoads ==
    ASSUME GInv, GInv', NEW c \in Clones, Call(c), PackagesLoad(records[c])
    PROVE  PackagesLoad(records'[c])
<1> DEFINE S == records[c]
           i == last + 1
<1>1. i \in Nat /\ Good(S) /\ Good(records'[c])
    BY RequirementsAssumption DEF GInv, GoodInv, RInv
<1>2. \A new : Puts(c, new) => records'[c] = S \cup new
    BY DEF Puts, GInv, RInv
<1>3. ASSUME Adds(c)
      PROVE  PackagesLoad(records'[c])
  <2>1. PICK owner \in Owners : \E says \in Contents(owner), state \in First(owner) :
            ~Has(S, owner) /\ Puts(c, Package(owner, i, says, state))
      BY <1>3 DEF Adds
  <2>2. PICK says \in Contents(owner), state \in First(owner) :
            ~Has(S, owner) /\ Puts(c, Package(owner, i, says, state))
      BY <2>1
  <2> HIDE DEF i
  <2> DEFINE v == FirstRevision(owner, i, says)
             e == FirstEvent(owner, i, state)
  <2>3. Package(owner, i, says, state) = {v, e}
      BY DEF Package, FirstRevision, FirstEvent
  <2> HIDE DEF S, v, e
  <2>4. records'[c] = S \cup {v, e}
      BY <1>2, <2>2, <2>3
  <2>5. Good(S \cup {v, e})
      BY <1>1, <2>4
  <2>6. PackagesLoad(S)
      BY DEF S
  <2>7. PackagesLoad(S \cup {v, e})
      BY <1>1, <2>2, <2>5, <2>6, AddsLoads DEF v, e
  <2> QED BY <2>4, <2>7
<1>4. ASSUME NEW n, Succeeds(c, n)
      PROVE  PackagesLoad(records'[c])
    BY <1>2, <1>4 DEF Succeeds
<1> QED BY <1>3, <1>4 DEF Call

\* What is demanded of relations in force, besides that their ends are there.
Fit(A) ==
    /\ \A l, m \in A : l.type = "conflicts_with" /\ m.type = "conflicts_with" /\ Ends(l) = Ends(m) => l = m
    /\ \A T : T # {} => \E x \in T : \A l \in A : l.type = "refines" /\ l.from = x => l.to \notin T

LEMMA FitLoads ==
    ASSUME NEW L
    PROVE  NoConflictTwice(L) /\ RefinesAcyclic(L) <=> Fit(Active(L))
<1> DEFINE A == Active(L)
           refines == {l \in A : l.type = "refines"}
           points == UNION {Ends(l) : l \in refines}
<1>1. NoConflictTwice(L) <=>
        \A l, m \in A : l.type = "conflicts_with" /\ m.type = "conflicts_with" /\ Ends(l) = Ends(m) => l = m
    BY DEF NoConflictTwice
<1>2. RefinesAcyclic(L) <=>
        \A T \in SUBSET points : T # {} => \E x \in T : \A l \in refines : l.from = x => l.to \notin T
    BY DEF RefinesAcyclic
<1> HIDE DEF A
<1>3. ASSUME \A T \in SUBSET points : T # {} => \E x \in T : \A l \in refines : l.from = x => l.to \notin T,
             NEW T, T # {}
      PROVE  \E x \in T : \A l \in A : l.type = "refines" /\ l.from = x => l.to \notin T
  <2>1. CASE T \subseteq points
      BY <1>3, <2>1
  <2>2. CASE ~(T \subseteq points)
    <3>1. PICK x \in T : x \notin points
        BY <2>2
    <3>2. \A l \in refines : l.from \in points
        BY DEF Ends
    <3> QED BY <3>1, <3>2
  <2> QED BY <2>1, <2>2
<1>4. ASSUME \A T : T # {} => \E x \in T : \A l \in A : l.type = "refines" /\ l.from = x => l.to \notin T
      PROVE  \A T \in SUBSET points : T # {} => \E x \in T : \A l \in refines : l.from = x => l.to \notin T
    BY <1>4
<1> QED BY <1>1, <1>2, <1>3, <1>4 DEF Fit, A

LEMMA FitFewer ==
    ASSUME NEW A, Fit(A), NEW B, B \subseteq A
    PROVE  Fit(B)
BY DEF Fit

\* O are the relations a consolidation touches, N those that replace them, U the
\* others in force.
Replaced(U, O, N, dup, canonical, map) ==
    LET D == {dup} \cup DOMAIN map
        place(end) == Endpoint(end, dup, canonical, map)
    IN /\ \A l \in U \cup N : Ends(l) \cap D = {}
       /\ \A l \in O : Ends(l) \cap D # {}
       /\ \A l \in O : \E m \in N : m.type = l.type /\
            (l.type = "refines" => m.from = place(l.from) /\ m.to = place(l.to))

\* Each relation and its replacement may both be in force.
LEMMA FitBetween ==
    ASSUME NEW U, NEW O, NEW N, Fit(U \cup O), Fit(U \cup N), NEW dup, NEW canonical, NEW map,
           Replaced(U, O, N, dup, canonical, map)
    PROVE  Fit(U \cup O \cup N)
<1> DEFINE place(x) == Endpoint(x, dup, canonical, map)
           D == {dup} \cup DOMAIN map
           A == U \cup O \cup N
<1>0. /\ \A x : x \notin D => place(x) = x
      /\ \A l \in U \cup N : Ends(l) \cap D = {}
      /\ \A l \in O : Ends(l) \cap D # {}
      /\ \A l \in O : \E m \in N : m.type = l.type /\
            (l.type = "refines" => m.from = place(l.from) /\ m.to = place(l.to))
    BY DEF Endpoint, Replaced
<1> HIDE DEF place, D
<1>1. ASSUME NEW l \in A, NEW m \in A, l.type = "conflicts_with", m.type = "conflicts_with", Ends(l) = Ends(m)
      PROVE  l = m
  <2>1. CASE l \in O \/ m \in O
    <3>1. l \in U \cup O /\ m \in U \cup O
        BY <1>0, <1>1, <2>1
    <3> QED BY <1>1, <3>1 DEF Fit
  <2>2. CASE l \in U \cup N /\ m \in U \cup N
      BY <1>1, <2>2 DEF Fit
  <2> QED BY <2>1, <2>2
<1>2. ASSUME NEW T, T # {}, \A x \in T : \E l \in A : l.type = "refines" /\ l.from = x /\ l.to \in T
      PROVE  FALSE
  <2> DEFINE P == {place(x) : x \in T}
  <2>1. PICK y \in P : \A l \in U \cup N : l.type = "refines" /\ l.from = y => l.to \notin P
    <3>1. P # {}
        BY <1>2
    <3> HIDE DEF P
    <3> QED BY <3>1 DEF Fit
  <2>2. PICK x \in T : y = place(x)
      OBVIOUS
  <2>3. PICK l \in A : l.type = "refines" /\ l.from = x /\ l.to \in T
      BY <1>2
  <2>4. place(l.to) \in P
      BY <2>3
  <2> HIDE DEF P, place
  <2>5. CASE l \in O
    <3>1. PICK m \in N : m.type = "refines" /\ m.from = place(l.from) /\ m.to = place(l.to)
        BY <1>0, <2>3, <2>5
    <3> QED BY <3>1, <2>1, <2>2, <2>3, <2>4, <2>5
  <2>6. CASE l \in U \cup N
    <3>1. l.from \notin D /\ l.to \notin D
        BY <1>0, <2>6 DEF Ends
    <3>2. place(l.from) = l.from /\ place(l.to) = l.to
        BY <1>0, <3>1
    <3> QED BY <2>1, <2>2, <2>3, <2>4, <2>6, <3>2
  <2> QED BY <2>5, <2>6
<1>3. \A T : T # {} => \E x \in T : \A l \in A : l.type = "refines" /\ l.from = x => l.to \notin T
    BY <1>2
<1> HIDE DEF A
<1>4. Fit(A)
    BY <1>1, <1>3 DEF Fit
<1> QED BY <1>4 DEF A

LEMMA InOrderEnds ==
    ASSUME NEW type, NEW from, NEW to, NEW p, p = InOrder(type, from, to)
    PROVE  {p[1], p[2]} = {from, to} /\ (type = "refines" => p[1] = from /\ p[2] = to)
<1>1. CASE type = "conflicts_with"
  <2>1. p \in {<<from, to>>, <<to, from>>}
      BY <1>1 DEF InOrder
  <2> QED BY <1>1, <2>1
<1>2. CASE type # "conflicts_with"
  <2>1. p = <<from, to>>
      BY <1>2 DEF InOrder
  <2> QED BY <2>1
<1> QED BY <1>1, <1>2

\* What stands for a point is none of the points that are given up.
LEMMA EndpointKept ==
    ASSUME NEW S, NEW dup \in Stories, NEW canonical \in Stories, dup # canonical,
           \A r \in S : \A x \in r.says : x[1] \in Criteria,
           Settled(Revisions(S, dup)), Settled(Revisions(S, canonical)),
           NEW map \in CriterionMaps(S, dup, canonical), NEW end
    PROVE  Endpoint(end, dup, canonical, map) \notin {dup} \cup DOMAIN map
<1>1. ASSUME NEW s \in {dup, canonical}, NEW e \in CurrentCriteria(S, s)
      PROVE  e \notin Stories /\ e[1] = s
  <2> DEFINE R == Revisions(S, s)
  <2>1. \E r \in R : r.id \in Heads(R)
    <3>1. Heads(R) # {}
        BY FS_EmptySet DEF Settled
    <3> QED BY <3>1 DEF Heads, Names
  <2>2. Current(R) \in S
      BY <2>1 DEF Current, Revisions, Of
  <2>3. PICK x \in Current(R).says : e = <<s, x[1]>>
      BY <1>1 DEF CurrentCriteria
  <2>4. x[1] \in Criteria
      BY <2>2
  <2> QED BY <2>3, <2>4, RequirementsAssumption
<1>2. map \in [CurrentCriteria(S, dup) -> CurrentCriteria(S, canonical)]
    BY DEF CriterionMaps, Injection
<1>3. DOMAIN map = CurrentCriteria(S, dup)
    BY <1>2
<1>4. \A e \in DOMAIN map : map[e] \in CurrentCriteria(S, canonical)
    BY <1>2
<1> QED BY <1>1, <1>3, <1>4 DEF Endpoint

LEMMA ConsolidateFit ==
    ASSUME GInv, NEW c \in Clones, NEW dup \in Stories, NEW canonical \in Stories,
           ConsolidateProposal(c, dup, canonical), Fit(Active(links[c]))
    PROVE  Fit(Active(links'[c]))
<1> DEFINE S == records[c]
           L == links[c]
<1>1. PICK map \in CriterionMaps(S, dup, canonical) :
        Consolidates(c, Plan(c, dup, canonical, map), Decision(c, dup, canonical, map))
    BY ConsolidateWrites
<1> DEFINE old == Plan(c, dup, canonical, map).old
           anew == Plan(c, dup, canonical, map).new
           n == Decision(c, dup, canonical, map)
           done == {Superseded(l, "replaced") : l \in old}
           D == {dup} \cup DOMAIN map
           place(x) == Endpoint(x, dup, canonical, map)
<1>2. PICK cut \in Extents(old), unrestored \in SUBSET old :
        links' = [links EXCEPT ![c] = (@ \ cut.ended) \cup {anew[l] : l \in cut.new}
              \cup {Superseded(l, IF l \in unrestored THEN "unrestored" ELSE "replaced") :
                      l \in cut.ended}]
    BY <1>1 DEF Consolidates, Written
<1>3. LinksLoad(S \cup {n}, (L \ old) \cup {anew[l] : l \in old} \cup done)
    BY <1>1 DEF Consolidates, Decides
<1>4. /\ old = {l \in Active(L) : Ends(l) \cap D # {}}
      /\ \A l \in old : anew[l] = Replacement(S, l, dup, canonical, map)
    BY DEF Plan, Prepared
<1>5. last \in Nat /\ \A l \in L : IsLink(l)
    BY DEF GInv, LInv, LinksKnown
<1>6. \A x : place(x) \notin D
  <2>1. \A r \in S : \A x \in r.says : x[1] \in Criteria
      BY DEF GInv, RInv
  <2>2. dup # canonical /\ Settled(Revisions(S, dup)) /\ Settled(Revisions(S, canonical))
      BY DEF ConsolidateProposal
  <2> QED BY <2>1, <2>2, EndpointKept
<1> HIDE DEF old, anew, n, done, D, place
<1>7. old \subseteq L /\ cut.new \subseteq old /\ cut.ended \subseteq old
    BY <1>2, <1>4 DEF Extents, Active
<1>8. ASSUME NEW l \in old
      PROVE  /\ anew[l].type = l.type /\ anew[l].ended = 0
             /\ Ends(anew[l]) \cap D = {}
             /\ l.type = "refines" => anew[l].from = place(l.from) /\ anew[l].to = place(l.to)
  <2> DEFINE p == InOrder(l.type, place(l.from), place(l.to))
  <2>1. IsLink(l)
      BY <1>5, <1>7
  <2>2. LET m == Replacement(S, l, dup, canonical, map) IN
            m.type = l.type /\ m.ended = 0 /\ m.from = p[1] /\ m.to = p[2]
      BY <1>5, <2>1, ReplacementLink DEF place
  <2> HIDE DEF p
  <2>3. {p[1], p[2]} = {place(l.from), place(l.to)}
        /\ (l.type = "refines" => p[1] = place(l.from) /\ p[2] = place(l.to))
      BY InOrderEnds DEF p
  <2>4. anew[l].type = l.type /\ anew[l].ended = 0 /\ anew[l].from = p[1] /\ anew[l].to = p[2]
      BY <1>4, <2>2
  <2>5. Ends(anew[l]) = {place(l.from), place(l.to)}
      BY <2>3, <2>4 DEF Ends
  <2> QED BY <1>6, <2>3, <2>4, <2>5
<1> DEFINE U == Active(L) \ old
           N == {anew[l] : l \in old}
<1>9. Fit(U \cup old)
  <2>1. U \cup old = Active(L)
      BY <1>4
  <2> QED BY <2>1
<1>10. Fit(U \cup N)
  <2> DEFINE full == (L \ old) \cup {anew[l] : l \in old} \cup done
  <2>1. Fit(Active(full))
    <3> HIDE DEF full
    <3>1. NoConflictTwice(full) /\ RefinesAcyclic(full)
        BY <1>3 DEF LinksLoad, full
    <3> QED BY <3>1, FitLoads
  <2>2. U \cup N \subseteq Active(full)
      BY <1>8 DEF Active
  <2> HIDE DEF full, U, N
  <2> QED BY <2>1, <2>2, FitFewer
<1>11. \A l \in U \cup N : Ends(l) \cap D = {}
    BY <1>4, <1>8
<1>12. \A l \in old : Ends(l) \cap D # {}
    BY <1>4
<1>13. \A l \in old : \E m \in N : m.type = l.type /\ (l.type = "refines" =>
            /\ m.from = Endpoint(l.from, dup, canonical, map)
            /\ m.to = Endpoint(l.to, dup, canonical, map))
    BY <1>8 DEF place
<1>14. Fit(U \cup old \cup N)
    <2> HIDE DEF U, N
    <2>1. Replaced(U, old, N, dup, canonical, map)
        BY <1>11, <1>12, <1>13 DEF D, Replaced
    <2> QED BY <1>9, <1>10, <2>1, FitBetween
<1>15. Active(links'[c]) \subseteq U \cup old \cup N
  <2> DEFINE how(l) == IF l \in unrestored THEN "unrestored" ELSE "replaced"
  <2>1. \A l \in cut.ended : Superseded(l, how(l)).ended # 0
    <3> TAKE l \in cut.ended
    <3>1. IsLink(l) /\ last \in Nat
        BY <1>5, <1>7
    <3> HIDE DEF how
    <3>2. Superseded(l, how(l)).ended = last + 1
        BY <3>1, SupersededLink
    <3> QED BY <3>1, <3>2
  <2>2. links'[c] = (L \ cut.ended) \cup {anew[l] : l \in cut.new} \cup {Superseded(l, how(l)) : l \in cut.ended}
      BY <1>2 DEF GInv, LInv, LinksKnown
  <2> HIDE DEF how
  <2>3. \A m \in links'[c] : m.ended = 0 => (m \in L /\ m \notin cut.ended) \/ \E l \in cut.new : m = anew[l]
      BY <2>1, <2>2
  <2> QED BY <1>7, <2>3 DEF Active
<1> QED BY <1>14, <1>15, FitFewer

LEMMA RelationFit ==
    ASSUME GInv, NEW c \in Clones, AddRelation(c) \/ SupersedeRelation(c), Fit(Active(links[c]))
    PROVE  Fit(Active(links'[c]))
<1>1. ASSUME AddRelation(c)
      PROVE  Fit(Active(links'[c]))
  <2>1. PICK m : LinksLoad(records[c], links[c] \cup {m}) /\ links' = [links EXCEPT ![c] = @ \cup {m}]
      BY <1>1 DEF AddRelation
  <2>2. links'[c] = links[c] \cup {m}
      BY <2>1 DEF GInv, LInv, LinksKnown
  <2> QED BY <2>1, <2>2, FitLoads DEF LinksLoad
<1>2. ASSUME SupersedeRelation(c)
      PROVE  Fit(Active(links'[c]))
  <2>1. PICK l \in links[c] : links' = [links EXCEPT ![c] = (@ \ {l}) \cup {Superseded(l, "hand")}]
      BY <1>2 DEF SupersedeRelation, Active
  <2>2. IsLink(l) /\ last \in Nat
      BY DEF GInv, LInv, LinksKnown
  <2>3. Superseded(l, "hand").ended = last + 1
      BY <2>2, SupersededLink
  <2>4. links'[c] = (links[c] \ {l}) \cup {Superseded(l, "hand")}
      BY <2>1 DEF GInv, LInv, LinksKnown
  <2>5. Active(links'[c]) \subseteq Active(links[c])
      BY <2>2, <2>3, <2>4 DEF Active
  <2> QED BY <2>5, FitFewer
<1> QED BY <1>1, <1>2

\* What a step does to a clone that loads.
LoadsOn == \A c \in Clones :
    <<records[c], links[c], litter[c]>> # <<records'[c], links'[c], litter'[c]>> /\ Readable(c)
        => /\ Loads(records'[c], links'[c])
           /\ litter'[c] => left'.consolidate < left.consolidate

\* The budget of consolidations is a number, which one of them uses up.
Counted == "consolidate" \in DOMAIN left /\ left.consolidate \in Nat

LEMMA InitCounted == Init => Counted
BY RequirementsAssumption DEF Init, Counted

LEMMA ConsolidateSpends ==
    ASSUME Counted, NEW c, NEW dup, NEW canonical, ConsolidateProposal(c, dup, canonical)
    PROVE  Counted' /\ left'.consolidate < left.consolidate
<1>1. /\ left.consolidate > 0
      /\ \/ left' = [left EXCEPT !.consolidate = @ - 1]
         \/ left' = [left EXCEPT !.consolidate = @ - 1, !.fault = @ - 1]
    BY DEF ConsolidateProposal
<1>2. DOMAIN left' = DOMAIN left /\ left'.consolidate = left.consolidate - 1
    BY <1>1 DEF Counted
<1> QED BY <1>1, <1>2 DEF Counted

LEMMA NextCounted == Counted /\ [Next]_vars => Counted'
<1> SUFFICES ASSUME Counted, [Next]_vars PROVE Counted'
    OBVIOUS
<1>1. ASSUME NEW what \in {"add", "revise", "state", "link", "end", "merge"}, Spend(what)
      PROVE  Counted'
    BY <1>1 DEF Counted, Spend
<1>2. ASSUME NEW c \in Clones, NEW dup \in Stories, NEW canonical \in Stories,
             ConsolidateProposal(c, dup, canonical)
      PROVE  Counted'
    BY <1>2, ConsolidateSpends
<1>3. CASE UNCHANGED vars \/ \E c \in Clones : Tidy(c)
    BY <1>3 DEF vars, Tidy, Counted
<1> QED BY <1>1, <1>2, <1>3
        DEF Next, AddStory, ReviseStory, SetStoryState, AddPersona, RevisePersona, SetPersonaState,
            AddFlag, ReviseFlag, SetFlagState, AddTerm, ReviseTerm, SetTermState,
            AddDeprecation, ReviseDeprecation, SetDeprecationState, Add, Revise, SetState,
            MutateCriterion, AddRelation, SupersedeRelation, Merge

THEOREM BudgetCounted == Spec => []Counted
BY InitCounted, NextCounted, PTL DEF Spec

\* Only the clone a call is made in is written.
LEMMA CallElsewhere ==
    ASSUME GInv, NEW c \in Clones, Call(c), NEW d \in Clones, d # c
    PROVE  records'[d] = records[d]
BY DEF Call, Adds, Succeeds, Puts, GInv, RInv

LEMMA CallLoadsOn ==
    ASSUME GInv, GInv', NEW c \in Clones, Call(c),
           \A d \in Clones : d # c => links'[d] = links[d],
           Fit(Active(links[c])) => Fit(Active(links'[c])),
           litter' = litter \/ left'.consolidate < left.consolidate
    PROVE  LoadsOn
<1> SUFFICES ASSUME NEW d \in Clones, d = c, Loads(records[d], links[d])
             PROVE  Loads(records'[d], links'[d])
    BY CallElsewhere DEF LoadsOn, Readable
<1>1. d = c
    OBVIOUS
<1>2. PackagesLoad(records'[c])
    BY <1>1, CallLoads DEF Loads
<1>3. EndsKnown(records'[c], links'[c])
    BY DEF GInv, KnownInv
<1>4. NoConflictTwice(links'[c]) /\ RefinesAcyclic(links'[c])
    BY <1>1, FitLoads DEF Loads, LinksLoad
<1> QED BY <1>1, <1>2, <1>3, <1>4 DEF Loads, LinksLoad

LEMMA NextLoadsOn ==
    ASSUME GInv, GInv', Counted, Next, last' # last
    PROVE  LoadsOn
<1>1. ASSUME NEW c \in Clones, Call(c), UNCHANGED <<links, litter>>
      PROVE  LoadsOn
    BY <1>1, CallLoadsOn
<1>2. ASSUME NEW c \in Clones, NEW owner \in Owners, Add(c, owner) \/ Revise(c, owner) \/ SetState(c, owner)
      PROVE  LoadsOn
  <2>1. UNCHANGED <<links, litter>>
      BY <1>2 DEF Add, Revise, SetState
  <2> QED BY <1>1, <1>2, <2>1, AddCall, ReviseCall, SetStateCall DEF GInv
<1>3. ASSUME NEW c \in Clones, NEW s \in Stories, MutateCriterion(c, s)
      PROVE  LoadsOn
  <2>1. UNCHANGED <<links, litter>>
      BY <1>3 DEF MutateCriterion
  <2> QED BY <1>1, <1>3, <2>1, MutateCriterionCall DEF GInv
<1>4. ASSUME NEW c \in Clones, NEW K, links' = [links EXCEPT ![c] = K]
      PROVE  \A d \in Clones : d # c => links'[d] = links[d]
    BY <1>4 DEF GInv, LInv, LinksKnown
<1>5. ASSUME NEW c \in Clones, AddRelation(c) \/ SupersedeRelation(c)
      PROVE  LoadsOn
  <2>1. UNCHANGED litter /\ \E K : links' = [links EXCEPT ![c] = K]
      BY <1>5 DEF AddRelation, SupersedeRelation
  <2> QED BY <1>4, <1>5, <2>1, RelationCall, RelationFit, CallLoadsOn DEF GInv
<1>6. ASSUME NEW c \in Clones, NEW dup \in Stories, NEW canonical \in Stories,
             ConsolidateProposal(c, dup, canonical)
      PROVE  LoadsOn
  <2>1. \E K : links' = [links EXCEPT ![c] = K]
      BY <1>6, ConsolidateWrites DEF Consolidates, Written
  <2>2. left'.consolidate < left.consolidate
      BY <1>6, ConsolidateSpends
  <2> QED BY <1>4, <1>6, <2>1, <2>2, ConsolidateCall, ConsolidateFit, CallLoadsOn DEF GInv
<1>7. \A c, d \in Clones : ~Merge(c, d) /\ ~Tidy(c)
    BY DEF Merge, Tidy
<1>8. Stories \subseteq Owners /\ {"persona", "flag", "term", "deprecation"} \subseteq Owners
    BY DEF Owners
<1> QED BY <1>2, <1>3, <1>5, <1>6, <1>7, <1>8
        DEF Next, AddStory, ReviseStory, SetStoryState, AddPersona, RevisePersona, SetPersonaState,
            AddFlag, ReviseFlag, SetFlagState, AddTerm, ReviseTerm, SetTermState,
            AddDeprecation, ReviseDeprecation, SetDeprecationState

\* No call leaves a clone unreadable that it could read: wherever a consolidation
\* stops between its files and whichever of them are taken back, only its temporary
\* files are in the way, and no other call leaves any.
THEOREM CallsLeaveItLoading == Spec => WritesLoad
<1>1. GInv /\ GInv' /\ Counted /\ [Next]_vars => [last' # last => LoadsOn]_vars
    BY NextLoadsOn
<1> QED BY <1>1, GoodInvariance, BudgetCounted, PTL DEF Spec, WritesLoad, LoadsOn
=============================================================================
