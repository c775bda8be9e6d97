---------------------------- MODULE Requirements ----------------------------
(***************************************************************************)
(* The requirements of a Saga (internal/requirements): stories and their   *)
(* criteria, personas, feature flags, terms and deprecations, each a       *)
(* package of revisions and lifecycle events, and the relations between    *)
(* stories, criteria and what explains them, written into clones of one    *)
(* repository and joined by Git.                                           *)
(*                                                                         *)
(* A record is a file of its own.  A merge is the union of the files of    *)
(* two clones; a relation is also rewritten in place, once, when it is     *)
(* superseded.  An operation holds the clone's writer lock and is one      *)
(* step; only a consolidation writes several files, and may stop between   *)
(* them.                                                                   *)
(***************************************************************************)
EXTENDS Naturals, FiniteSets, Sequences, Functions

CONSTANTS
    Clones,
    Stories,
    Criteria,       \* criterion ids a revision may have
    Words,          \* what a criterion may say
    Item,           \* an Item of a slide: what explains a story or a criterion
    MaxRecords,     \* bound on the calls that write
    Budgets         \* bounds: the clones written in, the packages, the words and
                    \* the types of relations used, the calls of each operation; a
                    \* behaviour has one of these

Owners == Stories \cup {"persona", "flag", "term", "deprecation"}

ASSUME RequirementsAssumption ==
    /\ Item \notin Stories
    /\ Stories \cap {"persona", "flag", "term", "deprecation"} = {}
    /\ \A s \in Stories, k \in Criteria : <<s, k>> \notin Stories
    /\ MaxRecords \in Nat \ {0}
    /\ Budgets \subseteq [at : SUBSET Clones, of : SUBSET Owners, words : SUBSET Words,
                          types : SUBSET {"explains", "refines", "conflicts_with"}, add : Nat, revise : Nat, state : Nat,
                          link : Nat, end : Nat, consolidate : Nat, fault : Nat, merge : Nat]

VARIABLES
    records,    \* the revisions and events each clone holds
    links,      \* the relations each clone holds
    litter,     \* whether temporary files of a consolidation were left in it
    last,       \* the writes so far; created_at of the last one
    left        \* what is left of the budget

vars == <<records, links, litter, last, left>>

\* past holds a record's ancestors; no file does.
Blank == [owner |-> Item, kind |-> "", id |-> 0, parents |-> {}, past |-> {}, says |-> {}, state |-> ""]

Of(S, owner, kind) == {r \in S : r.owner = owner /\ r.kind = kind}
Revisions(S, owner) == Of(S, owner, "revision")
Events(S, owner) == Of(S, owner, "event")
Names(S) == {r.id : r \in S}
Heads(S) == Names(S) \ UNION {r.parents : r \in S}
Ancestors(S, parents) == parents \cup UNION {r.past : r \in {x \in S : x.id \in parents}}

\* The current record: there is one when there is one head.
Settled(S) == Cardinality(Heads(S)) = 1
Current(S) == CHOOSE r \in S : r.id \in Heads(S)

Spend(what) == left[what] > 0 /\ left' = [left EXCEPT ![what] = @ - 1]

\* A revision of a story says something of each of its criteria; what the other
\* packages say is left out.
Contents(owner) ==
    IF owner \in Stories
    THEN {X \in SUBSET (Criteria \X left.words) : \A x, y \in X : x[1] = y[1] => x = y}
    ELSE {{}}

States(owner) ==
    CASE owner \in Stories -> {"proposed", "accepted", "deferred", "rejected", "retired"}
      [] owner = "flag" -> {"off", "on", "retired"}
      [] owner = "deprecation" -> {"active", "withdrawn"}
      [] OTHER -> {"active", "retired"}

First(owner) ==
    CASE owner \in Stories -> {"proposed"}
      [] owner = "flag" -> {"off", "on"}
      [] OTHER -> {"active"}

Package(owner, n, says, state) ==
    {[Blank EXCEPT !.owner = owner, !.kind = "revision", !.id = n, !.says = says],
     [Blank EXCEPT !.owner = owner, !.kind = "event", !.id = n, !.state = state]}

Init ==
    /\ left \in Budgets
    /\ \/ left.add > 0 /\ records = [c \in Clones |-> {}] /\ last = 0
       \/ /\ left.add = 0
          /\ \E says \in [left.of -> UNION {Contents(o) : o \in left.of}],
                state \in [left.of -> UNION {First(o) : o \in left.of}] :
                /\ \A o \in left.of : says[o] \in Contents(o) /\ state[o] \in First(o)
                /\ records = [c \in Clones |-> UNION {Package(o, 1, says[o], state[o]) : o \in left.of}]
          /\ last = 1
    /\ links = [c \in Clones |-> {}]
    /\ litter = [c \in Clones |-> FALSE]
-----------------------------------------------------------------------------
\* What Load demands of the packages.

Closed(S) == \A r \in S : r.parents \subseteq Names(S)
Acyclic(S) == \A T \in SUBSET S : T # {} => \E r \in T : r.parents \cap Names(T) = {}
Roots(S) == {r \in S : r.parents = {}}
Graph(S) == Closed(S) /\ Acyclic(S) /\ Cardinality(Roots(S)) = 1

\* A record with one parent goes from its state to the next; one with several
\* reconciles them, and may choose.
Moves(E, Allowed(_, _)) ==
    \A r \in E : Cardinality(r.parents) = 1 =>
        \A p \in E : p.id \in r.parents => Allowed(p.state, r.state)
Begins(E, states) == \A r \in Roots(E) : r.state \in states

AllowedLifecycleTransition(from, to) ==
    \/ from = "proposed" /\ to \in {"accepted", "deferred", "rejected"}
    \/ from = "accepted" /\ to \in {"deferred", "retired"}
    \/ from = "deferred" /\ to \in {"proposed", "accepted", "rejected", "retired"}

Changes(from, to) == from # to
Toggles(from, to) == from # to /\ from # "retired"

CriteriaOf(S, ids) == UNION {{x[1] : x \in r.says} : r \in {s \in S : s.id \in ids}}
\* A criterion that was removed does not come back.
CriterionHistory(R) ==
    \A r \in R : CriteriaOf(R, {r.id}) \cap CriteriaOf(R, Ancestors(R, r.parents)) \subseteq CriteriaOf(R, r.parents)

Accepted(E) == Settled(E) /\ Current(E).state = "accepted"
AcceptedHasCriteria(R, E) ==
    Accepted(E) => \A r \in R : r.id \in Heads(R) => r.says # {}

StorySoundBesides(S, s) ==
    LET R == Revisions(S, s)
        E == Events(S, s)
    IN /\ Graph(R) /\ CriterionHistory(R)
       /\ Graph(E) /\ Begins(E, {"proposed"}) /\ Moves(E, AllowedLifecycleTransition)
StoryLoads(S, s) == StorySoundBesides(S, s) /\ AcceptedHasCriteria(Revisions(S, s), Events(S, s))

AppGraph(S, owner) == Graph(Revisions(S, owner)) /\ Graph(Events(S, owner))
PersonaLoads(S) ==
    AppGraph(S, "persona") /\ Begins(Events(S, "persona"), {"active"}) /\ Moves(Events(S, "persona"), Changes)
FlagLoads(S) ==
    AppGraph(S, "flag") /\ Begins(Events(S, "flag"), {"off", "on"}) /\ Moves(Events(S, "flag"), Toggles)
TermLoads(S) ==
    AppGraph(S, "term") /\ Begins(Events(S, "term"), {"active"}) /\ Moves(Events(S, "term"), Changes)
DeprecationLoads(S) ==
    AppGraph(S, "deprecation") /\ Begins(Events(S, "deprecation"), {"active"})
    /\ Moves(Events(S, "deprecation"), Changes)

Has(S, owner) == Revisions(S, owner) # {}
PackagesSoundBesides(S) ==
    /\ \A s \in Stories : Has(S, s) => StorySoundBesides(S, s)
    /\ Has(S, "persona") => PersonaLoads(S)
    /\ Has(S, "flag") => FlagLoads(S)
    /\ Has(S, "term") => TermLoads(S)
    /\ Has(S, "deprecation") => DeprecationLoads(S)
PackagesLoad(S) ==
    PackagesSoundBesides(S) /\ \A s \in Stories : Has(S, s) => StoryLoads(S, s)
-----------------------------------------------------------------------------
\* What it demands of the relations.

Ends(l) == {l.from, l.to}
Requirement(ends) == ends \ {Item}
StoryOf(end) == IF end \in Stories THEN end ELSE end[1]
Points(S) == {s \in Stories : Has(S, s)} \cup
    UNION {{<<s, k>> : k \in CriteriaOf(Revisions(S, s), Names(Revisions(S, s)))} : s \in Stories}

Active(L) == {l \in L : l.ended = 0}
EndsKnown(S, L) ==
    \A l \in L : \A e \in Requirement(Ends(l)) :
        e \in Points(S) /\ l.pins[e] \in Names(Revisions(S, StoryOf(e)))
NoConflictTwice(L) ==
    \A l, m \in {x \in Active(L) : x.type = "conflicts_with"} : Ends(l) = Ends(m) => l = m
RefinesAcyclic(L) ==
    LET refines == {l \in Active(L) : l.type = "refines"}
    IN \A T \in SUBSET UNION {Ends(l) : l \in refines} :
        T # {} => \E x \in T : \A l \in refines : l.from = x => l.to \notin T
LinksLoad(S, L) == EndsKnown(S, L) /\ NoConflictTwice(L) /\ RefinesAcyclic(L)

Loads(S, L) == PackagesLoad(S) /\ LinksLoad(S, L)

\* Every entry of a directory of records has to be a JSON file.
Readable(c) == ~litter[c] /\ Loads(records[c], links[c])
-----------------------------------------------------------------------------
\* The operations.

\* Both before the lock is taken and with it the clone has to load.
Mutates(c) == c \in {d \in left.at : Readable(d)}

Dated(n) == n <= MaxRecords /\ last' = n
Puts(c, new) == records' = [records EXCEPT ![c] = @ \cup new]

\* Bug: the package is not validated with the new record.
ValidUnchecked(c, candidates) == candidates

\* The candidates whose packages load with the new record.
Valid(c, candidates) == {new \in candidates : PackagesLoad(records[c] \cup new)}

Successor(c, owner, kind, parents) ==
    [Blank EXCEPT !.owner = owner, !.kind = kind, !.id = last + 1, !.parents = parents,
                  !.past = Ancestors(Of(records[c], owner, kind), parents)]

\* Bug: a parent that is a head is enough.
NamesSomeHead(c, owner, kind, parents) == parents \subseteq Heads(Of(records[c], owner, kind))
NamesEveryHead(c, owner, kind, parents) == parents = Heads(Of(records[c], owner, kind))

\* The parents a call may name: whatever its author has seen.
Seen(c, owner, kind) == SUBSET Names(Of(records[c], owner, kind))

\* Bug: an id that is taken is not refused.
AddOverAnother(c, owner) ==
    /\ owner \in left.of /\ Spend("add") /\ Mutates(c)
    /\ \E says \in Contents(owner), state \in First(owner) : Puts(c, Package(owner, last + 1, says, state))
    /\ Dated(last + 1) /\ UNCHANGED <<links, litter>>

\* The package appears with a rename of its directory.
Add(c, owner) ==
    /\ owner \in left.of /\ Spend("add") /\ Mutates(c)
    /\ ~Has(records[c], owner)
    /\ \E says \in Contents(owner), state \in First(owner) : Puts(c, Package(owner, last + 1, says, state))
    /\ Dated(last + 1) /\ UNCHANGED <<links, litter>>

\* A call with an id the clone has is a replay or refused, and writes nothing.
Revise(c, owner) ==
    /\ Has(records[c], owner) /\ Spend("revise") /\ Mutates(c)
    /\ \E parents \in Seen(c, owner, "revision") :
        /\ NamesEveryHead(c, owner, "revision", parents)
        /\ \E new \in Valid(c, {{[Successor(c, owner, "revision", parents) EXCEPT !.says = says]} :
                                says \in Contents(owner)}) : Puts(c, new)
    /\ Dated(last + 1) /\ UNCHANGED <<links, litter>>

SetState(c, owner) ==
    /\ Has(records[c], owner) /\ Spend("state") /\ Mutates(c)
    /\ \E parents \in Seen(c, owner, "event") :
        /\ NamesEveryHead(c, owner, "event", parents)
        /\ \E new \in Valid(c, {{[Successor(c, owner, "event", parents) EXCEPT !.state = state]} :
                                state \in States(owner)}) : Puts(c, new)
    /\ Dated(last + 1) /\ UNCHANGED <<links, litter>>

AddStory(c, s) == Add(c, s)
ReviseStory(c, s) == Revise(c, s)
SetStoryState(c, s) == SetState(c, s)
AddPersona(c) == Add(c, "persona")
RevisePersona(c) == Revise(c, "persona")
SetPersonaState(c) == SetState(c, "persona")
AddFlag(c) == Add(c, "flag")
ReviseFlag(c) == Revise(c, "flag")
SetFlagState(c) == SetState(c, "flag")
AddTerm(c) == Add(c, "term")
ReviseTerm(c) == Revise(c, "term")
SetTermState(c) == SetState(c, "term")
AddDeprecation(c) == Add(c, "deprecation")
ReviseDeprecation(c) == Revise(c, "deprecation")
SetDeprecationState(c) == SetState(c, "deprecation")

\* A criterion is added under an id the story never had, reworded, or removed,
\* over the one current revision.
Edited(R) ==
    LET says == Current(R).says IN
    {says \cup {<<k, w>>} : k \in Criteria \ CriteriaOf(R, Names(R)), w \in left.words} \cup
    UNION {{says \ {x}} \cup {(says \ {x}) \cup {<<x[1], w>>} : w \in left.words \ {x[2]}} : x \in says}

MutateCriterion(c, s) ==
    LET R == Revisions(records[c], s) IN
    /\ R # {} /\ Spend("revise") /\ Mutates(c)
    /\ Settled(R)
    /\ \E new \in Valid(c, {{[Successor(c, s, "revision", Heads(R)) EXCEPT !.says = says]} :
                            says \in Edited(R)}) : Puts(c, new)
    /\ Dated(last + 1) /\ UNCHANGED <<links, litter>>
-----------------------------------------------------------------------------
\* how says by what a relation was superseded; no file does.
Link(id, type, from, to, pins) ==
    [id |-> id, type |-> type, from |-> from, to |-> to, pins |-> pins,
     made |-> last + 1, ended |-> 0, how |-> ""]
Superseded(l, how) == [l EXCEPT !.ended = last + 1, !.how = how]

\* The ends of a conflict are kept in one order.
InOrder(type, from, to) ==
    IF type = "conflicts_with" THEN CHOOSE ends \in {<<from, to>>, <<to, from>>} : TRUE ELSE <<from, to>>

\* Item explains a requirement, a requirement refines or conflicts with another.
Pairs(S) ==
    {p \in left.types \X (Points(S) \cup {Item}) \X Points(S) : (p[1] = "explains") = (p[2] = Item)}

PinsOf(S, ends) ==
    {f \in [Requirement(ends) -> UNION {Names(Revisions(S, s)) : s \in Stories}] :
        \A e \in Requirement(ends) : f[e] \in Names(Revisions(S, StoryOf(e)))}

\* The new relation, among all there are.
AddRelation(c) ==
    /\ Spend("link") /\ Mutates(c)
    /\ \E p \in {x \in Pairs(records[c]) : x[2] # x[3]} : \E pins \in PinsOf(records[c], {p[2], p[3]}) :
        LET ends == InOrder(p[1], p[2], p[3])
            l == Link([n |-> last + 1, to |-> <<>>], p[1], ends[1], ends[2], pins)
        IN /\ LinksLoad(records[c], links[c] \cup {l}) = TRUE
           /\ links' = [links EXCEPT ![c] = @ \cup {l}]
    /\ Dated(last + 1) /\ UNCHANGED <<records, litter>>

\* The file is rewritten in place.
SupersedeRelation(c) ==
    /\ Spend("end") /\ Mutates(c)
    /\ \E l \in Active(links[c]) : links' = [links EXCEPT ![c] = (@ \ {l}) \cup {Superseded(l, "hand")}]
    /\ Dated(last + 1) /\ UNCHANGED <<records, litter>>
-----------------------------------------------------------------------------
\* Consolidation: one story is given up for another that says the same.

\* What a revision says that a relation to this end is about.
Content(r, end) == IF end \in Stories THEN r.says ELSE {x \in r.says : x[1] = end[2]}

\* The relation is up to date: what it is about reads as it did where it is pinned.
UpToDate(S, l) ==
    \A e \in Requirement(Ends(l)) : LET R == Revisions(S, StoryOf(e)) IN
        /\ Settled(R)
        /\ e \notin Stories => Content(Current(R), e) # {}
        /\ \A r \in R : r.id = l.pins[e] => Content(r, e) = Content(Current(R), e)

CurrentCriteria(S, s) == {<<s, x[1]>> : x \in Current(Revisions(S, s)).says}

\* Every current criterion of the duplicate to one of the canonical story's own.
CriterionMaps(S, dup, canonical) == Injection(CurrentCriteria(S, dup), CurrentCriteria(S, canonical))

Endpoint(end, dup, canonical, map) ==
    IF end = dup THEN canonical ELSE IF end \in DOMAIN map THEN map[end] ELSE end

Replacement(S, l, dup, canonical, map) ==
    LET ends == InOrder(l.type, Endpoint(l.from, dup, canonical, map), Endpoint(l.to, dup, canonical, map))
    IN Link([n |-> l.id.n, to |-> Append(l.id.to, canonical)], l.type, ends[1], ends[2],
            [e \in Requirement({ends[1], ends[2]}) |-> Current(Revisions(S, StoryOf(e))).id])

\* The state the duplicate goes to; none when it must not be given up.
Terminal(of, canonical) ==
    CASE of \in {"proposed", "deferred"} /\ canonical \notin {"rejected", "retired"} -> "rejected"
      [] of = "accepted" /\ canonical = "accepted" -> "retired"
      [] OTHER -> "none"

\* The whole decision: the event, and each touched relation with what replaces it.
Prepared(S, L, dup, canonical, map) ==
    LET touched == {l \in Active(L) : Ends(l) \cap ({dup} \cup DOMAIN map) # {}}
    IN [old |-> touched, new |-> [l \in touched |-> Replacement(S, l, dup, canonical, map)],
        state |-> Terminal(Current(Events(S, dup)).state, Current(Events(S, canonical)).state)]

Decides(c, S, L, plan, event) ==
    /\ plan.state # "none"
    /\ \A l \in plan.old :
        /\ UpToDate(S, l)
        /\ plan.new[l].id \notin Names(L)
        /\ plan.new[l].from # plan.new[l].to
        /\ \A e \in Requirement(Ends(plan.new[l])) : Settled(Revisions(S, StoryOf(e)))
    /\ Valid(c, {{event}}) # {}
    /\ LinksLoad(S \cup {event}, (L \ plan.old) \cup {plan.new[l] : l \in plan.old}
                                 \cup {Superseded(l, "replaced") : l \in plan.old})

\* What of a batch's records is there, and whether any of its temporary files is.
Cut(new, ended, event, rest) == [new |-> new, ended |-> ended, event |-> event, litter |-> rest]

\* Bug: the old relation is superseded before its replacement is there.
CutsSupersedeFirst(old) ==
    {Cut(done, done \cup half, done = old, done # old) :
        done \in SUBSET old, half \in {{}} \cup {{l} : l \in old}}

\* WriteBatch: all files are prepared beside the records, and take their places:
\* replacement and old relation in turn, the event last.  The process may die before
\* any of it and before the prepared files are removed.
Cuts(old) ==
    {Cut(done \cup half, done, FALSE, TRUE) :
        done \in SUBSET old, half \in {{}} \cup {{l} : l \in old}}
    \cup {Cut(old, old, TRUE, rest) : rest \in BOOLEAN}

\* A file cannot be written, nor some of those before it be taken back; what an old
\* relation said then stays beside it.
Remains(old) ==
    {Cut(new, ended, event, rest) : new \in SUBSET old, ended \in SUBSET old, event \in BOOLEAN, rest \in BOOLEAN}
    \ {Cut(new, ended, event, FALSE) : new \in SUBSET old, ended \in SUBSET old \ {{}}, event \in BOOLEAN}

ConsolidateProposal(c, dup, canonical) ==
    LET S == records[c]
        L == links[c]
        event == Successor(c, dup, "event", Heads(Events(S, dup)))
    IN /\ dup # canonical /\ Has(S, dup) /\ Has(S, canonical)
       /\ left.consolidate > 0 /\ Mutates(c)
       /\ \A s \in {dup, canonical} : Settled(Revisions(S, s)) /\ Settled(Events(S, s))
       /\ \E map \in CriterionMaps(S, dup, canonical) :
            LET plan == Prepared(S, L, dup, canonical, map)
                decision == [event EXCEPT !.state = plan.state]
                write(cut, unrestored) ==
                    /\ records' = [records EXCEPT ![c] = @ \cup {decision : x \in {y \in {1} : cut.event}}]
                    /\ links' = [links EXCEPT ![c] = (@ \ cut.ended) \cup {plan.new[l] : l \in cut.new}
                                    \cup {Superseded(l, IF l \in unrestored THEN "unrestored" ELSE "replaced") :
                                            l \in cut.ended}]
                    /\ litter' = [litter EXCEPT ![c] = cut.litter]
            IN /\ Decides(c, S, L, plan, decision) = TRUE
               /\ \/ /\ \E cut \in Cuts(plan.old) : write(cut, {})
                     /\ left' = [left EXCEPT !.consolidate = @ - 1]
                  \/ /\ left.fault > 0
                     /\ \E cut \in Remains(plan.old) : write(cut, cut.ended \ cut.new)
                     /\ left' = [left EXCEPT !.consolidate = @ - 1, !.fault = @ - 1]
       /\ Dated(last + 1)

\* Somebody removes the files the message of the loader names, one after the other.
Tidy(c) ==
    /\ litter[c] /\ litter' = [litter EXCEPT ![c] = FALSE]
    /\ UNCHANGED <<records, links, last, left>>
-----------------------------------------------------------------------------
\* Git has no two files of one name to choose between: a package has one identity
\* file, and both sides may have superseded one relation.
Clash(c, d) ==
    \/ \E owner \in Owners :
        \E r \in Roots(Revisions(records[c], owner)), s \in Roots(Revisions(records[d], owner)) : r # s
    \/ \E l \in links[c], m \in links[d] :
        l.id = m.id /\ (l.made # m.made \/ (l.ended # m.ended /\ l.ended > 0 /\ m.ended > 0))

\* Of a relation the side that superseded it is taken.  Whatever else lay beside the
\* records may have been committed with them.
Join(L, M) == {l \in L \cup M : \A m \in L \cup M : m.id = l.id => m.ended <= l.ended}

Merge(c, d) ==
    /\ Clash(c, d) = FALSE
    /\ (records[d] \subseteq records[c] /\ links[d] \subseteq links[c]) = FALSE
    /\ Spend("merge")
    /\ litter' \in {litter, [litter EXCEPT ![c] = @ \/ litter[d]]}
    /\ Puts(c, records[d])
    /\ links' = [links EXCEPT ![c] = Join(@, links[d])]
    /\ UNCHANGED last

Next ==
    \/ \E c \in Clones, s \in Stories :
        AddStory(c, s) \/ ReviseStory(c, s) \/ MutateCriterion(c, s) \/ SetStoryState(c, s)
    \/ \E c \in Clones :
        \/ AddPersona(c) \/ RevisePersona(c) \/ SetPersonaState(c)
        \/ AddFlag(c) \/ ReviseFlag(c) \/ SetFlagState(c)
        \/ AddTerm(c) \/ ReviseTerm(c) \/ SetTermState(c)
        \/ AddDeprecation(c) \/ ReviseDeprecation(c) \/ SetDeprecationState(c)
        \/ AddRelation(c) \/ SupersedeRelation(c) \/ Tidy(c)
    \/ \E c \in Clones, dup, canonical \in Stories : ConsolidateProposal(c, dup, canonical)
    \/ \E c, d \in Clones : Merge(c, d)

Spec == Init /\ [][Next]_vars
-----------------------------------------------------------------------------
\* The revisions and the events of a package are histories.  One of a behaviour's
\* packages is looked at; of never changes.
Subject == CHOOSE owner \in left.of : TRUE
HistoryOf(kind) == [c \in Clones |->
    {[id |-> r.id, parents |-> r.parents, past |-> r.past] : r \in Of(records[c], Subject, kind)}]
RevisionHistory == INSTANCE History WITH held <- HistoryOf("revision"), Ids <- 1..MaxRecords
EventHistory == INSTANCE History WITH held <- HistoryOf("event"), Ids <- 1..MaxRecords

\* A revision or an event is written over every head its author's clone holds, by
\* whichever operation: concurrent edits and decisions are reconciled explicitly.
Reconciled == RevisionHistory!Spec /\ EventHistory!Spec

\* What can make a merge of clones that load unreadable: an accepted story on one
\* side and a revision without criteria on the other; relations that together
\* close a circle, or state one conflict twice.  Nothing else does.
FailsOnlyByMerge ==
    \A c \in Clones : PackagesSoundBesides(records[c]) /\ EndsKnown(records[c], links[c])

\* No call makes a clone that loads unreadable, but a consolidation that stops half
\* way or whose files cannot be taken back: that one may, by the temporary files it
\* leaves and by nothing else.
WritesLoad ==
    [][last' # last => \A c \in Clones :
        <<records[c], links[c], litter[c]>> # <<records'[c], links'[c], litter'[c]>> /\ Readable(c)
            => /\ Loads(records'[c], links'[c])
               /\ litter'[c] => left'.consolidate < left.consolidate]_vars

\* A relation goes out of force only by hand, or for a replacement that is there
\* from then on: wherever the consolidation stopped, whatever was merged.
LinksKept ==
    \A c \in Clones : \A l \in links[c] : l.how = "replaced" =>
        \E m \in links[c] :
            /\ m.type = l.type /\ m.id.n = l.id.n
            /\ \E canonical \in Stories : m.id.to = Append(l.id.to, canonical)
=============================================================================
