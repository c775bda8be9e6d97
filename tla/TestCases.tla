------------------------------ MODULE TestCases ------------------------------
(***************************************************************************)
(* The quality records of a test case (internal/quality): revisions,       *)
(* lifecycle events, evidence, runs and policies, written by the commands  *)
(* of mutation.go into clones of one repository, and joined by Git.        *)
(*                                                                         *)
(* One id of a test case, which clones may add under different features,   *)
(* and one criterion.  A record is a file of its own, under its feature, so *)
(* a merge is the union of two clones' files, and is refused when both     *)
(* have different files of one name.  An operation holds the clone's       *)
(* writer lock from its load to its last write and is one step; only a     *)
(* batch of evidence writes several files, and may stop between them.      *)
(***************************************************************************)
EXTENDS Naturals, FiniteSets

CONSTANTS
    Clones,
    Features,       \* the features a test case or a policy may be written into
    Steps,          \* step ids a revision may have
    Versions,       \* story revisions a policy is for; ids made up start with one
    Requests,       \* request ids
    None,           \* no request id; no revision named
    MaxRecords,     \* bound on the records written
    Budgets         \* bounds: calls of each operation, pieces in a batch of
                    \* evidence, features written into; a behaviour has one
                    \* of these

ASSUME TestCasesAssumption ==
    /\ None \notin Requests
    /\ "given" \notin Versions
    /\ MaxRecords \in Nat \ {0}
    /\ Budgets \subseteq [add : Nat, revise : Nat, state : Nat, policy : Nat,
                          evidence : Nat, pieces : 1..2, run : Nat, merge : Nat,
                          under : SUBSET Features]

VARIABLES
    records,    \* the records each clone holds
    last,       \* the records written so far; created_at of the last one
    left        \* what is left of the budget

vars == <<records, last, left>>

States == {"proposed", "active", "deprecated", "retired"}
Given(n) == <<"given", n>>

\* The feature is the directory a file is in.  gen and def say that the call left
\* the id and the revision to the writer; past holds a record's ancestors.  No
\* file has these three.
Blank == [kind |-> "", feature |-> "", id |-> Given(0), created |-> 0, parents |-> {}, past |-> {},
          steps |-> {}, state |-> "", pin |-> Given(0), uses |-> {}, request |-> None,
          version |-> "", gen |-> FALSE, def |-> FALSE]

Of(S, kind) == {r \in S : r.kind = kind}
Names(S) == {r.id : r \in S}
Heads(S) == Names(S) \ UNION {r.parents : r \in S}
Revisions(S) == Of(S, "revision")
RevisionHeads(S) == Heads(Revisions(S))
Ancestors(S, parents) == parents \cup UNION {r.past : r \in {x \in S : x.id \in parents}}

Spend(what) == left[what] > 0 /\ left' = [left EXCEPT ![what] = @ - 1]

First(kind, n, feature) ==
    [Blank EXCEPT !.kind = kind, !.feature = feature, !.id = Given(n), !.created = n]
Package(n, feature, steps) ==
    {[First("revision", n, feature) EXCEPT !.steps = steps],
     [First("event", n, feature) EXCEPT !.state = "proposed"]}

Init ==
    /\ left \in Budgets
    /\ \/ /\ left.add > 0
          /\ records = [c \in Clones |-> {}] /\ last = 0
       \/ /\ left.add = 0
          /\ \E feature \in left.under, steps \in SUBSET Steps :
                records = [c \in Clones |-> Package(1, feature, steps)]
          /\ last = 1
-----------------------------------------------------------------------------
\* What Load demands of a clone's files.

\* An id of a test case, or of a policy, is of one feature.
IdsClaimed(S) ==
    /\ \A r, s \in S : r.kind # "policy" /\ s.kind # "policy" => r.feature = s.feature
    /\ \A p, q \in Of(S, "policy") : p.id = q.id => p.feature = q.feature

Closed(S) == \A r \in S : r.parents \subseteq Names(S)
Acyclic(S) == \A T \in SUBSET S : T # {} => \E r \in T : r.parents \cap Names(T) = {}
Roots(S) == {r \in S : r.parents = {}}
Graph(S) == Closed(S) /\ Acyclic(S)

StepsOf(S, ids) == UNION {r.steps : r \in {x \in S : x.id \in ids}}
NoStepReused(S) ==
    \A r \in S : r.steps \cap StepsOf(S, Ancestors(S, r.parents)) \subseteq StepsOf(S, r.parents)

Allowed(from, to) ==
    \/ from = "proposed" /\ to \in {"active", "deprecated", "retired"}
    \/ from = "active" /\ to \in {"deprecated", "retired"}
    \/ from = "deprecated" /\ to \in {"active", "retired"}

LegalStates(S) ==
    /\ \A r \in Roots(S) : r.state = "proposed"
    /\ \A r \in S : Cardinality(r.parents) = 1 =>
        \A p \in S : p.id \in r.parents => Allowed(p.state, r.state)

Active(S) ==
    /\ Cardinality(Heads(Of(S, "event"))) = 1
    /\ \E e \in Of(S, "event") : e.id \in Heads(Of(S, "event")) /\ e.state = "active"
ActiveHasSteps(S) ==
    Active(S) => \A r \in Revisions(S) : r.id \in RevisionHeads(S) => r.steps # {}

Pinned(S) ==
    \A r \in Of(S, "evidence") \cup Of(S, "run") :
        r.pin \in Names(Revisions(S)) /\ r.uses \subseteq Names(Of(S, "evidence"))

OneFirstRun(S) == Of(S, "run") # {} => Cardinality(Roots(Of(S, "run"))) = 1

SoundBesides(S) ==
    /\ \A kind \in {"revision", "event", "evidence", "run"} : Graph(Of(S, kind))
    /\ \A kind \in {"revision", "event"} : Cardinality(Roots(Of(S, kind))) = 1
    /\ NoStepReused(Revisions(S))
    /\ LegalStates(Of(S, "event"))
    /\ Pinned(S)

GraphsLoad(S) == SoundBesides(S) /\ ActiveHasSteps(S) /\ OneFirstRun(S)
PoliciesLoad(S) == Graph(Of(S, "policy"))
Loads(S) == IdsClaimed(S) /\ (Revisions(S) # {} => GraphsLoad(S)) /\ PoliciesLoad(S)

\* Bug: evidence of any head counts.
EvidenceCurrentAtAnyHead(S, e) ==
    e.id \in Heads(Of(S, "evidence")) /\ e.pin \in RevisionHeads(S)

\* What a load says is up to date.
EvidenceCurrent(S, e) ==
    e.id \in Heads(Of(S, "evidence")) /\ RevisionHeads(S) = {e.pin}

\* The newest run, of the current revision, with evidence that is current.
RunCurrent(S, r) ==
    /\ Heads(Of(S, "run")) = {r.id}
    /\ RevisionHeads(S) = {r.pin}
    /\ \A e \in Of(S, "evidence") : e.id \in r.uses => EvidenceCurrent(S, e)
-----------------------------------------------------------------------------
\* The operations.

\* Both before the lock is taken and with it the clone has to load.
Mutates(c) == c \in {d \in Clones : Loads(records[d])}

\* Bug: the graph is not validated with the candidate.
ValidUnchecked(c, candidates) == candidates

\* The candidates whose records load with the clone's (validateCandidate).
Valid(c, candidates) == {new \in candidates : GraphsLoad(records[c] \cup new)}

\* Every record has a date of its own.
Dated(n) == n <= MaxRecords /\ last' = n

Puts(c, new) == records' = [records EXCEPT ![c] = @ \cup new]

\* The feature of the test case.
Home(S) == (CHOOSE r \in Revisions(S) : TRUE).feature

Successor(c, kind, feature, parents) ==
    [Blank EXCEPT !.kind = kind, !.feature = feature, !.id = Given(last + 1),
                  !.created = last + 1, !.parents = parents, !.past = Ancestors(Of(records[c], kind), parents)]

\* The parents a call may name: whatever its author has seen.
Seen(c, kind) == SUBSET Names(Of(records[c], kind))
\* Bug: a parent that is a head is enough.
NamesSomeHead(c, kind, parents) == parents \subseteq Heads(Of(records[c], kind))
NamesEveryHead(c, kind, parents) == parents = Heads(Of(records[c], kind))

\* Bug: an id that is taken is not refused.
AddTestCaseOverAnother(c) ==
    /\ Mutates(c) /\ Spend("add")
    /\ \E feature \in left.under, steps \in SUBSET Steps : Puts(c, Package(last + 1, feature, steps))
    /\ Dated(last + 1)

\* No feature may have the id.  The package appears with a rename of its directory.
AddTestCase(c) ==
    /\ Mutates(c) /\ Spend("add")
    /\ Revisions(records[c]) = {}
    /\ \E feature \in left.under, steps \in SUBSET Steps : Puts(c, Package(last + 1, feature, steps))
    /\ Dated(last + 1)

\* A call with an id the clone has is a replay or refused, and writes nothing.
ReviseTestCase(c) ==
    /\ Mutates(c) /\ Spend("revise")
    /\ Revisions(records[c]) # {}
    /\ \E parents \in Seen(c, "revision") :
        /\ NamesEveryHead(c, "revision", parents)
        /\ \E new \in Valid(c, {{[Successor(c, "revision", Home(records[c]), parents)
                                    EXCEPT !.steps = steps]} : steps \in SUBSET Steps}) : Puts(c, new)
    /\ Dated(last + 1)

SetTestCaseState(c) ==
    /\ Mutates(c) /\ Spend("state")
    /\ Revisions(records[c]) # {}
    /\ \E parents \in Seen(c, "event") :
        /\ NamesEveryHead(c, "event", parents)
        /\ \E new \in Valid(c, {{[Successor(c, "event", Home(records[c]), parents)
                                    EXCEPT !.state = state]} : state \in States}) : Puts(c, new)
    /\ Dated(last + 1)

\* The first name of this stem that no record of S has.
NextID(stem, S) == <<stem, CHOOSE n \in 1..(Cardinality(S) + 1) :
    /\ <<stem, n>> \notin Names(S)
    /\ \A k \in 1..(n - 1) : <<stem, k>> \in Names(S)>>

\* Bug: an id the writer made up is compared as well.
ReplaysById(S, r) ==
    /\ r.request # None
    /\ \E s \in S : /\ s.request = r.request /\ s.id = r.id
                    /\ s.parents = r.parents /\ s.pin = r.pin
                    /\ s.uses = r.uses /\ s.version = r.version /\ s.feature = r.feature

\* An earlier record of the same request: its id need not be known when the
\* writer made it up, and of the two the times may differ.
Replays(S, r) ==
    /\ r.request # None
    /\ \E s \in S : /\ s.request = r.request /\ (r.gen \/ s.id = r.id)
                    /\ s.parents = r.parents /\ s.pin = r.pin
                    /\ s.uses = r.uses /\ s.version = r.version /\ s.feature = r.feature

PolicyHeads(S, version) == Heads(Of(S, "policy")) \cap Names({p \in S : p.version = version})

SetPolicy(c) ==
    /\ Mutates(c) /\ Spend("policy")
    /\ \E supersedes \in Seen(c, "policy"), feature \in left.under, version \in Versions,
          gen \in BOOLEAN, request \in Requests \cup {None} :
        LET S == Of(records[c], "policy")
            id == IF gen THEN NextID(version, S) ELSE Given(last + 1)
            p == [Successor(c, "policy", feature, supersedes) EXCEPT
                    !.id = id, !.version = version, !.request = request, !.gen = gen]
        IN /\ ~Replays(S, p)
           /\ PolicyHeads(S, version) \subseteq supersedes
           /\ supersedes \cap UNION {x.parents : x \in S} = {}
           /\ \E new \in {x \in {{p}} : PoliciesLoad(S \cup x)} : Puts(c, new)
    /\ Dated(last + 1)

\* What a call says of pieces of evidence.  None leaves the id, the revision, to
\* the writer.  Bounds: two pieces have the same revision and name the same
\* request, and the first supersedes nothing; a new id is the next one.
Pieces(c, pin, request) == LET names == {Given(last + 1)} \cup Names(Of(records[c], "evidence")) IN
    [id : {None} \cup names, supersedes : {{}} \cup {{i} : i \in names}, pin : {pin}, request : {request}]
Batches(c) == UNION {LET all == Pieces(c, pin, request) IN
    [first : all, more : {{}}] \cup
    [first : {x \in all : left.pieces = 2 /\ request # None /\ x.supersedes = {}},
     more : {{y} : y \in all}] :
        pin \in {None} \cup Names(Revisions(records[c])), request \in Requests \cup {None}}

\* The revision a call is about: the only head, when it names none.
MayPin(S, pin) == pin = None => Cardinality(RevisionHeads(S)) = 1
Pin(S, pin) == IF pin = None THEN CHOOSE h \in RevisionHeads(S) : TRUE ELSE pin

\* One more piece of a batch, judged against the clone's records and the pieces
\* before it; a replay adds nothing.
Prepare(S, batch, x) ==
    LET old == Of(S, "evidence")
        all == old \cup batch.new
        r == [Blank EXCEPT !.kind = "evidence", !.feature = Home(S), !.created = last + (IF batch.new = {} THEN 1 ELSE 2),
                !.id = IF x.id = None THEN NextID("evidence", all) ELSE x.id,
                !.pin = Pin(S, x.pin), !.parents = x.supersedes, !.request = x.request,
                !.gen = x.id = None, !.def = x.pin = None]
    IN CASE ~batch.ok \/ ~MayPin(S, x.pin) -> [new |-> {}, ok |-> FALSE]
         [] OTHER -> IF Replays(old, r) THEN batch
                     ELSE [new |-> batch.new \cup {r},
                           ok |-> /\ r.id \notin Names(all)
                                  /\ r.pin \in RevisionHeads(S)
                                  /\ r.parents \subseteq Heads(all)]

\* The whole batch is judged before its first file is written.
Batch(S, x, more) ==
    LET first == Prepare(S, [new |-> {}, ok |-> TRUE], x)
    IN IF more = {} THEN first ELSE Prepare(S, first, CHOOSE y \in more : TRUE)

\* All of it is written; or the process dies between two files, or cannot take
\* back what it wrote, and the first of them stay.
AddEvidenceBatch(c) ==
    /\ Mutates(c) /\ Spend("evidence")
    /\ Revisions(records[c]) # {}
    /\ \E batch \in {Batch(records[c], b.first, b.more) : b \in Batches(c)} :
        /\ batch.ok
        /\ Valid(c, {batch.new}) # {}
        /\ \E n \in {r.created : r \in batch.new} :
            /\ Puts(c, {r \in batch.new : r.created <= n})
            /\ Dated(n)

RecordRun(c) ==
    /\ Mutates(c) /\ Spend("run")
    /\ Revisions(records[c]) # {}
    /\ \E parents \in Seen(c, "run"), uses \in Seen(c, "evidence") \ {{}},
          pin \in {None} \cup Names(Revisions(records[c])), request \in Requests \cup {None} :
        LET r == [Successor(c, "run", Home(records[c]), parents) EXCEPT !.pin = Pin(records[c], pin), !.uses = uses,
                    !.request = request, !.gen = TRUE, !.def = pin = None]
        IN /\ MayPin(records[c], pin)
           /\ ~Replays(Of(records[c], "run"), r)
           /\ NamesEveryHead(c, "run", parents)
           /\ \E new \in Valid(c, {{r}}) : Puts(c, new)
    /\ Dated(last + 1)

\* Git has no two files of one name to choose between; test-case.json is one.
\* Files of different features have different names.
Clash(S, T) ==
    \/ \E r \in S, s \in T : /\ r.kind = s.kind /\ r.feature = s.feature
                             /\ r.id = s.id /\ r # s
    \/ \E r \in Roots(Revisions(S)), s \in Roots(Revisions(T)) : r.feature = s.feature /\ r # s

Merge(c, d) ==
    /\ Clash(records[c], records[d]) = FALSE
    /\ records[d] \ records[c] # {}
    /\ Spend("merge")
    /\ Puts(c, records[d])
    /\ UNCHANGED last

Next ==
    \/ \E c \in Clones :
        \/ AddTestCase(c) \/ ReviseTestCase(c) \/ SetTestCaseState(c)
        \/ SetPolicy(c) \/ AddEvidenceBatch(c) \/ RecordRun(c)
    \/ \E c, d \in Clones : Merge(c, d)

Spec == Init /\ [][Next]_vars
-----------------------------------------------------------------------------
\* The revisions, the events and the runs are histories: each is written over
\* every head its clone held, whatever was merged before.
HistoryOf(kind) == [c \in Clones |->
    {[id |-> r.id, parents |-> r.parents, past |-> r.past] : r \in Of(records[c], kind)}]
RevisionHistory == INSTANCE History WITH held <- HistoryOf("revision"),
                        Ids <- {Given(n) : n \in 1..MaxRecords}
EventHistory == INSTANCE History WITH held <- HistoryOf("event"),
                        Ids <- {Given(n) : n \in 1..MaxRecords}
RunHistory == INSTANCE History WITH held <- HistoryOf("run"),
                        Ids <- {Given(n) : n \in 1..MaxRecords}

\* A record is written over every head its author's clone holds: concurrent
\* edits are reconciled explicitly, in each of the three histories.
Reconciled == RevisionHistory!Spec /\ EventHistory!Spec /\ RunHistory!Spec

\* What can make a merge of clones that load unreadable, for every command from
\* then on: one id under two features; a first run on each side; an active test
\* case on one side, a revision without steps on the other.  Nothing else does,
\* and no command does by itself.
FailsOnlyByMerge ==
    \A c \in Clones : IdsClaimed(records[c]) =>
        /\ Revisions(records[c]) # {} => SoundBesides(records[c])
        /\ PoliciesLoad(records[c])
WritesLoad ==
    [][last' # last => \A c \in Clones : Loads(records[c]) => Loads(records'[c])]_vars

\* A run or a piece of evidence that is reported current is of the revision that
\* succeeds every other the clone holds, the run after every other run.
CurrentIsLatest ==
    \A c \in Clones : LET S == records[c] IN Loads(S) =>
        \A r \in S :
            \/ r.kind = "evidence" /\ EvidenceCurrent(S, r)
            \/ r.kind = "run" /\ RunCurrent(S, r)
            =>
            /\ Ancestors(Revisions(S), {r.pin}) = Names(Revisions(S))
            /\ r.kind = "run" =>
                /\ r.past \cup {r.id} = Names(Of(S, "run"))
                /\ r.uses \cap UNION {e.parents : e \in Of(S, "evidence")} = {}

SameCall(r, s) ==
    /\ r.kind = s.kind /\ r.request = s.request /\ r.request # None
    /\ r.gen = s.gen /\ (r.gen \/ r.id = s.id)
    /\ r.def = s.def /\ (r.def \/ r.pin = s.pin)
    /\ r.parents = s.parents /\ r.uses = s.uses /\ r.version = s.version
    /\ r.feature = s.feature

Repeats(r, c) == r.created > last /\ \E s \in records[c] : SameCall(r, s)

\* A call repeated with its request id writes nothing more, torn batches
\* included; unless it is for evidence and left both its id and its revision to
\* the writer: then a revision in between makes it another call.
AppliedOnce ==
    [][\A c \in Clones : \A r \in records'[c] :
        Repeats(r, c) => r.kind = "evidence" /\ r.gen /\ r.def]_vars

=============================================================================
