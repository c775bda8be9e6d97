------------------------------- MODULE Landings -------------------------------
(***************************************************************************)
(* Which reviews have landed (internal/reviewstate: landing.go, ledger.go). *)
(* A review's record is committed with its change; a read asks Git how the *)
(* record came into the base and where the branch the review follows       *)
(* stands, and keeps the merges it finds in a ledger file that the         *)
(* repository's processes share.                                           *)
(*                                                                         *)
(* Authors commit, branch, merge, squash, fast-forward, revert and delete  *)
(* branches while the reads go on.  A commit's tree is the set of records  *)
(* and pieces of work it holds; a piece of work is named by the commit     *)
(* that brought it.  A read's context may be cancelled between two         *)
(* questions: the questions after that are answered by an error.           *)
(***************************************************************************)
EXTENDS ReviewIds, Naturals, Sequences, FiniteSets, FiniteSetsExt

CONSTANTS
    Branches,
    Follows,        \* the branch each review follows, or None for HEAD
    Number,         \* the pull request each review is of, or None
    Processes,      \* servers and commands that read
    Budgets         \* bounds: commits made, branches moved, reads begun, contexts
                    \* cancelled and reviews frozen; a behaviour has one of these budgets

\* What the ledger keeps of a merge: the commit of the base it was found at, and
\* whether the read that found it went through to its end.
Entries == [base : Nat, sure : BOOLEAN]
Ledgers == [Reviews -> Entries \cup {None}]

ASSUME LandingsAssumption ==
    /\ Follows \in [Reviews -> Branches \cup {None}]
    /\ None \notin Branches \cup Reviews
    /\ None \notin Entries /\ None \notin Ledgers
    /\ Reviews \cap Nat = {}
    /\ Branches \cap {"main", "origin/main"} = {}
    /\ Budgets \subseteq [commits : Nat, moves : Nat, reads : Nat, cancels : Nat, freezes : Nat]

VARIABLES
    commits,    \* every commit: parents, tree, subject, its ancestors (past),
                \* its first-parent line, and the branch it was made on
    tips,       \* what branches and base refs name; 0 when there is none
    alone,      \* branches that never began at another branch
    recorded,   \* reviews frozen by repin --onto
    file,       \* the ledger on disk: per review the entry, or None
    open,       \* the ledger a process has opened, or None
    dirty,      \* the process learned something since
    at,         \* Landings.refs: what the base refs named when the read began
    told,       \* the reviews the process has reported merged, with this ledger
    report,     \* what the last step reported, or None
    left        \* what is left of the budget

git == <<commits, tips, alone, recorded>>
process == <<open, dirty, at, told>>
landingsVars == <<git, file, process, report, left>>

BaseRefs == <<"main", "origin/main">>
Refs == {BaseRefs[i] : i \in DOMAIN BaseRefs}
Upstream == "origin/main"

Tree(c) == commits[c].tree
Past(c) == commits[c].past
Line(c) == commits[c].line
Parents(c) == commits[c].parents

NoSubject == [number |-> None, branch |-> None, squash |-> FALSE]

LandingsInit ==
    /\ commits = <<[parents |-> <<>>, tree |-> {}, subject |-> NoSubject, past |-> {1},
                    line |-> {1}, on |-> Upstream]>>
    /\ tips \in [Branches \cup Refs -> {0, 1}]
    /\ tips[Upstream] = 1
    /\ alone = Branches
    /\ recorded = {}
    /\ file = [r \in Reviews |-> None]
    /\ open = [p \in Processes |-> None]
    /\ dirty = [p \in Processes |-> FALSE]
    /\ at = [p \in Processes |-> None]
    /\ told = [p \in Processes |-> {}]
    /\ report = None
    /\ left \in Budgets
-----------------------------------------------------------------------------
Spend(what) == left[what] > 0 /\ left' = [left EXCEPT ![what] = @ - 1]

\* Git, in the authors' hands.

\* The common ancestor a merge starts from.
MergeBase(c, d) == Max(Past(c) \cap Past(d))

\* What merging d into c holds: where c has not touched a thing since the
\* merge base, d decides.
Merged(c, d) ==
    LET from == Tree(MergeBase(c, d)) IN
    {x \in Tree(c) \cup Tree(d) :
       IF (x \in Tree(c)) = (x \in from) THEN x \in Tree(d) ELSE x \in Tree(c)}

Commit(ref, parents, tree, subject) ==
    LET new == Len(commits) + 1 IN
    /\ Spend("commits")
    /\ commits' = Append(commits,
         [parents |-> parents, tree |-> tree, subject |-> subject,
          past |-> {new} \cup UNION {Past(parents[i]) : i \in DOMAIN parents},
          line |-> {new} \cup Line(parents[1]), on |-> ref])
    /\ tips' = [tips EXCEPT ![ref] = new]

Authored == UNCHANGED <<recorded, file, process>> /\ report' = None

\* The records that exist; each is created once.
Created == UNION {Tree(c) : c \in DOMAIN commits} \cap Reviews

\* Work on the branch a review follows, often with the review's record.
Work(r) ==
    LET b == Follows[r] IN
    /\ b # None /\ tips[b] # 0
    /\ \E with \in SUBSET ({r} \ Created) :
         Commit(b, <<tips[b]>>, Tree(tips[b]) \cup {Len(commits) + 1} \cup with, NoSubject)
    /\ UNCHANGED alone
    /\ Authored

\* A record committed ahead of its change, to the base or to another
\* review's branch.
RecordAhead(r) ==
    /\ r \notin Created
    /\ \E ref \in {Upstream} \cup (Branches \ {Follows[r]}) :
         /\ tips[ref] # 0
         /\ Commit(ref, <<tips[ref]>>, Tree(tips[ref]) \cup {r, Len(commits) + 1}, NoSubject)
    /\ UNCHANGED alone
    /\ Authored

\* Other work on the base, or a piece of work taken out of it again.
BaseMoves ==
    LET tip == tips[Upstream] IN
    /\ \/ Commit(Upstream, <<tip>>, Tree(tip) \cup {Len(commits) + 1}, NoSubject)
       \/ \E x \in Tree(tip) \ Reviews :
            Commit(Upstream, <<tip>>, Tree(tip) \ {x}, NoSubject)
    /\ UNCHANGED alone
    /\ Authored

\* A branch begins, or begins again, at the base or at another branch.
Branch(b) ==
    /\ \E ref \in {Upstream} \cup (Branches \ {b}) :
         /\ tips[ref] \notin {0, tips[b]}
         /\ tips' = [tips EXCEPT ![b] = tips[ref]]
         /\ alone' = IF ref = Upstream THEN alone ELSE alone \ {b}
    /\ Spend("moves")
    /\ UNCHANGED commits
    /\ Authored

Delete(b) ==
    /\ tips[b] # 0
    /\ tips' = [tips EXCEPT ![b] = 0]
    /\ Spend("moves")
    /\ UNCHANGED <<commits, alone>>
    /\ Authored

Numbers(b) == {Number[r] : r \in {s \in Reviews : Follows[s] = b}}

\* "Merge pull request #N from o/branch", "Merge branch 'branch'", or neither.
MergeBranch(b) ==
    LET tip == tips[Upstream] IN
    /\ tips[b] # 0 /\ tips[b] \notin Past(tip)
    /\ \E subject \in {NoSubject} \cup
                      [number : Numbers(b) \cup {None}, branch : {b}, squash : {FALSE}] :
         Commit(Upstream, <<tip, tips[b]>>, Merged(tip, tips[b]), subject)
    /\ UNCHANGED alone
    /\ Authored

\* One commit with all the branch holds, its subject ending "(#N)" or not.
Squash(b) ==
    LET tip == tips[Upstream] IN
    /\ tips[b] # 0 /\ tips[b] \notin Past(tip)
    /\ \E subject \in {NoSubject} \cup
                      [number : Numbers(b) \ {None}, branch : {None}, squash : {TRUE}] :
         Commit(Upstream, <<tip>>, Merged(tip, tips[b]), subject)
    /\ UNCHANGED alone
    /\ Authored

FastForward(b) ==
    /\ tips[b] # 0 /\ tips[b] # tips[Upstream]
    /\ tips[Upstream] \in Past(tips[b])
    /\ tips' = [tips EXCEPT ![Upstream] = tips[b]]
    /\ Spend("moves")
    /\ UNCHANGED <<commits, alone>>
    /\ Authored

Pull ==
    /\ tips["main"] \notin {0, tips[Upstream]}
    /\ tips' = [tips EXCEPT !["main"] = tips[Upstream]]
    /\ Spend("moves")
    /\ UNCHANGED <<commits, alone>>
    /\ Authored

\* repin --onto freezes a review.
Freeze(r) ==
    /\ r \notin recorded
    /\ r \in Tree(tips[Upstream])
    /\ Spend("freezes")
    /\ recorded' = recorded \cup {r}
    /\ UNCHANGED <<commits, tips, alone, file, process>>
    /\ report' = None
-----------------------------------------------------------------------------
\* What a read asks Git, in the order it asks, for each base ref in turn.
Questions == <<"file", "kept", "landing", "head", "ancestor", "line", "within", "parent">>

\* The questions about the i-th ref that are answered when the context ends
\* after n questions.
Answered(i, n) ==
    {Questions[q] : q \in {k \in DOMAIN Questions : (i - 1) * Len(Questions) + k <= n}}

All == Len(Questions) * Len(BaseRefs)

\* The commit of base's first-parent line that added the record.
LandingCommit(base, r) ==
    LET adds(c) == r \in Tree(c) /\ (Parents(c) = <<>> \/ r \notin Tree(Parents(c)[1]))
        found == {c \in Line(base) : adds(c)}
    IN IF found = {} THEN 0 ELSE Max(found)

NamesReview(subject, r) ==
    \/ subject.number # None /\ subject.number = Number[r]
    \/ /\ subject.number # None => Number[r] = None
       /\ subject.branch # None /\ subject.branch = Follows[r]

SquashOf(subject, r) == subject.squash /\ Number[r] # None /\ subject.number = Number[r]

\* The commit of the branch the review follows; a review that follows HEAD,
\* or a branch that does not resolve, has none.
HeadOf(r, ok) == IF Follows[r] = None \/ "head" \notin ok THEN 0 ELSE tips[Follows[r]]

IsAncestor(c, base, question, ok) == c = base \/ (question \in ok /\ c \in Past(base))

\* Asked for commits of the base only; an error says it is not on the line.
OnFirstParentLine(head, base, ok) == head = base \/ ("line" \in ok /\ head \in Line(base))

AddsNothing(head, base, ok) == "within" \in ok /\ Merged(base, head) = Tree(base)

\* Bug: a head that is in the base was merged.
VerdictByAncestry(r, base, ok) ==
    LET head == HeadOf(r, ok) IN
    IF "landing" \notin ok \/ head = 0 THEN "unknown"
    ELSE IF IsAncestor(head, base, "ancestor", ok) \/ AddsNothing(head, base, ok) THEN "merged"
    ELSE "open"

\* Bug: once its branch adds something, a landed review is open again.
VerdictOfBranch(r, base, ok) ==
    LET landing == LandingCommit(base, r)
        head == HeadOf(r, ok)
        subject == commits[landing].subject
        named == Len(Parents(landing)) >= 2 /\ NamesReview(subject, r)
    IN  IF "landing" \notin ok \/ landing = 0 THEN "unknown"
        ELSE IF head = 0
        THEN IF named \/ SquashOf(subject, r) THEN "merged" ELSE "unknown"
        ELSE IF AddsNothing(head, base, ok) /\ ~OnFirstParentLine(head, base, ok)
        THEN "merged"
        ELSE "open"

Verdict(r, base, ok) ==
    LET landing == LandingCommit(base, r)
        head == HeadOf(r, ok)
        subject == commits[landing].subject
        named == Len(Parents(landing)) >= 2 /\ NamesReview(subject, r)
        squashed == SquashOf(subject, r)
    IN  IF "landing" \notin ok \/ landing = 0 THEN "unknown"
        ELSE IF head = 0
        THEN IF named \/ squashed THEN "merged" ELSE "unknown"
        ELSE IF IsAncestor(head, base, "ancestor", ok)
        THEN IF ~OnFirstParentLine(head, base, ok) \/ named \/ squashed THEN "merged" ELSE "unknown"
        ELSE IF \/ AddsNothing(head, base, ok)
                \/ squashed
                \/ named /\ IsAncestor(Parents(landing)[2], head, "parent", ok)
        THEN "merged"
        ELSE "open"
-----------------------------------------------------------------------------
\* A process opens the ledger: a command each time, a server once.
OpenLedger(p) ==
    /\ open[p] = None
    /\ left.reads > 0
    /\ open' = [open EXCEPT ![p] = file]
    /\ report' = None
    /\ UNCHANGED <<git, file, dirty, at, told, left>>

\* A read begins: what it takes the base refs to name stays the same in it.
BeginRead(p) ==
    /\ open[p] # None
    /\ Spend("reads")
    /\ at' = [at EXCEPT ![p] = [i \in DOMAIN BaseRefs |-> tips[BaseRefs[i]]]]
    /\ report' = None
    /\ UNCHANGED <<git, file, open, dirty, told>>

\* Bug: only a merge found at the very commit the base names now counts.
KeptAtThisCommit(p, r, base, ok) ==
    open[p][r] # None /\ open[p][r].base = base

\* A merge found at an earlier commit of this base still holds.
Kept(p, r, base, ok) ==
    open[p][r] # None /\ IsAncestor(open[p][r].base, base, "kept", ok)

\* How the i-th base ref has it.
Outcome(p, r, i, n) ==
    LET base == at[p][i]
        ok == Answered(i, n)
    IN  IF base = 0 \/ "file" \notin ok \/ r \notin Tree(base) THEN "absent"
        ELSE IF Kept(p, r, base, ok) THEN "kept"
        ELSE Verdict(r, base, ok)

Says(p, state, r, sure) ==
    /\ report' = [process |-> p, review |-> r, state |-> state, sure |-> sure,
                  held |-> r \in told[p]]
    /\ told' = IF state = "merged" THEN [told EXCEPT ![p] = @ \cup {r}] ELSE told

\* The entry of a merge, and whether an interrupted read is behind it.
Remember(p, r, base, sure) ==
    IF open[p][r] # None /\ open[p][r].base = base
    THEN UNCHANGED <<open, dirty>>
    ELSE /\ open' = [open EXCEPT ![p][r] = [base |-> base, sure |-> sure]]
         /\ dirty' = [dirty EXCEPT ![p] = TRUE]

Detect(p, r) ==
    /\ at[p] # None
    /\ \E n \in 0..All :
         /\ IF n < All THEN Spend("cancels") ELSE UNCHANGED left
         /\ LET outcome == [i \in DOMAIN BaseRefs |-> Outcome(p, r, i, n)]
                landed == {i \in DOMAIN BaseRefs : outcome[i] \in {"kept", "merged"}}
                first == Min(landed)
                sure == n = All
            IN \/ /\ r \in recorded
                  /\ Says(p, "recorded", r, sure)
                  /\ UNCHANGED <<open, dirty>>
               \/ /\ r \notin recorded /\ landed # {}
                  /\ IF outcome[first] = "kept"
                     THEN /\ Says(p, "merged", r, sure /\ open[p][r].sure)
                          /\ UNCHANGED <<open, dirty>>
                     ELSE /\ Says(p, "merged", r, sure)
                          /\ Remember(p, r, at[p][first], sure)
               \/ /\ r \notin recorded /\ landed = {}
                  /\ Says(p, IF \E i \in DOMAIN BaseRefs : outcome[i] = "unknown"
                             THEN "unknown" ELSE "open", r, sure)
                  /\ UNCHANGED <<open, dirty>>
    /\ UNCHANGED <<git, file, at>>

\* Save replaces the file with what the process knows; the write may fail, and
\* is not repeated until something new is learned.
Save(p) ==
    /\ open[p] # None
    /\ dirty[p]
    /\ dirty' = [dirty EXCEPT ![p] = FALSE]
    /\ \E written \in BOOLEAN : file' = IF written THEN open[p] ELSE file
    /\ report' = None
    /\ UNCHANGED <<git, open, at, told, left>>

\* A command ends, or any process dies.
EndProcess(p) ==
    /\ open[p] # None
    /\ open' = [open EXCEPT ![p] = None]
    /\ dirty' = [dirty EXCEPT ![p] = FALSE]
    /\ at' = [at EXCEPT ![p] = None]
    /\ told' = [told EXCEPT ![p] = {}]
    /\ report' = None
    /\ UNCHANGED <<git, file, left>>

LandingsNext ==
    \/ BaseMoves \/ Pull
    \/ \E r \in Reviews : Work(r) \/ RecordAhead(r) \/ Freeze(r)
    \/ \E b \in Branches : Branch(b) \/ Delete(b) \/ MergeBranch(b) \/ Squash(b) \/ FastForward(b)
    \/ \E p \in Processes :
         \/ OpenLedger(p) \/ BeginRead(p) \/ Save(p) \/ EndProcess(p)
         \/ \E r \in Reviews : Detect(p, r)

LandingsSpec == LandingsInit /\ [][LandingsNext]_landingsVars
-----------------------------------------------------------------------------
(***************************************************************************)
(* Properties.                                                             *)
(***************************************************************************)

\* Work done on the review's branch is, or was, in the base.
Began(r) ==
    \E c \in Past(tips[Upstream]) : \E x \in Tree(c) \ Reviews : commits[x].on = Follows[r]

\* The review's branch never began at another one, and no other review
\* follows it or is of its pull request.
OwnBranch(r) ==
    /\ Follows[r] = None \/ Follows[r] \in alone
    /\ \A s \in Reviews \ {r} :
         /\ Follows[s] = None \/ Follows[s] # Follows[r]
         /\ Number[s] = None \/ Number[s] # Number[r]

\* Every commit of the base adds something to it and takes nothing away.
EveryCommitAdds ==
    \A c \in Line(tips[Upstream]) \ {1} :
      Tree(Parents(c)[1]) # Tree(c) /\ Tree(Parents(c)[1]) \subseteq Tree(c)

\* What fits both a merged change and one not yet begun is never called
\* merged: for a review with a branch of its own, no read that went through
\* to its end, by a verdict or an entry of the ledger, whatever the branches
\* did meanwhile, reports a merge none of whose work is in the base.
NotBegunNotMerged ==
    report # None /\ report.state = "merged" /\ report.sure =>
      (OwnBranch(report.review) /\ EveryCommitAdds => Began(report.review))

\* A landing commit that names the review is found, also after the branch is
\* gone or has moved on: a base that holds it shows the review merged.
Named(c, r) ==
    /\ r \notin Tree(Parents(c)[1])
    /\ SquashOf(commits[c].subject, r) \/ NamesReview(commits[c].subject, r)

MovedOn(c, r) ==
    \/ Len(Parents(c)) = 1
    \/ Follows[r] = None \/ tips[Follows[r]] = 0 \/ Parents(c)[2] \in Past(tips[Follows[r]])

NamedLandingSeen ==
    report # None /\ report.sure /\ report.state \in {"open", "unknown"} =>
      LET r == report.review IN
      \A i \in DOMAIN BaseRefs : at[report.process][i] # 0 =>
        \A c \in Line(at[report.process][i]) \ {1} :
          Named(c, r) /\ r \in Tree(c) => ~MovedOn(c, r)

\* A merge that a process has reported, it reports again, though branches go
\* away and the base moves on.
MergesStay == report # None /\ report.held /\ report.sure => report.state \in {"merged", "recorded"}
=============================================================================
