----------------------------- MODULE CodeResolve -----------------------------
(***************************************************************************)
(* Code references viewed at another commit than the one they are pinned   *)
(* to (coderesolve), over Git's comparisons as gitdiff reads them.         *)
(*                                                                         *)
(* A reference names lines of a file, or a whole file, at a pinned commit, *)
(* and keeps a digest of them.  A resolver answers where they are at a     *)
(* viewed commit, or that they are stale, and proposes where a stale one   *)
(* might be pinned anew.  It keeps what it reads for its lifetime and is   *)
(* used by several callers at once: reading the repository is outside its  *)
(* lock.  Two commits, the pin and the head, are modelled: a resolver      *)
(* keeps what it compares by the pair of commits.                          *)
(*                                                                         *)
(* A line is its text; a digest stands for the lines it was taken of, and  *)
(* two are equal when those are.                                           *)
(***************************************************************************)
EXTENDS Integers, Sequences, FiniteSets

CONSTANTS
    None,
    Callers,        \* goroutines that use one resolver
    Paths,
    SagaPaths,      \* those inside a directory of a Saga
    Texts,          \* lines of files
    Trivial,        \* lines of nothing but punctuation
    OldHeaders,     \* lines whose text begins with "-- "
    NewHeaders,     \* lines whose text begins with "++ "
    Repositories,   \* what the two commits hold, how Git compares them, and
                    \* which references are asked for; see Comparison
    Budgets(_)      \* bound: who asks, how often, at which commits, and what
                    \* fails, with each of the repositories

-----------------------------------------------------------------------------
\* A hunk of a comparison without context lines.  A count of zero makes a pure
\* insertion after line oldStart, or a pure deletion: these are the lines a hunk
\* takes away and the lines it puts there, as first and last, on either side.
First(h) == IF h.oldCount = 0 THEN h.oldStart + 1 ELSE h.oldStart
Last(h) == First(h) + h.oldCount - 1
NewFirst(h) == IF h.newCount = 0 THEN h.newStart + 1 ELSE h.newStart
NewLast(h) == NewFirst(h) + h.newCount - 1

\* How far the lines between the m-th hunk and the next have moved.
Moved(hunks, m) == IF m = 0 THEN 0 ELSE NewLast(hunks[m]) - Last(hunks[m])

\* Line i is unchanged and lies between the m-th hunk and the next.
Between(hunks, m, i) ==
    /\ m > 0 => Last(hunks[m]) < i
    /\ m < Len(hunks) => i < First(hunks[m + 1])

Hunk == [oldStart : Nat, oldCount : Nat, newStart : Nat, newCount : Nat]

\* What Git's hunks say of two contents: none unless they differ, no empty one, in
\* order, with a line between any two, each where the earlier ones put it, and what
\* none of them touches the same.
Patch(hunks, old, new) ==
    /\ hunks \in Seq(Hunk)
    /\ hunks # <<>> => new # old
    /\ \A k \in DOMAIN hunks :
         /\ hunks[k].oldCount + hunks[k].newCount > 0
         /\ First(hunks[k]) >= 1
         /\ Last(hunks[k]) <= Len(old)
         /\ NewFirst(hunks[k]) = First(hunks[k]) + Moved(hunks, k - 1)
         /\ k > 1 => First(hunks[k]) > Last(hunks[k - 1]) + 1
    /\ Len(new) = Len(old) + Moved(hunks, Len(hunks))
    /\ \A m \in 0..Len(hunks), i \in DOMAIN old :
         Between(hunks, m, i) =>
             /\ i + Moved(hunks, m) \in DOMAIN new
             /\ new[i + Moved(hunks, m)] = old[i]

\* How Git reports two commits when asked for what lies outside Sagas: the paths
\* whose file it says changed, with the file's new name, whether it is gone (a Saga's
\* file now, too), binary or of another mode, and its hunks.  A file inside a Saga is
\* never named, whatever became of it; any other that is not is the same.
Comparison(r) ==
    /\ DOMAIN r.change \subseteq DOMAIN r.pin \ SagaPaths
    /\ \A p \in DOMAIN r.pin \ (DOMAIN r.change \cup SagaPaths) :
         p \in DOMAIN r.head /\ r.head[p] = r.pin[p]
    /\ \A p \in DOMAIN r.change :
         LET ch == r.change[p] IN
         ~ch.deleted =>
             /\ ch.to \in DOMAIN r.head \ SagaPaths
             /\ ch.binary \/ Patch(ch.hunks, r.pin[p], r.head[ch.to])

Changes == [to : Paths \cup {None}, deleted : BOOLEAN, binary : BOOLEAN, mode : BOOLEAN,
            hunks : Seq(Hunk)]
References == [path : Paths, start : Nat, end : Nat, digest : Seq(Texts)]

\* Validate lets through a range of lines, or zeros for the whole file.
WholeFile(ref) == ref.start = 0 /\ ref.end = 0
Valid(ref) == ref.start \in 1..ref.end \/ WholeFile(ref)

ASSUME RepositoriesAssumption ==
    \A r \in Repositories :
        /\ DOMAIN r.pin \subseteq Paths
        /\ \A p \in DOMAIN r.pin : r.pin[p] \in Seq(Texts)
        /\ \A p \in DOMAIN r.head : r.head[p] \in Seq(Texts)
        /\ r.change \in [DOMAIN r.change -> Changes]
        /\ Comparison(r)
        /\ r.refs \subseteq References
        /\ \A ref \in r.refs : Valid(ref)

ASSUME PathsAssumption == IsFiniteSet(Paths) /\ None \notin Paths

Commits == {"pin", "head"}

ASSUME BudgetsAssumption ==
    \A r \in Repositories : \A b \in Budgets(r) : b.callers \subseteq Callers /\ b.views \subseteq Commits

-----------------------------------------------------------------------------
VARIABLES
    repo,       \* the repository and the references, as one of Repositories
    here,       \* whether the repository has the pinned commit yet
    commits,    \* resolver.commits of the pin: "unread", "here", "missing"
    blobs,      \* resolver.blobs by commit and path: "unread", "found", "missing"
    verified,   \* resolver.verified: "unread", "sound", "unsound", "failed"
    full,       \* resolver.changes: a listing of every change, or None
    plan,       \* resolver.planned: the paths of the references prepared
    sample,     \* resolver.samples: one reference of them
    selected,   \* resolver.selected: the plan's size and its listing, or None
    call,       \* what each caller is doing
    asks, prepares, fails,  \* bound: counted against the budget
    budget      \* the budget of this behaviour

memos == <<commits, blobs, verified, full, plan, sample, selected>>
counters == <<asks, prepares, fails>>
vars == <<repo, here, memos, call, counters, budget>>

At(commit) == IF commit = "pin" THEN repo.pin ELSE repo.head

\* The lines a digest is taken of.
Inside(lines, start, end) == start \in 1..end /\ end <= Len(lines)
Content(lines, start, end) ==
    IF start = 0 /\ end = 0 THEN lines
    ELSE [i \in 1..(end - start + 1) |-> lines[start + i - 1]]

\* The lines at a location are those the digest was taken of.
Holds(at, digest) ==
    /\ at.path \in DOMAIN At(at.commit)
    /\ LET lines == At(at.commit)[at.path] IN
       /\ WholeFile(at) \/ Inside(lines, at.start, at.end)
       /\ Content(lines, at.start, at.end) = digest

Pinned(ref) == [commit |-> "pin", path |-> ref.path, start |-> ref.start, end |-> ref.end]
Sound(ref) == Holds(Pinned(ref), ref.digest)

-----------------------------------------------------------------------------
\* What ParseTreeChanges makes of a patch.  It takes a line "--- ..." or
\* "+++ ..." for a header of the file wherever it stands: a removed line of
\* OldHeaders replaces the file's old path, an added one of NewHeaders its new one.
Taken(h) == First(h)..Last(h)
Put(h) == NewFirst(h)..NewLast(h)

RemovedLines(p) ==
    LET ch == repo.change[p] IN
    IF ch.binary THEN {}
    ELSE IF ch.deleted THEN DOMAIN repo.pin[p]
    ELSE UNION {Taken(ch.hunks[k]) : k \in DOMAIN ch.hunks}

AddedLines(p) ==
    LET ch == repo.change[p] IN
    IF ch.binary \/ ch.deleted THEN {}
    ELSE UNION {Put(ch.hunks[k]) : k \in DOMAIN ch.hunks}

OldPathLost(p) == \E i \in RemovedLines(p) : repo.pin[p][i] \in OldHeaders
NewPathLost(p) == \E i \in AddedLines(p) : repo.head[repo.change[p].to][i] \in NewHeaders

\* A listing maps old paths to changes; a failed one is kept like any other.
FailedListing == [err |-> TRUE, of |-> <<>>]

FullListing ==
    [err |-> FALSE,
     of |-> [p \in {q \in DOMAIN repo.change : ~OldPathLost(q)} |->
               IF NewPathLost(p) THEN [repo.change[p] EXCEPT !.to = None]
               ELSE repo.change[p]]]

\* selectedChangesOnce takes paths from Git's raw listing and only hunks from
\* patches; an edit in place whose hunks it cannot find makes it list all.
Edited(p) ==
    LET ch == repo.change[p] IN ch.to = p /\ ~ch.deleted /\ (ch.binary \/ ch.hunks # <<>>)

SelectedListing(paths) ==
    LET chosen == paths \cap DOMAIN repo.change IN
    IF \E p \in chosen : Edited(p) /\ OldPathLost(p) THEN FullListing
    ELSE [err |-> FALSE, of |-> [p \in chosen |-> repo.change[p]]]

-----------------------------------------------------------------------------
NoAnswer == [state |-> "none", at |-> None, provisional |-> FALSE]
NoProposal == [at |-> None, widened |-> FALSE]
NoCall == [stage |-> "idle", op |-> None, pass |-> None, ref |-> None, view |-> None,
           scope |-> {}, listing |-> None, k |-> 0, shift |-> 0,
           answer |-> NoAnswer, proposal |-> NoProposal]

Init ==
    /\ repo \in Repositories
    /\ budget \in Budgets(repo)
    /\ here \in budget.here
    /\ commits = "unread"
    /\ blobs = [x \in Commits \X Paths |-> "unread"]
    /\ verified = [ref \in repo.refs |-> "unread"]
    /\ full = None
    /\ plan = {}
    /\ sample = None
    /\ selected = None
    /\ call = [c \in Callers |-> NoCall]
    /\ asks = [c \in Callers |-> 0]
    /\ prepares = 0
    /\ fails = 0

GoesTo(c, stage) == call' = [call EXCEPT ![c].stage = stage]

\* How a call goes on from an answer: Propose starts over when it is stale.
Gives(c, answer) ==
    IF call[c].pass # "resolve" THEN GoesTo(c, "done")
    ELSE IF call[c].op = "propose" /\ answer.state = "stale"
    THEN call' = [call EXCEPT ![c].stage = "exists", ![c].pass = "propose", ![c].answer = answer]
    ELSE call' = [call EXCEPT ![c].stage = "done", ![c].answer = answer]

Stale(c, provisional) ==
    [state |-> "stale", at |-> Pinned(call[c].ref), provisional |-> provisional]
Current(at) == [state |-> "current", at |-> at, provisional |-> FALSE]
Found(at) == [state |-> "current", at |-> at, provisional |-> TRUE]

\* A step cannot read what it needs; what was read before is not read again.
Fails == fails < budget.fails /\ fails' = fails + 1
Works == UNCHANGED fails

\* resolver.blob reads a file once, unless the read fails.
InRepository(commit, path) == (commit = "pin" => here) /\ path \in DOMAIN At(commit)

ReadsBlob(commit, path, result) ==
    IF blobs[<<commit, path>>] # "unread"
    THEN result = blobs[<<commit, path>>] /\ Works /\ UNCHANGED blobs
    ELSE \/ /\ result = IF InRepository(commit, path) THEN "found" ELSE "missing"
            /\ blobs' = [blobs EXCEPT ![<<commit, path>>] = result]
            /\ Works
         \/ result = "failed" /\ Fails /\ UNCHANGED blobs

-----------------------------------------------------------------------------
\* A caller asks Resolve or Propose about a reference, or warms what it prepared.
\* Warming takes the first reference prepared for the commits and asks for their
\* listing only.
Asks(c) ==
    /\ call[c].stage = "idle"
    /\ asks[c] < budget.asks
    /\ asks' = [asks EXCEPT ![c] = @ + 1]
    /\ UNCHANGED <<repo, here, memos, prepares, fails, budget>>

Ask(c, op, ref, view) ==
    /\ Asks(c)
    /\ call' = [call EXCEPT ![c] = [NoCall EXCEPT
         !.stage = "exists", !.op = op, !.pass = "resolve", !.ref = ref, !.view = view]]

SelectedServes == selected # None /\ selected.size = Cardinality(plan)

Warm(c) ==
    /\ Asks(c)
    /\ plan # {}
    /\ full = None
    /\ ~SelectedServes
    /\ call' = [call EXCEPT ![c] = [NoCall EXCEPT
         !.stage = "exists", !.op = "warm", !.pass = "warm", !.ref = sample, !.view = "head"]]

\* PrepareReferences: a plan that grows loses the listing made for a smaller one.
Prepare(refs) ==
    LET paths == {ref.path : ref \in refs} IN
    /\ prepares < budget.prepares
    /\ prepares' = prepares + 1
    /\ ~(paths \subseteq plan)
    /\ plan' = plan \cup paths
    /\ IF plan = {} THEN sample' \in refs ELSE UNCHANGED sample
    /\ selected' = None
    /\ UNCHANGED <<repo, here, commits, blobs, verified, full, call, asks, fails, budget>>

\* Somebody fetches the pinned commit.
Fetch ==
    /\ ~here
    /\ budget.fetch
    /\ here' = TRUE
    /\ UNCHANGED <<repo, memos, call, counters, budget>>

\* Bug: only what is there is remembered, as it may yet be fetched.
CommitReadAgain(c) ==
    /\ call[c].stage = "exists"
    /\ commits' = IF here THEN "here" ELSE commits
    /\ IF commits' = "here" THEN GoesTo(c, "verify")
       ELSE IF call[c].pass = "resolve" THEN GoesTo(c, "digest")
       ELSE GoesTo(c, "done")
    /\ UNCHANGED <<repo, here, blobs, verified, full, plan, sample, selected, counters, budget>>

\* CommitExists, under the lock.  An error is not remembered.
CommitRead(c) ==
    /\ call[c].stage = "exists"
    /\ commits' = IF commits # "unread" THEN commits ELSE IF here THEN "here" ELSE "missing"
    /\ IF commits' = "here" THEN GoesTo(c, "verify")
       ELSE IF call[c].pass = "resolve" THEN GoesTo(c, "digest")
       ELSE GoesTo(c, "done")
    /\ UNCHANGED <<repo, here, blobs, verified, full, plan, sample, selected, counters, budget>>

CommitFails(c) ==
    /\ call[c].stage = "exists"
    /\ commits = "unread"
    /\ Fails
    /\ Gives(c, Stale(c, TRUE))
    /\ UNCHANGED <<repo, here, memos, asks, prepares, budget>>

\* findByDigest: the one place in the pinned path, at the viewed commit, that
\* holds what the digest was taken of.
Matches(ref, lines) ==
    IF WholeFile(ref) THEN IF lines = ref.digest THEN {0} ELSE {}
    ELSE {i \in DOMAIN lines :
            LET end == i + ref.end - ref.start IN
            end <= Len(lines) /\ Content(lines, i, end) = ref.digest}

LooksForDigest(c) ==
    LET ref == call[c].ref
        view == call[c].view
    IN
    /\ call[c].stage = "digest"
    /\ \E result \in {"found", "missing", "failed"} :
         /\ ReadsBlob(view, ref.path, result)
         /\ IF result = "found" /\ Cardinality(Matches(ref, At(view)[ref.path])) = 1
            THEN \E i \in Matches(ref, At(view)[ref.path]) :
                   Gives(c, Found([commit |-> view, path |-> ref.path,
                                   start |-> i, end |-> i + ref.end - ref.start]))
            ELSE Gives(c, Stale(c, TRUE))
    /\ UNCHANGED <<repo, here, commits, verified, full, plan, sample, selected, asks,
                   prepares, budget>>

\* What Resolve, Propose and a warming worker make of a verified reference.
GoesOn(c, result) ==
    IF result # "sound" THEN Gives(c, Stale(c, result = "failed"))
    ELSE IF call[c].pass = "propose" THEN GoesTo(c, "full")
    ELSE IF call[c].view = "pin" THEN Gives(c, Current(Pinned(call[c].ref)))
    ELSE GoesTo(c, "changes")

\* verify looks its answer up under the lock, or reads the file and keeps it: a
\* failed reading too, whatever another caller kept meanwhile.
VerifyKnown(c) ==
    /\ call[c].stage = "verify"
    /\ IF verified[call[c].ref] # "unread" THEN GoesOn(c, verified[call[c].ref])
       ELSE GoesTo(c, "verifying")
    /\ UNCHANGED <<repo, here, memos, counters, budget>>

Verify(c) ==
    LET ref == call[c].ref IN
    /\ call[c].stage = "verifying"
    /\ \E result \in {"found", "missing", "failed"} :
         LET checked == IF result = "failed" THEN "failed"
                        ELSE IF result = "found" /\ Sound(ref) THEN "sound" ELSE "unsound"
         IN
         /\ ReadsBlob("pin", ref.path, result)
         /\ verified' = [verified EXCEPT ![ref] = checked]
         /\ GoesOn(c, checked)
    /\ UNCHANGED <<repo, here, commits, full, plan, sample, selected, asks, prepares, budget>>

-----------------------------------------------------------------------------
Listed(c, listing) ==
    call' = [call EXCEPT ![c].stage = IF call[c].pass = "warm" THEN "done" ELSE "judge",
                         ![c].listing = listing]

\* resolutionChanges: the full listing if there is one or the path was not
\* prepared, the selected one while it is of the whole plan, or a new one.
LookUpChanges(c) ==
    /\ call[c].stage = "changes"
    /\ IF full # None THEN Listed(c, full)
       ELSE IF call[c].ref.path \notin plan THEN GoesTo(c, "full")
       ELSE IF SelectedServes THEN Listed(c, selected.listing)
       ELSE call' = [call EXCEPT ![c].stage = "select", ![c].scope = plan]
    /\ UNCHANGED <<repo, here, memos, counters, budget>>

\* Bug: what Git was asked for is taken for the plan as it is when Git answers.
SelectForPlan(c) ==
    /\ call[c].stage = "select"
    /\ \E listing \in {SelectedListing(call[c].scope), FullListing, FailedListing} :
         /\ IF listing = SelectedListing(call[c].scope) THEN Works ELSE Fails
         /\ selected' = [size |-> Cardinality(plan), listing |-> listing]
         /\ Listed(c, listing)
    /\ UNCHANGED <<repo, here, commits, blobs, verified, full, plan, sample, asks, prepares, budget>>

\* Git's answer for the paths planned when it was asked: when it fails, all are
\* listed instead.  It is kept unless the plan has grown meanwhile.
Select(c) ==
    /\ call[c].stage = "select"
    /\ \E listing \in {SelectedListing(call[c].scope), FullListing, FailedListing} :
         /\ IF listing = SelectedListing(call[c].scope) THEN Works ELSE Fails
         /\ selected' = IF Cardinality(plan) = Cardinality(call[c].scope)
                        THEN [size |-> Cardinality(call[c].scope), listing |-> listing]
                        ELSE selected
         /\ Listed(c, listing)
    /\ UNCHANGED <<repo, here, commits, blobs, verified, full, plan, sample, asks, prepares, budget>>

\* treeChanges looks the full listing up under the lock, or asks Git for it and
\* keeps what it gets, an error too.
LookUpFull(c) ==
    /\ call[c].stage = "full"
    /\ IF full # None THEN Listed(c, full) ELSE GoesTo(c, "listing")
    /\ UNCHANGED <<repo, here, memos, counters, budget>>

ListAll(c) ==
    /\ call[c].stage = "listing"
    /\ \E listing \in {FullListing, FailedListing} :
         /\ IF listing = FullListing THEN Works ELSE Fails
         /\ full' = listing
         /\ Listed(c, listing)
    /\ UNCHANGED <<repo, here, commits, blobs, verified, plan, sample, selected, asks, prepares, budget>>

-----------------------------------------------------------------------------
\* Resolve with its listing: what no change names is where it was; a whole file
\* stands when nothing but its name changed; lines go through the file's hunks.
Judge(c) ==
    LET ref == call[c].ref
        listing == call[c].listing
        ch == listing.of[ref.path]
        Located(path) == [commit |-> "head", path |-> path, start |-> ref.start, end |-> ref.end]
    IN
    /\ call[c].stage = "judge"
    /\ call[c].pass = "resolve"
    /\ IF listing.err THEN Gives(c, Stale(c, TRUE))
       ELSE IF ref.path \notin DOMAIN listing.of THEN Gives(c, Current(Located(ref.path)))
       ELSE IF ch.deleted \/ ch.binary THEN Gives(c, Stale(c, FALSE))
       ELSE IF ~WholeFile(ref)
       THEN call' = [call EXCEPT ![c].stage = "remap", ![c].k = 1, ![c].shift = 0]
       ELSE IF ch.hunks # <<>> \/ ch.mode THEN Gives(c, Stale(c, FALSE))
       ELSE Gives(c, Current(Located(ch.to)))
    /\ UNCHANGED <<repo, here, memos, counters, budget>>

\* Remap, one hunk after the other: what lies before the range moves it, what
\* lies after does not matter, and what touches it makes it stale.
Before(h, ref) == Last(h) < ref.start
After(h, ref) == First(h) > ref.end

RemapHunk(c) ==
    LET ref == call[c].ref
        ch == call[c].listing.of[ref.path]
        h == ch.hunks[call[c].k]
    IN
    /\ call[c].stage = "remap"
    /\ call[c].k <= Len(ch.hunks)
    /\ IF Before(h, ref)
       THEN call' = [call EXCEPT ![c].k = @ + 1, ![c].shift = @ + h.newCount - h.oldCount]
       ELSE IF After(h, ref) THEN call' = [call EXCEPT ![c].k = @ + 1]
       ELSE Gives(c, Stale(c, FALSE))
    /\ UNCHANGED <<repo, here, memos, counters, budget>>

RemapEnds(c) ==
    LET ref == call[c].ref
        ch == call[c].listing.of[ref.path]
    IN
    /\ call[c].stage = "remap"
    /\ call[c].k > Len(ch.hunks)
    /\ Gives(c, Current([commit |-> "head", path |-> ch.to,
                         start |-> ref.start + call[c].shift, end |-> ref.end + call[c].shift]))
    /\ UNCHANGED <<repo, here, memos, counters, budget>>

-----------------------------------------------------------------------------
\* ProposeRange.  An unchanged line at the range's edge moves by the hunks before
\* it, which a loop adds up; one that a hunk took away goes to the edge of what the
\* hunk put there.
Shift(hunks, line) ==
    LET shift[k \in 0..Len(hunks)] ==
          IF k = 0 THEN 0
          ELSE IF Last(hunks[k]) < line
          THEN shift[k - 1] + hunks[k].newCount - hunks[k].oldCount
          ELSE shift[k - 1]
    IN shift[Len(hunks)]

ProposedStart(hunks, ref) ==
    LET at == {k \in DOMAIN hunks : ref.start \in Taken(hunks[k])} IN
    IF at = {} THEN ref.start + Shift(hunks, ref.start)
    ELSE NewFirst(hunks[CHOOSE k \in at : TRUE])

\* Bug: the edge of a deletion is taken for a line it put there.
ProposedEndOfLines(hunks, ref) ==
    LET at == {k \in DOMAIN hunks : ref.end \in Taken(hunks[k])} IN
    IF at = {} THEN ref.end + Shift(hunks, ref.end)
    ELSE LET h == hunks[CHOOSE k \in at : TRUE] IN h.newStart + h.newCount - 1

ProposedEnd(hunks, ref) ==
    LET at == {k \in DOMAIN hunks : ref.end \in Taken(hunks[k])} IN
    IF at = {} THEN ref.end + Shift(hunks, ref.end)
    ELSE NewLast(hunks[CHOOSE k \in at : TRUE])

Touched(hunks, ref) ==
    {k \in DOMAIN hunks : ~Before(hunks[k], ref) /\ ~After(hunks[k], ref)}

\* The lines of the range that no hunk takes away.
Surviving(hunks, ref) ==
    (ref.start..ref.end) \ UNION {Taken(hunks[k]) : k \in DOMAIN hunks}

Crosses(h, ref) == h.oldCount > 0 /\ (h.oldStart < ref.start \/ Last(h) > ref.end)

\* No proposal: nothing of the range is left, or nothing to tell which lines of a
\* larger edit were its, or nothing but braces.
Refused(hunks, ref, lines) ==
    LET surviving == Surviving(hunks, ref)
        touched == Touched(hunks, ref)
    IN
    \/ ProposedEnd(hunks, ref) < ProposedStart(hunks, ref)
    \/ ProposedStart(hunks, ref) < 1
    \/ surviving = {} /\ \E k \in touched : Crosses(hunks[k], ref)
    \/ touched # {} /\ surviving # {} /\ \A i \in surviving : lines[i] \in Trivial

Proposal(ch, ref, lines) ==
    IF WholeFile(ref)
    THEN [at |-> [commit |-> "head", path |-> ch.to, start |-> 0, end |-> 0], widened |-> FALSE]
    ELSE IF Refused(ch.hunks, ref, lines) THEN NoProposal
    ELSE [at |-> [commit |-> "head", path |-> ch.to,
                  start |-> ProposedStart(ch.hunks, ref), end |-> ProposedEnd(ch.hunks, ref)],
          widened |-> \E k \in Touched(ch.hunks, ref) :
                         \/ Crosses(ch.hunks[k], ref)
                         \/ ch.hunks[k].newCount > ch.hunks[k].oldCount]

\* Propose with the full listing.  The lines it looks for braces in are those
\* verify read and kept.
Propose(c) ==
    LET ref == call[c].ref
        listing == call[c].listing
        ch == listing.of[ref.path]
    IN
    /\ call[c].stage = "judge"
    /\ call[c].pass = "propose"
    /\ call' = [call EXCEPT ![c].stage = "done",
         ![c].proposal =
            IF listing.err \/ ref.path \notin DOMAIN listing.of \/ ch.deleted \/ ch.binary
            THEN NoProposal ELSE Proposal(ch, ref, repo.pin[ref.path])]
    /\ UNCHANGED <<repo, here, memos, counters, budget>>

\* The caller has its answer.
Return(c) ==
    /\ call[c].stage = "done"
    /\ call' = [call EXCEPT ![c] = NoCall]
    /\ UNCHANGED <<repo, here, memos, counters, budget>>

Next ==
    \/ Fetch
    \/ \E paths \in SUBSET {ref.path : ref \in repo.refs} :
         Prepare({ref \in repo.refs : ref.path \in paths})
    \/ \E c \in budget.callers :
         \/ \E op \in budget.ops, ref \in repo.refs, view \in budget.views : Ask(c, op, ref, view)
         \/ budget.prepares > 0 /\ Warm(c)
         \/ CommitRead(c) \/ CommitFails(c) \/ LooksForDigest(c)
         \/ VerifyKnown(c) \/ Verify(c)
         \/ LookUpChanges(c) \/ Select(c) \/ LookUpFull(c) \/ ListAll(c)
         \/ Judge(c) \/ RemapHunk(c) \/ RemapEnds(c) \/ Propose(c) \/ Return(c)

Spec == Init /\ [][Next]_vars
-----------------------------------------------------------------------------
\* No listing tells of a file inside a Saga: a reference to one is taken to be at
\* the head what and where it was.
NotCompared(at, ref) ==
    /\ ref.path \in SagaPaths
    /\ at = [Pinned(ref) EXCEPT !.commit = "head"]

\* What is called current is, to the letter, what the reference was taken of,
\* whichever listing, memory or fallback the answer rests on; but for a file that
\* Git was told to leave out of the comparison.
CurrentIsVerbatim ==
    \A c \in Callers :
        call[c].answer.state = "current" =>
            \/ Holds(call[c].answer.at, call[c].ref.digest)
            \/ NotCompared(call[c].answer.at, call[c].ref)

\* Where an unchanged line of the pinned file is now.
Image(hunks, i) == i + Moved(hunks, Cardinality({k \in DOMAIN hunks : Last(hunks[k]) < i}))

\* Whether the lines of the range are still there, side by side.
Carried(hunks, ref) ==
    /\ Surviving(hunks, ref) = ref.start..ref.end
    /\ \A i \in ref.start..(ref.end - 1) : Image(hunks, i + 1) = Image(hunks, i) + 1

\* A stale answer that a caller may keep is true whatever is retried or fetched
\* later: the reference never was what it says, or its lines are not there now.
SettledIsTrue ==
    \A c \in Callers :
        LET ref == call[c].ref
            answer == call[c].answer
            ch == repo.change[ref.path]
        IN
        answer.state = "stale" /\ ~answer.provisional =>
            \/ ~Sound(ref)
            \/ /\ call[c].view = "head"
               /\ ref.path \in DOMAIN repo.change
               /\ \/ ch.deleted
                  \/ ch.binary
                  \/ WholeFile(ref) /\ (ch.mode \/ repo.head[ch.to] # ref.digest)
                  \/ ~WholeFile(ref) /\ ~Carried(ch.hunks, ref)

\* A proposal for lines is a range of the new file: where the surviving lines are
\* and what every edit that touches the range put there, all of that and nothing
\* else; and it is called widened if it is longer than the range was.
ProposalHolds ==
    \A c \in Callers :
        LET ref == call[c].ref
            at == call[c].proposal.at
            hunks == repo.change[ref.path].hunks
        IN
        at # None /\ ~WholeFile(ref) =>
            /\ Inside(repo.head[at.path], at.start, at.end)
            /\ at.start..at.end =
                 {Image(hunks, i) : i \in Surviving(hunks, ref)}
                   \cup UNION {Put(hunks[k]) : k \in Touched(hunks, ref)}
            /\ call[c].proposal.widened \/ at.end - at.start <= ref.end - ref.start
=============================================================================
