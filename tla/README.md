# Change Saga: models, model checks and proofs

Change Saga is a Go program, a command line and a loopback review server, over a
directory of records, `change.saga`, that is committed to Git beside the code it
documents. Four things make it hard to get right: several processes write the
same files under an advisory lock, any of which may die half way; the records are
copied into many clones, written apart there and joined by Git, which knows nothing of
their meaning; a server answers pages from caches while editors, commands and Git
change the files under it; and Git itself is asked through a pool of long-lived
processes whose answers are shared between requests.

This directory holds TLA+ models of those parts, TLC configurations that check them
on small instances, and TLAPS proofs of the results that matter most for every
instance. `PROJECT.json` indexes it: which definition models which lines, what each
run checks, which plausible bug of the code each property catches, and the hazards
the properties are for.

Contents: [inventory](#inventory), [models](#the-models), [runs](#runs),
[proofs](#proofs), [where code and comments differ](#where-code-and-comments-differ),
[what is left out](#what-is-not-modelled), [plan](#plan).

## Inventory

Paths are under `src/internal`. M: modelled, P: partly, N: not modelled.

| Part | State it keeps | Operations | |
|---|---|---|---|
| `server/freshness.go` | latest and pending check; arrival time of each request | arriving, checkedSince, publish; the watcher's ticker | P |
| `server/sagafiles.go` | one kept entry: fingerprint and lazily read parts | sagaFilesAt, reading a part | M |
| `server/snapshot.go` | building flag, error, current generation and its two fingerprints | snapshot, requestSnapshot, load, derive, finishSnapshotBuild | P |
| `snapshotcache` | generations, stages and seals on disk; builds in flight in memory | Build, publish, Prune, discard | P |
| `gitdiff/treecache.go` | generations keyed on two trees | comparison as a client of `snapshotcache` | M |
| `gitexec` | sessions, batch processes and their pool, calls in flight, remembered refs | Run, round trips, acquire and release, restart, refstate | P |
| `reviewstate` (`landing.go`, `ledger.go`) | ledger of merged reviews | detection of a landing, remember, open, save | M |
| `quality` | test cases, events, evidence, runs and policies of one clone | add, revise, set state, add evidence, record a run, set a policy | P |
| `requirements` | stories, personas, flags, terms, deprecations; relations between stories | add, revise, set state, add and supersede a relation, consolidate | P |
| `planstore`, `saga/plan.go` | `plan.json`, one directory per Task | create, phases, reviews, prototypes, tasks, deliver | M |
| `cli/slide_transaction.go`, `slide_remove.go`, `saga/slide_transaction.go` | one append-only record per slide, content-addressed sidecars | create, update, reconcile, remove, migration of a flat slide | P |
| `store` | writer lock; temporary files, stages | WriteFile, WriteBatch, CommitDir, WithSagaLock | P |
| `reviewstore` | review documents | create, decide, comment, follow, freeze | N |
| `server/reviews.go`, `relatedreviews.go`, `reviewcache.go` | caches of reviews and of related reviews | keyed look-up, single flight, eviction | N |
| `prototypes` | revisions with parents, lifecycle events | mutations under the lock | N |
| `coderesolve`, `coderef`; the comparisons of `gitdiff` | one resolver: commits, files, verified references, listings of changes, the paths planned | resolve, propose, prepare, warm | P |
| `coverage`, `livingapp`, `nextaction`, `impact`, `changeview`, `reviewapp` | none between calls | reports over a loaded Saga | N |
| `saga` loader, `cli`, `grammar`, `diagram`, `theme`, `vocabulary`, server pages | none between calls | parsing, printing, rendering | N |

How they interact:

- A request handler *arrives*, asks the freshness checks for the state of the
  files, and looks its caches up under fingerprints of that state: the
  documentation files, the comparison snapshot, the review caches. The watcher asks
  in the same way. The checks are shared between requests; so is each cache.
- Handlers ask Git through a *session*, which a server keeps per review or page. The
  sessions share the pool of `git cat-file --batch` processes, and answers that hold as long
  as the refs stay where they are.
- The comparison snapshot of the server, and the tree comparisons of `gitdiff`, are
  built through the on-disk cache, which servers and commands of other
  processes share. Whether a review was merged is read from Git's history, and kept
  in a ledger that several processes replace.
- A review, a command or a page views code references at some commit through one
  *resolver*, which several goroutines use at once; it reads files through a session and
  comparisons through the on-disk cache.
- Commands that write take the writer lock of the Saga (`store.WithSagaLock`), load
  it anew, refuse if it is invalid, and write files with `store`. Git does not
  take the lock, and neither do readers.
- Git joins the records of two clones file by file. Every record is therefore a file of
  its own that names its *parents*, and two branches that went apart leave two *heads*,
  which some later record has to name together.

What each part has to get right, and why a test would hardly show it:

- **Freshness checks.** Whoever answers a request, a finished check, a running one
  it joins or its own, every fingerprint in the answer was true at or after the
  request's arrival, and nobody is left waiting. Arrivals, walks that take time,
  and edits interleave; checks of two kinds displace each other.
- **Documentation files.** A part read late by one request is served to all later
  ones with the same fingerprint.
- **On-disk cache.** A generation is published whole or not at all, though a process
  may fail or die between any two steps, two may build the same one, and a third
  may prune meanwhile; generations do not pile up; a call ends.
- **Comparison snapshot.** One build at a time; requests that come during it are
  told so; what is served is as new as the request, across commits, failures and
  restarts.
- **Git sessions.** A caller that joins another's command gets its answer, and not its
  cancellation; a process whose caller gave up is never handed to the next one
  with half an answer in its pipe; what is filed under a state of the refs was true of
  that state; the pool's count is right, or in the end nobody is served.
- **Landings.** Reviews are squashed, rebased, fast-forwarded, reverted, their branches
  deleted and used again. A review that has not begun is not merged; one whose landing
  Git names is; and what was once reported as merged stays so.
- **Quality records and requirements.** No sequence of writes in one clone, and only named
  ones across two, make a clone unreadable; a record accounts for everything its author's
  clone held; a request that is repeated is applied once; a consolidation that
  stops half way loses no link.
- **Record writes.** What a command acknowledged survives a power loss; an
  unreadable Saga is the doing of a process that died, not of one that failed.
- **Code resolution.** What is called current is, to the letter, what its author
  referenced, wherever the lines have gone; a stale answer that may be kept is true for
  good; a proposal is neither too long nor too short. Listings are made for planned
  paths while the plan grows, failures are remembered, and commits may arrive late.
- **Plan store.** Every operation checks the graph it would leave and then writes
  several files: the graph on disk between operations is sound, a delivered Plan is
  complete and frozen, and no Task a slide names disappears.
- **Slide transactions.** A published revision is never lost, torn or silently
  replaced, though commands are retried, die, fail at any write, lose power, and
  though Git merges histories that grew apart.

## The models

Bounds, and faults, are constants. Where one run is to cover several small
combinations instead of their product, the model has a `Budgets` (or `Settings`)
constant, a set of records, and a variable that holds the one this behaviour was given; its
fields count down. A budget restricts how often something happens and never whether
it may happen in a state.

### `Freshness`: checks shared by requests (`server/freshness.go`)

A caller is a goroutine, a request handler or the watcher. `Arrive` reads the clock;
an ask takes the latest state (`AskLatest`), joins the pending check (`AskJoin`) or
begins one (`AskBegin`), as in `checkedSince`; a check then lists one item per step
(`List`), or fails (`ListFails`), while `Write` and `Remove` change items; `Publish`
ends it and releases those that joined. An item stands for a file or for one of the
two heads, and its stamp for path, size and modification time, or a commit. The ghost
`held` remembers which stamp each item had at which reading of the clock.

### `SagaFiles`: the kept documentation files (`server/sagafiles.go`)

Composes `Freshness` with the entry that pages read through: `TakeKept`, `TakeNew` and
`TakeAfresh` are the outcomes of `sagaFilesAt`, `ReadPart` the lazy reading of one
part under the entry's `sync.Once`, `ServePage` the end of a request.

### `SnapshotCache`: generations on disk (`snapshotcache`, `gitdiff/treecache.go`)

Calls in several processes. One file-system operation is one step: look-up, join or
registration in the process's table, populating a stage, sealing, the rename, the close
and the answer; pruning lists, opens and unlinks name by name; a damaged
generation is discarded. Directories have an identity apart from their name, so that
one who opened a directory goes on unlinking in it after another took its name, and
fails to remove the name at the end if it is taken by then (`NameTaken`). Which
generations are the newest is left open (`Keeps`): a removal under way makes the directory
it empties the newest. `old` are the stages nothing was written in for a day, which
is all `PrunePublished` looks at, so that a builder at work may lose its stage (`DayPasses`).
`setting`, chosen once, says which calls there are, in which process each runs, which
of the two clients they are, and whether days may pass: the server's snapshots and the tree
comparisons differ in whether a prune spares stages and in what an error of the cache means.

### `ReviewSnapshot`: the server's comparison (`server/snapshot.go`)

Requests, one in-memory generation with the fingerprints it is kept under, and the
on-disk generations. `FindBuilding`, `FindCurrent` and `FindStale` are the three
outcomes of the look-up; a build loads, computes its key, reads or derives a
generation, fingerprints again, and finishes; `Restart` loses memory and keeps the disk.
`Refuse` is `requestSnapshot` reading the state in a second critical section. Edits come at any
time, in the middle of a build too.

### `GitPool` and `GitSession`: asking Git (`gitexec`)

`GitPool` is the pool of batch processes: the count of those started, the idle ones, and
what each process has in its pipes. A round trip takes an idle process or starts one,
writes a question, reads an answer, and gives the process back, or kills it when the
caller's context ended (`context.AfterFunc`) or the trip failed; a second attempt is made on a
process that died idle. `GitSession` extends it with what a session does around a
question: `begin` digests the refs; `Run` joins a call in flight under the same
key or makes one (and runs again for those who are left when the one that made it was
cancelled); and `refstate` files an answer under the digest it was taken under, once the
refs were read a second time and had not moved. `Move` moves `HEAD` at any
moment. The question is always what `HEAD` is, so that an answer that is too old
is a wrong commit.

### `Landings`: was this review merged? (`reviewstate/landing.go`, `ledger.go`)

Git's history is a set of commits with parents, whose messages name a pull request or
a review or neither, and whose trees are the set of changes they hold. Authors work on a
branch (`Work`), record a review ahead of its begin (`RecordAhead`), branch, delete and
reuse branches (`Branch`, `Delete`); a base moves on, merges, squashes, fast-forwards
(`BaseMoves`, `MergeBranch`, `Squash`, `FastForward`), and a local base follows it later
(`Pull`); a review is frozen at a head (`Freeze`). A reading opens the ledger
(`OpenLedger`, `BeginRead`), and `Detect` is the whole verdict on one review: a landing
the ledger holds, a commit that names the request or the review, ancestry on the base's
first-parent line, and a branch that adds nothing. `Save` replaces the ledger; `EndProcess` ends
a process. A question to Git may be cancelled, and the verdict then is unsure and not
settled.
`ReviewIds` declares the reviews, which `PlanStore` shares.

### `History`: what a record promises (abstract)

Clones hold records that name their parents. `Write` adds one, under a new id, whose parents are all
the heads of its clone; `Merge` brings another clone's records. It is a specification
of its own, stated without any of the code's forms, and what `TestCases` and
`Requirements` implement.

### `TestCases`: quality records in clones (`quality`)

The revisions, lifecycle events, evidence, runs and policies of one test case, in each of
several clones, and the feature each is written under. An action is a command: its guard is
that the clone loads (`Loads`, the loader's rules on graphs, states and references, and that an
id is of one feature, `IdsClaimed`) and the checks of the mutation; a request repeated with the same revision answers from what is there. A batch
of evidence is several files, and `AddEvidenceBatch` may stop after any of them. `Merge` is Git's:
it takes the union of the records, and refuses where both sides have one path with
two contents (`Clash`). The feature is part of a path, so one id that two clones added under
two features merges, and the clone no longer loads.

### `RecordWrites`: one command, file by file (`store`, `quality/mutation.go`)

The same commands in one clone, at the granularity of system calls. A process waits for the
lock, loads one directory after another, and then puts one or several
records: a temporary file is written and synced, linked under its name, the directory
synced, the temporary file removed. Each step may fail, and then the link is taken
back and the records before it removed; the removal of the temporary file may fail too, which
nobody is told of. A process may be killed anywhere, and the machine may
stop, which keeps what was synced and any part of what was not. What a process leaves behind
(`untidy`) somebody removes later, or nobody (`Tidy`). A command reads
without the lock (`Begin`, `ListRevisions`, `ListEvidence`), may meet another's
temporary file there, and then takes the lock and reads again (`Acquire`, `GiveUp`, `Judge`).

### `Requirements`: stories and the links between them (`requirements`)

Packages (stories with criteria, personas, flags, terms, deprecations) with
revisions and lifecycle events, and relations between stories or
criteria, in clones that Git merges. `ConsolidateProposal` gives up a story for another: it
writes a replacement for each link, supersedes the old ones and
records the story's end, in one `store.WriteBatch`, which may die or be rolled back after any
part (`Cuts`, `Remains`), and then leaves its temporary and recovery files (`litter`) beside
the records, where the loader refuses them (`Readable`) until somebody removes them (`Tidy`).
A single record is written in one step here; `RecordWrites` has the steps. A relation is up to date when both its ends say what they said when it
was stated.

### `CodeResolve`: references at another commit (`coderesolve`, `gitdiff/treechanges.go`, `selectedchanges.go`)

One resolver, two commits (a reference's pin and the head), and goroutines that ask
`Resolve` or `Propose` or warm what was prepared. Each look-up under the resolver's lock is a
step, each reading of a file or of Git's comparison another: `CommitRead`,
`VerifyKnown` and `Verify`, `LooksForDigest`, `LookUpChanges` and `Select`, `LookUpFull` and
`ListAll`; `Prepare`, `Fetch` and other callers come between. `Judge`, `RemapHunk` and
`RemapEnds` are the rest of `Resolve`, with one step for each turn of `Remap`'s loop;
`Propose` is `ProposeRange` and the rules around it: the loop that adds up the shift
(`Shift`), and for the hunks at the range's ends and within it which they are, not how
they are searched for. Git is what `Comparison` says: it names no file inside a Saga
(`SagaPaths`), which both listings leave out; other files no change names are
the same, and hunks without context, none of them empty, in order, say which lines went and
came (`Patch`); a file with hunks differs. What
`ParseTreeChanges` makes of it is `FullListing`, with lines that look like headers
(`OldHeaders`, `NewHeaders`), and `SelectedListing` for planned paths.

### `PlanStore`: one Plan (`planstore`, `saga/plan.go`)

Each operation is one action whose guard is everything the code checks after it has
the lock. Operations on `plan.json` are one atomic write. Those on Tasks cut out
their writes (`Begins`), which `Write` makes one by one: those of `first` before those
of `last`, and within each in any order, the code's order being that of its ids.
`Stop` is a death or a failed write, and undoes nothing; `Tear` is one in the middle of
a removal, which leaves a directory without its `task.json`, and the loader refuses
the whole Saga from then on. A Task that is unblocked may be named by URN, and then the
graph that is checked lacks the dependency that is written; `unchecked` remembers these until
another operation has loaded the Saga, which checks all of it. `Sound` is
`saga.PlanTaskProblems`: known phases and dependencies, phases in order, no cycle, each
Task leading to a story. `Merge` and `Name` are the two facts other parts decide.

### `SlideTransaction`: one slide's record (`cli`, `saga`, `store`)

The record is a list of revisions with parents; a revision is its own snapshot, the
digest of all it holds. A request is written by an author who has read the slide at
some time and may be run at any later time, and again. `BeginApply` and `BeginRemove`
are everything up to the first write (migration of a flat slide, heads, expectations,
limits); then sidecars are linked and synced one after another, the record is put and
synced, each of which may fail, with the rollbacks the code makes. What programs see
(`record`, `sidecars`) is kept apart from what a power loss may leave of it (`disk`).
`Merge`, `MergeUpdate`, `MergeRemoval` and `MergeOther` bring what another branch did.


## Runs

Bounds live in the `.cfg` files under the names of the modules' constants. Deadlock is
not checked in any of them: a bounded run ends when its bounds are used up.

| Run | Shows | Instance and size |
|---|---|---|
| `saga_files` | Answers are as new as the arrival (`AnswersFresh`); what a page reads was so since its request arrived, if no file comes and goes (`PagesFresh`); asks are answered (`AsksAnswered`) | five mixtures: 3 page requests and a write; 2 and two writes; 2 of either kind and a write anywhere; 2 that only ask, with a write and a removal; 3 callers who only ask; 406 thousand states |
| `cache_tree` | Generations are published whole (`PublishedWhole`) and do not pile up (`GenerationsBounded`); calls end | four settings: two servers, each its own process, in two variants; three comparisons in two processes; two of them while days pass; 2 keys, one kept, one mishap; 202 thousand |
| `snapshot` | What is served is as new as the request (`ServedCurrent`), but for what an edit overtook during a build; builds end | 2 requests, two edits at any time, a commit, two failures, a restart; 426 thousand |
| `plan_store` | The graph stays sound while no writer stops short, but for what was asked for by URN; a delivered Plan is complete and frozen; named Tasks stay | 2 writers, 2 Tasks, 2 phases, one fault; 157 thousand |
| `slides` | A record is whole, nothing confirmed is lost, an update replaces what its author read | 2 writers, 2 sidecars, 3 revisions, 3 requests, one mishap, one power loss; 402 thousand |
| `git_session` | The pool's count is right, whoever waits is owed a wake-up; an answer is one's own question's, true since the session began, filed where it is true, and no one is told of another's cancellation | 2 callers, 2 sessions, 2 branches, 2 commits, 1 process, 2 starts that fail, four mixtures of questions, moves and mishaps; 971 thousand |
| `landings` | A review that has not begun is not merged; a landing Git names is seen; what was reported merged stays merged | 2 reviews, each with a request and a branch, one process, four mixtures of commits, moves, readings, cancellations and freezes; 847 thousand |
| `test_cases` | Records account for all their author's clone held (`Reconciled`, the refinement of `History`); only three named merges make a clone unreadable, and no write does; what is current is latest; a repeated request is applied once | 2 clones, 2 features, 1 step, 2 versions, 1 request, 9 records, eleven mixtures; 110 thousand |
| `record_writes` | What was acknowledged survives; commands come one after the other; only what a process has left behind makes the Saga unreadable; what a command writes is about the latest | 3 commands; nothing wrong, or a kill and a stop, or two failing steps and a stop; 960 thousand |
| `requirements` | A consolidation loses no link wherever it stops, and makes a clone unreadable by its temporary files only; no other call does, but for the named merges; records account for their past | 2 clones, 2 stories, 1 criterion, 2 words, 6 records; 125 thousand |
| `code_resolve` | What is current is verbatim; a stale answer that may be kept is true; a proposal is what survived and what came among it | every edit of two files of 3 and 4 lines with up to 2 lines added, for one caller; and 2 files with a rename, a deletion, a mode, a binary change, or a file of a Saga that Git is not asked about, for 2 callers with 2 calls, 2 preparations, a failure, a late fetch; 1.44 million |
| `code_resolve_headers` | A changed line that looks like a header hides a change (fails, [below](#where-code-and-comments-differ)) | as `code_resolve`, with a line that begins `-- ` |

Why the bounds are enough to be worth the run. Three callers are the least with which
one joins a check that another's has displaced. Two writes and three arrivals let an
entry be kept across an edit and its undoing; they are checked in mixtures, as their product is out of reach. Three calls in two processes cover a join
within a process, a race between two, and a prune of what the third is about to use.
Two Tasks make every shape of a broken graph the store looks for: an unknown
dependency, a cycle, phases out of order, a Task without a story. Three revisions are a
root and two heads, or a root, its replacement and a removal. Two failures let two walks
fail, so that a generation kept for one is found by the other. One process in the pool
(the code's limit is at least two) makes the limit, the wait and the hand-over between
two sessions happen with two callers. Two reviews are enough for one to be stacked on the
other, and for a branch to be used twice. Two clones and one merge each way make two
heads, and a second merge the heads of heads; two features are the least an id can be used in
twice; nine records are more than any mixture of
the test cases needs, so the budgets bind first. Four lines leave room for a range of two
with a line on either side, hunks before, in, across and after it, and two lines added make
an edit grow. In every run each mutant of
`PROJECT.json`, a plausible bug in the modelled code, is found within these bounds.

The mixtures replace one large product of counters: each is a budget for a story a test
would not tell, and all are checked in the one run. Symmetry is used in runs without
liveness only, over constants the modules treat alike.

Several properties except something by name, because with it the property fails.
`FailsOnlyByMerge`, in either run, names the three kinds of merge that break a load, and says that
there are no others. `PagesFresh` excepts behaviours in which a file comes and goes; `ServedCurrent` a
version that an edit overtook in the middle of a build (`overtaken`), and a report kept under the
key of a walk that failed (`KeptBlindly`); `PublishedWhole` a build whose stage was taken for
debris (`outlived`); `GraphKeptByWriters` dependencies asked for by URN (`unchecked`);
`CurrentIsVerbatim` a file inside a Saga (`NotCompared`), and, in `code_resolve`, no changed line looks
like a patch's header. All are described [below](#where-code-and-comments-differ).

**Fairness.** `SagaFiles`: weak fairness of each running check. It runs on its
caller's goroutine with a context detached from the request's
(`context.WithoutCancel`), so that a client that goes away does not stop it; the file
system answers or fails, and nothing else is waited for. Nothing is assumed of
requests' arrivals or of those who edit. `SnapshotCache`: weak fairness of each
call's steps while its process lives; a death ends it, and `CallsEnd` counts the
dead as ended. `ReviewSnapshot`: weak fairness of the build's steps, which run on its
request's goroutine. `GitSession` has none, as Git may take for ever to answer:
`NobodyWaitsInVain` says instead, as an invariant, that whoever waits is owed a wake-up by
somebody who has one to give. `Landings` ends at its budgets. The modules of records have
none either: a writer may hold the lock for ever, and those that wait give up after two
seconds, having changed nothing.

## Proofs

TLAPS proves these for any number of callers, files, writers, Tasks, clones and records,
and for any bounds; the only assumptions are the named ASSUMEs of the models (bounds
are naturals, sentinel values are not elements of the sets; in `Landings`, no review's id is a
number, as pieces of work are, and none follows the base itself), which TLC evaluates in the
runs.

`FreshnessProofs` (about `Freshness`, `SagaFiles`, and what is derived at a fingerprint:
`ReviewSnapshot` and `SnapshotCache`, whose definitions are named apart so that one module can extend
them all):

- `TypeCorrect`: `TypeOK`.
- `Invariance`: the inductive invariant. `AnswersFresh` by itself is not inductive: an
  answer is as good as the check it came from. `IInv` follows a stamp on its way:
  a running check's stamps were held since it began (`CheckSound`), so were those of
  the state published last (`Sound(latest)`), a waiting caller waits on a running check
  that will suit it (`WaitSound`), so an answer is sound whichever way it came
  (`AnswerSound`). `ClockSound` ties the ghost to the present: no reading is ahead of
  the clock.
- `AnswersAreFresh`: what `saga_files` checks. `AnswersCoverTheAsk` and
  `WaitersWaitOnRunningChecks` are only proved: who needs every file is never given the check
  of a shell, and who waits, waits on a check that is being run.
- About `SagaFiles`: `CacheImplementsChecks`, that the cache only adds to the
  checks (`FilesSpec => Spec`), so that everything above holds under it; and `PagesAreFresh`.
  Its invariant, `FilesInvariance`, says what an entry is filed under: its fingerprint is of
  stamps the files had at some moment, and what was read into it is that or newer.
  With no file coming and going a stamp does not return, so a fingerprint taken for a
  later request that equals the entry's shows that the file had not changed in between.
- About `ReviewSnapshot`: `SnapshotInvariance` follows a report from the walk it was derived
  at. Everything a build has derived so far is of the Saga as it is, or of a version that an
  edit overtook while it was at work (`Drafts`; `Through` says that all versions since were),
  and one request builds at a time (`OneBuilder`); so is a generation of what its key
  says (`Generations`), the kept snapshot of what its fingerprints say (`Memory`), and a
  request that compares with these is served no less than it found on arriving (`Served`).
  `BlindKeys` counts the failures behind a key that says nothing. From it `ServedAsCurrent`,
  for edits at any time, and `ServedOfItsSource`: a report is of
  the commit the request's session began with.
- About `SnapshotCache`: `CacheKeepsTrack` knows where every directory is. What has a key's name
  was built for that key by a call that is past its build (`Named`); a name a comparison
  lists or opens to remove is a key's, or the stage of a call that is over or that was found
  a day old (`Removals`); so the stage of any other call holds what its build has written
  (`StagesWhole`): the action property `PublishedIsWhole`. `GenerationsAreBounded`: as long as no step fails,
  there are at most as many generations as are kept, or a call that published one has still to
  list the bucket, or one has listed it and leaves no more than that when it is through its
  list (`Bounded`). A removal that gives up because its name is taken again leaves it to the
  call that took it, which then owes a prune. A call is in its
  process's register from its stage to its end, and nothing else is (`Builds`):
  `BuiltOnceAtATime`. Who waits, waits for a call that is in the register and has still to
  close its channel (`Waiters`): `NoneWaitsInVain`, the safety half of `CallsEnd`. All but
  `PublishedIsWhole` are of servers and comparisons alike; servers remove stages that are
  in use.

`PlanLandingProofs` (about `PlanStore` and `Landings`, which have the reviews in common, `ReviewIds`):

- `PlanInvariance`: what has been cut out but not yet written decides. A delivered
  Plan has no write left (`DeliveredQuiet`); no write that is left takes a named Task away
  (`NamedSafe`). Both hold because deliveries and namings need the lock with nothing
  left to write, and writes begin only on a Plan that is not delivered.
- `DeliveredIsComplete`, `NamedTasksStay`, and the action property
  `DeliveredStaysFrozen`, whatever stops short on the way.
- `WritersKeepTheGraph`: `GraphKeptByWriters` is about moments when nobody writes; in between
  the graph on disk need not be sound. `GraphInv` names the graph the writes that are left
  lead to (`Toward`), which is the one that was checked, and the dependencies asked for by
  URN (`Without`): a Task that was not there had nothing depend on it. The phases change by single
  writes, each of which keeps the graph sound (`SoundAppended`, `SoundRemoved`).

- `LandingsInvariance`. What authors do keeps the history in shape (`Made`): a commit's ancestors and
  their lines are its own (`Ancestry`, `Lined`), only the base merges (`Aside`), a subject
  that names a branch or a pull request stands on a commit that brings its work (`Names`), and
  the tip of a branch that never began at another one is on the base's line or is work of
  that branch (`TipOf`). What is there stays (`Grown`), so an entry that is sound remains so
  (`EntryStays`), in the file, in every opened ledger and in one that a process saved over
  another's. The entries a process holds are of commits that the upstream base of its read already has
  (`BasesSound`).
- `UnbegunIsNotMerged`. A head in the base and off its line, or off the line and adding
  nothing, is work of the branch that the base holds. A head on the line and ahead of the base
  the read saw adds what the line added since, and that is something: along the
  line trees only grow (`TreesGrow`; it needs induction, which the prover has not, and takes the
  first commit of the line that would be an exception).
- `NamedLandingIsSeen`. No commit takes a record away again, so one commit of the line brought it
  (`OneLanding`), and the verdict's landing commit is the one that names the review.
- `ReportedMergesStay`. What a process reported is in its ledger, at a commit behind the upstream
  base of its read, so a read that goes through keeps it at the latest when it comes to that ref.

`TestCasesProofs` (about `TestCases`, and `History`, the abstract specification):

- `HistoryInvariance`, of any history: a record's parents are in its past, its past is there and
  holds the past of whatever is in it, and records that share an id are the same record.
- `NoRecordLost`: a record is in the past of some head of every clone that has it. It
  needs induction, which the prover has not; the proof takes, among the records that
  have this one in their past, one whose own past is largest (pasts are finite, and a
  descendant's is larger), and shows that nothing succeeds it.
- `HeadsReconcileAll`: a record that a clone writes accounts for every record the clone held.
- `Invariance`, and `ImplementsHistory`: for each kind of record (revisions, events, runs)
  the records of all clones, under the mapping `HistoryOf(kind)`, behave as `History`
  says: each command writes a record whose parents are all the heads, or a root, or
  leaves the kind alone, and a merge is a merge. With the theorems above, nothing a
  clone ever wrote drops out of the account of a later record.
- `CurrentSucceedsAll`: the invariant of `History`, which the refinement carries over to the
  revisions and to the runs (`HistoriesSound`), puts every record of a clone behind its
  only head. So what is reported current is of the revision that succeeds every other, whatever
  was merged.
- `GInvariance`, a second invariant, of the files a clone holds (`Good`): every record has its
  parents beside it, older than itself, which rules cycles out for as long as it lasts (`GoodGraphs`: the
  oldest of any set has no parent in it); a name is one record's; the test case began with one
  package, so there is one root (`Begun`). It is said of clones in which no id is under two
  features: a merge with any other clone has an id under two features again. A merge without
  a clash keeps the rest (`MergeGood`): two good clones whose test case is under one feature
  share the root, and a record keeps exactly the parents it had, as a parent from the other side would have a name that is taken.
- From it `BrokenByMergesOnly` (of all a load demands, the three rules it leaves out are the only ones a
  merge can break), and the action properties `WritesLeaveItLoading` and
  `RepeatsWriteNothing`. Each command has a lemma that says what it wrote (`Wrote`); a
  batch of evidence is judged piece by piece (`PrepareReady`), and what a stop leaves of it is a
  batch that would have been taken as well. An id that the writer makes up is nobody's
  (`NextIDFresh`, by the pigeonhole principle).

`RequirementsProofs` (about `Requirements`), for any numbers of clones, stories, criteria and
words, and any budget. One more assumption than TLC needs: a story is named like no other
package and like no pair of a story and a criterion, as its id's prefix sees to in the code.

- `LinksInvariance` (`LInv`). `LinksKept` is lost if a merge may bring the closed file of a
  relation to a clone without its replacement, or another file of the replacement's name. So the
  invariant follows a relation through all clones: relations that one was made of are of
  one type, and of one relation there are at most the file as it was made and those it was
  superseded with, each at a time of its own. `ReplacedOnlyByAnother` is in it.
- `RecordsInvariance` and `ImplementsHistory`: each package's revisions and events behave as
  `History` says, so that what `TestCasesProofs` shows of any history holds of them.
- `GoodInvariance`: packages begin with one revision and one event of one number
  (`Begun`), parents are there (`Parented`) and older (`Ordered`), a record is the only one of its
  name (`Named`), and what relations are about is there (`EndsKnown`). As with the test cases,
  a merge of good clones is good, since they share the root and keep their parents; and with
  parents older than their children there is one graph with one root (`OneRootGraph`).
- `MergeFailures`: whatever was merged, all a load demands holds but the criteria of an accepted
  story, the circle of refinements and the conflict stated twice.
- `CallsLeaveItLoading`, the action property `WritesLoad`: what a call leaves of the records
  loads, and only a consolidation leaves other files beside them. It has a lemma for each way a call
  changes a package (`AddsLoads`, `PutsGood`, `SucceedsGood`). The relations of a
  consolidation are in force beside their replacements until the last file is written, and some may
  be taken back: `FitBetween` says that relations that load with the old files, and with the new
  ones, load with any mixture. It rests on `EndpointKept`: what the duplicate gave up is no
  endpoint of a replacement, so the two are never a pair that conflicts, nor one edge of a circle
  more.

`CodeResolveProofs` (about `CodeResolve`), with `OldHeaders` and `NewHeaders` empty:

- `ResolverInvariant`: `CurrentIsVerbatim` is about answers; to be inductive it needs what
  each answer rests on. What is remembered is so (`BlobsTrue`, `VerifiedTrue`), a listing tells
  of every path it is kept for (`ListingsTrue`, `Tells`: this is where a plan that grew
  would hurt, and `ScopeIsPlan` is why comparing two counts is enough), and a call in
  Remap's loop has passed some hunks that lie before its range and moved it, and then some
  that lie after (`Passed`).
- `CurrentStaysVerbatim`, for files, hunks and ranges of any length. `PassedBefore`,
  `PassedAfter` and `PassedAll` are the loop: that the sum of the deltas it adds up is the
  offset Git's own numbers show needs no induction, as each hunk states where the earlier ones
  put it.
- `SettledStaysTrue` has an invariant of its own (`SInv`) next to that one: an answer that
  may be kept is given only when the pinned commit was found (`CommitTrue`), a file missing at the
  pin is missing there (`BlobsSettled`), and a hunk that touches a range has torn it
  (`TouchedIsTorn`): it took a line of the range, or put one between two of its lines.
- `ProposalsHold`: on the new side hunks and kept lines lie side by side as on the old one
  (`NewHunksApart`, `GapImage`, `NewGap`). A range splits the hunks into those before it, those
  that touch it and those after (`RangeSplits`); the proposal reaches from the first to the
  last of what became of it (`ProposalSpans`), holds all of that (`SpanCovers`), nothing
  else (`SpanFilled`), and lies within the new file (`SpanInside`). Unless it is called
  widened no touched hunk reaches past the range or adds more than it takes, and it is no
  longer than the range was (`NotWidened`). Where these need induction over hunks they take
  the least counterexample instead (`HunksApart`, `ShiftIsMoved`, `MovedBack`).

`GitSessionProofs` (about `GitPool` and `GitSession` together), for any numbers of callers,
sessions, processes, branches and commits. The two models have one invariant
(`Invariance`) in two halves:

- `PoolInv`: who has which process and what is in its pipes. A caller's process is of its
  session, and nobody else's; a request is in a pipe only while its own caller reads
  (`Pipes`), which is why a process that goes back to the pool has no answer left for the next
  caller; the pool's count is the idle processes and those in use (`Counts`); a process
  that runs is at one of the two (`Placed`); who sleeps has a holder in its session
  that will wake it (`Sleepers`). From it `AnswersAreOwn` and `PoolIsAccounted`.
- `SessionInv`: where an answer comes from. A commit is followed from where Git names it,
  through a pipe, a call of `run`, or the memory, to the caller, and was named since the session
  began (`AnswersAreOfTheSession`). A digest is followed through the walk that reads the
  refs one after the other: a walk during which the refs moved at most once gives a state
  that was (`AnswersAreFiledWhereTrue`; with two moves it may be of neither, the exception
  the property names). A call in flight has one caller that runs it (`Runners`), is killed only
  when that caller was cancelled, and is then nobody's to join (`CancelledCalls`):
  `WaitsAreNotInVain` and `CancelledByThemselves`.

`RecordWritesProofs` (about `RecordWrites`), for any number of processes, kills, failures and
stops of the machine:

- `Invariance`. `AcknowledgedKept` is about what is told of; a record is safe before that.
  `FirmKept`: from the sync of its directory on, while its writer has not failed, a
  record is linked, synced and untouched since, so no stop takes it away; and nobody
  removes it, as only a writer that has failed removes, its own records only, and what it has
  written is told of only when it has not failed. `FirmOver` is the same for the order
  of revisions, but a stop may bring back a revision that was taken back and not
  synced: so `Lineage` and `Untouched` speak of all that is, or may come back, on disk, and
  `Judge` puts the new revision above all of it.
- `AcknowledgedStay`, `RevisionsInOrder`, `OnlyLeftoversSpoil`, and the action property
  `EvidenceOfTheLatest`. That a revision over all heads is over all revisions (`OverAll`) needs
  the head after a given revision, found as the one with the fewest revisions after itself.

`SlideTransactionProofs` (about `SlideTransaction`), for any numbers of processes, branches,
sidecars and mishaps:

- `Invariance`. The sidecars that have to be there are those of confirmed revisions and,
  until the power first fails, those of the record (`Promised`). A command takes back what it
  has made, so `OwnOnly` follows that it has made no sidecar of a promised revision: it
  makes only what is missing, and what is promised is not. `Durable` says what each possible
  outcome of a power loss still holds; `Chosen`, that what is going to be published lies over
  the heads the request named, which stay the heads as long as the command has the lock.
- `RevisionsWhole`, `PublishedStays`, and the action property `NoUpdateLost`; that a
  revision over every head is the only head afterwards is `OneHead`.

Only model-checked: liveness (`AsksAnswered`, `CallsEnd`, `BuildsEnd`), which is out of the
prover's reach and stays with TLC. Every other property of the passing runs is a theorem. Type
correctness is a theorem of its own for `Freshness` only; the other proofs carry the typing they
need in their invariants.

## Where code and comments differ

One violation run shows a case the comments exclude; `PROJECT.json` quotes the lines.

- `code_resolve_headers`: `gitdiff.ParseTreeChanges` takes every line that begins `--- ` or
  `+++ ` for a header of the file, inside a hunk too. A removed line `-- note`, a comment of
  SQL, Lua or Haskell, is printed as `--- note`, replaces the old path, and the change is no
  longer listed under the path of the reference: a reference to lines that were changed, or
  whose file was deleted, is called current. `resolve.go:2-4` promises the
  opposite, and `selectedchanges.go:118-119` guards the selected listing against
  "an unexamined change" by falling back to the full one, which has the same gap. The parser for
  pages, in `gitdiff.go`, counts the lines of a hunk. An added line `++ x` replaces the new
  path in the same way.

Others were met while modelling. They are in the models where they fall in their scope,
or are excluded there by name; none has a run of its own.

Code resolution:

- A reference to a file inside a Saga is called current whatever became of the file: both
  listings tell Git to leave `**/*.saga/**` out (`treechanges.go:50`, `selectedchanges.go:44`; "every
  path outside a .saga directory", `treechanges.go:35-37`), and what no listing names counts as
  unchanged, while `coderef.ValidatePath`, and so `Author` (`resolve.go:113`) and a Saga's records, accept such a path.
  `resolve.go:2-4` makes no exception. The model has it, and `CurrentIsVerbatim` excepts these
  paths by name (`NotCompared`).

Server and caches:

- A part read while a file briefly exists is served later to requests whose fingerprint
  equals the earlier one (`sagafiles.go:29-32` says such an edit "is never served
  from here"). `PagesFresh` speaks of behaviours without a removal for that reason.
- The fingerprint a snapshot is kept under is taken after its load, so that an edit in between
  is served as current until the next edit (`snapshot.go:133`), and, when it comes before the
  key is computed, is kept on disk under the later version's key. The model has it, and
  `ServedCurrent` excepts the versions this happens to by name (`overtaken`). A
  refused request may be told of a broken Saga if the build ends before the second look.
- The key of a generation is valid even when the walk over the Saga failed: `fingerprints` drops
  the error, and `snapshot.go:248` puts the name of the format before the empty fingerprint,
  which `Key.Valid` would have refused. All such keys of one commit are the same, so a
  request whose walk fails is served the report kept for an earlier one, whatever was edited
  in between ("a hit can never be stale", `snapshotcache.go:12-14`; "Either one empty means the
  input could not be described exactly, which makes the whole key invalid rather than risking a
  stale review", `:77-79`). The model has it (`ComputeKey`), and `ServedCurrent` excepts
  those reports (`KeptBlindly`). It came to light in the proof: the invariant that a
  generation is of the Saga its key says could not be kept by `ComputeKey`.
- A pruning server removes the stages of other servers, and an error of the cache becomes
  the error of the comparison, though "never what the answer is" (`snapshotcache.go:23-24`).
  A prune can also empty the stage another server is about to seal, and a partial
  generation is published and its read error kept. `PublishedWhole` is
  therefore stated of the comparisons, which spare stages written in within a day.
- "Recent staging directories may belong to another live builder, so leave them alone"
  (`snapshotcache.go:391-392`): a build that takes more than a day from one entry of its
  stage to the next is taken for debris. It fails, or, when its stage was emptied
  between its last look and the rename, publishes a part. The model has it (`DayPasses`), and
  `PublishedWhole` excepts the builds it happens to (`outlived`).
- `freshness.go:79-82`: two walks of the same kind can run at once, when a check of the
  other kind took the pending place in between; `:119-120`: one request that asks twice
  may be given two different states.
- `snapshotcache.go`: a prune unlinks a published generation file by file, so that a
  reader may find it partial (17-19); a generation can be populated twice in one process,
  as it is not looked up again under the lock (239-240); a lost rename leaves a
  stage behind (330); a report about the older document can be stored under the newer
  key (11-16, with `snapshot.go`).

Git:

- Refs that move away and back while an answer is taken (`refstate.go:301`), and a digest
  of a session that is torn, are not noticed. A kill sent for a caller that gave up can reach
  its process after another caller acquired it; the trip is then tried again. One
  revision can be resolved differently within a session, by memory, pool and memo.
- A stacked review, whose record came early with another's merge, is reported merged before
  it begins, and the ledger makes that permanent (contrary to `ledger.go:26-28`);
  `NotBegunNotMerged` is stated of reviews with a branch and a pull request of their own. A local base that lags,
  with a revert or an empty commit on the upstream one, makes an unbegun branch one that
  adds nothing. A passing failure of Git is settled for the life of the process; a
  ledger whose save failed is not saved again until something new is learned; two
  processes overwrite each other's entries.

Records:

- A command loads once without the lock, and is refused ("cannot mutate") when it
  meets a temporary file of another command's write, contrary to
  `docs/cli-record-queries.md:87-90`; the loaders of decks, reviews and Plans skip such
  files (`whiteboard.go:62`, `slides.go:350`, `review.go:401`, `plan.go:517`), those of
  quality records do not.
- Two first runs of one test case, an active state and a revision without steps, or one id of a
  test case or of a policy added under two features (`quality/load.go:148`, `:176`;
  `applayout.go:344-353`), merge into a Saga no command loads (contrary to `README.md:293-295` and
  `docs/requirements-design-quality-lifecycle.md:608-609`); so do an accepted
  story and a revision without criteria, a circle of `refines`, and a conflict stated twice.
  `FailsOnlyByMerge` says there are no others in the model's scope. Ids of stories, citations and
  relations are unique across features too (`requirements/load.go:83`); `Requirements` has one
  feature, so that merge is outside its scope.
- Evidence repeated without an id or a revision is recorded twice (`cli/quality.go:401`);
  ids generated for evidence, policies and repins collide across branches; a run
  repeated without a revision after a revise is refused, not replayed.
- `quality/mutation.go` writes several records and removes the earlier ones when a later one
  fails (`writeRecords`, 776-795). `store.WriteFile` may fail after the file is published, when
  neither the directory could be synced nor the file taken back, and says so: "Callers
  must not roll back dependencies of that value" (`store/store.go:196-197`). They are: the record
  stays and what it depends on is removed. `RecordWrites` does so after two failing steps, and
  `UnreadableByLeftovers` excepts what it leaves.
- `store.go:245-248` does not look at the error of removing a temporary file. When it cannot be
  removed the command has succeeded and says so, and from then on the loader of quality
  records refuses the directory (`load.go:339`), until somebody removes the file.
  `RecordWrites` has it (`RemoveTemp`).
- An acknowledged first record in a directory just made can vanish in a power loss
  (`store.go:504`), and the undo of a batch is not synced.
- `WriteBatch` puts a temporary and a recovery file for every record of a consolidation beside
  the records (`store.go:97-134`). When it dies, or cannot take everything back, they stay, and
  the loaders of relations and events refuse them (`requirements/load.go:294`, `:360`): no
  command works, the repair included, before they are removed by hand. After that a retry is
  refused until the old relation is superseded by hand; links to criteria the duplicate has removed stay; opposite
  consolidations on two branches leave both stories given up.
- `AddPersona`, `AddFlag` and `AddTerm` compare with the first record in the order of ids, so
  that a later one can prevent a replay, which the comment of `AddDeprecation` says must
  not happen.
- "A write that touches the graph checks the whole resulting graph first, and a write that
  would strand a Task or close a cycle is refused" (`SPEC.md:1957-1958`): `task add --unblocks`
  takes a Task's id or URN (`planstore.go:267`), and puts the dependency into the graph it
  checks only where the text is the id (276-280), but writes it in any case (305-309). By URN
  a cycle can be closed, after which the Saga does not load; and a Task whose only way to a
  story is the one it unblocks is refused. The model has it (`AddTask`), and
  `GraphKeptByWriters` excepts these dependencies by name (`unchecked`).
- `planstore.go:304`: a Task is committed before the Tasks it unblocks depend on it,
  and a stop in between leaves a Plan the store's own rules refuse; `:395`: a Task's
  directory is removed file by file; readers take no lock.
- `cli/slide_transaction.go`: a sidecar whose record was never written makes the deck
  unreadable, though the comment at 476-477 calls it invisible. A slide removed on two
  branches has two heads, both removals, and a `create` under its id is accepted (335-336).
  An update that changes nothing does not record its request id (350-352, 429-436). An
  answer that is repeated does not sync again (512-518, 1057). A retry of what was applied is
  refused once the slide is removed (335 precedes 353).

Review store, read for the [plan](#plan) and not modelled:

- `SeatDecision` takes a record whose history cannot be read as the local author's, so
  that another's approval can count as a repetition of one's own. `Record` computes the
  slide digest again after the check of the snapshot, and Git takes no lock in between.
  A repin freezes a head computed from an unlocked load and looks again only at whether the
  review was merged (`reviewstore.go:365`). Two clones may create two reviews of one
  request. `relatedreviews.go:156`: the key omits what refs resolve to.

## What is not modelled

- In the modelled parts. `Freshness`: the watcher's ticker and its warming of caches; stamps
  are unique per write, as two edits within one tick and with one size cannot be told apart by
  the code. `SlideTransaction`: the rules on what a slide may contain, dry runs, removal of
  flat slides, other slides of the deck, a Git merge while a command runs. `PlanStore`:
  titles and prose. `GitSession`: where the repository is and its configuration are fixed;
  all questions are one question. `Landings`: a review that follows the base branch itself, and a base
  that is rewritten. `TestCases`: one id of a test case, with one criterion; ids an author
  gives are fresh or repeated; a test case does not move to another feature. `RecordWrites`: one test case in one clone; a loader's
  reading of a file happens at its listing. `Requirements`: moves of stories, repins,
  citations, priorities, more than one feature, the relation types `addresses` and `verifies`, limits.
- `store.CommitDir`, prototypes and the review store: same patterns as what is modelled,
  not yet done; see the plan.
- The review caches of the server: single flight and eviction; next in the plan.
- Code resolution: authoring a reference, `DiffSince`, the removed references and changed paths
  that are listed for a page, the diff a proposal shows, and the cleaning of
  paths. The text of a line is a value; bytes that are not lines are not. A file that Git calls
  binary is said to be. Copies, which Git is not asked for, and changes of a file's type are left out.
- Pure reports and parsers (coverage, status, next actions, impact,
  diff parsing, vocabulary, diagrams, themes): functions from a loaded Saga or
  from text to text, without state between calls.
- The HTTP handlers, templates and the command line's printing; `experiments`, build
  files, the site and tests.

## Plan

1. **`Reviews`**: `reviewstore` under the lock (record, comment, follow refuse a merged
   review; freezing works from a document read before), seat decisions and which record is
   current, in clones that merge, composed with the ledger of `Landings`.
2. **Review caches of the server**: keys, single flight, eviction, what the key of
   the related reviews leaves out.
3. **`store.CommitDir`** and prototypes: the remaining clients of the record pattern.
4. **Abstract specifications**: a register read at or after the ask, which `Freshness`
   implements; a graph changed in single steps, which `PlanStore` implements when
   nothing stops short.
