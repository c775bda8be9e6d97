--------------------------- MODULE SlideTransaction ---------------------------
(***************************************************************************)
(* The transaction record of one slide (internal/saga/slide_transaction.go)*)
(* and the commands that write it, apply-slide and remove-slide            *)
(* (internal/cli/slide_transaction.go, slide_remove.go), on the files of   *)
(* internal/store.                                                         *)
(*                                                                         *)
(* A record is a list of complete revisions.  A revision names the         *)
(* revisions it replaces, its parents; its snapshot is a digest of all it  *)
(* holds, and in this model a revision is its own snapshot.  What a slide  *)
(* shows lies in content-addressed files beside the record, its sidecars,  *)
(* which are committed before the record that refers to them.              *)
(*                                                                         *)
(* Commands run one at a time under the Saga's writer lock.  A process may *)
(* die between two steps, a step may fail, the power may go, and Git may   *)
(* bring revisions another branch made.  A command that is refused, and a  *)
(* retry that finds its revision already there, change nothing on disk:    *)
(* they are no steps here.                                                 *)
(***************************************************************************)
EXTENDS Naturals, FiniteSets, Sequences, SequencesExt

CONSTANTS
    Writers,            \* processes that run commands
    RequestIDs,         \* the request_id of an apply-slide request
    OtherIDs,           \* request ids other branches use
    LegacyID,           \* the request_id of a migrated flat slide
    Sidecars,           \* names of content-addressed files
    Contents,           \* what a request may ask the slide to show: the
                        \* sidecars it is made of
    Absent,
    MaxSlideRevisions,  \* the code's limit (256), small here
    MaxRequests,        \* bound: requests authors write
    MaxMishaps,         \* bound: deaths and failed steps together
    MaxOutages          \* bound: power losses

ASSUME SlideAssumption ==
    /\ RequestIDs \cap OtherIDs = {}
    /\ LegacyID \notin RequestIDs \cup OtherIDs
    /\ IsFiniteSet(Sidecars)
    /\ Contents \subseteq (SUBSET Sidecars) \ {{}}
    /\ MaxSlideRevisions \in Nat \ {0}
    /\ MaxRequests \in Nat /\ MaxMishaps \in Nat /\ MaxOutages \in Nat

Revision(by, content, parents, deleted) ==
    [by |-> by, content |-> content, parents |-> parents, deleted |-> deleted]

\* The root revision apply-slide makes of a flat slide, which has a visual of
\* its own and no sidecar.
Legacy == Revision(LegacyID, {}, {}, FALSE)

\* A removal repeats what it removes and is named after it, whoever makes it.
Tombstone(revision) ==
    Revision(<<"remove", revision>>, revision.content, {revision}, TRUE)

NoRecord == [revisions |-> <<>>, current |-> Absent]

VARIABLES
    record,     \* the record as programs see it
    sidecars,   \* the sidecars programs see
    disk,       \* what a power loss may leave of each: the possible records,
                \* and for each sidecar whether it may be there, or be missing
    flat,       \* whether a flat slide of that name is there
    request,    \* what each process was last asked for
    writer,     \* how far each process is
    confirmed,  \* revisions reported as published
    requests, mishaps, outages

files == <<record, sidecars, disk>>
bounds == <<requests, mishaps, outages>>
vars == <<files, flat, request, writer, confirmed, bounds>>

-----------------------------------------------------------------------------
(* The revision graph.                                                     *)

\* A revision without parents, but not the first, replaces the one before it.
Parents(revisions, i) ==
    IF revisions[i].parents = {} /\ i > 1
    THEN {revisions[i - 1]}
    ELSE revisions[i].parents

Heads(revisions) ==
    ToSet(revisions) \ UNION {Parents(revisions, i) : i \in DOMAIN revisions}

RecordExists == record # NoRecord

\* What a writer appends to: the record, or the flat slide it migrates.
History ==
    CASE RecordExists         -> record.revisions
      [] ~RecordExists /\ flat -> <<Legacy>>
      [] OTHER                -> <<>>

\* The slide readers see: the current revision or, when that is a removal,
\* a live head that Git has put beside it.
LiveHeads == {revision \in Heads(History) : ~revision.deleted}
Visible == IF RecordExists THEN ~record.current.deleted \/ LiveHeads # {} ELSE flat

\* The loader's rules for a record whose sidecars it finds in `there'.
WellFormed(it, there) ==
    LET revisions == it.revisions IN
    /\ Len(revisions) \in 1 .. MaxSlideRevisions
    /\ \A i, j \in DOMAIN revisions :
          i # j => revisions[i] # revisions[j] /\ revisions[i].by # revisions[j].by
    /\ it.current \in ToSet(revisions)
    /\ \A i \in DOMAIN revisions :
          /\ Parents(revisions, i) \subseteq {revisions[j] : j \in 1 .. i - 1}
          /\ revisions[i].content \subseteq there
          /\ revisions[i].deleted =>
                \E j \in 1 .. i - 1 :
                   ~revisions[j].deleted /\ revisions[i] = Tombstone(revisions[j])
    /\ Cardinality(Heads(revisions)) = 1 => Heads(revisions) = {it.current}

-----------------------------------------------------------------------------
(* Requests.                                                               *)

Ops == {"create", "update", "reconcile", "remove"}

NoWork == [at |-> "idle", next |-> NoRecord, left |-> {}, created |-> {}, doing |-> Absent]

Init ==
    /\ flat \in BOOLEAN
    /\ record = NoRecord /\ sidecars = {}
    /\ disk = [record |-> {NoRecord}, sidecar |-> [s \in Sidecars |-> {FALSE}]]
    /\ request = [w \in Writers |-> Absent]
    /\ writer = [w \in Writers |-> NoWork]
    /\ confirmed = {}
    /\ requests = 0 /\ mishaps = 0 /\ outages = 0

\* What an author who reads the slide now may say to expect of it; a removal
\* need not say.
Expectation(op) ==
    LET read == IF RecordExists THEN {record.current} ELSE Heads(History) IN
    CASE op = "create"    -> {{}}
      [] op = "update"    -> {read}
      [] op = "remove"    -> {{}, read}
      [] op = "reconcile" -> {Heads(History)}

\* An author writes a request for w.  The process runs it later, and again
\* whenever the author sends it again.
Ask(w) ==
    /\ writer[w].at = "idle"
    /\ requests < MaxRequests
    /\ requests' = requests + 1
    /\ \E op \in Ops, id \in RequestIDs, content \in Contents :
       \E expected \in Expectation(op) :
          /\ op \in {"update", "remove"} => Visible
          /\ op = "reconcile" => Cardinality(expected) > 1
          /\ request' = [request EXCEPT ![w] =
                IF op = "remove"
                THEN [op |-> op, id |-> Absent, content |-> {}, expected |-> expected]
                ELSE [op |-> op, id |-> id, content |-> content, expected |-> expected]]
    /\ UNCHANGED <<files, flat, writer, confirmed, mishaps, outages>>

-----------------------------------------------------------------------------
(* A command under the lock decides what it will publish.                  *)

LockFree == \A w \in Writers : writer[w].at = "idle"

\* A slide whose only head is a removal takes no request.
Retired == RecordExists /\ record.current.deleted /\ Cardinality(Heads(History)) = 1

\* The request has not been applied, and no other one under its id.
Unused(id) == \A revision \in ToSet(History) : revision.by # id

\* Bug: an update names any revision of the history, not its only head.
AdmitsAnyRevision(q) ==
    CASE q.op = "create" -> ~Visible
      [] q.op = "update" -> Visible /\ q.expected \subseteq ToSet(History)
      [] q.op = "reconcile" -> Cardinality(Heads(History)) > 1

Admits(q) ==
    CASE q.op = "create" -> ~Visible
      [] q.op = "update" ->
            /\ Visible
            /\ Heads(History) = q.expected
            /\ RecordExists => record.current.content # q.content
      [] q.op = "reconcile" ->
            /\ RecordExists /\ Visible
            /\ Cardinality(Heads(History)) > 1
            /\ Heads(History) = q.expected

Replaces(q) == IF q.op = "create" THEN {} ELSE Heads(History)

Publishes(w, at, revision) ==
    /\ Len(History) < MaxSlideRevisions
    /\ writer' = [writer EXCEPT ![w] =
          [NoWork EXCEPT !.at = at,
                         !.next = [revisions |-> Append(History, revision),
                                   current |-> revision],
                         !.left = IF at = "sidecars" THEN revision.content ELSE {}]]
    /\ UNCHANGED <<files, flat, request, confirmed, bounds>>

BeginApply(w) ==
    LET q == request[w] IN
    /\ LockFree
    /\ q # Absent
    /\ q.op # "remove"
    /\ ~Retired
    /\ Unused(q.id)
    /\ Admits(q)
    /\ Publishes(w, "sidecars", Revision(q.id, q.content, Replaces(q), FALSE))

BeginRemove(w) ==
    LET q == request[w]
        next == Append(History, Tombstone(record.current)) IN
    /\ LockFree
    /\ q # Absent
    /\ q.op = "remove"
    /\ RecordExists /\ Visible
    /\ q.expected \subseteq {record.current}
    /\ Heads(History) = {record.current}
    /\ WellFormed([revisions |-> next, current |-> Last(next)], sidecars)
    /\ Publishes(w, "record", Last(next))

-----------------------------------------------------------------------------
(* Writing files.  A name appears, or changes, at one instant; it is sure  *)
(* to outlast a power loss once its directory is synced.                   *)

\* What a power loss leaves when everything is synced.
Synced(r, there) == [record |-> {r}, sidecar |-> [s \in Sidecars |-> {s \in there}]]

Mishap == mishaps < MaxMishaps /\ mishaps' = mishaps + 1

\* The sidecar is there already, whoever wrote it.
FindSidecar(w, s) ==
    /\ writer[w].at = "sidecars"
    /\ s \in writer[w].left \cap sidecars
    /\ writer' = [writer EXCEPT ![w].left = @ \ {s}]
    /\ UNCHANGED <<files, flat, request, confirmed, bounds>>

LinkSidecar(w, s) ==
    /\ writer[w].at = "sidecars"
    /\ s \in writer[w].left \ sidecars
    /\ writer' = [writer EXCEPT ![w].at = "linked", ![w].doing = s]
    /\ sidecars' = sidecars \cup {s}
    /\ disk' = [disk EXCEPT !.sidecar[s] = @ \cup {TRUE}]
    /\ UNCHANGED <<record, flat, request, confirmed, bounds>>

SyncSidecar(w) ==
    /\ writer[w].at = "linked"
    /\ writer' = [writer EXCEPT ![w].at = "sidecars", ![w].doing = Absent,
                                ![w].left = @ \ {writer[w].doing},
                                ![w].created = @ \cup {writer[w].doing}]
    /\ disk' = Synced(record, sidecars)
    /\ UNCHANGED <<record, sidecars, flat, request, confirmed, bounds>>

\* The temporary file cannot be written, or the name cannot be made.
SidecarFails(w) ==
    /\ Mishap
    /\ writer[w].at = "sidecars"
    /\ writer[w].left \ sidecars # {}
    /\ writer' = [writer EXCEPT ![w].at = "rollback"]
    /\ UNCHANGED <<files, flat, request, confirmed, requests, outages>>

\* The sync after the name fails: the name is taken back, which may be synced
\* or not, or may fail too.
SidecarSyncFails(w) ==
    /\ Mishap
    /\ writer[w].at = "linked"
    /\ writer' = [writer EXCEPT ![w].at = "rollback", ![w].doing = Absent]
    /\ LET s == writer[w].doing IN
       \/ sidecars' = sidecars \ {s} /\ disk' = Synced(record, sidecars')
       \/ sidecars' = sidecars \ {s} /\ UNCHANGED disk
       \/ UNCHANGED <<sidecars, disk>>
    /\ UNCHANGED <<record, flat, request, confirmed, requests, outages>>

\* Every sidecar is there: the record that is to be published is validated.
Validate(w) ==
    /\ writer[w].at = "sidecars"
    /\ writer[w].left = {}
    /\ writer' = [writer EXCEPT ![w].at =
          IF WellFormed(writer[w].next, sidecars) THEN "record" ELSE "rollback"]
    /\ UNCHANGED <<files, flat, request, confirmed, bounds>>

PutRecord(w) ==
    /\ writer[w].at = "record"
    /\ writer' = [writer EXCEPT ![w].at = IF RecordExists THEN "replaced" ELSE "made"]
    /\ record' = writer[w].next
    /\ disk' = [disk EXCEPT !.record = @ \cup {record'}]
    /\ UNCHANGED <<sidecars, flat, request, confirmed, bounds>>

PutFails(w) ==
    /\ Mishap
    /\ writer[w].at = "record"
    /\ writer' = [writer EXCEPT ![w].at = "rollback"]
    /\ UNCHANGED <<files, flat, request, confirmed, requests, outages>>

\* Bug: the command reports success before the directory is synced.
SyncRecordLater(w) ==
    /\ writer[w].at \in {"replaced", "made"}
    /\ writer' = [writer EXCEPT ![w] = NoWork]
    /\ confirmed' = confirmed \cup {record.current}
    /\ UNCHANGED <<files, flat, request, bounds>>

SyncRecord(w) ==
    /\ writer[w].at \in {"replaced", "made"}
    /\ writer' = [writer EXCEPT ![w] = NoWork]
    /\ disk' = Synced(record, sidecars)
    /\ confirmed' = confirmed \cup {record.current}
    /\ UNCHANGED <<record, sidecars, flat, request, bounds>>

\* A record that replaced another stays, and the command reports it published
\* but unsure.  A new one is taken back, and its sidecars with it once that
\* is synced; or that fails, and everything stays as it is.
RecordSyncFails(w) ==
    /\ Mishap
    /\ \/ /\ writer[w].at \in {"replaced", "made"}
          /\ writer' = [writer EXCEPT ![w] = NoWork]
          /\ UNCHANGED <<record, disk>>
       \/ /\ writer[w].at = "made"
          /\ record' = NoRecord
          /\ \/ /\ writer' = [writer EXCEPT ![w].at = "rollback"]
                /\ disk' = Synced(record', sidecars)
             \/ /\ writer' = [writer EXCEPT ![w] = NoWork]
                /\ UNCHANGED disk
    /\ UNCHANGED <<sidecars, flat, request, confirmed, requests, outages>>

\* Bug: every sidecar of the revision goes, not only those this command made.
RollbackContent(w) ==
    /\ writer[w].at = "rollback"
    /\ writer' = [writer EXCEPT ![w] = NoWork]
    /\ sidecars' = sidecars \ Last(writer[w].next.revisions).content
    /\ disk' = Synced(record, sidecars')
    /\ UNCHANGED <<record, flat, request, confirmed, bounds>>

\* The sidecars this command made, and no others, go again.
RollbackAsset(w) ==
    /\ writer[w].at = "rollback"
    /\ writer' = [writer EXCEPT ![w] = NoWork]
    /\ sidecars' = sidecars \ writer[w].created
    /\ disk' = IF writer[w].created = {} THEN disk ELSE Synced(record, sidecars')
    /\ UNCHANGED <<record, flat, request, confirmed, bounds>>

-----------------------------------------------------------------------------
(* What the commands do not decide.                                        *)

\* A process dies; the system frees its lock.
Kill(w) ==
    /\ Mishap
    /\ writer[w].at # "idle"
    /\ writer' = [writer EXCEPT ![w] = NoWork]
    /\ UNCHANGED <<files, flat, request, confirmed, requests, outages>>

PowerLoss ==
    /\ outages < MaxOutages
    /\ outages' = outages + 1
    /\ writer' = [w \in Writers |-> NoWork]
    /\ record' \in disk.record
    /\ \E there \in SUBSET Sidecars :
          /\ \A s \in Sidecars : (s \in there) \in disk.sidecar[s]
          /\ sidecars' = there
    /\ disk' = Synced(record', sidecars')
    /\ UNCHANGED <<flat, request, confirmed, requests, mishaps>>

\* Git combines the record with that of a branch on which this revision was
\* made, when no command runs.  Its sidecars come with it; nothing is synced.
Merge(revision) ==
    /\ LockFree
    /\ RecordExists
    /\ Len(record.revisions) < MaxSlideRevisions
    /\ revision \notin ToSet(record.revisions)
    /\ record' \in {[revisions |-> Append(record.revisions, revision), current |-> current] :
                       current \in {record.current, revision}}
    /\ sidecars' = sidecars \cup revision.content
    /\ WellFormed(record', sidecars')
    /\ disk' = [record  |-> disk.record \cup {record'},
                sidecar |-> [s \in Sidecars |->
                   IF s \in revision.content THEN disk.sidecar[s] \cup {TRUE}
                   ELSE disk.sidecar[s]]]
    /\ UNCHANGED <<flat, request, writer, confirmed, bounds>>

\* The other branch updated or removed what it found, one live revision; a
\* flat slide that is removed leaves no record.
MergeUpdate(id, parent, content) == Merge(Revision(id, content, {parent}, FALSE))
MergeRemoval(parent) == Merge(Tombstone(parent))

MergeOther ==
    \E parent \in {revision \in ToSet(record.revisions) : ~revision.deleted} :
       \/ \E id \in OtherIDs, content \in Contents : MergeUpdate(id, parent, content)
       \/ parent # Legacy /\ MergeRemoval(parent)

-----------------------------------------------------------------------------
Next ==
    \/ \E w \in Writers :
          \/ Ask(w) \/ BeginApply(w) \/ BeginRemove(w)
          \/ \E s \in Sidecars : FindSidecar(w, s) \/ LinkSidecar(w, s)
          \/ SyncSidecar(w) \/ SidecarFails(w) \/ SidecarSyncFails(w)
          \/ Validate(w) \/ PutRecord(w) \/ PutFails(w)
          \/ SyncRecord(w) \/ RecordSyncFails(w) \/ RollbackAsset(w)
          \/ Kill(w)
    \/ PowerLoss
    \/ MergeOther

Spec == Init /\ [][Next]_vars

-----------------------------------------------------------------------------
(* Properties.                                                             *)

\* As long as the power does not fail, every revision of the record programs
\* see has its sidecars, whichever step failed or process died: a command that
\* gives up takes back only what no published revision needs.
RecordWhole ==
    outages = 0 =>
       \A revision \in ToSet(record.revisions) : revision.content \subseteq sidecars

\* A revision reported as published is in the record from then on, with its
\* sidecars, whatever fails afterwards, the power included.
ConfirmedKept ==
    \A revision \in confirmed :
       revision \in ToSet(record.revisions) /\ revision.content \subseteq sidecars

\* The revision that a process publishes in this step.
PublishedBy(w) == writer[w].at = "record" /\ writer'[w].at \in {"replaced", "made"}

\* A revision whose author says what it expects replaces every head there is
\* at that instant, and those are the very heads its author had read.
\* (No update is lost: docs/ergonomics-transaction-authoring.md.)
ReplacesWhatWasRead ==
    [][\A w \in Writers :
          PublishedBy(w) /\ request[w].expected # {} =>
             /\ Last(record'.revisions).parents = request[w].expected
             /\ Heads(record'.revisions) = {record'.current}]_vars

=============================================================================
