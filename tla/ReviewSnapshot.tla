---------------------------- MODULE ReviewSnapshot ----------------------------
(***************************************************************************)
(* The review server's comparison snapshot (server/snapshot.go): one       *)
(* in-memory generation of the loaded Saga and the coverage report over    *)
(* it, checked against fingerprints on every request, and built by the     *)
(* request that finds it out of date through the on-disk generations of    *)
(* SnapshotCache.                                                          *)
(*                                                                         *)
(* The Saga's files are one version number that every edit advances, and   *)
(* so is the source repository.  A request's Git session remembers what it *)
(* first read of the repository, so a request sees one source throughout;  *)
(* it reads the Saga again at every step.                                  *)
(***************************************************************************)
EXTENDS Naturals, FiniteSets, Sequences

CONSTANTS
    Requests,       \* requests, each made once
    MaxEdits,       \* bound: edits of the Saga
    MaxCommits,     \* bound: moves of the source repository
    MaxFailures,    \* bound: walks and loads that fail
    MaxRestarts     \* bound: restarts of the server

ASSUME SnapshotAssumption == {MaxEdits, MaxCommits, MaxFailures, MaxRestarts} \subseteq Nat

\* The fingerprint of a walk that failed; no version is 0.
Unknown == 0

VARIABLES
    tree,           \* the Saga's version
    source,         \* the repository's version
    edits, commits, failures, restarts,
    overtaken,      \* ghost: the versions edited while a build had a document loaded
    stage,          \* where each request is
    arrived,        \* ghost: the two versions when each request arrived
    pinned,         \* the source each request's Git session sees
    draft,          \* the snapshot each building request is making
    key,            \* the generation key it computed
    outcome,        \* what each request was answered
    served,         \* the snapshot it was answered from
    building,       \* snapshotCache.building
    buildErr,       \* whether the last build failed
    kept,           \* snapshotCache.current, the last element; <<>> is nil
    sagaPrint,      \* snapshotCache.saga
    sourcePrint,    \* snapshotCache.source
    generations     \* on disk: the report under each key built so far

world == <<tree, source, edits, commits, overtaken>>
memory == <<building, buildErr, kept, sagaPrint, sourcePrint>>
local == <<arrived, pinned, draft, key, outcome, served>>
snapshotVars == <<world, failures, restarts, stage, local, memory, generations>>

\* A report is derived from a document, an inventory, and a source.
NoReport == [doc |-> 0, inventory |-> 0, source |-> 0]
NoDraft == [doc |-> 0, report |-> NoReport]
NoKey == [tree |-> Unknown, source |-> Unknown]

SnapshotInit ==
    /\ tree = 1 /\ source = 1
    /\ edits = 0 /\ commits = 0 /\ failures = 0 /\ restarts = 0
    /\ overtaken = {}
    /\ stage = [r \in Requests |-> "idle"]
    /\ arrived = [r \in Requests |-> NoKey]
    /\ pinned = [r \in Requests |-> 0]
    /\ draft = [r \in Requests |-> NoDraft]
    /\ key = [r \in Requests |-> NoKey]
    /\ outcome = [r \in Requests |-> "none"]
    /\ served = [r \in Requests |-> NoDraft]
    /\ building = FALSE
    /\ buildErr = FALSE
    /\ kept = <<>>
    /\ sagaPrint = Unknown
    /\ sourcePrint = Unknown
    /\ generations = {}
-----------------------------------------------------------------------------
\* A build is between its load and its last look at the Saga.
Loaded == {"keying", "deriving", "printing"}

\* Somebody edits the Saga; no lock keeps builds from that.
Edit ==
    /\ edits < MaxEdits
    /\ edits' = edits + 1
    /\ tree' = tree + 1
    /\ overtaken' = IF \E r \in Requests : stage[r] \in Loaded
                    THEN overtaken \cup {tree} ELSE overtaken
    /\ UNCHANGED <<source, commits, failures, restarts, stage, local, memory, generations>>

Commit ==
    /\ commits < MaxCommits
    /\ commits' = commits + 1
    /\ source' = source + 1
    /\ UNCHANGED <<tree, edits, overtaken, failures, restarts, stage, local, memory, generations>>

Goto(r, here, there) ==
    /\ stage[r] = here
    /\ stage' = [stage EXCEPT ![r] = there]

\* Walking the Saga gives its version, or fails.
Walk(print) ==
    \/ print = tree /\ UNCHANGED failures
    \/ print = Unknown /\ failures < MaxFailures /\ failures' = failures + 1

\* The request arrives, and its Git session is begun.
RequestArrives(r) ==
    /\ Goto(r, "idle", "arrived")
    /\ arrived' = [arrived EXCEPT ![r] = [tree |-> tree, source |-> source]]
    /\ pinned' = [pinned EXCEPT ![r] = source]
    /\ UNCHANGED <<world, failures, restarts, draft, key, outcome, served, memory, generations>>

\* Bug: only the Saga is compared, and the repository's moves go unnoticed.
IsCurrentForSaga(print, src) ==
    /\ kept # <<>>
    /\ print # Unknown
    /\ print = sagaPrint

\* The kept snapshot is what these two fingerprints describe.
IsCurrent(print, src) ==
    /\ kept # <<>>
    /\ print # Unknown
    /\ print = sagaPrint
    /\ src = sourcePrint

\* A build is under way: the request is given nothing.
FindBuilding(r) ==
    /\ Goto(r, "arrived", "refused")
    /\ building
    /\ UNCHANGED <<world, failures, restarts, local, memory, generations>>

\* The kept snapshot is current.
FindCurrent(r) ==
    /\ Goto(r, "arrived", "done")
    /\ ~building
    /\ IsCurrent(tree, pinned[r])
    /\ outcome' = [outcome EXCEPT ![r] = "served"]
    /\ served' = [served EXCEPT ![r] = kept[Len(kept)]]
    /\ UNCHANGED <<world, failures, restarts, arrived, pinned, draft, key, memory, generations>>

\* It is not: the request drops it and builds another.
FindStale(r) ==
    /\ Goto(r, "arrived", "loading")
    /\ ~building
    /\ \E print \in {tree, Unknown} :
         /\ IF kept = <<>> THEN print = tree /\ UNCHANGED failures ELSE Walk(print)
         /\ ~IsCurrent(print, pinned[r])
    /\ building' = TRUE
    /\ buildErr' = FALSE
    /\ kept' = <<>>
    /\ sagaPrint' = Unknown
    /\ sourcePrint' = Unknown
    /\ UNCHANGED <<world, restarts, local, generations>>

\* buildSnapshot loads the Saga.
Load(r) ==
    /\ Goto(r, "loading", "keying")
    /\ draft' = [draft EXCEPT ![r].doc = tree]
    /\ UNCHANGED <<world, failures, restarts, arrived, pinned, key, outcome, served,
                   memory, generations>>

\* Bug: the error is kept and the flag is not reset.
LoadFailsBuilding(r) ==
    /\ Goto(r, "loading", "refused")
    /\ failures < MaxFailures
    /\ failures' = failures + 1
    /\ buildErr' = TRUE
    /\ UNCHANGED <<world, restarts, local, building, kept, sagaPrint, sourcePrint,
                   generations>>

\* The Saga does not load, or is not valid: the build ends with an error.
LoadFails(r) ==
    /\ Goto(r, "loading", "refused")
    /\ failures < MaxFailures
    /\ failures' = failures + 1
    /\ building' = FALSE
    /\ buildErr' = TRUE
    /\ UNCHANGED <<world, restarts, local, kept, sagaPrint, sourcePrint, generations>>

\* The key is computed, from another walk of the Saga.  The format it is
\* prefixed with makes even the key of a failed walk a valid one.
ComputeKey(r) ==
    /\ Goto(r, "keying", "deriving")
    /\ \E print \in {tree, Unknown} :
         /\ Walk(print)
         /\ key' = [key EXCEPT ![r] = [tree |-> print, source |-> pinned[r]]]
    /\ UNCHANGED <<world, restarts, arrived, pinned, draft, outcome, served, memory, generations>>

\* The generation is on disk: its report is read.
ReadGeneration(r) ==
    /\ Goto(r, "deriving", "printing")
    /\ \E g \in generations :
         /\ g.key = key[r]
         /\ draft' = [draft EXCEPT ![r].report = g.report]
    /\ UNCHANGED <<world, failures, restarts, arrived, pinned, key, outcome, served,
                   memory, generations>>

\* It is not: the report is derived from the document loaded, the source and
\* the inventory, read now, and published under the key.
DeriveGeneration(r) ==
    LET report == [doc |-> draft[r].doc, inventory |-> tree, source |-> pinned[r]] IN
    /\ Goto(r, "deriving", "printing")
    /\ \A g \in generations : g.key # key[r]
    /\ draft' = [draft EXCEPT ![r].report = report]
    /\ generations' = generations \cup {[key |-> key[r], report |-> report]}
    /\ UNCHANGED <<world, failures, restarts, arrived, pinned, key, outcome, served, memory>>

\* The comparison cannot be derived, or a generation cannot be read: what was
\* loaded becomes the snapshot all the same, with the error for its report.
DeriveFails(r) ==
    /\ Goto(r, "deriving", "printing")
    /\ failures < MaxFailures
    /\ failures' = failures + 1
    /\ UNCHANGED <<world, restarts, local, memory, generations>>

\* finishSnapshotBuild fingerprints the Saga once more, now that it is loaded.
FinishPrint(r) ==
    /\ Goto(r, "printing", "finishing")
    /\ \E print \in {tree, Unknown} :
         /\ Walk(print)
         /\ key' = [key EXCEPT ![r] = [tree |-> print, source |-> pinned[r]]]
    /\ UNCHANGED <<world, restarts, arrived, pinned, draft, outcome, served, memory, generations>>

\* The snapshot is published under that fingerprint and answers the request.
FinishBuild(r) ==
    /\ Goto(r, "finishing", "done")
    /\ building' = FALSE
    /\ buildErr' = FALSE
    /\ kept' = <<draft[r]>>
    /\ sagaPrint' = key[r].tree
    /\ sourcePrint' = key[r].source
    /\ outcome' = [outcome EXCEPT ![r] = "served"]
    /\ served' = [served EXCEPT ![r] = draft[r]]
    /\ UNCHANGED <<world, failures, restarts, arrived, pinned, draft, key, generations>>

\* requestSnapshot was given nothing, and asks for the state to say why: a
\* build under way is accepted, anything else is reported as a broken Saga.
Refuse(r) ==
    /\ Goto(r, "refused", "done")
    /\ outcome' = [outcome EXCEPT ![r] = IF building THEN "accepted" ELSE "broken"]
    /\ UNCHANGED <<world, failures, restarts, arrived, pinned, draft, key, served, memory,
                   generations>>

\* The server stops, and one starts over the same cache directory.
Restart ==
    /\ restarts < MaxRestarts
    /\ restarts' = restarts + 1
    /\ stage' = [r \in Requests |-> IF stage[r] = "idle" THEN "idle" ELSE "done"]
    /\ building' = FALSE
    /\ buildErr' = FALSE
    /\ kept' = <<>>
    /\ sagaPrint' = Unknown
    /\ sourcePrint' = Unknown
    /\ UNCHANGED <<world, failures, local, generations>>

Building(r) ==
    \/ Load(r) \/ LoadFails(r) \/ ComputeKey(r) \/ ReadGeneration(r)
    \/ DeriveGeneration(r) \/ DeriveFails(r) \/ FinishPrint(r) \/ FinishBuild(r)

SnapshotNext ==
    \/ Edit \/ Commit \/ Restart
    \/ \E r \in Requests :
         \/ RequestArrives(r) \/ FindBuilding(r) \/ FindCurrent(r) \/ FindStale(r)
         \/ Building(r) \/ Refuse(r)

SnapshotSpec == SnapshotInit /\ [][SnapshotNext]_snapshotVars

\* A build runs on its request's goroutine until it ends.
FairSnapshotSpec == SnapshotSpec /\ \A r \in Requests : WF_snapshotVars(Building(r))
-----------------------------------------------------------------------------
\* Of a version as new as the request, or of one that an edit overtook in the middle
\* of a build: the fingerprints, taken after what they describe, are then of a later
\* one.
AsNew(version, r) ==
    \/ version \in arrived[r].tree..tree
    \/ version \in overtaken

ReportCurrent(r) ==
    /\ AsNew(served[r].report.doc, r)
    /\ AsNew(served[r].report.inventory, r)
    /\ served[r].report.source \in arrived[r].source..source

\* The report is on disk under a key that says nothing of the Saga, and a walk
\* has failed since: that of a request that looked for such a key.
KeptBlindly(report) ==
    failures >= 2 /\ \E g \in generations : g.key.tree = Unknown /\ g.report = report

\* A request is answered from nothing older than its arrival: neither the
\* document, nor any of the three inputs of the report, when there is one, but for
\* versions that were overtaken while a build was at work on them, and for a report
\* kept under the key of a walk that failed.
ServedCurrent ==
    \A r \in Requests :
        outcome[r] = "served" =>
            /\ AsNew(served[r].doc, r)
            /\ \/ served[r].report = NoReport
               \/ KeptBlindly(served[r].report)
               \/ ReportCurrent(r)

\* No build keeps later requests out for ever.
BuildsEnd == building ~> ~building
=============================================================================
