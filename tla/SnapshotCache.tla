----------------------------- MODULE SnapshotCache -----------------------------
(***************************************************************************)
(* The on-disk cache of derived state (internal/snapshotcache), used by    *)
(* goroutines of several processes at once, and what its two callers do    *)
(* with it: the review server (server/snapshot.go) and the tree-comparison *)
(* cache (gitdiff/treecache.go).                                           *)
(*                                                                         *)
(* Every call populates a staging directory of its own and publishes it    *)
(* under its key's name with one rename.  A directory is known here by the *)
(* call that made it, since a rename moves the directory and not its name. *)
(* Removing a directory is one step per file: the directory found under    *)
(* the name is opened and listed, the files listed are deleted there,      *)
(* wherever it has been moved to since, and what has the name by then is   *)
(* removed, which must be empty.                                           *)
(*                                                                         *)
(* All keys are of one bucket.  A key that is invalid is never looked up   *)
(* nor stored (buildUncached) and has nothing to share, so it is left out. *)
(***************************************************************************)
EXTENDS Naturals, FiniteSets

CONSTANTS
    Calls,          \* calls to Build, each made once
    Stores,         \* open stores: one per server, one per tree comparison
    Keys,           \* generations that may be asked for
    Nobody,
    KeyOf,          \* the key each call asks for
    Settings,       \* who the callers are, the calls they make, on which stores;
                    \* bound: whether it all may take a day
    Keep,           \* generations a prune keeps
    MaxMishaps      \* bound: steps that fail, files damaged, processes that die

ASSUME CacheAssumption ==
    /\ Nobody \notin Calls \cup Keys
    /\ Calls \cap Keys = {}
    /\ IsFiniteSet(Calls) /\ IsFiniteSet(Keys)
    /\ KeyOf \in [Calls -> Keys]
    /\ Settings \subseteq [tree : BOOLEAN, days : BOOLEAN,
                           calls : SUBSET Calls, store : [Calls -> Stores]]
    /\ Keep \in Nat \ {0}
    /\ MaxMishaps \in Nat

\* What a complete generation holds: the derived state, and the manifest
\* whose presence makes the directory a generation.
Files == {"index", "manifest"}

VARIABLES
    step,       \* where each call is
    at,         \* the name each call's directory has: none, its stage, or its key's
    contents,   \* the files in each call's directory
    final,      \* the directory under each key's name, or Nobody
    old,        \* stages in which nothing has changed for a day
    inflight,   \* Store.inflight
    awaited,    \* the build a call waits for
    evaluated,  \* whether the call's own populate finished
    result,     \* what Build returned, or will
    given,      \* what the caller got
    victims,    \* names a prune has still to remove
    opened,     \* the directory a removal is emptying
    path,       \* the name it was given: a key's, or a call's stage
    listed,     \* the files it found and has still to delete
    outlived,   \* history: calls at work whose stage a prune found a day old
    mishaps,
    setting     \* chosen once, among Settings

buildVars == <<step, at, contents, final, inflight, awaited, evaluated, result,
               given, victims, opened, path, listed, old, outlived, mishaps, setting>>
directories == <<at, contents, final, old>>
caller == <<evaluated, result, given>>
opening == <<opened, path, listed>>
removal == <<victims, opening, outlived>>
bounds == <<mishaps, setting>>

Key(b) == KeyOf[b]
Store(b) == setting.store[b]

\* TRUE: treecache.go calls; FALSE: the server does.
TreeClient == setting.tree

CacheInit ==
    /\ setting \in Settings
    /\ step = [b \in Calls |-> IF b \in setting.calls THEN "idle" ELSE "done"]
    /\ at = [b \in Calls |-> "none"]
    /\ contents = [b \in Calls |-> {}]
    /\ final = [k \in Keys |-> Nobody]
    /\ inflight = [s \in Stores |-> [k \in Keys |-> Nobody]]
    /\ awaited = [b \in Calls |-> Nobody]
    /\ evaluated = [b \in Calls |-> FALSE]
    /\ result = [b \in Calls |-> "none"]
    /\ given = [b \in Calls |-> "none"]
    /\ victims = [b \in Calls |-> {}]
    /\ opened = [b \in Calls |-> Nobody]
    /\ path = [b \in Calls |-> Nobody]
    /\ listed = [b \in Calls |-> {}]
    /\ old = {}
    /\ outlived = {}
    /\ mishaps = 0

Proceed(b, here, there) ==
    /\ step[b] = here
    /\ step' = [step EXCEPT ![b] = there]

\* Lookup finds a directory of the key's name holding the manifest.
Found(k) == final[k] # Nobody /\ "manifest" \in contents[final[k]]

\* The derived state under the key's name can be read.
Readable(k) == final[k] # Nobody /\ "index" \in contents[final[k]]
-----------------------------------------------------------------------------
\* Build looks for the generation before it takes the lock; a tree comparison
\* has looked for it once before, and discards what it finds and cannot read.
LookupHit(b) ==
    /\ step[b] \in {"idle", "looking"}
    /\ Found(Key(b))
    /\ step' = [step EXCEPT ![b] = IF TreeClient /\ step[b] = "idle" THEN "reading" ELSE "answering"]
    /\ result' = [result EXCEPT ![b] = "ok"]
    /\ UNCHANGED <<directories, inflight, awaited, evaluated, given, removal, bounds>>

LookupMiss(b) ==
    /\ step[b] \in {"idle", "looking"}
    /\ ~Found(Key(b))
    /\ step' = [step EXCEPT ![b] = "missed"]
    /\ UNCHANGED <<directories, inflight, awaited, caller, removal, bounds>>

\* Under the lock: wait for the build under way, or become it.
Join(b) ==
    LET building == inflight[Store(b)][Key(b)] IN
    /\ Proceed(b, "missed", "waiting")
    /\ building # Nobody
    /\ step[building] # "leaving"
    /\ awaited' = [awaited EXCEPT ![b] = building]
    /\ UNCHANGED <<directories, inflight, caller, removal, bounds>>

\* The build has closed its channel and is still registered.
JoinClosed(b) ==
    LET building == inflight[Store(b)][Key(b)] IN
    /\ Proceed(b, "missed", "answering")
    /\ building # Nobody
    /\ step[building] = "leaving"
    /\ result' = [result EXCEPT ![b] = result[building]]
    /\ UNCHANGED <<directories, inflight, awaited, evaluated, given, removal, bounds>>

Register(b) ==
    /\ Proceed(b, "missed", "populating")
    /\ inflight[Store(b)][Key(b)] = Nobody
    /\ inflight' = [inflight EXCEPT ![Store(b)][Key(b)] = b]
    /\ at' = [at EXCEPT ![b] = "stage"]
    /\ UNCHANGED <<contents, final, old, awaited, caller, removal, bounds>>

\* Bug: populate's error is not looked at, and the build goes on without it.
PopulateUnchecked(b) ==
    /\ Proceed(b, "populating", "sealing")
    /\ at[b] = "stage"
    /\ \E written \in {{}, {"index"}} :
         contents' = [contents EXCEPT ![b] = @ \cup written]
    /\ old' = old \ {b}
    /\ evaluated' = [evaluated EXCEPT ![b] = TRUE]
    /\ UNCHANGED <<at, final, inflight, awaited, result, given, removal, bounds>>

\* populate derives the state and writes it into the stage.
Populate(b) ==
    /\ Proceed(b, "populating", "sealing")
    /\ at[b] = "stage"
    /\ contents' = [contents EXCEPT ![b] = @ \cup {"index"}]
    /\ old' = old \ {b}
    /\ evaluated' = [evaluated EXCEPT ![b] = TRUE]
    /\ UNCHANGED <<at, final, inflight, awaited, result, given, removal, bounds>>

\* The manifest is written last.
Seal(b) ==
    /\ Proceed(b, "sealing", "publishing")
    /\ at[b] = "stage"
    /\ contents' = [contents EXCEPT ![b] = @ \cup {"manifest"}]
    /\ old' = old \ {b}
    /\ UNCHANGED <<at, final, inflight, awaited, caller, removal, bounds>>

\* The stage of a build that failed is taken away, and nothing was published.
Fails(b) ==
    /\ step' = [step EXCEPT ![b] = "closing"]
    /\ result' = [result EXCEPT ![b] = "error"]
    /\ at' = [at EXCEPT ![b] = "none"]
    /\ contents' = [contents EXCEPT ![b] = {}]
    /\ old' = old \ {b}
    /\ UNCHANGED <<final, inflight, awaited, evaluated, given>>

\* A step fails because it has to, or by mishap.
FailsWhen(certain) ==
    /\ certain \/ mishaps < MaxMishaps
    /\ mishaps' = IF certain THEN mishaps ELSE mishaps + 1
    /\ setting' = setting

\* A step of create fails, for want of its stage or for a reason of its own:
\* populate's error, or a tree comparison whose inputs changed meanwhile.
BuildFails(b) ==
    /\ step[b] \in {"populating", "sealing"}
    /\ FailsWhen(at[b] # "stage")
    /\ Fails(b)
    /\ UNCHANGED removal

\* A directory may take a name that is free, or that an empty directory has.
CanRename(b) ==
    /\ at[b] = "stage"
    /\ final[Key(b)] # Nobody => contents[final[Key(b)]] = {}

\* The bucket is synced once the generation is there, and create returns what
\* that gives.
Synced(b) ==
    \E r \in {"ok", "error"} :
        /\ r = "error" => mishaps < MaxMishaps
        /\ mishaps' = IF r = "error" THEN mishaps + 1 ELSE mishaps
        /\ setting' = setting
        /\ result' = [result EXCEPT ![b] = r]

\* The rename succeeds.
Rename(b) ==
    LET replaced == final[Key(b)] IN
    /\ step[b] \in {"publishing", "retrying"}
    /\ CanRename(b)
    /\ step' = [step EXCEPT ![b] = "closing"]
    /\ final' = [final EXCEPT ![Key(b)] = b]
    /\ at' = [d \in Calls |-> IF d = b THEN "final" ELSE IF d = replaced THEN "none" ELSE at[d]]
    /\ old' = old \ {b}
    /\ Synced(b)
    /\ UNCHANGED <<contents, inflight, awaited, evaluated, given, removal>>

\* It fails, but another process published the generation: that one stands.
\* publish reports success, so the stage is not taken away.
RenameLost(b) ==
    /\ step[b] \in {"publishing", "retrying"}
    /\ ~CanRename(b)
    /\ Found(Key(b))
    /\ step' = [step EXCEPT ![b] = "closing"]
    /\ Synced(b)
    /\ UNCHANGED <<directories, inflight, awaited, evaluated, given, removal>>

\* It fails for a reason of its own, for want of the stage, or again after the
\* damage was removed.
RenameFails(b) ==
    /\ step[b] \in {"publishing", "retrying"}
    /\ FailsWhen(/\ ~CanRename(b) /\ ~Found(Key(b))
                 /\ step[b] = "retrying" \/ final[Key(b)] = Nobody)
    /\ Fails(b)
    /\ UNCHANGED removal

\* The directory that has a name.
Holder(n) == IF n \in Keys THEN final[n] ELSE IF at[n] = "stage" THEN n ELSE Nobody

\* A removal opens what has the name, and lists it; what is gone needs no removal.
Opens(b, n) ==
    LET dir == Holder(n) IN
    /\ opened' = [opened EXCEPT ![b] = dir]
    /\ path' = [path EXCEPT ![b] = IF dir = Nobody THEN Nobody ELSE n]
    /\ listed' = [listed EXCEPT ![b] = IF dir = Nobody THEN {} ELSE contents[dir]]

\* Damage has the name: it is removed, and the rename tried again.
RenameDamaged(b) ==
    /\ Proceed(b, "publishing", "clearing")
    /\ ~CanRename(b)
    /\ ~Found(Key(b))
    /\ final[Key(b)] # Nobody
    /\ Opens(b, Key(b))
    /\ UNCHANGED <<directories, inflight, awaited, caller, victims, outlived, bounds>>

\* Bug: the channel is closed only when the build succeeded.
CloseOnSuccess(b) ==
    LET waiters == {w \in Calls : result[b] = "ok" /\ step[w] = "waiting" /\ awaited[w] = b} IN
    /\ step[b] = "closing"
    /\ step' = [w \in Calls |-> IF w = b THEN "leaving"
                                ELSE IF w \in waiters THEN "answering" ELSE step[w]]
    /\ result' = [w \in Calls |-> IF w \in waiters THEN result[b] ELSE result[w]]
    /\ UNCHANGED <<directories, inflight, awaited, evaluated, given, removal, bounds>>

\* The result is set and the channel closed: every waiter gets it.
Close(b) ==
    LET waiters == {w \in Calls : step[w] = "waiting" /\ awaited[w] = b} IN
    /\ step[b] = "closing"
    /\ step' = [w \in Calls |-> IF w = b THEN "leaving"
                                ELSE IF w \in waiters THEN "answering" ELSE step[w]]
    /\ result' = [w \in Calls |-> IF w \in waiters THEN result[b] ELSE result[w]]
    /\ UNCHANGED <<directories, inflight, awaited, evaluated, given, removal, bounds>>

\* The build is taken out of inflight, and Build returns.
Deregister(b) ==
    /\ Proceed(b, "leaving", "answering")
    /\ inflight' = [inflight EXCEPT ![Store(b)][Key(b)] = Nobody]
    /\ UNCHANGED <<directories, awaited, caller, removal, bounds>>
-----------------------------------------------------------------------------
\* What the call made of it.  The server uses what it derived itself, or reads
\* what another did; an error of the cache becomes the comparison's error, and
\* only then is nothing pruned.  A tree comparison derives what the cache has
\* not to give, and prunes what it published itself.
Answer(b) ==
    LET prunes == result[b] = "ok" /\ (TreeClient => evaluated[b])
        usable == TreeClient \/ (result[b] = "ok" /\ (evaluated[b] \/ Readable(Key(b))))
    IN
    /\ Proceed(b, "answering", IF prunes THEN "pruning" ELSE "done")
    /\ given' = [given EXCEPT ![b] = IF usable THEN "derived" ELSE "error"]
    /\ UNCHANGED <<directories, inflight, awaited, evaluated, result, removal, bounds>>

\* A tree comparison reads the generation it found, and answers from it.
ReadFound(b) ==
    /\ Proceed(b, "reading", IF Readable(Key(b)) THEN "answering" ELSE "discarding")
    /\ UNCHANGED <<directories, inflight, awaited, caller, removal, bounds>>

\* It cannot be read: it is removed by name, and built again.
DiscardDamaged(b) ==
    /\ step[b] = "discarding"
    /\ step' = [step EXCEPT ![b] = IF final[Key(b)] = Nobody THEN "looking" ELSE "emptying"]
    /\ Opens(b, Key(b))
    /\ UNCHANGED <<directories, inflight, awaited, caller, victims, outlived, bounds>>

\* Stages a prune removes, whoever works in them.  Prune takes every one;
\* PrunePublished those in which nothing has changed for a day.
PrunesStage(d) == at[d] = "stage" /\ (TreeClient => d \in old)
Debris == {d \in Calls : PrunesStage(d)}

Present == {k \in Keys : final[k] # Nobody}

\* Bug: one generation too many is kept.
KeepsOneMore(kept) ==
    /\ kept \subseteq Present
    /\ Cardinality(kept) = Keep + 1 \/ (Cardinality(Present) <= Keep /\ kept = Present)

\* The Keep newest generations are kept.  Which these are is left open: a
\* removal under way makes the directory it empties the newest.
Keeps(kept) ==
    /\ kept \subseteq Present
    /\ Cardinality(kept) = Keep \/ (Cardinality(Present) < Keep /\ kept = Present)

\* The bucket is listed; the names found are removed one by one.
Lists(b, kept) ==
    /\ Keeps(kept)
    /\ victims' = [victims EXCEPT ![b] = Debris \cup (Present \ kept)]

ListBucket(b) ==
    /\ Proceed(b, "pruning", "removing")
    /\ \E kept \in SUBSET Keys : Lists(b, kept)
    /\ outlived' = IF TreeClient
                    THEN outlived \cup {d \in Debris : step[d] \notin {"dead", "done"}}
                    ELSE outlived
    /\ UNCHANGED <<directories, inflight, awaited, caller, opening, bounds>>

\* It cannot be listed.
BucketFails(b) ==
    /\ Proceed(b, "pruning", "done")
    /\ FailsWhen(FALSE)
    /\ UNCHANGED <<directories, inflight, awaited, caller, removal>>

\* The next name is opened, stages first.
OpenVictim(b, n) ==
    /\ step[b] = "removing"
    /\ opened[b] = Nobody
    /\ n \in victims[b]
    /\ n \in Keys => victims[b] \subseteq Keys
    /\ victims' = [victims EXCEPT ![b] = @ \ {n}]
    /\ Opens(b, n)
    /\ UNCHANGED <<directories, step, inflight, awaited, caller, outlived, bounds>>

\* Files a removal has still to delete and that nobody else did.
ToDelete(b) == listed[b] \cap contents[opened[b]]

\* A removal deletes one file of the directory it opened.
Unlink(b, f) ==
    LET dir == opened[b] IN
    /\ step[b] \in {"removing", "clearing", "emptying"}
    /\ dir # Nobody
    /\ f \in ToDelete(b)
    /\ listed' = [listed EXCEPT ![b] = @ \ {f}]
    /\ contents' = [contents EXCEPT ![dir] = @ \ {f}]
    /\ old' = old \ {dir}
    /\ UNCHANGED <<step, at, final, inflight, awaited, caller, victims, opened, path,
                   outlived, bounds>>

\* What has the name by now is not empty: another directory, or one that was
\* written into meanwhile.
NameTaken(b) ==
    LET dir == Holder(path[b]) IN
    ToDelete(b) = {} /\ dir # Nobody /\ contents[dir] # {}

CloseRemoval(b) ==
    /\ opened' = [opened EXCEPT ![b] = Nobody]
    /\ path' = [path EXCEPT ![b] = Nobody]
    /\ listed' = [listed EXCEPT ![b] = {}]

\* The removal of damage fails because of that, or for a reason of its own.
ClearFails(b) ==
    /\ step[b] = "clearing"
    /\ FailsWhen(NameTaken(b))
    /\ Fails(b)
    /\ CloseRemoval(b)
    /\ UNCHANGED <<victims, outlived>>

\* So do other removals, which nobody hears of: but a prune that cannot remove
\* a generation leaves the rest.
RemovalFails(b) ==
    LET ends == step[b] = "removing" /\ path[b] \in Keys IN
    /\ step[b] \in {"removing", "emptying"}
    /\ opened[b] # Nobody
    /\ FailsWhen(NameTaken(b))
    /\ CloseRemoval(b)
    /\ victims' = IF ends THEN [victims EXCEPT ![b] = {}] ELSE victims
    /\ step' = [step EXCEPT ![b] = CASE step[b] = "emptying" -> "looking"
                                   [] ends -> "done"
                                   [] OTHER -> "removing"]
    /\ UNCHANGED <<directories, inflight, awaited, caller, outlived>>

\* What has the name is removed, if anything has it.
Rmdir(b) ==
    LET dir == Holder(path[b]) IN
    /\ step[b] \in {"removing", "clearing", "emptying"}
    /\ opened[b] # Nobody
    /\ ToDelete(b) = {}
    /\ ~NameTaken(b)
    /\ CloseRemoval(b)
    /\ at' = [d \in Calls |-> IF d = dir THEN "none" ELSE at[d]]
    /\ final' = [k \in Keys |-> IF k = path[b] THEN Nobody ELSE final[k]]
    /\ old' = old \ {dir}
    /\ step' = [step EXCEPT ![b] = CASE step[b] = "clearing" -> "retrying"
                                   [] step[b] = "emptying" -> "looking"
                                   [] OTHER -> "removing"]
    /\ UNCHANGED <<contents, inflight, awaited, caller, victims, outlived, bounds>>

PruneEnds(b) ==
    /\ Proceed(b, "removing", "done")
    /\ opened[b] = Nobody
    /\ victims[b] = {}
    /\ UNCHANGED <<directories, inflight, awaited, caller, removal, bounds>>
-----------------------------------------------------------------------------
\* A day passes in which nothing changes in a stage: its builder is dead or has
\* left it behind; or is still deriving, or was suspended with its machine.
DayPasses(d) ==
    /\ at[d] = "stage"
    /\ d \notin old
    /\ setting.days
    /\ old' = old \cup {d}
    /\ UNCHANGED <<step, at, contents, final, inflight, awaited, caller, removal, bounds>>

\* A generation is damaged from outside: a manifest truncated, a file lost.
Damage(k, f) ==
    /\ mishaps < MaxMishaps
    /\ mishaps' = mishaps + 1
    /\ setting' = setting
    /\ final[k] # Nobody
    /\ f \in contents[final[k]]
    /\ contents' = [contents EXCEPT ![final[k]] = @ \ {f}]
    /\ UNCHANGED <<step, at, final, old, inflight, awaited, caller, removal>>

\* The process holding a store dies; its directories stay.
Crash(s) ==
    /\ mishaps < MaxMishaps
    /\ mishaps' = mishaps + 1
    /\ setting' = setting
    /\ \E b \in Calls : Store(b) = s /\ step[b] \notin {"idle", "done", "dead"}
    /\ step' = [b \in Calls |-> IF Store(b) = s THEN "dead" ELSE step[b]]
    /\ inflight' = [inflight EXCEPT ![s] = [k \in Keys |-> Nobody]]
    /\ opened' = [b \in Calls |-> IF Store(b) = s THEN Nobody ELSE opened[b]]
    /\ path' = [b \in Calls |-> IF Store(b) = s THEN Nobody ELSE path[b]]
    /\ listed' = [b \in Calls |-> IF Store(b) = s THEN {} ELSE listed[b]]
    /\ victims' = [b \in Calls |-> IF Store(b) = s THEN {} ELSE victims[b]]
    /\ UNCHANGED <<directories, awaited, caller, outlived>>

Build(b) ==
    \/ LookupHit(b) \/ LookupMiss(b) \/ Join(b) \/ JoinClosed(b) \/ Register(b)
    \/ Populate(b) \/ Seal(b) \/ BuildFails(b) \/ ClearFails(b)
    \/ Rename(b) \/ RenameLost(b) \/ RenameFails(b) \/ RenameDamaged(b)
    \/ Close(b) \/ Deregister(b)

Client(b) ==
    \/ Answer(b) \/ ReadFound(b) \/ DiscardDamaged(b)
    \/ ListBucket(b) \/ BucketFails(b)
    \/ \E n \in victims[b] : OpenVictim(b, n)
    \/ \E f \in Files : Unlink(b, f)
    \/ Rmdir(b) \/ RemovalFails(b) \/ PruneEnds(b)

CacheNext ==
    \/ \E b \in Calls : Build(b) \/ Client(b)
    \/ \E d \in Calls : DayPasses(d)
    \/ \E k \in Keys, f \in Files : Damage(k, f)
    \/ \E s \in Stores : Crash(s)

CacheSpec == CacheInit /\ [][CacheNext]_buildVars

\* Each call is a goroutine that takes its steps until its process dies.
FairCacheSpec == CacheSpec /\ \A b \in Calls : WF_buildVars(Build(b)) /\ WF_buildVars(Client(b))
-----------------------------------------------------------------------------
\* "Creation is atomic": what a rename puts under a key's name is whole, though
\* other processes prune, die and remove damage meanwhile; unless a prune found
\* the stage a day old and took its builder to be gone.  Of servers this is not
\* so: one may empty the stage another is about to seal.
PublishedWhole ==
    [][TreeClient => \A k \in Keys :
         final'[k] \notin {Nobody, final[k]} \cup outlived => contents'[final'[k]] = Files]_buildVars

\* "PrunePublished bounds generations shared by independent CLI processes": when
\* every call has ended and no step failed, no more than Keep are left, though
\* each prune worked from a listing others published after, and gave up at a
\* name another took again.
GenerationsBounded ==
    (mishaps = 0 /\ \A b \in Calls : step[b] = "done") =>
        Cardinality(Present) <= Keep

\* Whoever joined a build gets its result, however that build ends; and every
\* call ends, unless its process dies.
CallsEnd == \A b \in Calls : step[b] = "missed" ~> step[b] \in {"done", "dead"}
=============================================================================
