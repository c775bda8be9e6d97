---------------------------- MODULE RecordWrites ----------------------------
(***************************************************************************)
(* How the commands of internal/quality write the records of a test case   *)
(* into one clone (store.go: WithSagaLock, WriteFile; mutation.go: mutate, *)
(* writeRecords; load.go): what TestCases takes as one step.               *)
(*                                                                         *)
(* A process runs one command.  It loads the Saga directory by directory   *)
(* without a lock, waits for the writer lock, loads again, judges the call *)
(* and writes its records one after the other: a temporary file in the     *)
(* records' own directory, a link to it under the record's name, a sync of *)
(* the directory.  A step may fail, a process may be killed anywhere, the  *)
(* machine may stop.                                                       *)
(***************************************************************************)
EXTENDS Naturals, FiniteSets, Sequences, SequencesExt

CONSTANTS
    Procs,      \* the processes, one command each
    None,       \* nobody holds the lock
    Budgets     \* bounds: processes killed, stops of the machine, steps that
                \* fail; a behaviour has one of these

ASSUME RecordWritesAssumption ==
    /\ None \notin Procs
    /\ Budgets \subseteq [kill : Nat, stop : Nat, fail : Nat]

VARIABLES
    files,      \* the records in each directory
    safe,       \* those a directory had when it was last synced
    loose,      \* those linked or removed in it since
    rooted,     \* whether the evidence directory was there before the commands
    temps,      \* the temporary files: the directory of each, its writer, and how many
                \* records that one had still to write
    lock,       \* the process that holds the lock of the Saga directory
    proc,       \* what each process is at
    told,       \* the records whose command has answered that it succeeded
    untidy,     \* the processes killed or stopped in the middle of a command, and those
                \* that could not remove a temporary file
    left        \* what is left of the budget

disk == <<files, safe, loose, rooted, temps>>
vars == <<disk, lock, proc, told, untidy, left>>

Dirs == {"revisions", "evidence"}

Names(S) == {r.id : r \in S}
Heads(S) == Names(S) \ UNION {r.parents : r \in S}
Ancestors(S, parents) == parents \cup UNION {r.past : r \in {x \in S : x.id \in parents}}

\* past holds the ancestors of a revision; no file does.  pin is the revision a
\* piece of evidence is about, parents those it supersedes.
Record(dir, id, parents, past, pin) ==
    [dir |-> dir, id |-> id, parents |-> parents, past |-> past, pin |-> pin]
First == Record("revisions", <<None, 1>>, {}, {}, <<None, 0>>)

Init ==
    /\ rooted \in BOOLEAN
    /\ files = [d \in Dirs |-> IF d = "revisions" THEN {First} ELSE {}]
    /\ safe = files
    /\ loose = [d \in Dirs |-> {}]
    /\ temps = {}
    /\ lock = None
    /\ proc = [p \in Procs |-> [at |-> "idle", call |-> "", parents |-> {}, listed |-> {},
                                todo |-> <<>>, wrote |-> {}, ok |-> TRUE, answer |-> ""]]
    /\ told = {} /\ untidy = {}
    /\ left \in Budgets

At(p, where) == proc[p].at = where
Goes(p, where) == proc' = [proc EXCEPT ![p].at = where]
Ends(p, where, answer) == proc' = [proc EXCEPT ![p].at = where, ![p].answer = answer, ![p].ok = FALSE]
Fails == left.fail > 0 /\ left' = [left EXCEPT !.fail = @ - 1]
-----------------------------------------------------------------------------
\* The load without the lock.

\* A call of revise names the parents its author has seen.
Begin(p) ==
    /\ At(p, "idle")
    /\ \E call \in {"revise", "evidence", "batch"} :
        proc' = [proc EXCEPT ![p].at = "list", ![p].call = call,
                             ![p].parents = IF call = "revise" THEN Heads(files["revisions"]) ELSE {}]
    /\ UNCHANGED <<disk, lock, told, untidy, left>>

\* Every entry of a directory has to be a JSON file.
Clean(d) == \A t \in temps : t.dir # d

\* The evidence names revisions and evidence that are there.
Known(revisions, evidence) ==
    \A e \in evidence : e.pin \in Names(revisions) /\ e.parents \subseteq Names(evidence)

ListRevisions(p) ==
    /\ At(p, "list")
    /\ \/ /\ Clean("revisions")
          /\ proc' = [proc EXCEPT ![p].at = "listed", ![p].listed = files["revisions"]]
       \/ ~Clean("revisions") /\ Ends(p, "done", "unreadable")
    /\ UNCHANGED <<disk, lock, told, untidy, left>>

ListEvidence(p) ==
    /\ At(p, "listed")
    /\ LET loads == Clean("evidence") /\ Known(proc[p].listed, files["evidence"]) IN
        \/ loads /\ Goes(p, "wait")
        \/ ~loads /\ Ends(p, "done", "unreadable")
    /\ UNCHANGED <<disk, lock, told, untidy, left>>
-----------------------------------------------------------------------------
\* The lock.

Acquire(p) ==
    /\ At(p, "wait") /\ lock = None
    /\ lock' = p /\ Goes(p, "judge")
    /\ UNCHANGED <<disk, told, untidy, left>>

\* Bug: after two seconds it goes on all the same.
GiveUpWaiting(p) ==
    /\ At(p, "wait") /\ lock # None
    /\ Goes(p, "judge")
    /\ UNCHANGED <<disk, lock, told, untidy, left>>

\* Two seconds have passed.
GiveUp(p) ==
    /\ At(p, "wait") /\ lock # None
    /\ Ends(p, "done", "busy")
    /\ UNCHANGED <<disk, lock, told, untidy, left>>

\* The command's records, of the revisions and the evidence it has loaded; none
\* when the call is refused.
Wanted(p, revisions, evidence) ==
    LET piece(n, parents) == Record("evidence", <<p, n>>, parents, {}, CHOOSE h \in Heads(revisions) : TRUE)
    IN CASE proc[p].call = "revise" /\ proc[p].parents = Heads(revisions) ->
              <<Record("revisions", <<p, 1>>, proc[p].parents, Ancestors(revisions, proc[p].parents), <<None, 0>>)>>
         [] proc[p].call = "evidence" /\ Cardinality(Heads(revisions)) = 1 ->
              <<piece(1, Heads(evidence))>>
         [] proc[p].call = "batch" /\ Cardinality(Heads(revisions)) = 1 ->
              <<piece(1, {}), piece(2, {<<p, 1>>})>>
         [] OTHER -> <<>>

\* Bug: what was loaded before the lock is judged.
JudgeUnloaded(p) ==
    /\ At(p, "judge")
    /\ proc' = [proc EXCEPT ![p].at = "temp", ![p].todo = Wanted(p, proc[p].listed, files["evidence"])]
    /\ proc'[p].todo # <<>>
    /\ UNCHANGED <<disk, lock, told, untidy, left>>

\* The second load, and the operation up to its first write.
Judge(p) ==
    /\ At(p, "judge")
    /\ LET loads == Clean("revisions") /\ Clean("evidence") /\ Known(files["revisions"], files["evidence"])
           wanted == Wanted(p, files["revisions"], files["evidence"])
       IN \/ ~loads /\ Ends(p, "unlock", "unreadable")
          \/ loads /\ wanted = <<>> /\ Ends(p, "unlock", "refused")
          \/ /\ loads /\ wanted # <<>>
             /\ proc' = [proc EXCEPT ![p].at = "temp", ![p].todo = wanted]
    /\ UNCHANGED <<disk, lock, told, untidy, left>>
-----------------------------------------------------------------------------
\* WriteFile, of the first record of todo.

Current(p) == Head(proc[p].todo)
OwnTemp(p) == [dir |-> Current(p).dir, by |-> p, nth |-> Len(proc[p].todo)]

\* The temporary file is made, written and synced.
WriteTemp(p) ==
    /\ At(p, "temp")
    /\ \/ temps' = temps \cup {OwnTemp(p)} /\ Goes(p, "link") /\ UNCHANGED left
       \/ Fails /\ Ends(p, "clean", "failed") /\ temps' \in {temps, temps \cup {OwnTemp(p)}}
    /\ UNCHANGED <<files, safe, loose, rooted, lock, told, untidy>>

\* Bug: the directory is not synced.
LinkUnsynced(p) ==
    /\ At(p, "link")
    /\ files' = [files EXCEPT ![Current(p).dir] = @ \cup {Current(p)}]
    /\ loose' = [loose EXCEPT ![Current(p).dir] = @ \cup {Current(p)}]
    /\ Goes(p, "clean")
    /\ UNCHANGED <<safe, rooted, temps, lock, told, untidy, left>>

Link(p) ==
    /\ At(p, "link")
    /\ \/ /\ files' = [files EXCEPT ![Current(p).dir] = @ \cup {Current(p)}]
          /\ loose' = [loose EXCEPT ![Current(p).dir] = @ \cup {Current(p)}]
          /\ Goes(p, "sync")
          /\ UNCHANGED left
       \/ Fails /\ Ends(p, "clean", "failed") /\ UNCHANGED <<files, loose>>
    /\ UNCHANGED <<safe, rooted, temps, lock, told, untidy>>

SyncDir(d) ==
    /\ safe' = [safe EXCEPT ![d] = files[d]]
    /\ loose' = [loose EXCEPT ![d] = {}]

SyncRecord(p) ==
    /\ At(p, "sync")
    /\ \/ SyncDir(Current(p).dir) /\ Goes(p, "clean") /\ UNCHANGED left
       \/ Fails /\ Ends(p, "unlink", "failed") /\ UNCHANGED <<safe, loose>>
    /\ UNCHANGED <<files, rooted, temps, lock, told, untidy>>

\* rollbackPublishedCreate: the name is removed and the removal synced; when
\* either fails the caller is told that the record may be there.
Unlink(p) ==
    /\ At(p, "unlink")
    /\ \/ /\ files' = [files EXCEPT ![Current(p).dir] = @ \ {Current(p)}]
          /\ loose' = [loose EXCEPT ![Current(p).dir] = @ \cup {Current(p)}]
          /\ Goes(p, "resync")
          /\ UNCHANGED left
       \/ Fails /\ Goes(p, "clean") /\ UNCHANGED <<files, loose>>
    /\ UNCHANGED <<safe, rooted, temps, lock, told, untidy>>

SyncRemoval(p) ==
    /\ At(p, "resync")
    /\ \/ SyncDir(Current(p).dir) /\ UNCHANGED left
       \/ Fails /\ UNCHANGED <<safe, loose>>
    /\ Goes(p, "clean")
    /\ UNCHANGED <<files, rooted, temps, lock, told, untidy>>

\* The deferred removal of the temporary file, whose error nobody looks at; the
\* next record, or the end.
RemoveTemp(p) ==
    /\ At(p, "clean")
    /\ \/ temps' = temps \ {OwnTemp(p)} /\ UNCHANGED <<untidy, left>>
       \/ OwnTemp(p) \in temps /\ Fails /\ untidy' = untidy \cup {p} /\ UNCHANGED temps
    /\ LET rest == Tail(proc[p].todo) IN
        \/ ~proc[p].ok /\ Goes(p, "undo")
        \/ /\ proc[p].ok
           /\ proc' = [proc EXCEPT ![p].at = IF rest = <<>> THEN "unlock" ELSE "temp",
                                   ![p].todo = rest, ![p].wrote = @ \cup {Current(p)}]
    /\ UNCHANGED <<files, safe, loose, rooted, lock, told>>

\* writeRecords takes back the records it wrote before the one that failed, as
\* far as it can: no error is looked at, and nothing is synced.
Undo(p) ==
    /\ At(p, "undo")
    /\ \/ /\ files' = [files EXCEPT !["evidence"] = @ \ proc[p].wrote]
          /\ loose' = [loose EXCEPT !["evidence"] = @ \cup proc[p].wrote]
          /\ UNCHANGED left
       \/ proc[p].wrote # {} /\ Fails /\ UNCHANGED <<files, loose>>
    /\ Goes(p, "unlock")
    /\ UNCHANGED <<safe, rooted, temps, lock, told, untidy>>

\* Bug: the lock is given back before the temporary file is removed.
UnlockEarly(p) ==
    \/ At(p, "clean") /\ lock = p /\ lock' = None /\ UNCHANGED <<disk, proc, told, untidy, left>>
    \/ /\ At(p, "unlock")
       /\ lock' = IF lock = p THEN None ELSE lock
       /\ Goes(p, "done")
       /\ told' = told \cup (IF proc[p].ok THEN proc[p].wrote ELSE {})
       /\ UNCHANGED <<disk, untidy, left>>

Unlock(p) ==
    /\ At(p, "unlock")
    /\ lock' = None
    /\ Goes(p, "done")
    /\ told' = told \cup (IF proc[p].ok THEN proc[p].wrote ELSE {})
    /\ UNCHANGED <<disk, untidy, left>>
-----------------------------------------------------------------------------
Running(p) == ~At(p, "idle") /\ ~At(p, "done")

\* The kernel releases the lock of a process that is gone.
Kill(p) ==
    /\ Running(p)
    /\ left.kill > 0 /\ left' = [left EXCEPT !.kill = @ - 1]
    /\ lock' = IF lock = p THEN None ELSE lock
    /\ Ends(p, "done", "killed")
    /\ untidy' = untidy \cup {p}
    /\ UNCHANGED <<disk, told>>

\* Power fails.  Of what was linked and removed since a directory was synced, and
\* of the temporary files, any part is there afterwards.  A directory is made
\* without a sync of the one above it: a new one may be gone with all it has.
Stop ==
    /\ left.stop > 0 /\ left' = [left EXCEPT !.stop = @ - 1]
    /\ \E lost \in [Dirs -> SUBSET UNION {loose[d] : d \in Dirs}], gone \in BOOLEAN, stay \in SUBSET temps :
        /\ \A d \in Dirs : lost[d] \subseteq loose[d]
        /\ gone => ~rooted /\ lost["evidence"] = {} /\ \A t \in stay : t.dir # "evidence"
        /\ files' = [d \in Dirs |-> IF gone /\ d = "evidence" THEN {}
                                    ELSE (safe[d] \cup loose[d]) \ lost[d]]
        /\ temps' = stay
    /\ safe' = files'
    /\ loose' = [d \in Dirs |-> {}]
    /\ lock' = None
    /\ untidy' = untidy \cup {p \in Procs : Running(p)}
    /\ proc' = [p \in Procs |-> IF Running(p) THEN [proc[p] EXCEPT !.at = "done", !.answer = "killed", !.ok = FALSE]
                                ELSE proc[p]]
    /\ UNCHANGED <<rooted, told>>

\* Somebody removes what a command that is over has left, the file the message
\* names.
Tidy ==
    /\ \E t \in temps : At(t.by, "done") /\ temps' = temps \ {t}
    /\ UNCHANGED <<files, safe, loose, rooted, lock, proc, told, untidy, left>>

Step(p) ==
    \/ Begin(p) \/ ListRevisions(p) \/ ListEvidence(p)
    \/ Acquire(p) \/ GiveUp(p) \/ Judge(p)
    \/ WriteTemp(p) \/ Link(p) \/ SyncRecord(p) \/ Unlink(p) \/ SyncRemoval(p)
    \/ RemoveTemp(p) \/ Undo(p) \/ Unlock(p)

Next == Stop \/ Tidy \/ \E p \in Procs : Step(p) \/ Kill(p)

Spec == Init /\ [][Next]_vars
-----------------------------------------------------------------------------
\* What a command has answered to have written is there whatever happens after,
\* unless it was the first to write into its directory.
AcknowledgedKept ==
    \A r \in told : r \in files[r.dir] \/ (r.dir = "evidence" /\ ~rooted)

\* No update is lost: of two revisions written in one clone one is over the other.
OneAfterTheOther ==
    \A r, s \in {x \in told : x.dir = "revisions"} : r = s \/ r.id \in s.past \/ s.id \in r.past

\* Evidence is written about the revision that is the latest at that moment.
AboutTheLatest ==
    [][left'.stop = left.stop =>
        \A e \in files'["evidence"] \ files["evidence"] : Heads(files["revisions"]) = {e.pin}]_vars

\* With the lock, a Saga is found unreadable only after a process has died in the
\* middle of a command or could not remove a temporary file, or a batch could not be
\* taken back: never for what a command is in the middle of.
UnreadableByLeftovers ==
    \A p \in Procs : At(p, "unlock") /\ proc[p].answer = "unreadable" =>
        untidy # {} \/ ~Known(files["revisions"], files["evidence"])
=============================================================================
