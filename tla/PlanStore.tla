------------------------------- MODULE PlanStore -------------------------------
(***************************************************************************)
(* One Plan and its Tasks on disk (internal/planstore), written by several *)
(* processes under the Saga's writer lock (store.WithSagaLock).            *)
(*                                                                         *)
(* An operation loads the Saga once it has the lock, checks the graph that *)
(* it would leave, and then writes record after record.  A record is put   *)
(* by one atomic rename, but a Task's directory is removed file by file.   *)
(* Between two writes, or within a removal, the process may die, or the    *)
(* operation fail and stop.                                                *)
(*                                                                         *)
(* A Task is the part of task.json the graph is made of: whether it names  *)
(* a story, its phase, what it depends on, and whether it is done.         *)
(*                                                                         *)
(* unchecked is not on disk: it remembers what the last operation wrote    *)
(* of the graph without having checked it, until another loads the Saga.   *)
(***************************************************************************)
EXTENDS ReviewIds, Naturals, FiniteSets, Sequences, SequencesExt

CONSTANTS
    Writers,        \* processes that write
    Tasks,          \* task ids
    Phases,         \* phase ids
    Prototypes,     \* paths of prototypes
    MaxFaults       \* bound: crashes and failed writes together

ASSUME PlanAssumption ==
    /\ None \notin Writers \cup Tasks \cup Phases
    /\ IsFiniteSet(Tasks)
    /\ MaxFaults \in Nat

Task == [story : BOOLEAN, phase : Phases \cup {None}, depends : SUBSET Tasks, done : BOOLEAN]

\* The record of a Task that is not there.
NoTask == [story |-> FALSE, phase |-> None, depends |-> {None}, done |-> FALSE]

\* A write: put task t's record on disk, or take its directory away.
Writes == [task : Tasks, to : Task \cup {NoTask}]

VARIABLES
    created,    \* whether the Plan has been created
    phases,     \* the Plan's phases, in order
    tasks,      \* each Task on disk
    torn,       \* Tasks whose directory is there without its task.json
    linked,     \* the Plan's reviews
    shown,      \* the Plan's prototypes
    delivered,  \* whether delivered_at is set
    merged,     \* reviews that have merged (Git decides)
    named,      \* Tasks a slide of the Plan's deck names (authoring decides)
    lock,       \* the process holding the writer lock
    first,      \* writes the holder makes first, in any order
    last,       \* writes it makes after those
    unchecked,  \* dependencies of the last change that its check did not see
    faults

plan == <<created, phases, tasks, torn, linked, shown, delivered>>
others == <<merged, named>>
vars == <<plan, others, lock, first, last, unchecked, faults>>

-----------------------------------------------------------------------------
\* The Tasks of a graph.
Present(graph) == {t \in Tasks : graph[t] # NoTask}

Before(order, p, q) ==
    \E i, j \in 1..Len(order) : order[i] = p /\ order[j] = q /\ i < j

KnownPhases(order, graph) ==
    \A t \in Present(graph) : graph[t].phase \in {None} \cup ToSet(order)

KnownDependencies(graph) ==
    \A t \in Present(graph) : graph[t].depends \subseteq Present(graph) \ {t}

\* A dependency between two Tasks in phases is on an earlier phase.
PhasesInOrder(order, graph) ==
    \A t \in Present(graph) :
        \A d \in graph[t].depends \cap Present(graph) :
            {graph[t].phase, graph[d].phase} \subseteq ToSet(order) =>
                Before(order, graph[d].phase, graph[t].phase)

\* No cycle: every group of Tasks has one that needs none of the others.
Acyclic(graph) ==
    \A group \in (SUBSET Present(graph)) \ {{}} :
        \E t \in group : graph[t].depends \cap group = {}

\* Every Task leads to a story: walking back from those that have one over
\* what they depend on reaches every Task.
LeadsToStory(graph) ==
    \A reached \in SUBSET Present(graph) :
        /\ \A t \in Present(graph) : graph[t].story => t \in reached
        /\ \A t \in reached : graph[t].depends \cap Present(graph) \subseteq reached
        => reached = Present(graph)

\* saga.PlanTaskProblems finds nothing.
Sound(order, graph) ==
    /\ KnownPhases(order, graph)
    /\ KnownDependencies(graph)
    /\ PhasesInOrder(order, graph)
    /\ Acyclic(graph)
    /\ LeadsToStory(graph)

-----------------------------------------------------------------------------
Init ==
    /\ created = FALSE
    /\ phases = <<>>
    /\ tasks = [t \in Tasks |-> NoTask]
    /\ torn = {}
    /\ linked = {}
    /\ shown = {}
    /\ delivered = FALSE
    /\ merged = {}
    /\ named = {}
    /\ lock = None
    /\ first = {}
    /\ last = {}
    /\ unchecked = {}
    /\ faults = 0

\* The lock is advisory and tried again until it is free.  A process that gives
\* up when its time is over has changed nothing.
Acquire(w) ==
    /\ lock = None
    /\ lock' = w
    /\ UNCHANGED <<plan, others, first, last, unchecked, faults>>

\* The operation returns, having written everything or refused.
Release(w) ==
    /\ lock = w
    /\ first = {} /\ last = {}
    /\ lock' = None
    /\ UNCHANGED <<plan, others, first, last, unchecked, faults>>

\* mutate: the holder of the lock loads a Saga, which has to be valid.
Loaded(w) ==
    /\ lock = w
    /\ first = {} /\ last = {}
    /\ torn = {}
    /\ Sound(phases, tasks)

\* Bug: a Plan may be edited whether or not it was delivered.
EditingDelivered(w) == Loaded(w) /\ created

\* editable: and in it a Plan that was not delivered.
Editing(w) ==
    /\ Loaded(w)
    /\ created
    /\ ~delivered

\* An operation on plan.json is one write, and returns.
WritesPlan ==
    /\ lock' = None
    /\ unchecked' = {}
    /\ UNCHANGED <<tasks, torn, others, first, last, faults>>

\* A Plan is created whole, by the rename of its directory.
Create(w) ==
    /\ Loaded(w)
    /\ ~created
    /\ created' = TRUE
    /\ WritesPlan
    /\ UNCHANGED <<phases, linked, shown, delivered>>

AddPhase(w, p) ==
    /\ Editing(w)
    /\ p \notin ToSet(phases)
    /\ phases' = Append(phases, p)
    /\ WritesPlan
    /\ UNCHANGED <<created, linked, shown, delivered>>

RemovePhase(w, p) ==
    /\ Editing(w)
    /\ \A t \in Present(tasks) : tasks[t].phase # p
    /\ \E index \in 1..Len(phases) :
        /\ phases[index] = p
        /\ \A earlier \in 1..(index - 1) : phases[earlier] # p
        /\ phases' = RemoveAt(phases, index)
    /\ WritesPlan
    /\ UNCHANGED <<created, linked, shown, delivered>>

LinkReview(w, r) ==
    /\ Editing(w)
    /\ linked' = linked \cup {r}
    /\ WritesPlan
    /\ UNCHANGED <<created, phases, shown, delivered>>

AddPrototype(w, x) ==
    /\ Editing(w)
    /\ shown' = shown \cup {x}
    /\ WritesPlan
    /\ UNCHANGED <<created, phases, linked, delivered>>

\* Bug: a delivery does not look at what is left to do.
DeliverOneMerged(w) ==
    /\ Editing(w)
    /\ linked # {}
    /\ linked \subseteq merged
    /\ delivered' = TRUE
    /\ WritesPlan
    /\ UNCHANGED <<created, phases, linked, shown>>

\* Every Task is done, and there are reviews and all have merged.
Deliver(w) ==
    /\ Editing(w)
    /\ \A t \in Present(tasks) : tasks[t].done
    /\ linked # {}
    /\ linked \subseteq merged
    /\ delivered' = TRUE
    /\ WritesPlan
    /\ UNCHANGED <<created, phases, linked, shown>>

\* The records of the Tasks in changed, as a graph has them.
Records(graph, changed) == {[task |-> t, to |-> graph[t]] : t \in changed}

\* The holder of the lock has its writes cut out for it.
Begins(writes, rest) ==
    /\ first' = writes
    /\ last' = rest
    /\ UNCHANGED <<plan, others, lock, faults>>

\* The graph in which each of these Tasks depends on t too.
Unblocked(graph, unblocks, t) ==
    [u \in Tasks |->
        IF u \in unblocks THEN [graph[u] EXCEPT !.depends = @ \cup {t}] ELSE graph[u]]

\* A new Task is committed, then each Task it unblocks is made to depend on it.
\* A Task may be given by its URN instead of its id, and the graph that is checked
\* has the dependencies of those given by id only.
AddTask(w, t, record, unblocks, byUrn) ==
    LET added == [tasks EXCEPT ![t] = record]
        candidate == Unblocked(added, unblocks \ byUrn, t)
        written == Unblocked(added, unblocks, t)
    IN
    /\ Editing(w)
    /\ t \notin Present(tasks)
    /\ unblocks \subseteq Present(tasks)
    /\ Sound(phases, candidate)
    /\ Begins(Records(written, {t}), Records(written, unblocks))
    /\ unchecked' = {<<u, t>> : u \in byUrn}

\* Bug: the graph is not checked with the new record in it.
UpdateTaskUnchecked(w, t, record) ==
    LET candidate == [tasks EXCEPT ![t] = record] IN
    /\ Editing(w)
    /\ t \in Present(tasks)
    /\ Begins(Records(candidate, {t}), {})
    /\ unchecked' = {}

\* A Task's record is replaced by one that leaves a sound graph.
UpdateTask(w, t, record) ==
    LET candidate == [tasks EXCEPT ![t] = record] IN
    /\ Editing(w)
    /\ t \in Present(tasks)
    /\ Sound(phases, candidate)
    /\ Begins(Records(candidate, {t}), {})
    /\ unchecked' = {}

\* Bug: a slide that names the Task is not looked for.
RemoveTaskNamed(w, t) ==
    LET dependents == {u \in Present(tasks) : u # t /\ t \in tasks[u].depends}
        candidate == [u \in Tasks |->
            IF u = t THEN NoTask
            ELSE IF u \in dependents THEN [tasks[u] EXCEPT !.depends = @ \ {t}]
            ELSE tasks[u]]
    IN
    /\ Editing(w)
    /\ t \in Present(tasks)
    /\ Sound(phases, candidate)
    /\ Begins(Records(candidate, dependents), Records(candidate, {t}))
    /\ unchecked' = {}

\* Each Task that depends on it is freed of it, then its directory is removed.
RemoveTask(w, t) ==
    LET dependents == {u \in Present(tasks) : u # t /\ t \in tasks[u].depends}
        candidate == [u \in Tasks |->
            IF u = t THEN NoTask
            ELSE IF u \in dependents THEN [tasks[u] EXCEPT !.depends = @ \ {t}]
            ELSE tasks[u]]
    IN
    /\ Editing(w)
    /\ t \in Present(tasks) \ named
    /\ Sound(phases, candidate)
    /\ Begins(Records(candidate, dependents), Records(candidate, {t}))
    /\ unchecked' = {}

NextWrites == IF first # {} THEN first ELSE last

\* The next write is made.
Write(w, write) ==
    /\ lock = w
    /\ write \in NextWrites
    /\ tasks' = [tasks EXCEPT ![write.task] = write.to]
    /\ first' = first \ {write}
    /\ last' = IF first # {} THEN last ELSE last \ {write}
    /\ UNCHANGED <<created, phases, torn, linked, shown, delivered, others, lock, unchecked, faults>>

\* A removal stops half way: task.json is gone and the directory is not.  So
\* may the one by which a new Task is taken back when its commit fails to sync.
Tear(w, write) ==
    /\ lock = w
    /\ write \in NextWrites
    /\ NoTask \in {write.to, tasks[write.task]}
    /\ faults < MaxFaults
    /\ faults' = faults + 1
    /\ tasks' = [tasks EXCEPT ![write.task] = NoTask]
    /\ torn' = torn \cup {write.task}
    /\ lock' = None
    /\ first' = {}
    /\ last' = {}
    /\ UNCHANGED <<created, phases, linked, shown, delivered, others, unchecked>>

\* The operation stops short: its process dies, or a write fails and the
\* error is returned.  Either way the lock is freed and no write is undone.
Stop(w) ==
    /\ lock = w
    /\ faults < MaxFaults
    /\ faults' = faults + 1
    /\ lock' = None
    /\ first' = {}
    /\ last' = {}
    /\ UNCHANGED <<plan, others, unchecked>>

\* A linked review merges.
Merge(r) ==
    /\ r \in Reviews \ merged
    /\ merged' = merged \cup {r}
    /\ UNCHANGED <<plan, named, lock, first, last, unchecked, faults>>

\* A slide of the Plan's deck names a Task, under the same lock.
Name(w, t) ==
    /\ Editing(w)
    /\ t \in Present(tasks) \ named
    /\ named' = named \cup {t}
    /\ lock' = None
    /\ unchecked' = {}
    /\ UNCHANGED <<plan, merged, first, last, faults>>

Next ==
    \/ \E w \in Writers :
         \/ Acquire(w) \/ Release(w) \/ Stop(w) \/ Deliver(w)
         \/ \E p \in Phases : AddPhase(w, p) \/ RemovePhase(w, p)
         \/ Create(w)
         \/ \E r \in Reviews : LinkReview(w, r)
         \/ \E x \in Prototypes : AddPrototype(w, x)
         \/ \E t \in Tasks :
              \/ RemoveTask(w, t) \/ Name(w, t)
              \/ \E record \in Task :
                   \/ UpdateTask(w, t, record)
                   \/ \E unblocks \in SUBSET (Tasks \ {t}) :
                        \E byUrn \in SUBSET unblocks : AddTask(w, t, record, unblocks, byUrn)
         \/ \E write \in first \cup last : Write(w, write) \/ Tear(w, write)
    \/ \E r \in Reviews : Merge(r)

Spec == Init /\ [][Next]_vars
-----------------------------------------------------------------------------
\* The graph without some of its dependencies.
Without(graph, edges) ==
    [t \in Tasks |-> [graph[t] EXCEPT !.depends = {d \in @ : <<t, d>> \notin edges}]]

\* "A Plan never holds a Task that leads to no user story": as long as no
\* operation stopped short, the graph is one the store would accept whenever
\* nobody is writing; the writes that follow a check of the graph leave the graph
\* that was checked.  The one exception is what `plan task add --unblocks <URN>`
\* makes Tasks depend on: without those dependencies the graph is sound, and no
\* later operation builds on them unless the graph is sound with them too.
GraphKeptByWriters == faults = 0 /\ lock = None => Sound(phases, Without(tasks, unchecked))

\* "A delivered Plan ... refuses edits": nothing of it changes any more, though
\* an operation may have been under way in another process.
DeliveredFrozen == [][delivered => UNCHANGED plan]_vars

\* A delivered Plan has no Task left to do, and every review it links merged.
DeliveredComplete ==
    delivered =>
        /\ \A t \in Present(tasks) : tasks[t].done
        /\ linked # {}
        /\ linked \subseteq merged

\* No Task a slide names goes away: the slide would name nothing.
NamedKept == named \subseteq Present(tasks)
=============================================================================
