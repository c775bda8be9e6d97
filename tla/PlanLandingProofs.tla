--------------------------- MODULE PlanLandingProofs ---------------------------
(***************************************************************************)
(* What holds of a Plan (PlanStore) for any number of writers, Tasks and   *)
(* crashes: a delivered Plan is complete and never changes again, and no   *)
(* Task a slide names goes away.                                           *)
(*                                                                         *)
(* Both rest on what an operation under way may still write.  A delivery   *)
(* finds nothing of it left, and a removal under way is of a Task nobody   *)
(* names; and while there is anything left to write nobody delivers the    *)
(* Plan or names a Task, since the lock is held.  And what is left leads   *)
(* to the graph that was checked, until an operation stops short.          *)
(*                                                                         *)
(* What holds of the reviews that a Plan is delivered with (Landings), for *)
(* any reviews, branches, processes and histories: a review whose work had *)
(* not begun is not called merged, a landing that names its review is      *)
(* found, and a merge that was reported is reported again.                 *)
(*                                                                         *)
(* These rest on what authors do to a history: it only grows, the base has *)
(* one first-parent line that never turns back, every tip is on that line  *)
(* or is work of its own branch, and a record stays where it came in.  So  *)
(* an entry of the ledger that was true stays true, whoever reads it.      *)
(***************************************************************************)
EXTENDS PlanStore, Landings, Integers, SequenceTheorems, WellFoundedInduction, TLAPS

\* Tasks on disk, and those an operation is about to write, are records of
\* Tasks or the absence of one.
TasksTyped ==
    /\ tasks \in [Tasks -> Task \cup {NoTask}]
    /\ first \subseteq Writes
    /\ last \subseteq Writes

\* A delivered Plan has nothing left to write to it.
DeliveredQuiet == delivered => created /\ first = {} /\ last = {}

\* No write that is left takes a named Task away.
NamedSafe == \A write \in first \cup last : write.to = NoTask => write.task \notin named

IInv ==
    /\ TasksTyped
    /\ DeliveredQuiet
    /\ DeliveredComplete
    /\ NamedSafe
    /\ NamedKept

-----------------------------------------------------------------------------
\* No record of a Task is the absence of one: a Task depends on Tasks.
LEMMA TaskIsPresent == NoTask \notin Task
BY PlanAssumption DEF Task, NoTask

\* Making a Task that is there depend on another, or on one Task less, leaves
\* a record of a Task.
LEMMA TaskEdited ==
    ASSUME NEW record \in Task, NEW t \in Tasks
    PROVE  /\ [record EXCEPT !.depends = @ \cup {t}] \in Task
           /\ [record EXCEPT !.depends = @ \ {t}] \in Task
BY DEF Task

\* The writes of a change are typed when the graph it makes is.
LEMMA RecordsTyped ==
    ASSUME NEW graph \in [Tasks -> Task \cup {NoTask}], NEW changed \in SUBSET Tasks
    PROVE  /\ Records(graph, changed) \subseteq Writes
           /\ \A write \in Records(graph, changed) :
                 write.task \in changed /\ write.to = graph[write.task]
BY DEF Records, Writes

LEMMA IInvInit == Init => IInv
BY DEF Init, IInv, TasksTyped, DeliveredQuiet, DeliveredComplete, NamedSafe,
       NamedKept, Present

-----------------------------------------------------------------------------
\* An operation that begins leaves the invariant when it writes to no Plan that
\* was delivered and takes no named Task away.
LEMMA BeginsKeeps ==
    ASSUME IInv, ~delivered,
           NEW writes \in SUBSET Writes, NEW rest \in SUBSET Writes,
           \A write \in writes \cup rest : write.to = NoTask => write.task \notin named,
           Begins(writes, rest)
    PROVE  IInv'
BY DEF Begins, IInv, TasksTyped, DeliveredQuiet, DeliveredComplete, NamedSafe,
       NamedKept, Present, plan, others

\* So does one that writes plan.json: it changes nothing the invariant is
\* about, but for a delivery, which has seen that the Plan is complete.
LEMMA PlanWritesKeep ==
    ASSUME IInv, NEW w \in Writers,
           \/ Create(w)
           \/ \E p \in Phases : AddPhase(w, p) \/ RemovePhase(w, p)
           \/ \E r \in Reviews : LinkReview(w, r)
           \/ \E x \in Prototypes : AddPrototype(w, x)
           \/ Deliver(w)
    PROVE  IInv'
<1> USE DEF IInv, Loaded, WritesPlan, others
<1>1. /\ UNCHANGED <<tasks, first, last, merged, named>>
      /\ first = {} /\ last = {}
  BY DEF Create, AddPhase, RemovePhase, LinkReview, AddPrototype, Deliver, Editing
<1>2. TasksTyped' /\ NamedSafe' /\ NamedKept'
  BY <1>1 DEF TasksTyped, NamedSafe, NamedKept, Present
<1>3. DeliveredQuiet' /\ DeliveredComplete'
  <2>1. CASE Deliver(w)
    BY <2>1, <1>1 DEF Deliver, Editing, DeliveredQuiet, DeliveredComplete, Present
  <2>2. CASE Create(w)
    <3>1. ~delivered /\ delivered' = delivered
      BY <2>2 DEF Create, DeliveredQuiet
    <3> QED BY <3>1 DEF DeliveredQuiet, DeliveredComplete
  <2>3. CASE \E p \in Phases : AddPhase(w, p) \/ RemovePhase(w, p)
    <3>1. ~delivered /\ delivered' = delivered
      BY <2>3 DEF AddPhase, RemovePhase, Editing
    <3> QED BY <3>1 DEF DeliveredQuiet, DeliveredComplete
  <2>4. CASE \/ \E r \in Reviews : LinkReview(w, r)
            \/ \E x \in Prototypes : AddPrototype(w, x)
    <3>1. ~delivered /\ delivered' = delivered
      BY <2>4 DEF LinkReview, AddPrototype, Editing
    <3> QED BY <3>1 DEF DeliveredQuiet, DeliveredComplete
  <2> QED BY <2>1, <2>2, <2>3, <2>4
<1> QED BY <1>2, <1>3

\* A graph with a record more, in which some Tasks are edited.
Extends(graph, t, record, edited) ==
    /\ graph \in [Tasks -> Task \cup {NoTask}]
    /\ graph[t] = record
    /\ \A u \in edited : graph[u] \in Task
    /\ \A u \in Tasks \ ({t} \cup edited) : graph[u] = tasks[u]

\* What a Task that unblocks others leaves on disk is a graph too.
LEMMA UnblockedTyped ==
    ASSUME IInv, NEW t \in Tasks, NEW record \in Task, NEW unblocks \in SUBSET Tasks,
           t \notin Present(tasks), unblocks \subseteq Present(tasks)
    PROVE  Extends(Unblocked([tasks EXCEPT ![t] = record], unblocks, t), t, record, unblocks)
<1> DEFINE added == [tasks EXCEPT ![t] = record]
           written == Unblocked(added, unblocks, t)
<1>1. /\ added \in [Tasks -> Task \cup {NoTask}]
      /\ added[t] = record
      /\ \A u \in Tasks \ {t} : added[u] = tasks[u]
  BY DEF IInv, TasksTyped
<1>2. t \notin unblocks /\ \A u \in unblocks : added[u] \in Task
  BY <1>1 DEF IInv, TasksTyped, Present
<1> HIDE DEF added
<1>3. \A u \in Tasks : written[u] = IF u \in unblocks
                                     THEN [added[u] EXCEPT !.depends = @ \cup {t}]
                                     ELSE added[u]
  BY DEF Unblocked
<1>4. written = [u \in Tasks |-> written[u]]
  BY DEF Unblocked
<1> HIDE DEF written
<1>5. \A u \in unblocks : written[u] \in Task
  <2> SUFFICES ASSUME NEW u \in unblocks PROVE written[u] \in Task
    OBVIOUS
  <2>1. added[u] \in Task
    BY <1>2
  <2>2. [added[u] EXCEPT !.depends = @ \cup {t}] \in Task
    BY <2>1, TaskEdited
  <2> QED BY <1>3, <2>2
<1>6. \A u \in Tasks \ unblocks : written[u] = added[u]
  BY <1>3
<1>7. written \in [Tasks -> Task \cup {NoTask}]
  <2>1. \A u \in Tasks : written[u] \in Task \cup {NoTask}
    BY <1>1, <1>5, <1>6
  <2> QED BY <2>1, <1>4
<1>8. written[t] = record /\ \A u \in Tasks \ ({t} \cup unblocks) : written[u] = tasks[u]
  BY <1>1, <1>2, <1>6
<1>9. Extends(written, t, record, unblocks)
  BY <1>5, <1>7, <1>8 DEF Extends
<1> QED BY <1>9 DEF written, added

LEMMA AddTaskKeeps ==
    ASSUME IInv, NEW w \in Writers, NEW t \in Tasks, NEW record \in Task,
           NEW unblocks \in SUBSET Tasks, NEW byUrn,
           AddTask(w, t, record, unblocks, byUrn)
    PROVE  IInv'
<1> DEFINE written == Unblocked([tasks EXCEPT ![t] = record], unblocks, t)
<1>1. /\ ~delivered
      /\ t \notin Present(tasks)
      /\ unblocks \subseteq Present(tasks)
      /\ Begins(Records(written, {t}), Records(written, unblocks))
  BY DEF AddTask, Editing
<1>2. Extends(written, t, record, unblocks)
  BY <1>1, UnblockedTyped
<1> HIDE DEF written
<1>3. /\ Records(written, {t}) \in SUBSET Writes
      /\ Records(written, unblocks) \in SUBSET Writes
      /\ \A write \in Records(written, {t}) \cup Records(written, unblocks) :
            write.to # NoTask
  BY <1>2, RecordsTyped, TaskIsPresent DEF Extends
<1> QED BY <1>1, <1>3, BeginsKeeps

LEMMA UpdateTaskKeeps ==
    ASSUME IInv, NEW w \in Writers, NEW t \in Tasks, NEW record \in Task,
           UpdateTask(w, t, record)
    PROVE  IInv'
<1> DEFINE candidate == [tasks EXCEPT ![t] = record]
<1>1. ~delivered /\ Begins(Records(candidate, {t}), {})
  BY DEF UpdateTask, Editing
<1>2. candidate \in [Tasks -> Task \cup {NoTask}] /\ candidate[t] = record
  BY DEF IInv, TasksTyped
<1> HIDE DEF candidate
<1>3. /\ Records(candidate, {t}) \in SUBSET Writes
      /\ \A write \in Records(candidate, {t}) : write.to # NoTask
  BY <1>2, RecordsTyped, TaskIsPresent
<1> QED BY <1>1, <1>3, BeginsKeeps

LEMMA RemoveTaskKeeps ==
    ASSUME IInv, NEW w \in Writers, NEW t \in Tasks, RemoveTask(w, t)
    PROVE  IInv'
<1> DEFINE dependents == {u \in Present(tasks) : u # t /\ t \in tasks[u].depends}
           candidate == [u \in Tasks |->
              IF u = t THEN NoTask
              ELSE IF u \in dependents THEN [tasks[u] EXCEPT !.depends = @ \ {t}]
              ELSE tasks[u]]
<1>1. /\ ~delivered
      /\ t \notin named
      /\ Begins(Records(candidate, dependents), Records(candidate, {t}))
  BY DEF RemoveTask, Editing
<1>2. dependents \subseteq Tasks /\ t \notin dependents
  BY DEF Present
<1>3. \A u \in dependents : tasks[u] \in Task
  BY DEF IInv, TasksTyped, Present
<1>4. \A u \in dependents : candidate[u] \in Task
  BY <1>2, <1>3, TaskEdited
<1>5. candidate \in [Tasks -> Task \cup {NoTask}]
  BY <1>3, TaskEdited DEF IInv, TasksTyped
<1> HIDE DEF candidate, dependents
<1>6. /\ Records(candidate, dependents) \in SUBSET Writes
      /\ Records(candidate, {t}) \in SUBSET Writes
      /\ \A write \in Records(candidate, dependents) : write.to # NoTask
      /\ \A write \in Records(candidate, {t}) : write.task = t
  BY <1>2, <1>4, <1>5, RecordsTyped, TaskIsPresent
<1> QED BY <1>1, <1>6, BeginsKeeps

\* A write that is left is made: the Plan was not delivered, and the Task it
\* takes away, if it does, is not named.
LEMMA WriteKeeps ==
    ASSUME IInv, NEW w \in Writers, NEW write \in first \cup last, Write(w, write)
    PROVE  IInv'
<1>1. /\ write \in Writes
      /\ write.task \in Tasks
      /\ write.to \in Task \cup {NoTask}
      /\ write.to = NoTask => write.task \notin named
  BY DEF IInv, TasksTyped, Writes, NamedSafe
<1>2. ~delivered /\ ~delivered'
  BY DEF Write, IInv, DeliveredQuiet
<1>3. /\ tasks' = [tasks EXCEPT ![write.task] = write.to]
      /\ first' \subseteq first /\ last' \subseteq last
      /\ named' = named
  BY DEF Write, others
<1>4. TasksTyped'
  BY <1>1, <1>3 DEF IInv, TasksTyped
<1>5. NamedSafe' /\ NamedKept'
  BY <1>1, <1>3 DEF IInv, TasksTyped, NamedSafe, NamedKept, Present
<1> QED BY <1>2, <1>4, <1>5 DEF IInv, DeliveredQuiet, DeliveredComplete

\* A removal that stops half way is of a Task that nobody names, and so is a
\* new Task's that is taken back: it was not there to be named.
LEMMA TearKeeps ==
    ASSUME IInv, NEW w \in Writers, NEW write \in first \cup last, Tear(w, write)
    PROVE  IInv'
<1>1. /\ write.task \in Tasks \ named
      /\ ~delivered /\ ~delivered'
  BY DEF Tear, IInv, TasksTyped, Writes, NamedSafe, NamedKept, Present, DeliveredQuiet
<1>2. /\ tasks' = [tasks EXCEPT ![write.task] = NoTask]
      /\ first' = {} /\ last' = {}
      /\ named' = named
  BY DEF Tear, others
<1>3. TasksTyped' /\ NamedSafe' /\ NamedKept'
  BY <1>1, <1>2 DEF IInv, TasksTyped, NamedSafe, NamedKept, Present
<1> QED BY <1>1, <1>3 DEF IInv, DeliveredQuiet, DeliveredComplete

\* What touches neither the Plan nor its Tasks: the lock, an operation that
\* stops, a review that merges, and a slide that names a Task.
LEMMA OthersKeep ==
    ASSUME IInv,
           \/ \E w \in Writers : Acquire(w) \/ Release(w) \/ Stop(w)
           \/ \E w \in Writers, t \in Tasks : Name(w, t)
           \/ \E r \in Reviews : Merge(r)
           \/ UNCHANGED vars
    PROVE  IInv'
<1> USE DEF IInv, TasksTyped, DeliveredQuiet, DeliveredComplete, NamedSafe, NamedKept,
            Present, plan, others
<1>1. CASE \E w \in Writers : Acquire(w) \/ Release(w) \/ Stop(w)
  BY <1>1 DEF Acquire, Release, Stop
<1>2. CASE \E w \in Writers, t \in Tasks : Name(w, t)
  BY <1>2 DEF Name, Editing, Loaded
<1>3. CASE \E r \in Reviews : Merge(r)
  BY <1>3 DEF Merge
<1>4. CASE UNCHANGED vars
  BY <1>4 DEF vars
<1> QED BY <1>1, <1>2, <1>3, <1>4

LEMMA IInvStep == IInv /\ [Next]_vars => IInv'
<1> SUFFICES ASSUME IInv, [Next]_vars PROVE IInv'
  OBVIOUS
<1>1. CASE \E w \in Writers :
             \/ Create(w)
             \/ \E p \in Phases : AddPhase(w, p) \/ RemovePhase(w, p)
             \/ \E r \in Reviews : LinkReview(w, r)
             \/ \E x \in Prototypes : AddPrototype(w, x)
             \/ Deliver(w)
  BY <1>1, PlanWritesKeep
<1>2. CASE \E w \in Writers, t \in Tasks, record \in Task :
             \E unblocks \in SUBSET (Tasks \ {t}) :
                \E byUrn \in SUBSET unblocks : AddTask(w, t, record, unblocks, byUrn)
  BY <1>2, AddTaskKeeps
<1>3. CASE \E w \in Writers, t \in Tasks, record \in Task : UpdateTask(w, t, record)
  BY <1>3, UpdateTaskKeeps
<1>4. CASE \E w \in Writers, t \in Tasks : RemoveTask(w, t)
  BY <1>4, RemoveTaskKeeps
<1>5. CASE \E w \in Writers : \E write \in first \cup last : Write(w, write)
  BY <1>5, WriteKeeps
<1>6. CASE \E w \in Writers : \E write \in first \cup last : Tear(w, write)
  BY <1>6, TearKeeps
<1>7. CASE \/ \E w \in Writers : Acquire(w) \/ Release(w) \/ Stop(w)
           \/ \E w \in Writers, t \in Tasks : Name(w, t)
           \/ \E r \in Reviews : Merge(r)
           \/ UNCHANGED vars
  BY <1>7, OthersKeep
<1> QED BY <1>1, <1>2, <1>3, <1>4, <1>5, <1>6, <1>7 DEF Next

\* The inductive invariant, for every number of writers, Tasks and faults.
THEOREM PlanInvariance == Spec => []IInv
BY IInvInit, IInvStep, PTL DEF Spec

-----------------------------------------------------------------------------
\* A delivered Plan has every Task done and its reviews merged, whatever
\* operation was under way elsewhere when it was delivered (Deliver).
THEOREM DeliveredIsComplete == Spec => []DeliveredComplete
<1>1. IInv => DeliveredComplete
  BY DEF IInv
<1> QED BY <1>1, PlanInvariance, PTL

\* No Task a slide names goes away (Remove refuses, and nobody names a Task
\* while one is being removed).
THEOREM NamedTasksStay == Spec => []NamedKept
<1>1. IInv => NamedKept
  BY DEF IInv
<1> QED BY <1>1, PlanInvariance, PTL

\* A delivered Plan never changes again (planstore.editable): each operation
\* looks after it has the lock, and none that looked before has a write left.
THEOREM DeliveredStaysFrozen == Spec => DeliveredFrozen
<1>1. IInv /\ [Next]_vars => (delivered => UNCHANGED plan)
  <2> SUFFICES ASSUME IInv, [Next]_vars, delivered PROVE UNCHANGED plan
    OBVIOUS
  <2>1. created /\ first \cup last = {}
    BY DEF IInv, DeliveredQuiet
  <2>2. \A w \in Writers : ~Editing(w)
    BY DEF Editing
  <2>3. ASSUME NEW w \in Writers,
               Acquire(w) \/ Release(w) \/ Stop(w)
        PROVE  UNCHANGED plan
    BY <2>3 DEF Acquire, Release, Stop
  <2>4. ASSUME NEW w \in Writers, Create(w)
        PROVE  UNCHANGED plan
    BY <2>1, <2>4 DEF Create
  <2>5. ASSUME NEW w \in Writers, NEW write \in first \cup last,
               Write(w, write) \/ Tear(w, write)
        PROVE  UNCHANGED plan
    BY <2>1
  <2>6. ASSUME NEW r \in Reviews, Merge(r)
        PROVE  UNCHANGED plan
    BY <2>6 DEF Merge
  <2>7. CASE UNCHANGED vars
    BY <2>7 DEF vars
  <2>8. ASSUME NEW w \in Writers,
               \/ Deliver(w)
               \/ \E p \in Phases : AddPhase(w, p) \/ RemovePhase(w, p)
               \/ \E r \in Reviews : LinkReview(w, r)
               \/ \E x \in Prototypes : AddPrototype(w, x)
        PROVE  FALSE
    BY <2>2, <2>8 DEF Deliver, AddPhase, RemovePhase, LinkReview, AddPrototype
  <2>9. ASSUME NEW w \in Writers, NEW t \in Tasks,
               \/ RemoveTask(w, t) \/ Name(w, t)
               \/ \E record \in Task :
                    \/ UpdateTask(w, t, record)
                    \/ \E unblocks \in SUBSET (Tasks \ {t}) :
                         \E byUrn \in SUBSET unblocks : AddTask(w, t, record, unblocks, byUrn)
        PROVE  FALSE
    BY <2>2, <2>9 DEF RemoveTask, Name, UpdateTask, AddTask
  <2> QED
    BY <2>3, <2>4, <2>5, <2>6, <2>7, <2>8, <2>9 DEF Next
<1> QED BY <1>1, PlanInvariance, PTL DEF Spec, DeliveredFrozen
-----------------------------------------------------------------------------
(* The graph.                                                              *)

\* The writes that are left lead to this graph.
Toward(goal) ==
    /\ \A write \in first \cup last : write.to = goal[write.task]
    /\ \A t \in Tasks : tasks[t] = goal[t] \/ \E write \in first \cup last : write.task = t

\* As long as nothing stopped short they lead to one that was checked.
GraphInv ==
    /\ phases \in Seq(Phases)
    /\ faults \in Nat
    /\ lock = None => first = {} /\ last = {}
    /\ faults = 0 => \E goal \in [Tasks -> Task \cup {NoTask}] :
                        Sound(phases, Without(goal, unchecked)) /\ Toward(goal)

\* No dependency less leaves the graph as it is.
LEMMA WithoutNone ==
    ASSUME NEW graph \in [Tasks -> Task \cup {NoTask}]
    PROVE  Without(graph, {}) = graph
<1>1. ASSUME NEW t \in Tasks
      PROVE  [graph[t] EXCEPT !.depends = {d \in @ : <<t, d>> \notin {}}] = graph[t]
  <2>1. graph[t] \in Task \/ graph[t] = NoTask
      OBVIOUS
  <2>2. {d \in graph[t].depends : <<t, d>> \notin {}} = graph[t].depends
      OBVIOUS
  <2> QED BY <2>1, <2>2 DEF Task, NoTask
<1> QED BY <1>1 DEF Without

\* A phase more: no Task is in it, and those there were stay in order.
LEMMA SoundAppended ==
    ASSUME NEW order \in Seq(Phases), NEW p \in Phases, NEW graph, Sound(order, graph)
    PROVE  Sound(Append(order, p), graph)
<1> DEFINE longer == Append(order, p)
<1>1. /\ Len(longer) = Len(order) + 1 /\ Len(order) \in Nat
      /\ \A i \in 1..Len(order) : longer[i] = order[i] /\ order[i] \in Phases
      /\ longer[Len(longer)] = p
    OBVIOUS
<1>2. DOMAIN longer = 1..Len(longer) /\ DOMAIN order = 1..Len(order)
    OBVIOUS
<1> HIDE DEF longer
<1>3. ToSet(order) \subseteq ToSet(longer) /\ None \notin ToSet(longer)
    BY <1>1, <1>2, PlanAssumption DEF ToSet
<1>4. ASSUME NEW a, NEW b, Before(order, a, b)
      PROVE  Before(longer, a, b)
    BY <1>1, <1>4 DEF Before
<1>5. KnownPhases(longer, graph)
    BY <1>3 DEF Sound, KnownPhases
<1>6. PhasesInOrder(longer, graph)
  <2> SUFFICES ASSUME NEW t \in Present(graph), NEW d \in graph[t].depends \cap Present(graph),
                      {graph[t].phase, graph[d].phase} \subseteq ToSet(longer)
               PROVE  Before(longer, graph[d].phase, graph[t].phase)
      BY DEF PhasesInOrder
  <2>1. {graph[t].phase, graph[d].phase} \subseteq ToSet(order)
      BY <1>3 DEF Sound, KnownPhases
  <2> QED BY <1>4, <2>1 DEF Sound, PhasesInOrder
<1> QED BY <1>5, <1>6 DEF Sound, longer

\* What is left of a sequence without one of its elements.
LEMMA Removed ==
    ASSUME NEW S, NEW s \in Seq(S), NEW i \in 1..Len(s)
    PROVE  /\ RemoveAt(s, i) \in Seq(S)
           /\ Len(RemoveAt(s, i)) = Len(s) - 1
           /\ \A j \in 1..(Len(s) - 1) : RemoveAt(s, i)[j] = IF j < i THEN s[j] ELSE s[j + 1]
<1> DEFINE head == SubSeq(s, 1, i - 1)
           tail == SubSeq(s, i + 1, Len(s))
<1>1. i \in Nat /\ 1 <= i /\ i <= Len(s) /\ Len(s) \in Nat
    OBVIOUS
<1>2. head \in Seq(S) /\ Len(head) = i - 1 /\ \A j \in 1..(i - 1) : head[j] = s[j]
    BY <1>1
<1>3. tail \in Seq(S) /\ Len(tail) = Len(s) - i /\ \A j \in 1..(Len(s) - i) : tail[j] = s[i + j]
    BY <1>1
<1>4. RemoveAt(s, i) = head \o tail
    BY DEF RemoveAt
<1> HIDE DEF head, tail
<1>5. /\ head \o tail \in Seq(S)
      /\ Len(head \o tail) = Len(head) + Len(tail)
      /\ \A j \in 1..(Len(head) + Len(tail)) :
            (head \o tail)[j] = IF j <= Len(head) THEN head[j] ELSE tail[j - Len(head)]
    BY <1>2, <1>3, ConcatProperties
<1>6. ASSUME NEW j \in 1..(Len(s) - 1)
      PROVE  (head \o tail)[j] = IF j < i THEN s[j] ELSE s[j + 1]
  <2>1. CASE j < i
      BY <1>1, <1>2, <1>3, <1>5, <2>1
  <2>2. CASE ~(j < i)
    <3>1. (head \o tail)[j] = tail[j - (i - 1)] /\ j - (i - 1) \in 1..(Len(s) - i)
        BY <1>1, <1>2, <1>3, <1>5, <2>2
    <3>2. tail[j - (i - 1)] = s[i + (j - (i - 1))]
        BY <1>3, <3>1
    <3>3. i + (j - (i - 1)) = j + 1
        BY <1>1
    <3> QED BY <2>2, <3>1, <3>2, <3>3
  <2> QED BY <2>1, <2>2
<1>7. Len(head \o tail) = Len(s) - 1
    BY <1>1, <1>2, <1>3, <1>5
<1> QED BY <1>4, <1>5, <1>6, <1>7

\* A phase less, that no Task is in.
LEMMA SoundRemoved ==
    ASSUME NEW order \in Seq(Phases), NEW i \in 1..Len(order), NEW graph, Sound(order, graph),
           \A t \in Present(graph) : graph[t].phase # order[i]
    PROVE  Sound(RemoveAt(order, i), graph)
<1> DEFINE shorter == RemoveAt(order, i)
           place(j) == IF j < i THEN j ELSE j - 1
<1>1. /\ shorter \in Seq(Phases) /\ Len(shorter) = Len(order) - 1 /\ Len(order) \in Nat
      /\ \A j \in 1..(Len(order) - 1) : shorter[j] = IF j < i THEN order[j] ELSE order[j + 1]
    BY Removed
<1>2. DOMAIN shorter = 1..Len(shorter) /\ DOMAIN order = 1..Len(order)
    BY <1>1
<1> HIDE DEF shorter
<1>3. \A j \in 1..Len(order) : j # i => place(j) \in 1..Len(shorter) /\ shorter[place(j)] = order[j]
  <2> SUFFICES ASSUME NEW j \in 1..Len(order), j # i
               PROVE  place(j) \in 1..Len(shorter) /\ shorter[place(j)] = order[j]
      OBVIOUS
  <2>1. CASE j < i
      BY <1>1, <2>1
  <2>2. CASE j > i
    <3>1. place(j) = j - 1 /\ j - 1 \in 1..(Len(order) - 1) /\ ~(j - 1 < i) /\ (j - 1) + 1 = j
        BY <1>1, <2>2
    <3>2. shorter[j - 1] = order[(j - 1) + 1]
        BY <1>1, <3>1
    <3> QED BY <1>1, <3>1, <3>2
  <2> QED BY <2>1, <2>2
<1>4. ToSet(shorter) \subseteq ToSet(order)
  <2>1. \A j \in 1..Len(shorter) : j \in 1..Len(order) /\ j + 1 \in 1..Len(order)
      BY <1>1
  <2>2. \A j \in 1..Len(shorter) : shorter[j] \in {order[j], order[j + 1]}
      BY <1>1
  <2> QED BY <1>2, <2>1, <2>2 DEF ToSet
<1>5. ToSet(order) \ {order[i]} \subseteq ToSet(shorter)
    BY <1>2, <1>3 DEF ToSet
<1>6. ASSUME NEW a, NEW b, Before(order, a, b), a # order[i], b # order[i]
      PROVE  Before(shorter, a, b)
  <2>1. PICK j \in 1..Len(order), k \in 1..Len(order) : order[j] = a /\ order[k] = b /\ j < k
      BY <1>6 DEF Before
  <2>2. /\ place(j) \in 1..Len(shorter) /\ shorter[place(j)] = a
        /\ place(k) \in 1..Len(shorter) /\ shorter[place(k)] = b
      BY <1>3, <1>6, <2>1
  <2>3. place(j) < place(k)
      BY <1>6, <2>1
  <2> HIDE DEF place
  <2> QED BY <2>2, <2>3 DEF Before
<1>7. KnownPhases(shorter, graph)
    BY <1>5 DEF Sound, KnownPhases
<1>8. PhasesInOrder(shorter, graph)
  <2> SUFFICES ASSUME NEW t \in Present(graph), NEW d \in graph[t].depends \cap Present(graph),
                      {graph[t].phase, graph[d].phase} \subseteq ToSet(shorter)
               PROVE  Before(shorter, graph[d].phase, graph[t].phase)
      BY DEF PhasesInOrder
  <2>1. Before(order, graph[d].phase, graph[t].phase)
      BY <1>4 DEF Sound, PhasesInOrder
  <2> QED BY <1>6, <2>1
<1> QED BY <1>7, <1>8 DEF Sound, shorter

\* An operation that cuts out writes for the lock's holder leads to the graph it
\* has checked, when what it does not write is there already.
LEMMA BeginsToward ==
    ASSUME GraphInv, NEW w \in Writers, lock = w,
           NEW goal \in [Tasks -> Task \cup {NoTask}],
           Sound(phases, Without(goal, unchecked')),
           NEW changed \in SUBSET Tasks, NEW after \in SUBSET Tasks,
           \A t \in Tasks \ (changed \cup after) : goal[t] = tasks[t],
           Begins(Records(goal, changed), Records(goal, after))
    PROVE  GraphInv'
<1>1. UNCHANGED <<tasks, phases, faults, lock>> /\ lock # None
    BY PlanAssumption DEF Begins, plan
<1>2. first' = Records(goal, changed) /\ last' = Records(goal, after)
    BY DEF Begins
<1>3. Toward(goal)'
  <2>1. \A write \in first' \cup last' : write.to = goal[write.task]
      BY <1>2 DEF Records
  <2>2. ASSUME NEW t \in Tasks
        PROVE  tasks'[t] = goal[t] \/ \E write \in first' \cup last' : write.task = t
    <3>1. CASE t \in changed \cup after
      <4> DEFINE write == [task |-> t, to |-> goal[t]]
      <4>1. write \in first' \cup last' /\ write.task = t
          BY <1>2, <3>1 DEF Records
      <4> QED BY <4>1
    <3>2. CASE t \notin changed \cup after
        BY <1>1, <3>2
    <3> QED BY <3>1, <3>2
  <2> QED BY <2>1, <2>2 DEF Toward
<1>4. Sound(phases', Without(goal, unchecked'))
    BY <1>1
<1> QED BY <1>1, <1>3, <1>4 DEF GraphInv

\* The graph that is written, without what was asked for by URN, is the one that
\* was checked: nothing depends on a Task that was not there.
LEMMA AddTaskToward ==
    ASSUME IInv, GraphInv, NEW w \in Writers, NEW t \in Tasks, NEW record \in Task,
           NEW unblocks \in SUBSET Tasks, NEW byUrn \in SUBSET unblocks,
           AddTask(w, t, record, unblocks, byUrn)
    PROVE  GraphInv'
<1> DEFINE added == [tasks EXCEPT ![t] = record]
           written == Unblocked(added, unblocks, t)
           candidate == Unblocked(added, unblocks \ byUrn, t)
<1>1. /\ lock = w /\ t \notin Present(tasks) /\ unblocks \subseteq Present(tasks)
      /\ KnownDependencies(tasks)
      /\ Sound(phases, candidate)
      /\ Begins(Records(written, {t}), Records(written, unblocks))
      /\ unchecked' = {<<u, t>> : u \in byUrn}
    BY DEF AddTask, Editing, Loaded, Sound
<1>2. Extends(written, t, record, unblocks)
    BY <1>1, UnblockedTyped
<1>3. Without(written, unchecked') = candidate
  <2>1. added \in [Tasks -> Task \cup {NoTask}]
      BY DEF IInv, TasksTyped
  <2>2. \A u \in unblocks : added[u] \in Task /\ t \notin added[u].depends
      BY <1>1 DEF IInv, TasksTyped, Present, KnownDependencies
  <2> HIDE DEF added
  <2>3. ASSUME NEW u \in Tasks
        PROVE  [written[u] EXCEPT !.depends = {d \in @ : <<u, d>> \notin unchecked'}] = candidate[u]
    <3>1. CASE u \in byUrn
      <4>1. /\ written[u] = [added[u] EXCEPT !.depends = @ \cup {t}]
            /\ candidate[u] = added[u]
          BY <3>1 DEF Unblocked
      <4>2. added[u] \in Task /\ t \notin added[u].depends
          BY <2>2, <3>1
      <4>3. /\ written[u] = [story |-> added[u].story, phase |-> added[u].phase,
                             depends |-> added[u].depends \cup {t}, done |-> added[u].done]
            /\ added[u] = [story |-> added[u].story, phase |-> added[u].phase,
                           depends |-> added[u].depends, done |-> added[u].done]
          BY <4>1, <4>2 DEF Task
      <4>4. \A d : <<u, d>> \in unchecked' <=> d = t
          BY <1>1, <3>1
      <4>5. {d \in written[u].depends : <<u, d>> \notin unchecked'} = added[u].depends
          BY <4>2, <4>3, <4>4
      <4>6. [written[u] EXCEPT !.depends = {d \in @ : <<u, d>> \notin unchecked'}]
              = [written[u] EXCEPT !.depends = added[u].depends]
          BY <4>5
      <4>7. [written[u] EXCEPT !.depends = added[u].depends] = added[u]
          BY <4>3
      <4> QED BY <4>1, <4>6, <4>7
    <3>2. CASE u \notin byUrn
      <4>1. written[u] = candidate[u]
          BY <3>2 DEF Unblocked
      <4>2. \A d : <<u, d>> \notin unchecked'
          BY <1>1, <3>2
      <4>3. written[u] \in Task \/ written[u] = NoTask
          BY <1>2 DEF Extends
      <4>4. {d \in written[u].depends : <<u, d>> \notin unchecked'} = written[u].depends
          BY <4>2
      <4> HIDE DEF written, candidate
      <4>5. [written[u] EXCEPT !.depends = written[u].depends] = written[u]
          BY <4>3 DEF Task, NoTask
      <4> QED BY <4>1, <4>4, <4>5
    <3> QED BY <3>1, <3>2
  <2>4. candidate = [u \in Tasks |-> candidate[u]]
      BY DEF Unblocked
  <2> HIDE DEF written, candidate
  <2> QED BY <2>3, <2>4 DEF Without
<1>4. Sound(phases, Without(written, unchecked'))
    BY <1>1, <1>3
<1> HIDE DEF written, candidate
<1>5. /\ written \in [Tasks -> Task \cup {NoTask}]
      /\ \A u \in Tasks \ ({t} \cup unblocks) : written[u] = tasks[u]
    BY <1>2 DEF Extends
<1> QED BY <1>1, <1>4, <1>5, BeginsToward

LEMMA UpdateTaskToward ==
    ASSUME IInv, GraphInv, NEW w \in Writers, NEW t \in Tasks, NEW record \in Task,
           UpdateTask(w, t, record)
    PROVE  GraphInv'
<1> DEFINE candidate == [tasks EXCEPT ![t] = record]
<1>1. /\ lock = w /\ Sound(phases, candidate) /\ Begins(Records(candidate, {t}), {})
      /\ unchecked' = {}
    BY DEF UpdateTask, Editing, Loaded
<1>2. candidate \in [Tasks -> Task \cup {NoTask}]
    BY DEF IInv, TasksTyped
<1>3. \A u \in Tasks \ ({t} \cup {}) : candidate[u] = tasks[u]
    BY DEF IInv, TasksTyped
<1>4. Records(candidate, {}) = {}
    BY DEF Records
<1> HIDE DEF candidate
<1>5. Begins(Records(candidate, {t}), Records(candidate, {}))
    BY <1>1, <1>4
<1>6. Sound(phases, Without(candidate, unchecked'))
    BY <1>1, <1>2, WithoutNone
<1> QED BY <1>1, <1>2, <1>3, <1>5, <1>6, BeginsToward

LEMMA RemoveTaskToward ==
    ASSUME IInv, GraphInv, NEW w \in Writers, NEW t \in Tasks, RemoveTask(w, t)
    PROVE  GraphInv'
<1> DEFINE dependents == {u \in Present(tasks) : u # t /\ t \in tasks[u].depends}
           candidate == [u \in Tasks |->
              IF u = t THEN NoTask
              ELSE IF u \in dependents THEN [tasks[u] EXCEPT !.depends = @ \ {t}]
              ELSE tasks[u]]
<1>1. /\ lock = w /\ Sound(phases, candidate) /\ unchecked' = {}
      /\ Begins(Records(candidate, dependents), Records(candidate, {t}))
    BY DEF RemoveTask, Editing, Loaded
<1>2. dependents \subseteq Tasks
    BY DEF Present
<1>3. \A u \in dependents : tasks[u] \in Task
    BY DEF IInv, TasksTyped, Present
<1>4. candidate \in [Tasks -> Task \cup {NoTask}]
    BY <1>3, TaskEdited DEF IInv, TasksTyped
<1> HIDE DEF dependents
<1>5. \A u \in Tasks \ (dependents \cup {t}) : candidate[u] = tasks[u]
    OBVIOUS
<1> HIDE DEF candidate
<1>6. Sound(phases, Without(candidate, unchecked'))
    BY <1>1, <1>4, WithoutNone
<1> QED BY <1>1, <1>2, <1>4, <1>5, <1>6, BeginsToward

\* A write that is made takes the graph nearer to where the writes lead.
LEMMA WriteToward ==
    ASSUME IInv, GraphInv, NEW w \in Writers, NEW write \in first \cup last, Write(w, write)
    PROVE  GraphInv'
<1>1. /\ lock = w /\ lock' = w /\ lock' # None /\ UNCHANGED <<phases, unchecked, faults>>
      /\ tasks' = [tasks EXCEPT ![write.task] = write.to]
      /\ first' \cup last' \subseteq first \cup last
      /\ \A x \in first \cup last : x # write => x \in first' \cup last'
    BY PlanAssumption DEF Write
<1>2. ASSUME NEW goal \in [Tasks -> Task \cup {NoTask}], Toward(goal)
      PROVE  Toward(goal)'
  <2>1. \A x \in first' \cup last' : x.to = goal[x.task]
      BY <1>1, <1>2 DEF Toward
  <2>2. ASSUME NEW t \in Tasks
        PROVE  tasks'[t] = goal[t] \/ \E x \in first' \cup last' : x.task = t
    <3>1. CASE t = write.task
        BY <1>1, <1>2, <3>1 DEF Toward, IInv, TasksTyped
    <3>2. CASE t # write.task
      <4>1. tasks'[t] = tasks[t]
          BY <1>1, <3>2 DEF IInv, TasksTyped
      <4>2. tasks[t] = goal[t] \/ \E x \in first \cup last : x.task = t
          BY <1>2 DEF Toward
      <4> QED BY <1>1, <3>2, <4>1, <4>2
    <3> QED BY <3>1, <3>2
  <2> QED BY <2>1, <2>2 DEF Toward
<1> QED BY <1>1, <1>2 DEF GraphInv

\* A graph that is there, with nothing left to write.
LEMMA AtRest ==
    ASSUME IInv, first = {}, last = {}
    PROVE  /\ Toward(tasks) /\ tasks \in [Tasks -> Task \cup {NoTask}]
           /\ \A goal \in [Tasks -> Task \cup {NoTask}] : Toward(goal) => goal = tasks
<1>1. Toward(tasks) /\ tasks \in [Tasks -> Task \cup {NoTask}]
    BY DEF Toward, IInv, TasksTyped
<1>2. ASSUME NEW goal \in [Tasks -> Task \cup {NoTask}], Toward(goal)
      PROVE  goal = tasks
  <2>1. \A t \in Tasks : tasks[t] = goal[t]
      BY <1>2 DEF Toward
  <2> QED BY <1>1, <2>1
<1> QED BY <1>1, <1>2

LEMMA PlanWritesToward ==
    ASSUME IInv, GraphInv, NEW w \in Writers,
           \/ Create(w) \/ Deliver(w)
           \/ \E p \in Phases : AddPhase(w, p) \/ RemovePhase(w, p)
           \/ \E r \in Reviews : LinkReview(w, r)
           \/ \E x \in Prototypes : AddPrototype(w, x)
    PROVE  GraphInv'
<1>1. /\ UNCHANGED <<tasks, first, last, faults>> /\ first = {} /\ last = {}
      /\ Sound(phases, tasks) /\ phases \in Seq(Phases) /\ unchecked' = {}
    BY DEF Create, AddPhase, RemovePhase, LinkReview, AddPrototype, Deliver, Editing,
           Loaded, WritesPlan, others, GraphInv
<1>2. phases' \in Seq(Phases) /\ Sound(phases', tasks)
  <2>1. CASE UNCHANGED phases
      BY <1>1, <2>1
  <2>2. ASSUME NEW p \in Phases, AddPhase(w, p)
        PROVE  phases' \in Seq(Phases) /\ Sound(phases', tasks)
      BY <1>1, <2>2, SoundAppended DEF AddPhase
  <2>3. ASSUME NEW p \in Phases, RemovePhase(w, p)
        PROVE  phases' \in Seq(Phases) /\ Sound(phases', tasks)
    <3>1. PICK i \in 1..Len(phases) : phases[i] = p /\ phases' = RemoveAt(phases, i)
        BY <2>3 DEF RemovePhase
    <3>2. \A t \in Present(tasks) : tasks[t].phase # phases[i]
        BY <2>3, <3>1 DEF RemovePhase
    <3> QED BY <1>1, <3>1, <3>2, Removed, SoundRemoved
  <2>4. (\A p \in Phases : ~AddPhase(w, p) /\ ~RemovePhase(w, p)) => UNCHANGED phases
      BY DEF Create, LinkReview, AddPrototype, Deliver
  <2> QED BY <2>1, <2>2, <2>3, <2>4
<1>3. Toward(tasks)' /\ tasks' \in [Tasks -> Task \cup {NoTask}]
  <2>1. Toward(tasks) /\ tasks \in [Tasks -> Task \cup {NoTask}]
      BY <1>1, AtRest
  <2> QED BY <1>1, <2>1 DEF Toward
<1>4. Sound(phases', Without(tasks', unchecked'))
    BY <1>1, <1>2, <1>3, WithoutNone
<1> QED BY <1>1, <1>3, <1>2, <1>4 DEF GraphInv

\* A slide that names a Task has loaded the Saga too.
LEMMA NameToward ==
    ASSUME IInv, GraphInv, NEW w \in Writers, NEW t \in Tasks, Name(w, t)
    PROVE  GraphInv'
<1>1. /\ UNCHANGED <<tasks, phases, first, last, faults>> /\ first = {} /\ last = {}
      /\ Sound(phases, tasks) /\ unchecked' = {}
    BY DEF Name, Editing, Loaded, plan
<1>2. Toward(tasks) /\ tasks \in [Tasks -> Task \cup {NoTask}]
    BY <1>1, AtRest
<1>3. Toward(tasks)' /\ Sound(phases', Without(tasks', unchecked'))
    BY <1>1, <1>2, WithoutNone DEF Toward
<1> QED BY <1>1, <1>2, <1>3 DEF GraphInv

LEMMA OthersToward ==
    ASSUME IInv, GraphInv,
           \/ \E w \in Writers : Acquire(w) \/ Release(w)
           \/ \E r \in Reviews : Merge(r)
           \/ UNCHANGED vars
    PROVE  GraphInv'
<1>1. /\ UNCHANGED <<tasks, phases, first, last, unchecked, faults>>
      /\ lock' = None => first = {} /\ last = {}
    BY DEF Acquire, Release, Merge, vars, plan, others, GraphInv
<1>2. \A goal : Toward(goal) => Toward(goal)'
    BY <1>1 DEF Toward
<1> QED BY <1>1, <1>2 DEF GraphInv

LEMMA FaultsToward ==
    ASSUME IInv, GraphInv, NEW w \in Writers,
           Stop(w) \/ \E write \in first \cup last : Tear(w, write)
    PROVE  GraphInv'
<1>1. faults' = faults + 1 /\ UNCHANGED phases /\ first' = {} /\ last' = {}
    BY DEF Stop, Tear, plan
<1>2. faults' \in Nat /\ faults' # 0
    BY <1>1 DEF GraphInv
<1> QED BY <1>1, <1>2 DEF GraphInv

LEMMA GraphInit == Init => GraphInv
<1> SUFFICES ASSUME Init PROVE GraphInv
    OBVIOUS
<1>1. phases = <<>> /\ tasks = [t \in Tasks |-> NoTask] /\ first = {} /\ last = {} /\ faults = 0
    BY DEF Init
<1>2. Present(tasks) = {}
    BY <1>1 DEF Present
<1>3. Sound(phases, tasks)
  <2>1. KnownPhases(phases, tasks) /\ KnownDependencies(tasks) /\ PhasesInOrder(phases, tasks)
      BY <1>2 DEF KnownPhases, KnownDependencies, PhasesInOrder
  <2>2. Acyclic(tasks)
      BY <1>2 DEF Acyclic
  <2>3. LeadsToStory(tasks)
      BY <1>2 DEF LeadsToStory
  <2> QED BY <2>1, <2>2, <2>3 DEF Sound
<1>4. Toward(tasks) /\ tasks \in [Tasks -> Task \cup {NoTask}]
    BY <1>1, IInvInit, AtRest
<1>5. phases \in Seq(Phases)
    BY <1>1
<1>6. Sound(phases, Without(tasks, unchecked))
    BY <1>3, <1>4, WithoutNone DEF Init
<1> QED BY <1>1, <1>4, <1>5, <1>6 DEF GraphInv

LEMMA GraphStep == IInv /\ GraphInv /\ [Next]_vars => GraphInv'
<1> SUFFICES ASSUME IInv, GraphInv, [Next]_vars PROVE GraphInv'
    OBVIOUS
<1>1. CASE \E w \in Writers :
             \/ Create(w) \/ Deliver(w)
             \/ \E p \in Phases : AddPhase(w, p) \/ RemovePhase(w, p)
             \/ \E r \in Reviews : LinkReview(w, r)
             \/ \E x \in Prototypes : AddPrototype(w, x)
    BY <1>1, PlanWritesToward
<1>2. CASE \E w \in Writers, t \in Tasks, record \in Task :
             \E unblocks \in SUBSET (Tasks \ {t}) :
                \E byUrn \in SUBSET unblocks : AddTask(w, t, record, unblocks, byUrn)
    BY <1>2, AddTaskToward
<1>3. CASE \E w \in Writers, t \in Tasks, record \in Task : UpdateTask(w, t, record)
    BY <1>3, UpdateTaskToward
<1>4. CASE \E w \in Writers, t \in Tasks : RemoveTask(w, t)
    BY <1>4, RemoveTaskToward
<1>5. CASE \E w \in Writers : \E write \in first \cup last : Write(w, write)
    BY <1>5, WriteToward
<1>6. CASE \E w \in Writers : Stop(w) \/ \E write \in first \cup last : Tear(w, write)
    BY <1>6, FaultsToward
<1>7. CASE \/ \E w \in Writers : Acquire(w) \/ Release(w)
           \/ \E r \in Reviews : Merge(r)
           \/ UNCHANGED vars
    BY <1>7, OthersToward
<1>8. CASE \E w \in Writers, t \in Tasks : Name(w, t)
    BY <1>8, NameToward
<1> QED BY <1>1, <1>2, <1>3, <1>4, <1>5, <1>6, <1>7, <1>8 DEF Next

\* Until an operation stops short, what is there and what is left to write make a
\* graph the store would accept, but for dependencies that were asked for by URN
\* and that no operation has checked since; so the Plan is one, without these,
\* whenever nobody is writing.
THEOREM WritersKeepTheGraph == Spec => []GraphKeptByWriters
<1>1. IInv /\ GraphInv => GraphKeptByWriters
  <2> SUFFICES ASSUME IInv, GraphInv, faults = 0, lock = None
               PROVE  Sound(phases, Without(tasks, unchecked))
      BY DEF GraphKeptByWriters
  <2>1. PICK goal \in [Tasks -> Task \cup {NoTask}] :
            Sound(phases, Without(goal, unchecked)) /\ Toward(goal)
      BY DEF GraphInv
  <2>2. goal = tasks
      BY <2>1, AtRest DEF GraphInv
  <2> QED BY <2>1, <2>2
<1> QED BY <1>1, GraphInit, GraphStep, PlanInvariance, PTL DEF Spec

-----------------------------------------------------------------------------
(***************************************************************************)
(* The history the authors make (Landings).                                *)
(***************************************************************************)
\* What the base the authors push to names.
Upper == tips[Upstream]

\* The subjects and the commits there can be.
Numbered == {Number[r] : r \in Reviews} \cup {None}
Subjects == [number : Numbered, branch : Branches \cup {None}, squash : BOOLEAN]
CommitRecord ==
    [parents : Seq(Nat), tree : SUBSET (Reviews \cup Nat), subject : Subjects,
     past : SUBSET Nat, line : SUBSET Nat, on : Branches \cup Refs]
CommitsTyped == commits \in Seq(CommitRecord) /\ commits # <<>>

\* What a commit holds, and where it stands.
Shape(c) ==
    /\ Tree(c) \subseteq Reviews \cup (1..c)
    /\ Past(c) \subseteq 1..c
    /\ 1 \in Past(c) /\ c \in Past(c)
    /\ c \in Line(c) /\ Line(c) \subseteq Past(c)
    /\ commits[c].on \in Branches => c \in Tree(c)

\* A commit has one parent or two, and goes on the line of the first.
Descends(c) ==
    IF c = 1 THEN Parents(c) = <<>> /\ Tree(c) = {}
    ELSE /\ Len(Parents(c)) \in {1, 2}
         /\ \A i \in 1..Len(Parents(c)) : Parents(c)[i] \in Past(c) \ {c}
         /\ Line(c) = {c} \cup Line(Parents(c)[1])

\* Records stay, once they are there.
Ancestry(c) ==
    \A d \in Past(c) : Past(d) \subseteq Past(c) /\ Tree(d) \cap Reviews \subseteq Tree(c)

\* A commit's line holds the lines of the commits on it.
Lined(c) == \A d \in Line(c) : Line(d) = Line(c) \cap (1..d)

\* Only the base merges.
Aside(c) == Past(c) \ Line(c) \subseteq Past(Upper) \ {Upper}

\* The commit holds work of the branch.
Brings(c, b) == \E x \in Tree(c) \ Reviews : commits[x].on = b

\* A subject names a branch or a pull request whose work the commit brings, and on
\* one parent no branch, nor a pull request but as a squash.
Names(c) ==
    /\ Len(Parents(c)) < 2 =>
         /\ commits[c].subject.branch = None
         /\ commits[c].subject.number # None => commits[c].subject.squash
    /\ commits[c].subject.branch # None =>
         /\ commits[c].subject.branch \in Branches
         /\ commits[c].subject.branch \in alone => Brings(c, commits[c].subject.branch)
    /\ commits[c].subject.number # None =>
         \E b \in Branches : commits[c].subject.number \in Numbers(b) /\ (b \in alone => Brings(c, b))

CommitSound(c) ==
    Shape(c) /\ Descends(c) /\ Ancestry(c) /\ Lined(c) /\ Aside(c) /\ Names(c)
CommitsSound == \A c \in 1..Len(commits) : CommitSound(c)

\* What a branch that never began at another one names: nothing, a commit of the
\* base's line, or its own work.
TipOf(b) == tips[b] = 0 \/ tips[b] \in Line(Upper) \/ commits[tips[b]].on = b
TipsSound ==
    /\ tips \in [Branches \cup Refs -> 0..Len(commits)]
    /\ Upper # 0
    /\ tips["main"] \in {0} \cup Line(Upper)
    /\ alone \subseteq Branches
    /\ \A b \in alone : TipOf(b)

\* History only grows.
Grown ==
    /\ Len(commits) <= Len(commits')
    /\ \A c \in 1..Len(commits) : commits'[c] = commits[c]
    /\ alone' \subseteq alone
    /\ Past(Upper) \subseteq Past(Upper)'
    /\ Line(Upper) \subseteq Line(Upper)'

\* What holds of every history the authors make.
Made == CommitsTyped /\ CommitsSound /\ TipsSound

\* The refs of the base, which no review follows.
LEMMA RefNames ==
    /\ Refs = {"main", "origin/main"} /\ Upstream \in Refs /\ "main" \in Refs /\ Upstream # "main"
    /\ \A b \in Branches : b # Upstream /\ b # "main"
BY LandingsAssumption DEF Refs, BaseRefs, Upstream

\* A commit comes after those that are there, which stay as they are.
LEMMA Appended ==
    ASSUME CommitsTyped, NEW ref, NEW parents, NEW tree, NEW subject,
           Commit(ref, parents, tree, subject)
    PROVE  /\ Len(commits) \in Nat \ {0} /\ Len(commits') = Len(commits) + 1
           /\ \A c \in 1..Len(commits) : commits'[c] = commits[c]
           /\ commits'[Len(commits) + 1].parents = parents
           /\ commits'[Len(commits) + 1].tree = tree
           /\ commits'[Len(commits) + 1].subject = subject
           /\ \A d : d \in commits'[Len(commits) + 1].past <=>
                d = Len(commits) + 1 \/ \E i \in DOMAIN parents : d \in Past(parents[i])
           /\ commits'[Len(commits) + 1].line = {Len(commits) + 1} \cup Line(parents[1])
           /\ commits'[Len(commits) + 1].on = ref
           /\ tips' = [tips EXCEPT ![ref] = Len(commits) + 1]
<1> DEFINE rec == [parents |-> parents, tree |-> tree, subject |-> subject,
          past |-> {Len(commits) + 1} \cup UNION {Past(parents[i]) : i \in DOMAIN parents},
          line |-> {Len(commits) + 1} \cup Line(parents[1]), on |-> ref]
<1>1. commits' = Append(commits, rec) /\ tips' = [tips EXCEPT ![ref] = Len(commits) + 1]
    BY DEF Commit
<1>2. Len(commits) \in Nat \ {0}
    BY EmptySeq, LenProperties DEF CommitsTyped
<1>3. /\ Len(commits') = Len(commits) + 1 /\ \A c \in 1..Len(commits) : commits'[c] = commits[c]
      /\ commits'[Len(commits) + 1] = rec
    BY <1>1, <1>2 DEF CommitsTyped
<1> QED BY <1>1, <1>2, <1>3

\* A commit as Commit makes it, in the order of what is asked of it.
ParentsFit(ref, parents) ==
    /\ parents \in Seq(1..Len(commits)) /\ Len(parents) \in {1, 2}
    /\ parents[1] = tips[ref]
    /\ ref # Upstream => Len(parents) = 1
TreeFits(ref, parents, tree) ==
    /\ tree \subseteq Reviews \cup (1..(Len(commits) + 1))
    /\ ref # Upstream => Len(commits) + 1 \in tree
    /\ \A i \in 1..Len(parents) : Tree(parents[i]) \cap Reviews \subseteq tree
Holds(tree, b) == \E x \in (1..Len(commits)) \cap tree : commits[x].on = b
SubjectFits(parents, tree, subject) ==
    /\ subject \in Subjects
    /\ Len(parents) < 2 => subject.branch = None /\ (subject.number # None => subject.squash)
    /\ subject.branch # None =>
         subject.branch \in Branches /\ (subject.branch \in alone => Holds(tree, subject.branch))
    /\ subject.number # None =>
         \E b \in Branches : subject.number \in Numbers(b) /\ (b \in alone => Holds(tree, b))

\* The records that were there keep what they are, and all that is said of them.
LEMMA CommitStep ==
    ASSUME Made, NEW ref \in Branches \cup {Upstream}, NEW parents, NEW tree, NEW subject,
           Commit(ref, parents, tree, subject), alone' = alone,
           ParentsFit(ref, parents), TreeFits(ref, parents, tree),
           SubjectFits(parents, tree, subject)
    PROVE  Made' /\ Grown
<1> SUFFICES ASSUME NEW N, NEW new, N = Len(commits), new = Len(commits) + 1
             PROVE  Made' /\ Grown
    OBVIOUS
<1>0. N \in Nat \ {0} /\ new = N + 1 /\ Len(commits) = N /\ Len(commits') = new
    BY Appended DEF Made
<1>1. /\ \A c \in 1..N : commits'[c] = commits[c]
      /\ commits'[new].parents = parents
      /\ commits'[new].tree = tree
      /\ commits'[new].subject = subject
      /\ \A d : d \in commits'[new].past <=> d = new \/ \E i \in 1..Len(parents) : d \in Past(parents[i])
      /\ commits'[new].line = {new} \cup Line(parents[1])
      /\ commits'[new].on = ref
      /\ tips' = [tips EXCEPT ![ref] = new]
  <2>1. DOMAIN parents = 1..Len(parents)
      BY DEF ParentsFit
  <2> QED BY <2>1, Appended DEF Made
<1>2. /\ 1 \in 1..Len(parents) /\ \A i \in 1..Len(parents) : parents[i] \in 1..N
      /\ Len(parents) \in {1, 2} /\ parents[1] = tips[ref] /\ parents \in Seq(Nat)
      /\ ref # Upstream => Len(parents) = 1
    BY <1>0 DEF ParentsFit
<1>3. \A c \in 1..N : CommitSound(c)
    BY DEF Made, CommitsSound
<1>t. /\ tree \subseteq Reviews \cup (1..new) /\ (ref # Upstream => new \in tree)
      /\ \A i \in 1..Len(parents) : Tree(parents[i]) \cap Reviews \subseteq tree
    BY DEF TreeFits
<1>p. \A i \in 1..Len(parents) :
        /\ Past(parents[i]) \subseteq 1..N /\ 1 \in Past(parents[i]) /\ parents[i] \in Past(parents[i])
        /\ Line(parents[i]) \subseteq Past(parents[i])
    BY <1>2, <1>3 DEF CommitSound, Shape
<1>4. /\ \A i \in 1..Len(parents) : Past(parents[i]) \subseteq commits'[new].past
      /\ commits'[new].past \subseteq 1..new
      /\ \A d \in commits'[new].past \ {new} :
           d \in 1..N /\ \E i \in 1..Len(parents) : d \in Past(parents[i])
      /\ commits'[new].line \subseteq commits'[new].past
      /\ 1 \in commits'[new].past /\ new \in commits'[new].past
  <2>1. \A i \in 1..Len(parents) : Past(parents[i]) \subseteq commits'[new].past
      BY <1>1
  <2>2. ASSUME NEW d \in commits'[new].past, d # new
        PROVE  d \in 1..N /\ \E i \in 1..Len(parents) : d \in Past(parents[i])
    <3>1. PICK i \in 1..Len(parents) : d \in Past(parents[i])
        BY <1>1, <2>2
    <3> QED BY <1>p, <3>1
  <2>3. new \in commits'[new].past /\ 1 \in Past(parents[1])
      BY <1>1, <1>2, <1>p
  <2>4. commits'[new].past \subseteq 1..new
      BY <1>0, <2>2, <2>3
  <2>5. Line(parents[1]) \subseteq commits'[new].past
      BY <1>2, <1>p, <2>1
  <2> QED BY <1>1, <1>2, <2>1, <2>2, <2>3, <2>4, <2>5
<1>5. tips \in [Branches \cup Refs -> 0..N] /\ tips' \in [Branches \cup Refs -> 0..new] /\ ref \in Branches \cup Refs
    BY <1>0, <1>1, RefNames DEF Made, TipsSound
<1>6. Upper \in 1..N /\ Upper' = (IF ref = Upstream THEN new ELSE Upper) /\ (ref = Upstream => parents[1] = Upper)
    BY <1>0, <1>1, <1>2, <1>5, RefNames DEF Made, TipsSound, Upper
<1>7. Past(Upper) \subseteq Past(Upper)' /\ Line(Upper) \subseteq Line(Upper)'
  <2>1. CASE ref = Upstream
      BY <1>0, <1>1, <1>2, <1>4, <1>6, <2>1 DEF Past, Line
  <2>2. CASE ref # Upstream
      BY <1>0, <1>1, <1>6, <2>2 DEF Past, Line
  <2> QED BY <2>1, <2>2
<1>8. Grown
    BY <1>0, <1>1, <1>7 DEF Grown
<1>9. CommitsTyped'
  <2>2. commits'[new].past \subseteq Nat /\ commits'[new].line \subseteq Nat
      BY <1>0, <1>1, <1>4
  <2> DEFINE rec == [parents |-> parents, tree |-> tree, subject |-> subject,
          past |-> {Len(commits) + 1} \cup UNION {Past(parents[i]) : i \in DOMAIN parents},
          line |-> {Len(commits) + 1} \cup Line(parents[1]), on |-> ref]
  <2>0. commits' = Append(commits, rec)
      BY DEF Commit
  <2>1. commits'[new] = rec
      BY <1>0, <2>0 DEF Made, CommitsTyped
  <2>3. rec \in CommitRecord
    <3>1. rec.past \subseteq Nat /\ rec.line \subseteq Nat
        BY <2>1, <2>2
    <3>2. subject \in Subjects /\ tree \subseteq Reviews \cup Nat /\ ref \in Branches \cup Refs
        BY <1>0, <1>t, <1>5 DEF SubjectFits
    <3> QED BY <1>2, <3>1, <3>2 DEF CommitRecord
  <2> HIDE DEF rec
  <2> QED BY <2>0, <2>3 DEF Made, CommitsTyped
<1>10. ASSUME NEW c \in 1..N PROVE CommitSound(c)'
  <2>1. CommitSound(c) /\ commits'[c] = commits[c]
      BY <1>0, <1>1, <1>3
  <2>2. Past(c) \subseteq 1..N /\ Line(c) \subseteq Past(c) /\ Tree(c) \ Reviews \subseteq 1..N
      BY <1>0, <1>1, <2>1 DEF CommitSound, Shape
  <2>3. Shape(c)'
      BY <2>1 DEF CommitSound, Shape, Tree, Past, Line
  <2>4. Descends(c)'
    <3>1. CASE c = 1
        BY <2>1, <3>1 DEF CommitSound, Descends, Parents, Tree
    <3>2. CASE c # 1
      <4>1. /\ Len(Parents(c)) \in {1, 2} /\ Line(c) = {c} \cup Line(Parents(c)[1])
            /\ \A i \in 1..Len(Parents(c)) : Parents(c)[i] \in Past(c) \ {c}
          BY <2>1, <3>2 DEF CommitSound, Descends
      <4>2. Parents(c)[1] \in 1..N
          BY <2>2, <4>1
      <4> QED BY <1>0, <1>1, <2>1, <3>2, <4>1, <4>2 DEF Descends, Parents, Past, Line
    <3> QED BY <3>1, <3>2
  <2>5. Ancestry(c)'
      BY <1>0, <1>1, <2>1, <2>2 DEF CommitSound, Ancestry, Past, Tree
  <2>6. Lined(c)'
      BY <1>0, <1>1, <2>1, <2>2 DEF CommitSound, Lined, Line
  <2>7. Aside(c)'
    <3>1. Past(c) \ Line(c) \subseteq Past(Upper) \ {Upper}
        BY <2>1 DEF CommitSound, Aside
    <3>2. CASE ref = Upstream
        BY <1>0, <1>1, <1>6, <1>7, <2>1, <2>2, <3>1, <3>2 DEF Aside, Past, Line
    <3>3. CASE ref # Upstream
        BY <1>0, <1>1, <1>6, <1>7, <2>1, <2>2, <3>1, <3>3 DEF Aside, Past, Line
    <3> QED BY <3>2, <3>3
  <2>8. Names(c)'
    <3>1. ASSUME NEW b, Brings(c, b) PROVE Brings(c, b)'
        BY <1>0, <1>1, <2>1, <2>2, <3>1 DEF Brings, Tree
    <3>2. Names(c) /\ Parents(c)' = Parents(c) /\ commits'[c].subject = commits[c].subject
        BY <2>1 DEF CommitSound, Parents
    <3> QED BY <3>1, <3>2 DEF Names, Numbers
  <2> QED BY <2>3, <2>4, <2>5, <2>6, <2>7, <2>8 DEF CommitSound
<1>11. CommitSound(new)'
  <2>1. Shape(new)'
      BY <1>0, <1>1, <1>4, <1>t, RefNames DEF Shape, Tree, Past, Line
  <2>2. new # 1
      BY <1>0, <1>1
  <2>3. Descends(new)'
    <3>1. \A i \in 1..Len(parents) : parents[i] \in Past(parents[i])
        BY <1>2, <1>3 DEF CommitSound, Shape
    <3>2. \A i \in 1..Len(parents) : parents[i] \in commits'[new].past \ {new}
        BY <1>0, <1>1, <1>2, <1>4, <3>1
    <3>3. Line(parents[1])' = Line(parents[1])
        BY <1>0, <1>1, <1>2 DEF Line
    <3>4. Parents(new)' = parents
        BY <1>1 DEF Parents
    <3>5. Line(new)' = {new} \cup Line(parents[1])'
        BY <1>1, <3>3 DEF Line
    <3> QED BY <1>2, <2>2, <3>2, <3>4, <3>5 DEF Descends, Past
  <2>4. Ancestry(new)'
    <3>1. ASSUME NEW d \in commits'[new].past \ {new}
          PROVE  commits'[d].past \subseteq commits'[new].past /\ commits'[d].tree \cap Reviews \subseteq tree
      <4>1. PICK i \in 1..Len(parents) : d \in Past(parents[i])
          BY <1>0, <1>4
      <4>2. Past(d) \subseteq Past(parents[i]) /\ Tree(d) \cap Reviews \subseteq Tree(parents[i])
          BY <1>2, <1>3, <4>1 DEF CommitSound, Ancestry
      <4>3. commits'[d] = commits[d]
          BY <1>0, <1>1, <1>4
      <4>4. Past(parents[i]) \subseteq commits'[new].past
          BY <1>4
      <4>5. Tree(parents[i]) \cap Reviews \subseteq tree
          BY <1>t
      <4> QED BY <4>2, <4>3, <4>4, <4>5 DEF Past, Tree
    <3> QED BY <1>0, <1>1, <3>1 DEF Ancestry, Past, Tree
  <2>5. Lined(new)'
    <3>1. ASSUME NEW d \in Line(parents[1])
          PROVE  commits'[d].line = commits'[new].line \cap (1..d)
      <4>1. d \in 1..N /\ Line(d) = Line(parents[1]) \cap (1..d)
          BY <1>2, <1>3 DEF CommitSound, Shape, Lined
      <4> QED BY <1>0, <1>1, <4>1 DEF Line
    <3>2. commits'[new].line = commits'[new].line \cap (1..new)
        BY <1>0, <1>4
    <3> QED BY <1>0, <1>1, <3>1, <3>2 DEF Lined, Line
  <2>6. Aside(new)'
    <3>1. CASE ref = Upstream
        BY <1>0, <1>1, <1>6, <3>1 DEF Aside, Past, Line
    <3>2. CASE ref # Upstream
      <4>1. Past(parents[1]) \ Line(parents[1]) \subseteq Past(Upper) \ {Upper}
          BY <1>2, <1>3 DEF CommitSound, Aside
      <4>2. commits'[new].past = {new} \cup Past(parents[1])
        <5>1. Len(parents) = 1
            BY <1>2, <3>2
        <5>2. \A d : d \in commits'[new].past <=> d = new \/ d \in Past(parents[1])
          <6>1. 1..Len(parents) = {1}
              BY <5>1
          <6> QED BY <1>1, <6>1
        <5> QED BY <5>2
      <4>3. Past(Upper)' = Past(Upper) /\ Upper' = Upper
          BY <1>0, <1>1, <1>6, <3>2 DEF Past
      <4> QED BY <1>0, <1>1, <4>1, <4>2, <4>3 DEF Aside, Past, Line
    <3> QED BY <3>1, <3>2
  <2>7. Names(new)'
    <3>1. ASSUME NEW b, \E x \in (1..N) \cap tree : commits[x].on = b PROVE Brings(new, b)'
      <4>1. PICK x \in (1..N) \cap tree : commits[x].on = b
          BY <3>1
      <4>2. x \notin Reviews
          BY <1>0, <1>1, LandingsAssumption
      <4> QED BY <1>0, <1>1, <4>1, <4>2 DEF Brings, Tree
    <3>2. Parents(new)' = parents /\ commits'[new].subject = subject
        BY <1>0, <1>1 DEF Parents
    <3>3. SubjectFits(parents, tree, subject)
        OBVIOUS
    <3>4. \A b : Holds(tree, b) => Brings(new, b)'
        BY <1>0, <3>1 DEF Holds
    <3> QED BY <3>2, <3>3, <3>4 DEF Names, Numbers, SubjectFits
  <2> QED BY <2>1, <2>3, <2>4, <2>5, <2>6, <2>7 DEF CommitSound
<1>12. CommitsSound'
    BY <1>0, <1>1, <1>10, <1>11 DEF CommitsSound
<1>13. TipsSound'
  <2>1. tips'["main"] = tips["main"] /\ Upper' # 0
      BY <1>0, <1>1, <1>5, <1>6, RefNames
  <2>2. ASSUME NEW b \in alone PROVE TipOf(b)'
    <3>1. TipOf(b) /\ b \in Branches /\ b \in Branches \cup Refs /\ tips[b] \in 0..N
        BY <1>5 DEF Made, TipsSound
    <3>2. CASE b = ref
        BY <1>0, <1>1, <1>5, <3>2 DEF TipOf
    <3>3. CASE b # ref
      <4>1. tips'[b] = tips[b]
          BY <1>0, <1>1, <1>5, <3>1, <3>3
      <4>2. tips[b] # 0 => commits'[tips[b]] = commits[tips[b]]
          BY <1>0, <1>1, <3>1
      <4> QED BY <1>7, <3>1, <4>1, <4>2 DEF TipOf
    <3> QED BY <3>2, <3>3
  <2> QED BY <1>0, <1>1, <1>5, <1>7, <2>1, <2>2 DEF Made, TipsSound
<1> QED BY <1>8, <1>9, <1>12, <1>13 DEF Made

\* Moving branches to commits of the base, or the base ahead, keeps the history.
LEMMA TipMoves ==
    ASSUME Made, UNCHANGED commits,
           tips' \in [Branches \cup Refs -> 0..Len(commits)], Upper' # 0,
           alone' \subseteq alone,
           Upper' # Upper => Upper \in Past(Upper'),
           tips'["main"] \in {0, tips["main"], Upper'},
           \A b \in alone' : tips'[b] \in {0, tips[b], Upper}
    PROVE  Made' /\ Grown
<1>0. Len(commits) \in Nat \ {0}
    BY EmptySeq, LenProperties DEF Made, CommitsTyped
<1>1. tips \in [Branches \cup Refs -> 0..Len(commits)] /\ Upper \in 1..Len(commits) /\ Upper' \in 1..Len(commits)
    BY <1>0, RefNames DEF Made, TipsSound, Upper
<1>2. \A c \in 1..Len(commits) : CommitSound(c)
    BY DEF Made, CommitsSound
<1>3. Past(Upper) \subseteq Past(Upper') /\ Line(Upper) \subseteq Line(Upper') /\ (Upper' # Upper => Upper' \notin Past(Upper))
  <2> SUFFICES ASSUME Upper' # Upper
               PROVE  Past(Upper) \subseteq Past(Upper') /\ Line(Upper) \subseteq Line(Upper') /\ Upper' \notin Past(Upper)
      OBVIOUS
  <2> DEFINE U == Upper
             V == Upper'
  <2>1. /\ U \in Past(V) /\ Past(U) \subseteq Past(V) /\ U \in Past(U) /\ V \in Line(V)
        /\ Past(U) \subseteq 1..U /\ Past(V) \subseteq 1..V /\ U # V
      BY <1>1, <1>2 DEF CommitSound, Shape, Ancestry
  <2>2. V \notin Past(U)
      BY <1>1, <2>1
  <2>3. U \in Line(V)
      BY <1>1, <1>2, <2>1 DEF CommitSound, Aside
  <2>4. Line(U) \subseteq Line(V)
      BY <1>1, <1>2, <2>3 DEF CommitSound, Lined
  <2> QED BY <2>1, <2>2, <2>4
<1>4. Past(Upper') = Past(Upper)' /\ Line(Upper') = Line(Upper)'
    BY DEF Past, Line
<1>5. Grown
    BY <1>0, <1>3, <1>4 DEF Grown
<1>6. ASSUME NEW c \in 1..Len(commits) PROVE CommitSound(c)'
  <2>1. CommitSound(c)
      BY <1>2
  <2>2. Shape(c)' /\ Descends(c)' /\ Ancestry(c)' /\ Lined(c)'
      BY <2>1 DEF CommitSound, Shape, Descends, Ancestry, Lined, Tree, Past, Line, Parents
  <2>3. Aside(c)'
    <3>1. Past(c) \ Line(c) \subseteq Past(Upper) \ {Upper}
        BY <2>1 DEF CommitSound, Aside
    <3>2. Past(c) \ Line(c) \subseteq Past(Upper') \ {Upper'}
        BY <1>3, <3>1
    <3> QED BY <3>2 DEF Aside, Past, Line
  <2>4. Names(c)'
    <3>1. \A b : Brings(c, b)' <=> Brings(c, b)
        BY DEF Brings, Tree
    <3> QED BY <2>1, <3>1 DEF CommitSound, Names, Numbers, Parents
  <2> QED BY <2>2, <2>3, <2>4 DEF CommitSound
<1>7. TipsSound'
  <2>1. \A b \in alone' : TipOf(b)'
    <3> SUFFICES ASSUME NEW b \in alone' PROVE TipOf(b)'
        OBVIOUS
    <3>1. TipOf(b) /\ Upper \in Line(Upper)
        BY <1>1, <1>2 DEF Made, TipsSound, CommitSound, Shape
    <3> QED BY <1>3, <1>4, <3>1 DEF TipOf
  <2>2. tips["main"] \in {0} \cup Line(Upper) /\ Upper' \in Line(Upper')
      BY <1>1, <1>2 DEF Made, TipsSound, CommitSound, Shape
  <2>3. tips'["main"] \in {0} \cup Line(Upper)'
      BY <1>3, <1>4, <2>2
  <2> QED BY <2>1, <2>3 DEF Made, TipsSound
<1> QED BY <1>5, <1>6, <1>7 DEF Made, CommitsTyped, CommitsSound

\* Of some numbers one is the smallest.
LEMMA SmallestOf ==
    ASSUME NEW S, S \subseteq Nat, S # {}
    PROVE  \E m \in S : \A k \in S : m <= k
<1> DEFINE R == OpToRel(<, Nat)
<1>1. IsWellFoundedOn(R, Nat)
    BY NatLessThanWellFounded
<1>2. PICK m \in S : \A k \in S : ~ (<<k, m>> \in R)
    <2> HIDE DEF R
    <2> QED BY <1>1, WFMin
<1>3. \A k \in S : ~ (k < m)
    BY <1>2 DEF OpToRel
<1> QED BY <1>3

\* Of some numbers up to n one is the largest.
LEMMA LargestOf ==
    ASSUME NEW n \in Nat, NEW S, S \subseteq 1..n, S # {}
    PROVE  Max(S) \in S /\ \A k \in S : k <= Max(S)
<1> DEFINE T == {n - k : k \in S}
<1>0. \A k \in S : k \in 1..n /\ n - k \in Nat
    OBVIOUS
<1>1. T \subseteq Nat /\ T # {}
    BY <1>0
<1>2. PICK m \in T : \A k \in T : m <= k
    <2> HIDE DEF T
    <2> QED BY <1>1, SmallestOf
<1>3. PICK x \in S : m = n - x
    OBVIOUS
<1>4. \A k \in S : x >= k
  <2> SUFFICES ASSUME NEW k \in S PROVE x >= k
      OBVIOUS
  <2>1. n - x <= n - k
      BY <1>2, <1>3
  <2> QED BY <1>0, <2>1
<1> HIDE DEF T
<1>5. Max(S) \in S /\ \A k \in S : Max(S) >= k
    BY <1>4 DEF Max
<1> QED BY <1>5

\* Where two commits' histories part.
LEMMA MergeBaseOf ==
    ASSUME Made, NEW c \in 1..Len(commits), NEW d \in 1..Len(commits)
    PROVE  /\ MergeBase(c, d) \in Past(c) \cap Past(d)
           /\ \A e \in Past(c) \cap Past(d) : e <= MergeBase(c, d)
<1>1. Past(c) \subseteq 1..Len(commits) /\ 1 \in Past(c) /\ 1 \in Past(d) /\ Len(commits) \in Nat
  <2>1. Shape(c) /\ Shape(d) /\ Len(commits) \in Nat
      BY LenProperties DEF Made, CommitsTyped, CommitsSound, CommitSound
  <2> QED BY <2>1 DEF Shape
<1> DEFINE S == Past(c) \cap Past(d)
<1>2. S \subseteq 1..Len(commits) /\ S # {}
    BY <1>1
<1>3. MergeBase(c, d) = Max(S)
    BY DEF MergeBase
<1> HIDE DEF S
<1>4. Max(S) \in S /\ \A k \in S : k <= Max(S)
    BY <1>1, <1>2, LargestOf
<1> QED BY <1>3, <1>4 DEF S

\* Records on either side are in the merge; work of the other's side comes with it.
LEMMA MergeHolds ==
    ASSUME Made, NEW c \in 1..Len(commits), NEW d \in 1..Len(commits)
    PROVE  /\ Merged(c, d) \subseteq Tree(c) \cup Tree(d)
           /\ (Tree(c) \cup Tree(d)) \cap Reviews \subseteq Merged(c, d)
           /\ d \notin Past(c) /\ d \in Tree(d) => d \in Merged(c, d)
<1> DEFINE m == MergeBase(c, d)
<1>1. m \in Past(c) \cap Past(d)
    BY MergeBaseOf
<1>2. Tree(m) \cap Reviews \subseteq Tree(c) /\ Tree(m) \cap Reviews \subseteq Tree(d)
    BY <1>1 DEF Made, CommitsSound, CommitSound, Ancestry
<1>3. m \in 1..d /\ m \in 1..c /\ m \in 1..Len(commits)
  <2>1. Past(d) \subseteq 1..d /\ Past(c) \subseteq 1..c
      BY DEF Made, CommitsSound, CommitSound, Shape
  <2> QED BY <1>1, <2>1
<1>4. d \notin Past(c) => d \notin Tree(m)
  <2>1. Tree(m) \subseteq Reviews \cup (1..m)
      BY <1>3 DEF Made, CommitsSound, CommitSound, Shape
  <2>2. d \notin Reviews
      BY LandingsAssumption
  <2> QED BY <1>1, <1>3, <2>1, <2>2
<1> HIDE DEF m
<1>5. Merged(c, d) = {x \in Tree(c) \cup Tree(d) :
       IF (x \in Tree(c)) = (x \in Tree(m)) THEN x \in Tree(d) ELSE x \in Tree(c)}
    BY DEF Merged, m
<1> QED BY <1>2, <1>4, <1>5

\* What a ref names, and what it holds.
LEMMA TipTyped ==
    ASSUME Made, NEW ref \in Branches \cup {Upstream}, tips[ref] # 0
    PROVE  /\ Len(commits) \in Nat \ {0} /\ tips[ref] \in 1..Len(commits)
           /\ ref # Upstream <=> ref \in Branches
           /\ Tree(tips[ref]) \subseteq Reviews \cup (1..Len(commits))
           /\ tips[Upstream] \in 1..Len(commits)
           /\ Tree(tips[Upstream]) \subseteq Reviews \cup (1..Len(commits))
<1>1. Len(commits) \in Nat \ {0}
    BY EmptySeq, LenProperties DEF Made, CommitsTyped
<1>2. tips[ref] \in 1..Len(commits) /\ tips[Upstream] \in 1..Len(commits)
    BY <1>1, RefNames DEF Made, TipsSound, Upper
<1>3. \A c \in 1..Len(commits) : Tree(c) \subseteq Reviews \cup (1..c)
    BY DEF Made, CommitsSound, CommitSound, Shape
<1>4. Tree(tips[ref]) \subseteq Reviews \cup (1..tips[ref]) /\ Tree(tips[Upstream]) \subseteq Reviews \cup (1..tips[Upstream])
    BY <1>2, <1>3
<1> QED BY <1>1, <1>2, <1>4, RefNames

\* One commit on a ref that says nothing of a review.
LEMMA PlainCommit ==
    ASSUME Made, NEW ref \in Branches \cup {Upstream}, tips[ref] # 0, NEW tree,
           Commit(ref, <<tips[ref]>>, tree, NoSubject), UNCHANGED alone,
           tree \subseteq Reviews \cup (1..(Len(commits) + 1)),
           ref # Upstream => Len(commits) + 1 \in tree,
           Tree(tips[ref]) \cap Reviews \subseteq tree
    PROVE  Made' /\ Grown
<1>0. tips[ref] \in 1..Len(commits)
    BY TipTyped
<1>1. SUFFICES ASSUME NEW t, t = tips[ref], Commit(ref, <<t>>, tree, NoSubject)
               PROVE  Made' /\ Grown
    OBVIOUS
<1>2. ParentsFit(ref, <<t>>)
    BY <1>0, <1>1 DEF ParentsFit
<1>3. TreeFits(ref, <<t>>, tree)
    BY <1>1 DEF TreeFits
<1>4. SubjectFits(<<t>>, tree, NoSubject)
    BY DEF SubjectFits, NoSubject, Subjects, Numbered
<1> QED BY <1>1, <1>2, <1>3, <1>4, CommitStep

\* Each of the authors' steps makes such a history: work on a branch, ...
LEMMA WorkMade ==
    ASSUME Made, NEW r \in Reviews, Work(r)
    PROVE  Made' /\ Grown
<1> DEFINE b == Follows[r]
<1>1. b \in Branches /\ tips[b] # 0 /\ UNCHANGED alone
    BY LandingsAssumption DEF Work
<1>2. PICK with \in SUBSET ({r} \ Created) :
        Commit(b, <<tips[b]>>, Tree(tips[b]) \cup {Len(commits) + 1} \cup with, NoSubject)
    BY DEF Work
<1> HIDE DEF b
<1>3. SUFFICES ASSUME NEW tree, tree = Tree(tips[b]) \cup {Len(commits) + 1} \cup with,
                      Commit(b, <<tips[b]>>, tree, NoSubject)
               PROVE  Made' /\ Grown
    BY <1>2
<1>4. tree \subseteq Reviews \cup (1..(Len(commits) + 1)) /\ Len(commits) + 1 \in tree
    BY <1>1, <1>3, TipTyped
<1>5. Tree(tips[b]) \cap Reviews \subseteq tree
    BY <1>3
<1> QED BY <1>1, <1>3, <1>4, <1>5, PlainCommit

\* ... a record ahead of its change, ...
LEMMA RecordAheadMade ==
    ASSUME Made, NEW r \in Reviews, RecordAhead(r)
    PROVE  Made' /\ Grown
<1>1. PICK ref \in {Upstream} \cup (Branches \ {Follows[r]}) :
         /\ tips[ref] # 0
         /\ Commit(ref, <<tips[ref]>>, Tree(tips[ref]) \cup {r, Len(commits) + 1}, NoSubject)
    BY DEF RecordAhead
<1>2. UNCHANGED alone /\ ref \in Branches \cup {Upstream}
    BY DEF RecordAhead
<1>3. SUFFICES ASSUME NEW tree, tree = Tree(tips[ref]) \cup {r, Len(commits) + 1},
                      Commit(ref, <<tips[ref]>>, tree, NoSubject)
               PROVE  Made' /\ Grown
    BY <1>1
<1>4. tree \subseteq Reviews \cup (1..(Len(commits) + 1)) /\ Len(commits) + 1 \in tree
    BY <1>1, <1>2, <1>3, TipTyped
<1>5. Tree(tips[ref]) \cap Reviews \subseteq tree
    BY <1>3
<1> QED BY <1>1, <1>2, <1>3, <1>4, <1>5, PlainCommit

\* ... other work on the base, ...
LEMMA BaseMovesMade ==
    ASSUME Made, BaseMoves
    PROVE  Made' /\ Grown
<1>0. tips[Upstream] # 0 /\ UNCHANGED alone
    BY DEF Made, TipsSound, Upper, BaseMoves
<1>1. ASSUME Commit(Upstream, <<tips[Upstream]>>, Tree(tips[Upstream]) \cup {Len(commits) + 1}, NoSubject)
      PROVE  Made' /\ Grown
  <2>1. SUFFICES ASSUME NEW tree, tree = Tree(tips[Upstream]) \cup {Len(commits) + 1},
                        Commit(Upstream, <<tips[Upstream]>>, tree, NoSubject)
                 PROVE  Made' /\ Grown
      BY <1>1
  <2>2. tree \subseteq Reviews \cup (1..(Len(commits) + 1)) /\ Tree(tips[Upstream]) \cap Reviews \subseteq tree
      BY <1>0, <2>1, TipTyped
  <2> QED BY <1>0, <2>1, <2>2, PlainCommit
<1>2. ASSUME NEW x \in Tree(tips[Upstream]) \ Reviews,
             Commit(Upstream, <<tips[Upstream]>>, Tree(tips[Upstream]) \ {x}, NoSubject)
      PROVE  Made' /\ Grown
  <2>1. SUFFICES ASSUME NEW tree, tree = Tree(tips[Upstream]) \ {x},
                        Commit(Upstream, <<tips[Upstream]>>, tree, NoSubject)
                 PROVE  Made' /\ Grown
      BY <1>2
  <2>2. tree \subseteq Reviews \cup (1..(Len(commits) + 1)) /\ Tree(tips[Upstream]) \cap Reviews \subseteq tree
      BY <1>0, <1>2, <2>1, TipTyped
  <2> QED BY <1>0, <2>1, <2>2, PlainCommit
<1> QED BY <1>1, <1>2 DEF BaseMoves

\* What a branch brings by being merged or squashed.
LEMMA MergeBrings ==
    ASSUME Made, NEW b \in Branches, tips[b] # 0, tips[b] \notin Past(tips[Upstream])
    PROVE  /\ tips[b] \in 1..Len(commits) /\ tips[Upstream] \in 1..Len(commits)
           /\ Merged(tips[Upstream], tips[b]) \subseteq Reviews \cup (1..(Len(commits) + 1))
           /\ (Tree(tips[Upstream]) \cup Tree(tips[b])) \cap Reviews \subseteq Merged(tips[Upstream], tips[b])
           /\ b \in alone => Holds(Merged(tips[Upstream], tips[b]), b)
<1> DEFINE t == tips[b]
           U == tips[Upstream]
<1>1. /\ t \in 1..Len(commits) /\ U \in 1..Len(commits) /\ Len(commits) \in Nat
      /\ Tree(t) \subseteq Reviews \cup (1..Len(commits))
      /\ Tree(U) \subseteq Reviews \cup (1..Len(commits))
    BY TipTyped
<1>2. Merged(U, t) \subseteq Tree(U) \cup Tree(t)
    BY <1>1, MergeHolds
<1>3. (Tree(U) \cup Tree(t)) \cap Reviews \subseteq Merged(U, t)
    BY <1>1, MergeHolds
<1>4. t \in Tree(t) => t \in Merged(U, t)
    BY <1>1, MergeHolds
<1>5. ASSUME b \in alone PROVE Holds(Merged(U, t), b)
  <2>1. Line(U) \subseteq Past(U)
      BY <1>1 DEF Made, CommitsSound, CommitSound, Shape
  <2>2. commits[t].on = b
      BY <1>1, <1>5, <2>1 DEF Made, TipsSound, TipOf, Upper
  <2>3. t \in Tree(t)
      BY <1>1, <2>2 DEF Made, CommitsSound, CommitSound, Shape
  <2> QED BY <1>1, <1>4, <2>2, <2>3 DEF Holds
<1> QED BY <1>1, <1>2, <1>3, <1>5

\* A subject of the branch's own numbers is of what the merge brings.
LEMMA SubjectOfBranch ==
    ASSUME NEW b \in Branches, NEW tree, b \in alone => Holds(tree, b),
           NEW parents, Len(parents) \in {1, 2}, NEW subject,
           subject \in [number : Numbers(b) \cup {None}, branch : {None, b}, squash : BOOLEAN],
           Len(parents) < 2 => subject.branch = None /\ (subject.number # None => subject.squash)
    PROVE  SubjectFits(parents, tree, subject)
<1>1. subject.number \in Numbered
    BY DEF Numbers, Numbered
<1>2. subject \in Subjects
    BY <1>1 DEF Subjects
<1> QED BY <1>2 DEF SubjectFits

\* ... a merge, ...
LEMMA MergeMade ==
    ASSUME Made, NEW b \in Branches, MergeBranch(b)
    PROVE  Made' /\ Grown
<1>1. tips[b] # 0 /\ tips[b] \notin Past(tips[Upstream]) /\ UNCHANGED alone
    BY DEF MergeBranch
<1>2. PICK subject \in {NoSubject} \cup [number : Numbers(b) \cup {None}, branch : {b}, squash : {FALSE}] :
        Commit(Upstream, <<tips[Upstream], tips[b]>>, Merged(tips[Upstream], tips[b]), subject)
    BY DEF MergeBranch
<1>3. SUFFICES ASSUME NEW u, u = tips[Upstream], NEW t, t = tips[b],
                      NEW tree, tree = Merged(tips[Upstream], tips[b]),
                      Commit(Upstream, <<u, t>>, tree, subject)
               PROVE  Made' /\ Grown
    BY <1>2
<1>4. /\ t \in 1..Len(commits) /\ u \in 1..Len(commits)
      /\ tree \subseteq Reviews \cup (1..(Len(commits) + 1))
      /\ (Tree(u) \cup Tree(t)) \cap Reviews \subseteq tree
      /\ b \in alone => Holds(tree, b)
    BY <1>1, <1>3, MergeBrings
<1>5. ParentsFit(Upstream, <<u, t>>)
    BY <1>3, <1>4 DEF ParentsFit
<1>6. TreeFits(Upstream, <<u, t>>, tree)
  <2>1. \A i \in 1..2 : i = 1 \/ i = 2
      OBVIOUS
  <2> QED BY <1>4, <2>1 DEF TreeFits
<1>7. SubjectFits(<<u, t>>, tree, subject)
  <2>1. subject \in [number : Numbers(b) \cup {None}, branch : {None, b}, squash : BOOLEAN]
    <3>1. CASE subject = NoSubject
        BY <3>1 DEF NoSubject
    <3>2. CASE subject # NoSubject
        BY <3>2
    <3> QED BY <3>1, <3>2
  <2> DEFINE both == <<u, t>>
  <2>2. Len(both) \in {1, 2} /\ ~(Len(both) < 2)
      OBVIOUS
  <2> HIDE DEF both
  <2>3. SubjectFits(both, tree, subject)
      BY <1>4, <2>1, <2>2, SubjectOfBranch
  <2> QED BY <2>3 DEF both
<1> QED BY <1>1, <1>3, <1>5, <1>6, <1>7, CommitStep

\* ... a squash, ...
LEMMA SquashMade ==
    ASSUME Made, NEW b \in Branches, Squash(b)
    PROVE  Made' /\ Grown
<1>1. tips[b] # 0 /\ tips[b] \notin Past(tips[Upstream]) /\ UNCHANGED alone
    BY DEF Squash
<1>2. PICK subject \in {NoSubject} \cup [number : Numbers(b) \ {None}, branch : {None}, squash : {TRUE}] :
        Commit(Upstream, <<tips[Upstream]>>, Merged(tips[Upstream], tips[b]), subject)
    BY DEF Squash
<1>3. SUFFICES ASSUME NEW u, u = tips[Upstream], NEW t, t = tips[b],
                      NEW tree, tree = Merged(tips[Upstream], tips[b]),
                      Commit(Upstream, <<u>>, tree, subject)
               PROVE  Made' /\ Grown
    BY <1>2
<1>4. /\ u \in 1..Len(commits)
      /\ tree \subseteq Reviews \cup (1..(Len(commits) + 1))
      /\ (Tree(u) \cup Tree(t)) \cap Reviews \subseteq tree
      /\ b \in alone => Holds(tree, b)
    BY <1>1, <1>3, MergeBrings
<1>5. ParentsFit(Upstream, <<u>>)
    BY <1>3, <1>4 DEF ParentsFit
<1>6. TreeFits(Upstream, <<u>>, tree)
    BY <1>4 DEF TreeFits
<1>7. SubjectFits(<<u>>, tree, subject)
  <2>1. /\ subject \in [number : Numbers(b) \cup {None}, branch : {None, b}, squash : BOOLEAN]
        /\ subject.branch = None /\ (subject.number # None => subject.squash)
    <3>1. CASE subject = NoSubject
        BY <3>1 DEF NoSubject
    <3>2. CASE subject # NoSubject
        BY <3>2
    <3> QED BY <3>1, <3>2
  <2>2. Len(<<u>>) = 1
      OBVIOUS
  <2> QED BY <1>4, <2>1, <2>2, SubjectOfBranch
<1> QED BY <1>1, <1>3, <1>5, <1>6, <1>7, CommitStep

\* ... and what moves a branch or the base and commits nothing.
LEMMA BranchMade ==
    ASSUME Made, NEW b \in Branches, Branch(b)
    PROVE  Made' /\ Grown
<1>1. PICK ref \in {Upstream} \cup (Branches \ {b}) :
         /\ tips[ref] \notin {0, tips[b]}
         /\ tips' = [tips EXCEPT ![b] = tips[ref]]
         /\ alone' = IF ref = Upstream THEN alone ELSE alone \ {b}
    BY DEF Branch
<1>2. UNCHANGED commits
    BY DEF Branch
<1>3. tips \in [Branches \cup Refs -> 0..Len(commits)] /\ Upper # 0
    BY DEF Made, TipsSound
<1>4. Upper' = Upper /\ tips'["main"] = tips["main"] /\ tips' \in [Branches \cup Refs -> 0..Len(commits)]
    BY <1>1, <1>3, RefNames DEF Upper
<1>5. \A a \in alone' : tips'[a] \in {0, tips[a], Upper}
    BY <1>1, <1>3 DEF Upper, Made, TipsSound
<1> QED BY <1>1, <1>2, <1>3, <1>4, <1>5, TipMoves

LEMMA DeleteMade ==
    ASSUME Made, NEW b \in Branches, Delete(b)
    PROVE  Made' /\ Grown
<1>1. tips' = [tips EXCEPT ![b] = 0] /\ UNCHANGED <<commits, alone>>
    BY DEF Delete
<1>3. Len(commits) \in Nat /\ tips \in [Branches \cup Refs -> 0..Len(commits)] /\ Upper # 0
    BY LenProperties DEF Made, TipsSound, CommitsTyped
<1>4. Upper' = Upper /\ tips'["main"] = tips["main"] /\ tips' \in [Branches \cup Refs -> 0..Len(commits)]
    BY <1>1, <1>3, RefNames DEF Upper
<1>5. \A a \in alone' : tips'[a] \in {0, tips[a], Upper}
    BY <1>1, <1>3 DEF Made, TipsSound
<1> QED BY <1>1, <1>3, <1>4, <1>5, TipMoves

LEMMA FastForwardMade ==
    ASSUME Made, NEW b \in Branches, FastForward(b)
    PROVE  Made' /\ Grown
<1>1. /\ tips' = [tips EXCEPT ![Upstream] = tips[b]] /\ UNCHANGED <<commits, alone>>
      /\ tips[b] # 0 /\ tips[Upstream] \in Past(tips[b])
    BY DEF FastForward
<1>3. tips \in [Branches \cup Refs -> 0..Len(commits)]
    BY DEF Made, TipsSound
<1>4. /\ Upper' = tips[b] /\ tips'["main"] = tips["main"]
      /\ tips' \in [Branches \cup Refs -> 0..Len(commits)]
    BY <1>1, <1>3, RefNames DEF Upper
<1>5. \A a \in alone' : tips'[a] = tips[a]
    BY <1>1, <1>3, RefNames DEF Made, TipsSound
<1> QED BY <1>1, <1>4, <1>5, TipMoves DEF Upper

LEMMA PullMade ==
    ASSUME Made, Pull
    PROVE  Made' /\ Grown
<1>1. tips' = [tips EXCEPT !["main"] = tips[Upstream]] /\ UNCHANGED <<commits, alone>>
    BY DEF Pull
<1>3. tips \in [Branches \cup Refs -> 0..Len(commits)] /\ Upper # 0
    BY DEF Made, TipsSound
<1>4. /\ Upper' = Upper /\ tips'["main"] = Upper
      /\ tips' \in [Branches \cup Refs -> 0..Len(commits)]
    BY <1>1, <1>3, RefNames DEF Upper
<1>5. \A a \in alone' : tips'[a] = tips[a]
    BY <1>1, <1>3, RefNames DEF Made, TipsSound
<1> QED BY <1>1, <1>3, <1>4, <1>5, TipMoves

\* What the authors may do.
AuthorStep ==
    \/ BaseMoves \/ Pull
    \/ \E r \in Reviews : Work(r) \/ RecordAhead(r)
    \/ \E b \in Branches : Branch(b) \/ Delete(b) \/ MergeBranch(b) \/ Squash(b) \/ FastForward(b)

\* All of them together; none touches a ledger.
LEMMA AuthorsMake ==
    ASSUME Made, AuthorStep
    PROVE  Made' /\ Grown /\ UNCHANGED <<file, process>> /\ report' = None
<1>1. Authored
    BY DEF AuthorStep, BaseMoves, Pull, Work, RecordAhead, Branch, Delete, MergeBranch, Squash, FastForward
<1>2. Made' /\ Grown
    BY WorkMade, RecordAheadMade, BaseMovesMade, MergeMade, SquashMade, BranchMade, DeleteMade,
       FastForwardMade, PullMade DEF AuthorStep
<1> QED BY <1>1, <1>2 DEF Authored

\* An entry: a merge of a commit of the base, and of a review that had begun.
EntrySound(r, e) ==
    e # None =>
        /\ e.base \in Past(Upper)
        /\ r \in Tree(e.base)
        /\ e.sure => (OwnBranch(r) /\ EveryCommitAdds => Began(r))

\* An entry that is sound stays so while the history grows.
LEMMA EntryStays ==
    ASSUME Made, Made', Grown, NEW r \in Reviews, NEW e, EntrySound(r, e)
    PROVE  EntrySound(r, e)'
<1>0. /\ Len(commits) \in Nat /\ Upper \in 1..Len(commits)
      /\ \A c \in 1..Len(commits) : CommitSound(c) /\ commits'[c] = commits[c]
    BY TipTyped, RefNames DEF Made, CommitsSound, Grown, TipsSound, Upper
<1>1. SUFFICES ASSUME e # None PROVE EntrySound(r, e)'
    BY DEF EntrySound
<1>2. e.base \in Past(Upper)' /\ r \in Tree(e.base)'
  <2>1. e.base \in Past(Upper) /\ r \in Tree(e.base)
      BY <1>1 DEF EntrySound
  <2>2. e.base \in 1..Len(commits)
      BY <1>0, <2>1 DEF CommitSound, Shape
  <2> QED BY <1>0, <2>1, <2>2 DEF Grown, Tree
<1>3. OwnBranch(r)' => OwnBranch(r)
    BY DEF OwnBranch, Grown
<1>4. EveryCommitAdds' => EveryCommitAdds
  <2> SUFFICES ASSUME EveryCommitAdds', NEW c \in Line(Upper) \ {1}
               PROVE  Tree(Parents(c)[1]) # Tree(c) /\ Tree(Parents(c)[1]) \subseteq Tree(c)
      BY DEF EveryCommitAdds, Upper
  <2>1. c \in 1..Len(commits) /\ c \in Line(Upper)'
      BY <1>0 DEF CommitSound, Shape, Grown
  <2>2. Tree(Parents(c)[1])' # Tree(c)' /\ Tree(Parents(c)[1])' \subseteq Tree(c)'
      BY <2>1 DEF EveryCommitAdds, Upper
  <2>3. Parents(c)[1] \in 1..Len(commits)
    <3>1. Descends(c) /\ Past(c) \subseteq 1..c
        BY <1>0, <2>1 DEF CommitSound, Shape
    <3>2. Parents(c)[1] \in Past(c)
        BY <3>1 DEF Descends
    <3> QED BY <1>0, <2>1, <3>1, <3>2
  <2>4. Parents(c)' = Parents(c) /\ Tree(c)' = Tree(c)
      BY <1>0, <2>1 DEF Parents, Tree
  <2>5. Tree(Parents(c)[1])' = Tree(Parents(c)[1])
      BY <1>0, <2>3, <2>4 DEF Tree
  <2> QED BY <2>2, <2>4, <2>5
<1>5. Began(r) => Began(r)'
  <2> SUFFICES ASSUME NEW c \in Past(Upper), NEW x \in Tree(c) \ Reviews, commits[x].on = Follows[r]
               PROVE  Began(r)'
      BY DEF Began, Upper
  <2>1. c \in 1..Len(commits) /\ c \in Past(Upper)'
      BY <1>0 DEF CommitSound, Shape, Grown
  <2>2. x \in 1..Len(commits)
      BY <1>0, <2>1 DEF CommitSound, Shape
  <2>3. x \in Tree(c)' \ Reviews /\ commits'[x].on = Follows[r]
      BY <1>0, <2>1, <2>2 DEF Tree
  <2> QED BY <2>1, <2>3 DEF Began, Upper
<1>6. EntrySound(r, e)
    OBVIOUS
<1> QED BY <1>1, <1>2, <1>3, <1>4, <1>5, <1>6 DEF EntrySound

\* Along the base's line, while every commit adds something, no tree returns.
LEMMA TreesGrow ==
    ASSUME Made, EveryCommitAdds, NEW c \in Line(Upper), NEW d \in Line(c), d # c
    PROVE  Tree(d) # Tree(c) /\ Tree(d) \subseteq Tree(c)
<1> DEFINE Less(a, b) == Tree(a) # Tree(b) /\ Tree(a) \subseteq Tree(b)
           S == {k \in Line(Upper) : \E j \in Line(k) : j # k /\ ~Less(j, k)}
<1>0. /\ Len(commits) \in Nat /\ Upper \in 1..Len(commits)
      /\ \A k \in 1..Len(commits) : CommitSound(k)
    BY TipTyped, RefNames DEF Made, CommitsSound, TipsSound, Upper
<1>1. \A k \in Line(Upper) : k \in 1..Len(commits) /\ Line(k) \subseteq Line(Upper) /\ Line(k) \subseteq 1..k
    BY <1>0 DEF CommitSound, Shape, Lined
<1>2. SUFFICES S = {}
    BY <1>2
<1>3. SUFFICES ASSUME S # {} PROVE FALSE
    OBVIOUS
<1>4. PICK k \in S : \A i \in S : k <= i
  <2>1. S \subseteq Nat
      BY <1>1
  <2> HIDE DEF S
  <2> QED BY <1>3, <2>1, SmallestOf
<1>5. PICK j \in Line(k) : j # k /\ ~Less(j, k)
    OBVIOUS
<1> DEFINE a == Parents(k)[1]
<1>6. k \in 1..Len(commits) /\ k \in Line(Upper) /\ Descends(k) /\ Past(k) \subseteq 1..k /\ j \in 1..k
    BY <1>0, <1>1 DEF CommitSound, Shape
<1>7. k # 1
    BY <1>5, <1>6
<1>8. a \in Past(k) \ {k} /\ j \in Line(a)
    BY <1>5, <1>6, <1>7 DEF Descends
<1>9. Less(a, k)
    BY <1>6, <1>7 DEF EveryCommitAdds, Upper
<1>10. a \in Line(Upper) /\ a < k
  <2>1. a \in 1..Len(commits) /\ a < k
      BY <1>0, <1>6, <1>8
  <2>2. a \in Line(a)
      BY <1>0, <2>1 DEF CommitSound, Shape
  <2>3. a \in Line(k)
      BY <1>6, <1>7, <2>2 DEF Descends
  <2> QED BY <1>1, <1>6, <2>1, <2>3
<1>11. a \notin S
  <2>1. a \in 1..Len(commits)
      BY <1>1, <1>10
  <2> HIDE DEF S
  <2> QED BY <1>0, <1>4, <1>6, <1>10, <2>1
<1>12. j # a
    BY <1>5, <1>9
<1>13. Less(j, a)
    BY <1>8, <1>10, <1>11, <1>12
<1> QED BY <1>5, <1>9, <1>13

\* The landing commit is on the base's line, and is the only one there that brought
\* the record.
LEMMA LandingOnLine ==
    ASSUME Made, NEW base \in 1..Len(commits), NEW r \in Reviews, LandingCommit(base, r) # 0
    PROVE  LandingCommit(base, r) \in Line(base)
<1> DEFINE adds(c) == r \in Tree(c) /\ (Parents(c) = <<>> \/ r \notin Tree(Parents(c)[1]))
           found == {c \in Line(base) : adds(c)}
<1>1. LandingCommit(base, r) = IF found = {} THEN 0 ELSE Max(found)
    BY DEF LandingCommit
<1>2. found \subseteq 1..base /\ base \in Nat
    BY DEF Made, CommitsSound, CommitSound, Shape
<1>3. found \subseteq Line(base)
    OBVIOUS
<1> HIDE DEF found
<1>4. found # {}
    BY <1>1
<1>5. Max(found) \in found
    BY <1>2, <1>4, LargestOf
<1> QED BY <1>1, <1>3, <1>4, <1>5

\* A commit of the line that brought the record is the landing commit: the record
\* never left the line, so no other one brought it.
LEMMA OneLanding ==
    ASSUME Made, NEW base \in 1..Len(commits), NEW r \in Reviews, NEW c \in Line(base) \ {1},
           r \in Tree(c), r \notin Tree(Parents(c)[1])
    PROVE  LandingCommit(base, r) = c
<1> DEFINE adds(k) == r \in Tree(k) /\ (Parents(k) = <<>> \/ r \notin Tree(Parents(k)[1]))
           found == {k \in Line(base) : adds(k)}
<1>1. \A k \in 1..Len(commits) : CommitSound(k)
    BY DEF Made, CommitsSound
<1>2. /\ Len(commits) \in Nat
      /\ \A k \in Line(base) : k \in 1..Len(commits) /\ Line(k) = Line(base) \cap (1..k) /\ k \in Line(k)
    BY <1>1, LenProperties DEF Made, CommitsTyped, CommitSound, Shape, Lined
<1>3. ASSUME NEW k \in Line(base), NEW j \in Line(base), j < k, r \in Tree(j), adds(k)
      PROVE  FALSE
  <2>1. k # 1 /\ k \in 1..Len(commits) /\ j \in 1..Len(commits) /\ j \in Line(k)
      BY <1>2, <1>3
  <2> DEFINE a == Parents(k)[1]
  <2>2. Descends(k) /\ Shape(k)
      BY <1>1, <2>1 DEF CommitSound
  <2>3. Parents(k) # <<>> /\ a \in Past(k) /\ Line(k) = {k} \cup Line(a)
      BY <2>1, <2>2 DEF Descends
  <2>4. a \in 1..Len(commits) /\ j \in Line(a)
      BY <1>2, <1>3, <2>1, <2>2, <2>3 DEF Shape
  <2>5. j \in Past(a)
      BY <1>1, <2>4 DEF CommitSound, Shape
  <2>6. r \in Tree(a)
      BY <1>1, <1>3, <2>4, <2>5 DEF CommitSound, Ancestry
  <2> QED BY <1>3, <2>3, <2>6
<1>4. adds(c) /\ c \in found
    OBVIOUS
<1>5. \A k \in found : k = c
  <2> SUFFICES ASSUME NEW k \in found, k # c PROVE FALSE
      OBVIOUS
  <2>1. k \in Line(base) /\ adds(k) /\ r \in Tree(k) /\ k \in 1..Len(commits) /\ c \in 1..Len(commits)
      BY <1>2
  <2>2. k < c \/ c < k
      BY <1>2, <2>1
  <2> HIDE DEF adds, found
  <2> QED BY <1>3, <1>4, <2>1, <2>2
<1>6. LandingCommit(base, r) = Max(found)
    BY <1>4 DEF LandingCommit
<1>7. found \subseteq 1..Len(commits) /\ Len(commits) \in Nat
    BY <1>2
<1> HIDE DEF found
<1>8. Max(found) \in found
    BY <1>4, <1>7, LargestOf
<1> QED BY <1>5, <1>6, <1>8

\* Every question of a read that goes through is answered.
LEMMA AllAnswered ==
    ASSUME NEW i \in 1..2
    PROVE  {"file", "kept", "landing", "head", "ancestor", "line", "within", "parent"} \subseteq Answered(i, All)
<1>1. All = 16 /\ DOMAIN Questions = 1..8
    BY DEF All, Questions, BaseRefs
<1>2. \A k \in 1..8 : Questions[k] \in Answered(i, All)
    <2>1. \A k \in 1..8 : (i - 1) * 8 + k <= 16
        OBVIOUS
    <2>2. Len(Questions) = 8
        BY DEF Questions
    <2> QED BY <1>1, <2>1, <2>2 DEF Answered
<1>3. /\ Questions[1] = "file" /\ Questions[2] = "kept" /\ Questions[3] = "landing"
      /\ Questions[4] = "head" /\ Questions[5] = "ancestor" /\ Questions[6] = "line"
      /\ Questions[7] = "within" /\ Questions[8] = "parent"
    BY DEF Questions
<1>4. /\ 1 \in 1..8 /\ 2 \in 1..8 /\ 3 \in 1..8 /\ 4 \in 1..8
      /\ 5 \in 1..8 /\ 6 \in 1..8 /\ 7 \in 1..8 /\ 8 \in 1..8
    OBVIOUS
<1> QED BY <1>2, <1>3, <1>4

\* A landing whose subject names a review with a branch of its own brought work of it.
LEMMA NamedBegan ==
    ASSUME Made, NEW c \in Past(Upper), NEW r \in Reviews, OwnBranch(r),
           SquashOf(commits[c].subject, r) \/ NamesReview(commits[c].subject, r)
    PROVE  Began(r)
<1>0. Names(c) /\ alone \subseteq Branches
  <2>1. c \in 1..Len(commits)
      BY TipTyped, RefNames DEF Made, CommitsSound, CommitSound, Shape, Upper, TipsSound
  <2> QED BY <2>1 DEF Made, CommitsSound, CommitSound, TipsSound
<1>1. ASSUME NEW b \in Branches, Follows[r] = b, b \in alone => Brings(c, b)
      PROVE  Began(r)
  <2>1. b \in alone
      BY <1>1, LandingsAssumption DEF OwnBranch
  <2>2. Brings(c, b)
      BY <1>1, <2>1
  <2> QED BY <1>1, <2>2 DEF Brings, Began, Upper
<1>2. CASE commits[c].subject.number # None /\ commits[c].subject.number = Number[r]
  <2>1. PICK b \in Branches : Number[r] \in Numbers(b) /\ (b \in alone => Brings(c, b))
      BY <1>0, <1>2 DEF Names
  <2>2. PICK s \in Reviews : Follows[s] = b /\ Number[s] = Number[r]
      BY <2>1 DEF Numbers
  <2>3. s = r
      BY <1>2, <2>2 DEF OwnBranch
  <2> QED BY <1>1, <2>1, <2>2, <2>3
<1>3. CASE ~(commits[c].subject.number # None /\ commits[c].subject.number = Number[r])
  <2>1. commits[c].subject.branch # None /\ commits[c].subject.branch = Follows[r]
      BY <1>3 DEF SquashOf, NamesReview
  <2> QED BY <1>0, <1>1, <2>1 DEF Names
<1> QED BY <1>2, <1>3

\* A piece of work on a branch's line that the base holds.
LEMMA WorkBegan ==
    ASSUME Made, NEW c \in Past(Upper), NEW x \in Nat, x \in Tree(c), NEW r \in Reviews,
           commits[x].on = Follows[r]
    PROVE  Began(r)
BY LandingsAssumption DEF Began, Upper

\* What the base's own line says of a commit of it.
LEMMA OnTheLine ==
    ASSUME Made, NEW c \in Line(Upper)
    PROVE  /\ Len(commits) \in Nat /\ c \in 1..Len(commits) /\ CommitSound(c)
           /\ c \in Line(c) /\ Line(c) \subseteq Line(Upper) /\ Line(c) = Line(Upper) \cap (1..c)
           /\ Past(c) \subseteq 1..c /\ Past(c) \subseteq Past(Upper) /\ c \in Past(Upper)
           /\ c \in Past(c) /\ Line(c) \subseteq Past(c)
<1>1. Len(commits) \in Nat /\ Upper \in 1..Len(commits) /\ CommitSound(Upper)
    BY TipTyped, RefNames DEF Made, CommitsSound, TipsSound, Upper
<1>2. c \in Past(Upper) /\ c \in 1..Len(commits) /\ Past(c) \subseteq Past(Upper)
      /\ Line(c) = Line(Upper) \cap (1..c)
    BY <1>1 DEF CommitSound, Shape, Ancestry, Lined
<1>3. CommitSound(c)
    BY <1>2 DEF Made, CommitsSound
<1> QED BY <1>1, <1>2, <1>3 DEF CommitSound, Shape

\* A tip off the base's line is work of its branch.
LEMMA TipBegan ==
    ASSUME Made, NEW r \in Reviews, NEW b \in Branches, Follows[r] = b, b \in alone,
           tips[b] # 0, tips[b] \notin Line(Upper), NEW c \in Past(Upper),
           c = tips[b] \/ tips[b] \in Tree(c)
    PROVE  Began(r)
<1>1. tips[b] \in 1..Len(commits) /\ tips[b] \in Nat
    BY TipTyped
<1>2. commits[tips[b]].on = b
    BY DEF Made, TipsSound, TipOf
<1>3. tips[b] \in Tree(tips[b])
    BY <1>1, <1>2 DEF Made, CommitsSound, CommitSound, Shape
<1> QED BY <1>1, <1>2, <1>3, WorkBegan

\* A commit further along the line, merged into one it comes after, is itself.
LEMMA MergeAhead ==
    ASSUME Made, NEW c \in Line(Upper), NEW d \in Line(c), d # c, EveryCommitAdds
    PROVE  Merged(d, c) # Tree(d)
<1>1. d \in Line(Upper) /\ d \in Past(c) /\ d \in Past(d) /\ Past(d) \subseteq 1..d
      /\ d \in 1..Len(commits) /\ c \in 1..Len(commits)
  <2>1. d \in Line(Upper) /\ d \in Past(c) /\ c \in 1..Len(commits)
      BY OnTheLine
  <2> QED BY <2>1, OnTheLine
<1>2. MergeBase(d, c) = d
  <2>1. /\ MergeBase(d, c) \in Past(d) \cap Past(c)
        /\ \A e \in Past(d) \cap Past(c) : e <= MergeBase(d, c)
      BY <1>1, MergeBaseOf
  <2> QED BY <1>1, <2>1
<1>3. Tree(d) # Tree(c) /\ Tree(d) \subseteq Tree(c)
    BY TreesGrow
<1>4. Merged(d, c) = Tree(c)
    BY <1>2, <1>3 DEF Merged
<1> QED BY <1>3, <1>4

\* A verdict of a read that goes through calls no review merged that had not begun.
LEMMA VerdictSure ==
    ASSUME Made, NEW r \in Reviews, NEW i \in 1..2, NEW base \in Line(Upper),
           Verdict(r, base, Answered(i, All)) = "merged", OwnBranch(r), EveryCommitAdds
    PROVE  Began(r)
<1> DEFINE ok == Answered(i, All)
           landing == LandingCommit(base, r)
           head == HeadOf(r, ok)
           names == \/ Len(Parents(landing)) >= 2 /\ NamesReview(commits[landing].subject, r)
                    \/ SquashOf(commits[landing].subject, r)
<1>1. {"file", "kept", "landing", "head", "ancestor", "line", "within", "parent"} \subseteq ok
    BY AllAnswered
<1>2. /\ base \in 1..Len(commits) /\ Line(base) \subseteq Line(Upper) /\ Line(base) \subseteq Past(base)
      /\ Past(base) \subseteq Past(Upper) /\ Line(base) = Line(Upper) \cap (1..base)
      /\ Past(base) \subseteq 1..base /\ base \in Past(Upper)
    BY OnTheLine
<1>3. /\ landing # 0
      /\ head = 0 => names
      /\ head # 0 /\ IsAncestor(head, base, "ancestor", ok) => ~OnFirstParentLine(head, base, ok) \/ names
      /\ head # 0 /\ ~IsAncestor(head, base, "ancestor", ok) => AddsNothing(head, base, ok) \/ names
    BY DEF Verdict
<1> HIDE DEF names, ok
<1>4. CASE names
  <2>1. landing \in Past(Upper)
      BY <1>2, <1>3, LandingOnLine
  <2>2. SquashOf(commits[landing].subject, r) \/ NamesReview(commits[landing].subject, r)
      BY <1>4 DEF names
  <2> HIDE DEF landing
  <2> QED BY <2>1, <2>2, NamedBegan
<1>5. CASE head # 0 /\ ~names
  <2>1. PICK b \in Branches : Follows[r] = b /\ b \in alone /\ head = tips[b]
      BY <1>5, LandingsAssumption DEF HeadOf, OwnBranch
  <2>2. tips[b] # 0 /\ tips[b] \in 1..Len(commits) /\ Len(commits) \in Nat
      BY <1>5, <2>1, TipTyped
  <2>3. CASE tips[b] \in Past(base)
    <3>1. IsAncestor(head, base, "ancestor", ok)
        BY <1>1, <2>1, <2>3 DEF IsAncestor
    <3>2. tips[b] \notin Line(base)
        BY <1>1, <1>3, <1>5, <2>1, <3>1 DEF OnFirstParentLine
    <3>3. tips[b] \notin Line(Upper)
        BY <1>2, <2>3, <3>2
    <3>4. tips[b] \in Past(Upper)
        BY <1>2, <2>3
    <3> QED BY <2>1, <2>2, <3>3, <3>4, TipBegan
  <2>4. CASE tips[b] \notin Past(base)
    <3>1. base \in Past(base)
        BY OnTheLine
    <3>2. ~IsAncestor(head, base, "ancestor", ok)
        BY <2>1, <2>4, <3>1 DEF IsAncestor
    <3>3. Merged(base, tips[b]) = Tree(base)
        BY <1>3, <1>5, <2>1, <3>2 DEF AddsNothing
    <3>4. CASE tips[b] \notin Line(Upper)
      <4>1. commits[tips[b]].on = b
          BY <2>1, <2>2, <3>4 DEF Made, TipsSound, TipOf
      <4>2. tips[b] \in Tree(tips[b])
          BY <2>2, <4>1 DEF Made, CommitsSound, CommitSound, Shape
      <4>3. tips[b] \in Tree(base)
          BY <1>2, <2>2, <2>4, <3>3, <4>2, MergeHolds
      <4> QED BY <1>2, <2>1, <2>2, <3>4, <4>3, TipBegan
    <3>5. CASE tips[b] \in Line(Upper)
      <4>1. Line(tips[b]) = Line(Upper) \cap (1..tips[b])
          BY <3>5, OnTheLine
      <4>2. base \in Line(tips[b]) /\ base # tips[b]
          BY <1>2, <2>2, <2>4, <3>1, <3>5, <4>1
      <4> QED BY <3>3, <3>5, <4>2, MergeAhead
    <3> QED BY <3>4, <3>5
  <2> QED BY <2>3, <2>4
<1> QED BY <1>3, <1>4, <1>5

\* A landing that names the review is found, unless its branch stands elsewhere.
LEMMA NamedSeen ==
    ASSUME Made, NEW r \in Reviews, NEW i \in 1..2, NEW base \in Line(Upper),
           NEW c \in Line(base) \ {1}, Named(c, r), r \in Tree(c), MovedOn(c, r)
    PROVE  r \in Tree(base) /\ Verdict(r, base, Answered(i, All)) = "merged"
<1> DEFINE ok == Answered(i, All)
           head == HeadOf(r, ok)
           byName == Len(Parents(c)) >= 2 /\ NamesReview(commits[c].subject, r)
           squashed == SquashOf(commits[c].subject, r)
<1>1. "landing" \in ok /\ "head" \in ok /\ "parent" \in ok
    BY AllAnswered
<1>2. /\ Len(commits) \in Nat /\ base \in 1..Len(commits) /\ CommitSound(base) /\ c \in Line(Upper)
      /\ c \in Past(base)
    BY OnTheLine
<1>3. c \in 1..Len(commits) /\ CommitSound(c)
    BY <1>2, OnTheLine
<1>4. r \in Tree(base)
    BY <1>2 DEF CommitSound, Ancestry
<1>5. LandingCommit(base, r) = c
    BY <1>2, OneLanding DEF Named
<1>6. Len(Parents(c)) \in {1, 2} /\ Names(c)
    BY <1>3 DEF CommitSound, Descends
<1>7. CASE squashed
  <2>1. c # 0 /\ LandingCommit(base, r) # 0
      BY <1>3, <1>5
  <2> QED BY <1>1, <1>4, <1>5, <1>7, <2>1 DEF Verdict
<1>8. CASE ~squashed
  <2>1. NamesReview(commits[c].subject, r)
      BY <1>8 DEF Named
  <2>2. Len(Parents(c)) = 2
    <3> SUFFICES ASSUME Len(Parents(c)) = 1 PROVE FALSE
        BY <1>6
    <3>1. /\ commits[c].subject.branch = None
          /\ commits[c].subject.number # None => commits[c].subject.squash
        BY <1>6, 1 < 2 DEF Names
    <3> QED BY <1>8, <2>1, <3>1 DEF NamesReview, SquashOf
  <2>3. byName
      BY <2>1, <2>2
  <2>4. head # 0 => IsAncestor(Parents(c)[2], head, "parent", ok)
      BY <1>1, <2>2 DEF MovedOn, HeadOf, IsAncestor
  <2>5. c # 0
      BY <1>3
  <2> QED BY <1>1, <1>4, <1>5, <2>3, <2>4, <2>5 DEF Verdict
<1> QED BY <1>7, <1>8
-----------------------------------------------------------------------------
\* What the processes have opened, read and reported is of these kinds.
LedgerTyped ==
    /\ file \in Ledgers
    /\ open \in [Processes -> Ledgers \cup {None}]
    /\ at \in [Processes -> [1..2 -> Nat] \cup {None}]
    /\ told \in [Processes -> SUBSET Reviews]
\* Every entry of the file is sound.
LedgerSound == \A r \in Reviews : EntrySound(r, file[r])

\* What a process has opened is sound, holds every merge it reported, and is of
\* commits that the base its read has taken already has.
OpenSound(p) ==
    /\ open[p] = None => at[p] = None /\ told[p] = {}
    /\ open[p] # None =>
         \A r \in Reviews : EntrySound(r, open[p][r]) /\ (r \in told[p] => open[p][r] # None)
BasesSound(p) ==
    at[p] # None =>
      /\ at[p][2] \in Line(Upper)
      /\ at[p][1] \in {0} \cup Line(at[p][2])
      /\ \A r \in Reviews : open[p][r] # None => open[p][r].base \in Past(at[p][2])
\* Every process, and every report, is as it should be.
ReadsSound == \A p \in Processes : OpenSound(p) /\ BasesSound(p)
ReportSound == NotBegunNotMerged /\ NamedLandingSeen /\ MergesStay
\* The inductive invariant.
LandingsInv == Made /\ LedgerTyped /\ LedgerSound /\ ReadsSound /\ ReportSound

\* A step that reports nothing breaks no property of reports.
LEMMA Unreported == ASSUME report' = None PROVE ReportSound'
BY DEF ReportSound, NotBegunNotMerged, NamedLandingSeen, MergesStay

\* The authors leave every ledger true.
LEMMA LedgersStay ==
    ASSUME LandingsInv, Made', Grown, UNCHANGED <<file, process>>, report' = None
    PROVE  LandingsInv'
<1>1. LedgerTyped'
    BY DEF LandingsInv, LedgerTyped, process
<1>2. LedgerSound'
    BY EntryStays DEF LandingsInv, LedgerSound
<1>3. ReadsSound'
  <2> SUFFICES ASSUME NEW p \in Processes PROVE OpenSound(p)' /\ BasesSound(p)'
      BY DEF ReadsSound
  <2>1. OpenSound(p) /\ BasesSound(p) /\ Made
      BY DEF LandingsInv, ReadsSound
  <2>2. OpenSound(p)'
      BY <2>1, EntryStays DEF OpenSound, process
  <2>3. BasesSound(p)'
    <3> SUFFICES ASSUME at[p] # None PROVE BasesSound(p)'
        BY DEF BasesSound, process
    <3>1. at[p][2] \in Line(Upper) /\ at[p][2] \in Line(Upper)' /\ at[p][2] \in 1..Len(commits)
        BY <2>1, OnTheLine DEF BasesSound, Grown
    <3>2. Line(at[p][2])' = Line(at[p][2])' /\ commits'[at[p][2]] = commits[at[p][2]]
        BY <3>1 DEF Grown
    <3> QED BY <2>1, <3>1, <3>2 DEF BasesSound, process, Line, Past
  <2> QED BY <2>2, <2>3
<1>4. ReportSound'
    BY Unreported
<1> QED BY <1>1, <1>2, <1>3, <1>4 DEF LandingsInv

\* A review frozen by repin --onto changes no history and no ledger.
LEMMA FreezeKeeps ==
    ASSUME LandingsInv, NEW r \in Reviews, Freeze(r)
    PROVE  LandingsInv'
<1>1. UNCHANGED <<commits, tips, alone>> /\ UNCHANGED <<file, process>> /\ report' = None
    BY DEF Freeze
<1>2. Made' /\ Grown
  <2>1. Made /\ Len(commits) \in Nat
      BY LenProperties DEF LandingsInv, Made, CommitsTyped
  <2>2. Grown
      BY <1>1, <2>1 DEF Grown, Past, Line, Upper
  <2>3. CommitsTyped' /\ TipsSound'
      BY <1>1, <2>1 DEF Made, CommitsTyped, TipsSound, TipOf, Upper, Line
  <2>4. CommitsSound'
      BY <1>1, <2>1 DEF Made, CommitsSound, CommitSound, Shape, Descends, Ancestry, Lined, Aside,
         Names, Brings, Tree, Past, Line, Parents, Upper
  <2> QED BY <2>2, <2>3, <2>4 DEF Made
<1> QED BY <1>1, <1>2, LedgersStay

\* Reads leave Git as it is.
LEMMA GitStays ==
    ASSUME UNCHANGED git
    PROVE  /\ Made' <=> Made
           /\ \A r \in Reviews : \A e : EntrySound(r, e)' <=> EntrySound(r, e)
           /\ \A r \in Reviews : Began(r)' <=> Began(r)
           /\ \A r \in Reviews : OwnBranch(r)' <=> OwnBranch(r)
           /\ EveryCommitAdds' <=> EveryCommitAdds
           /\ Line(Upper)' = Line(Upper)
           /\ \A c : Line(c)' = Line(c) /\ Past(c)' = Past(c)
<1>0. commits' = commits /\ tips' = tips /\ alone' = alone
    BY DEF git
<1>1. CommitsTyped' <=> CommitsTyped
    BY <1>0 DEF CommitsTyped
<1>2. TipsSound' <=> TipsSound
    BY <1>0 DEF TipsSound, TipOf, Upper, Line
<1>3. CommitsSound' <=> CommitsSound
    BY <1>0 DEF CommitsSound, CommitSound, Shape, Descends, Ancestry, Lined, Aside,
         Names, Brings, Tree, Past, Line, Parents, Upper
<1>4. \A r \in Reviews : Began(r)' <=> Began(r)
    BY <1>0 DEF Began, Tree, Past
<1>5. \A r \in Reviews : OwnBranch(r)' <=> OwnBranch(r)
    BY <1>0 DEF OwnBranch
<1>6. EveryCommitAdds' <=> EveryCommitAdds
    BY <1>0 DEF EveryCommitAdds, Line, Tree, Parents
<1>7. \A r \in Reviews : \A e : EntrySound(r, e)' <=> EntrySound(r, e)
    BY <1>0, <1>4, <1>5, <1>6 DEF EntrySound, Tree, Past, Upper
<1> QED BY <1>0, <1>1, <1>2, <1>3, <1>4, <1>5, <1>6, <1>7 DEF Made, Line, Past, Upper

\* A process opens the file as it is on disk.
LEMMA OpenKeeps ==
    ASSUME LandingsInv, NEW p \in Processes, OpenLedger(p)
    PROVE  LandingsInv'
<1>1. /\ UNCHANGED git /\ file' = file /\ at' = at /\ told' = told /\ report' = None
      /\ open[p] = None /\ open' = [open EXCEPT ![p] = file]
    BY DEF OpenLedger
<1>2. Made' /\ LedgerTyped' /\ LedgerSound'
  <2>1. Made' /\ LedgerSound'
      BY <1>1, GitStays DEF LandingsInv, LedgerSound
  <2>2. LedgerTyped'
      BY <1>1 DEF LandingsInv, LedgerTyped
  <2> QED BY <2>1, <2>2
<1>3. ASSUME NEW q \in Processes PROVE OpenSound(q)' /\ BasesSound(q)'
  <2>1. OpenSound(q) /\ BasesSound(q)
      BY DEF LandingsInv, ReadsSound
  <2>2. open'[q] = IF q = p THEN file ELSE open[q]
      BY <1>1 DEF LandingsInv, LedgerTyped
  <2>3. CASE q = p
    <3>1. at[q] = None /\ told[q] = {}
        BY <1>1, <2>1, <2>3 DEF OpenSound
    <3>2. \A r \in Reviews : EntrySound(r, file[r])'
        BY <1>1, GitStays DEF LandingsInv, LedgerSound
    <3> QED BY <1>1, <2>2, <2>3, <3>1, <3>2 DEF OpenSound, BasesSound
  <2>4. CASE q # p
    <3>1. OpenSound(q)'
        BY <1>1, <2>1, <2>2, <2>4, GitStays DEF OpenSound
    <3>2. BasesSound(q)'
        BY <1>1, <2>1, <2>2, <2>4 DEF BasesSound, git, Line, Past, Upper
    <3> QED BY <3>1, <3>2
  <2> QED BY <2>3, <2>4
<1> QED BY <1>1, <1>2, <1>3, Unreported DEF LandingsInv, ReadsSound

\* A read takes the base refs as they are: the upstream one ends the line, and the
\* local one is behind it on the line or is not there.
LEMMA BeginKeeps ==
    ASSUME LandingsInv, NEW p \in Processes, BeginRead(p)
    PROVE  LandingsInv'
<1>1. /\ UNCHANGED git /\ file' = file /\ open' = open /\ told' = told /\ report' = None
      /\ open[p] # None
    BY DEF BeginRead
<1>2. /\ DOMAIN BaseRefs = 1..2 /\ BaseRefs[1] = "main" /\ BaseRefs[2] = Upstream
      /\ Upper \in Nat /\ tips["main"] \in {0} \cup Line(Upper) /\ tips["main"] \in Nat
      /\ Upper \in Line(Upper)
  <2>1. /\ tips \in [Branches \cup Refs -> 0..Len(commits)] /\ tips["main"] \in {0} \cup Line(Upper)
        /\ Upper # 0
      BY DEF LandingsInv, Made, TipsSound
  <2>2. Len(commits) \in Nat /\ Upper \in 1..Len(commits)
      BY TipTyped, RefNames, <2>1 DEF LandingsInv, Upper
  <2>3. Upper \in Line(Upper)
      BY <2>2 DEF LandingsInv, Made, CommitsSound, CommitSound, Shape
  <2> QED BY <2>1, <2>2, <2>3, RefNames DEF BaseRefs, Upstream
<1> DEFINE now == [i \in DOMAIN BaseRefs |-> tips[BaseRefs[i]]]
<1>3. now \in [1..2 -> Nat] /\ now[2] = Upper /\ now[1] = tips["main"]
    BY <1>2 DEF Upper
<1>4. at' = [at EXCEPT ![p] = now]
    BY DEF BeginRead
<1> HIDE DEF now
<1>5. Made' /\ LedgerTyped' /\ LedgerSound'
  <2>1. Made' /\ LedgerSound'
      BY <1>1, GitStays DEF LandingsInv, LedgerSound
  <2>2. LedgerTyped'
      BY <1>1, <1>3, <1>4 DEF LandingsInv, LedgerTyped
  <2> QED BY <2>1, <2>2
<1>6. ASSUME NEW q \in Processes PROVE OpenSound(q)' /\ BasesSound(q)'
  <2>1. OpenSound(q) /\ BasesSound(q)
      BY DEF LandingsInv, ReadsSound
  <2>2. at'[q] = IF q = p THEN now ELSE at[q]
      BY <1>4 DEF LandingsInv, LedgerTyped
  <2>3. OpenSound(q)'
      BY <1>1, <2>1, <2>2, GitStays DEF OpenSound
  <2>4. CASE q = p
    <3>1. \A r \in Reviews : open[q][r] # None => open[q][r].base \in Past(Upper)
        BY <1>1, <2>1, <2>4 DEF OpenSound, EntrySound
    <3> QED BY <1>1, <1>2, <1>3, <2>2, <2>3, <2>4, <3>1 DEF BasesSound, git, Line, Past, Upper
  <2>5. CASE q # p
      BY <1>1, <2>1, <2>2, <2>3, <2>5 DEF BasesSound, git, Line, Past, Upper
  <2> QED BY <2>3, <2>4, <2>5
<1> QED BY <1>1, <1>5, <1>6, Unreported DEF LandingsInv, ReadsSound

\* What a process saves is what it has opened and added to.
LEMMA SaveKeeps ==
    ASSUME LandingsInv, NEW p \in Processes, Save(p)
    PROVE  LandingsInv'
<1>1. /\ UNCHANGED git /\ open' = open /\ at' = at /\ told' = told /\ report' = None
      /\ open[p] # None /\ (file' = open[p] \/ file' = file)
    BY DEF Save
<1>2. Made' /\ LedgerTyped' /\ LedgerSound'
  <2>1. \A r \in Reviews : EntrySound(r, file'[r])
      BY <1>1 DEF LandingsInv, LedgerSound, ReadsSound, OpenSound
  <2>2. Made' /\ LedgerSound'
      BY <1>1, <2>1, GitStays DEF LandingsInv, LedgerSound
  <2>3. LedgerTyped'
      BY <1>1 DEF LandingsInv, LedgerTyped
  <2> QED BY <2>2, <2>3
<1>3. ASSUME NEW q \in Processes PROVE OpenSound(q)' /\ BasesSound(q)'
  <2>1. OpenSound(q) /\ BasesSound(q)
      BY DEF LandingsInv, ReadsSound
  <2>2. OpenSound(q)'
      BY <1>1, <2>1, GitStays DEF OpenSound
  <2>3. BasesSound(q)'
      BY <1>1, <2>1 DEF BasesSound, git, Line, Past, Upper
  <2> QED BY <2>2, <2>3
<1> QED BY <1>1, <1>2, <1>3, Unreported DEF LandingsInv, ReadsSound

\* A process that ends leaves the file as it is.
LEMMA EndKeeps ==
    ASSUME LandingsInv, NEW p \in Processes, EndProcess(p)
    PROVE  LandingsInv'
<1>1. /\ UNCHANGED git /\ file' = file /\ report' = None
      /\ open' = [open EXCEPT ![p] = None] /\ at' = [at EXCEPT ![p] = None]
      /\ told' = [told EXCEPT ![p] = {}]
    BY DEF EndProcess
<1>2. Made' /\ LedgerTyped' /\ LedgerSound'
  <2>1. Made' /\ LedgerSound'
      BY <1>1, GitStays DEF LandingsInv, LedgerSound
  <2>2. LedgerTyped'
      BY <1>1 DEF LandingsInv, LedgerTyped
  <2> QED BY <2>1, <2>2
<1>3. ASSUME NEW q \in Processes PROVE OpenSound(q)' /\ BasesSound(q)'
  <2>1. OpenSound(q) /\ BasesSound(q)
      BY DEF LandingsInv, ReadsSound
  <2>2. /\ open'[q] = IF q = p THEN None ELSE open[q]
        /\ at'[q] = IF q = p THEN None ELSE at[q]
        /\ told'[q] = IF q = p THEN {} ELSE told[q]
      BY <1>1 DEF LandingsInv, LedgerTyped
  <2>3. OpenSound(q)'
      BY <1>1, <2>1, <2>2, GitStays DEF OpenSound
  <2>4. BasesSound(q)'
      BY <1>1, <2>1, <2>2 DEF BasesSound, git, Line, Past, Upper
  <2> QED BY <2>3, <2>4
<1> QED BY <1>1, <1>2, <1>3, Unreported DEF LandingsInv, ReadsSound

\* What a read of one review comes to: it says the record's state, a merge of the
\* ledger, a merge it has found, or that there is none.
Found(p, r, n) ==
    \/ /\ Says(p, "recorded", r, n = All)
       /\ UNCHANGED <<open, dirty>>
    \/ \E i \in 1..2 :
         /\ Outcome(p, r, i, n) = "kept"
         /\ Says(p, "merged", r, n = All /\ open[p][r].sure)
         /\ UNCHANGED <<open, dirty>>
    \/ \E i \in 1..2 :
         /\ Outcome(p, r, i, n) = "merged"
         /\ Says(p, "merged", r, n = All)
         /\ Remember(p, r, at[p][i], n = All)
    \/ /\ \A i \in 1..2 : Outcome(p, r, i, n) \notin {"kept", "merged"}
       /\ \E s \in {"open", "unknown"} : Says(p, s, r, n = All)
       /\ UNCHANGED <<open, dirty>>

\* Every read of one review comes to one of these.
LEMMA DetectFinds ==
    ASSUME NEW p \in Processes, NEW r \in Reviews, Detect(p, r)
    PROVE  /\ UNCHANGED <<git, file, at>> /\ at[p] # None
           /\ \E n \in 0..All : Found(p, r, n)
<1> DEFINE Outs(n) == [i \in DOMAIN BaseRefs |-> Outcome(p, r, i, n)]
           Landed(n) == {i \in DOMAIN BaseRefs : Outs(n)[i] \in {"kept", "merged"}}
<1>1. PICK n \in 0..All :
        \/ /\ r \in recorded
           /\ Says(p, "recorded", r, n = All)
           /\ UNCHANGED <<open, dirty>>
        \/ /\ r \notin recorded /\ Landed(n) # {}
           /\ IF Outs(n)[Min(Landed(n))] = "kept"
              THEN /\ Says(p, "merged", r, n = All /\ open[p][r].sure)
                   /\ UNCHANGED <<open, dirty>>
              ELSE /\ Says(p, "merged", r, n = All)
                   /\ Remember(p, r, at[p][Min(Landed(n))], n = All)
        \/ /\ r \notin recorded /\ Landed(n) = {}
           /\ Says(p, IF \E i \in DOMAIN BaseRefs : Outs(n)[i] = "unknown"
                      THEN "unknown" ELSE "open", r, n = All)
           /\ UNCHANGED <<open, dirty>>
    BY DEF Detect
<1>2. DOMAIN BaseRefs = 1..2
    BY DEF BaseRefs
<1>3. \A i \in 1..2 : Outs(n)[i] = Outcome(p, r, i, n)
    BY <1>2
<1>4. Landed(n) # {} => Min(Landed(n)) \in 1..2 /\ Outcome(p, r, Min(Landed(n)), n) \in {"kept", "merged"}
  <2> SUFFICES ASSUME Landed(n) # {}
               PROVE  Min(Landed(n)) \in Landed(n)
      BY <1>2, <1>3
  <2>1. Landed(n) \subseteq 1..2
      BY <1>2
  <2> HIDE DEF Landed
  <2>2. \E x \in Landed(n) : \A y \in Landed(n) : x <= y
      BY <2>1
  <2> QED BY <2>2 DEF Min
<1>5. Landed(n) = {} => \A i \in 1..2 : Outcome(p, r, i, n) \notin {"kept", "merged"}
    BY <1>2, <1>3
<1>6. Found(p, r, n)
  <2> HIDE DEF Landed, Outs
  <2>1. CASE r \in recorded
      BY <1>1, <2>1 DEF Found
  <2>2. CASE r \notin recorded /\ Landed(n) # {}
    <3>1. CASE Outs(n)[Min(Landed(n))] = "kept"
        BY <1>1, <1>3, <1>4, <2>2, <3>1 DEF Found
    <3>2. CASE Outs(n)[Min(Landed(n))] # "kept"
        BY <1>1, <1>3, <1>4, <2>2, <3>2 DEF Found
    <3> QED BY <3>1, <3>2
  <2>3. CASE r \notin recorded /\ Landed(n) = {}
    <3>1. /\ Says(p, IF \E i \in DOMAIN BaseRefs : Outs(n)[i] = "unknown"
                      THEN "unknown" ELSE "open", r, n = All)
          /\ UNCHANGED <<open, dirty>>
        BY <1>1, <2>3
    <3>2. \E s \in {"open", "unknown"} : Says(p, s, r, n = All)
        BY <3>1
    <3> QED BY <1>5, <2>3, <3>1, <3>2 DEF Found
  <2> QED BY <2>1, <2>2, <2>3
<1> QED BY <1>6 DEF Detect

\* How a base ref can come to hold a merge.
LEMMA OutcomeOf ==
    ASSUME NEW p \in Processes, NEW r \in Reviews, NEW i \in 1..2, NEW n
    PROVE  /\ Outcome(p, r, i, n) = "kept" => open[p][r] # None
           /\ Outcome(p, r, i, n) = "merged" =>
                /\ at[p][i] # 0 /\ r \in Tree(at[p][i])
                /\ Verdict(r, at[p][i], Answered(i, n)) = "merged"
           /\ at[p][i] # 0 /\ r \in Tree(at[p][i]) /\ "file" \in Answered(i, n) =>
                /\ Kept(p, r, at[p][i], Answered(i, n)) => Outcome(p, r, i, n) = "kept"
                /\ Verdict(r, at[p][i], Answered(i, n)) = "merged" =>
                     Outcome(p, r, i, n) \in {"kept", "merged"}
<1>1. Verdict(r, at[p][i], Answered(i, n)) \in {"unknown", "merged", "open"}
    BY DEF Verdict
<1> QED BY <1>1 DEF Outcome, Kept

\* The commits a read takes the base refs to name are of the base's own line.
LEMMA BasesOnLine ==
    ASSUME Made, NEW p \in Processes, BasesSound(p), at[p] # None
    PROVE  /\ at[p][2] \in Line(Upper) /\ at[p][2] \in Nat \ {0}
           /\ \A i \in 1..2 : at[p][i] # 0 => at[p][i] \in Line(Upper) /\ at[p][i] \in Past(at[p][2])
<1>1. at[p][2] \in Line(Upper) /\ at[p][1] \in {0} \cup Line(at[p][2])
    BY DEF BasesSound
<1>2. /\ at[p][2] \in Past(at[p][2]) /\ Line(at[p][2]) \subseteq Line(Upper)
      /\ Line(at[p][2]) \subseteq Past(at[p][2]) /\ at[p][2] \in Nat \ {0}
    BY <1>1, OnTheLine
<1> QED BY <1>1, <1>2

\* What has to be shown of a report.
LEMMA Reported ==
    ASSUME UNCHANGED <<git, at>>, NEW p \in Processes, NEW r \in Reviews, NEW state, NEW sure, NEW held,
           report' = [process |-> p, review |-> r, state |-> state, sure |-> sure, held |-> held],
           state = "merged" /\ sure => (OwnBranch(r) /\ EveryCommitAdds => Began(r)),
           sure /\ state \in {"open", "unknown"} =>
             \A i \in 1..2 : at[p][i] # 0 =>
               \A c \in Line(at[p][i]) \ {1} : Named(c, r) /\ r \in Tree(c) => ~MovedOn(c, r),
           held /\ sure => state \in {"merged", "recorded"}
    PROVE  ReportSound'
<1>1. /\ report'.process = p /\ report'.review = r /\ report'.state = state
      /\ report'.sure = sure /\ report'.held = held /\ DOMAIN BaseRefs = 1..2
      /\ commits' = commits /\ tips' = tips /\ alone' = alone /\ at' = at
    BY DEF BaseRefs, git
<1>2. NotBegunNotMerged'
    BY <1>1 DEF NotBegunNotMerged, OwnBranch, EveryCommitAdds, Began, Line, Past, Tree, Parents
<1>3. NamedLandingSeen'
    BY <1>1 DEF NamedLandingSeen, Named, MovedOn, Line, Past, Tree, Parents
<1>4. MergesStay'
    BY <1>1 DEF MergesStay
<1> QED BY <1>2, <1>3, <1>4 DEF ReportSound

\* A read that leaves its own ledger sound leaves all of it so.
LEMMA ReadKeeps ==
    ASSUME LandingsInv, UNCHANGED <<git, file, at>>, NEW p \in Processes,
           NEW ledger \in Ledgers, open' = [open EXCEPT ![p] = ledger],
           NEW seen \in SUBSET Reviews, told' = [told EXCEPT ![p] = seen],
           \A r \in Reviews :
             /\ EntrySound(r, ledger[r])
             /\ r \in seen => ledger[r] # None
             /\ ledger[r] # None => ledger[r].base \in Past(at[p][2]),
           ReportSound'
    PROVE  LandingsInv'
<1>1. Made' /\ LedgerSound'
    BY GitStays DEF LandingsInv, LedgerSound
<1>2. LedgerTyped'
    BY DEF LandingsInv, LedgerTyped
<1>3. ASSUME NEW q \in Processes PROVE OpenSound(q)' /\ BasesSound(q)'
  <2>1. OpenSound(q) /\ BasesSound(q)
      BY DEF LandingsInv, ReadsSound
  <2>2. /\ open'[q] = IF q = p THEN ledger ELSE open[q]
        /\ told'[q] = IF q = p THEN seen ELSE told[q]
      BY DEF LandingsInv, LedgerTyped
  <2>3. ledger # None
      BY LandingsAssumption
  <2>4. OpenSound(q)'
      BY <2>1, <2>2, <2>3, GitStays DEF OpenSound
  <2>5. BasesSound(q)'
      BY <2>1, <2>2 DEF BasesSound, git, Line, Past, Upper
  <2> QED BY <2>4, <2>5
<1> QED BY <1>1, <1>2, <1>3 DEF LandingsInv, ReadsSound

\* A read keeps the ledger sound and says only what the properties allow.
LEMMA DetectKeeps ==
    ASSUME LandingsInv, NEW p \in Processes, NEW r \in Reviews, Detect(p, r)
    PROVE  LandingsInv'
<1>1. PICK n \in 0..All : Found(p, r, n)
    BY DetectFinds
<1>2. UNCHANGED <<git, file, at>> /\ at[p] # None
    BY DetectFinds
<1>3. /\ Made /\ OpenSound(p) /\ BasesSound(p) /\ open[p] # None
      /\ open[p] \in Ledgers /\ open \in [Processes -> Ledgers \cup {None}]
      /\ told[p] \in SUBSET Reviews /\ told \in [Processes -> SUBSET Reviews]
  <2>1. OpenSound(p) /\ BasesSound(p) /\ LedgerTyped /\ Made
      BY DEF LandingsInv, ReadsSound
  <2>2. open[p] # None
      BY <1>2, <2>1 DEF OpenSound
  <2> QED BY <2>1, <2>2 DEF LedgerTyped
<1>4. /\ \A s \in Reviews : EntrySound(s, open[p][s]) /\ (s \in told[p] => open[p][s] # None)
      /\ \A s \in Reviews : open[p][s] # None => open[p][s].base \in Past(at[p][2])
    BY <1>2, <1>3 DEF OpenSound, BasesSound
<1>5. /\ at[p][2] \in Line(Upper) /\ at[p][2] \in Nat \ {0}
      /\ \A i \in 1..2 : at[p][i] # 0 => at[p][i] \in Line(Upper) /\ at[p][i] \in Past(at[p][2])
    BY <1>2, <1>3, BasesOnLine
<1>6. \A i \in 1..2 : n = All =>
        /\ "file" \in Answered(i, n) /\ "kept" \in Answered(i, n)
        /\ {"file", "kept", "landing", "head", "ancestor", "line", "within", "parent"} \subseteq Answered(i, n)
    BY AllAnswered
\* What was reported before is kept by a read that goes through.
<1>7. ASSUME n = All, r \in told[p] PROVE Outcome(p, r, 2, n) = "kept"
  <2>1. open[p][r] # None /\ open[p][r].base \in Past(at[p][2]) /\ r \in Tree(open[p][r].base)
      BY <1>4, <1>7 DEF EntrySound
  <2>2. CommitSound(at[p][2])
      BY <1>3, <1>5, OnTheLine
  <2>3. r \in Tree(at[p][2])
      BY <2>1, <2>2 DEF CommitSound, Ancestry
  <2>4. Kept(p, r, at[p][2], Answered(2, n))
      BY <1>6, <1>7, <2>1 DEF Kept, IsAncestor
  <2> QED BY <1>5, <1>6, <1>7, <2>3, <2>4, OutcomeOf
<1>8. ASSUME n = All, \A i \in 1..2 : Outcome(p, r, i, n) \notin {"kept", "merged"}
      PROVE  \A i \in 1..2 : at[p][i] # 0 =>
               \A c \in Line(at[p][i]) \ {1} : Named(c, r) /\ r \in Tree(c) => ~MovedOn(c, r)
  <2> SUFFICES ASSUME NEW i \in 1..2, at[p][i] # 0, NEW c \in Line(at[p][i]) \ {1},
                      Named(c, r), r \in Tree(c), MovedOn(c, r)
               PROVE  FALSE
      OBVIOUS
  <2>1. at[p][i] \in Line(Upper)
      BY <1>5
  <2>2. r \in Tree(at[p][i]) /\ Verdict(r, at[p][i], Answered(i, n)) = "merged"
      BY <1>3, <1>8, <2>1, NamedSeen
  <2> QED BY <1>6, <1>8, <2>2, OutcomeOf
\* A merge it finds is one of a review that had begun.
<1>9. ASSUME NEW i \in 1..2, Outcome(p, r, i, n) = "merged"
      PROVE  /\ at[p][i] \in Line(Upper) /\ at[p][i] \in Past(at[p][2]) /\ at[p][i] \in Past(Upper)
             /\ at[p][i] \in Nat /\ r \in Tree(at[p][i])
             /\ n = All => (OwnBranch(r) /\ EveryCommitAdds => Began(r))
  <2>1. /\ at[p][i] # 0 /\ r \in Tree(at[p][i])
        /\ Verdict(r, at[p][i], Answered(i, n)) = "merged"
      BY <1>9, OutcomeOf
  <2>2. at[p][i] \in Line(Upper) /\ at[p][i] \in Past(at[p][2])
      BY <1>5, <2>1
  <2>3. at[p][i] \in Past(Upper) /\ at[p][i] \in Nat
      BY <1>3, <2>2, OnTheLine
  <2>4. n = All => (OwnBranch(r) /\ EveryCommitAdds => Began(r))
      BY <1>3, <2>1, <2>2, VerdictSure
  <2> QED BY <2>1, <2>2, <2>3, <2>4
<1>10. ASSUME NEW state, state # "merged", Says(p, state, r, n = All), UNCHANGED <<open, dirty>>,
              n = All /\ state \in {"open", "unknown"} =>
                \A i \in 1..2 : Outcome(p, r, i, n) \notin {"kept", "merged"},
              state \in {"recorded", "open", "unknown"}
       PROVE  LandingsInv'
  <2>1. /\ report' = [process |-> p, review |-> r, state |-> state, sure |-> (n = All),
                      held |-> (r \in told[p])]
        /\ told' = told
      BY <1>10 DEF Says
  <2>2. r \in told[p] /\ n = All => state \in {"merged", "recorded"}
      BY <1>7, <1>10
  <2>3. ReportSound'
    <3> DEFINE held == r \in told[p]
               sure == n = All
    <3>1. state = "merged" /\ n = All => (OwnBranch(r) /\ EveryCommitAdds => Began(r))
        BY <1>10
    <3>2. n = All /\ state \in {"open", "unknown"} =>
            \A i \in 1..2 : at[p][i] # 0 =>
              \A c \in Line(at[p][i]) \ {1} : Named(c, r) /\ r \in Tree(c) => ~MovedOn(c, r)
        BY <1>8, <1>10
    <3>3. report' = [process |-> p, review |-> r, state |-> state, sure |-> sure, held |-> held]
        BY <2>1
    <3>4. held /\ sure => state \in {"merged", "recorded"}
        BY <2>2
    <3>5. state = "merged" /\ sure => (OwnBranch(r) /\ EveryCommitAdds => Began(r))
        BY <3>1
    <3>6. sure /\ state \in {"open", "unknown"} =>
            \A i \in 1..2 : at[p][i] # 0 =>
              \A c \in Line(at[p][i]) \ {1} : Named(c, r) /\ r \in Tree(c) => ~MovedOn(c, r)
        BY <3>2
    <3> HIDE DEF held, sure
    <3> QED BY <1>2, <3>3, <3>4, <3>5, <3>6, Reported
  <2>4. open' = [open EXCEPT ![p] = open[p]] /\ told' = [told EXCEPT ![p] = told[p]]
      BY <1>3, <1>10, <2>1
  <2> QED BY <1>2, <1>3, <1>4, <2>3, <2>4, ReadKeeps
<1>11. ASSUME NEW i \in 1..2, Outcome(p, r, i, n) = "kept",
              Says(p, "merged", r, n = All /\ open[p][r].sure), UNCHANGED <<open, dirty>>
       PROVE  LandingsInv'
  <2>1. /\ report' = [process |-> p, review |-> r, state |-> "merged",
                      sure |-> (n = All /\ open[p][r].sure), held |-> (r \in told[p])]
        /\ told' = [told EXCEPT ![p] = told[p] \cup {r}]
      BY <1>11 DEF Says
  <2>2. open[p][r] # None
      BY <1>11, OutcomeOf
  <2>3. open[p][r].sure => (OwnBranch(r) /\ EveryCommitAdds => Began(r))
      BY <1>4, <2>2 DEF EntrySound
  <2>4. ReportSound'
      BY <1>2, <2>1, <2>3, Reported
  <2>5. open' = [open EXCEPT ![p] = open[p]]
      BY <1>3, <1>11
  <2>6. told[p] \cup {r} \in SUBSET Reviews
      BY <1>3
  <2>7. \A s \in Reviews :
          /\ EntrySound(s, open[p][s])
          /\ s \in told[p] \cup {r} => open[p][s] # None
          /\ open[p][s] # None => open[p][s].base \in Past(at[p][2])
      BY <1>4, <2>2
  <2> QED BY <1>2, <1>3, <2>1, <2>4, <2>5, <2>6, <2>7, ReadKeeps
<1>12. ASSUME NEW i \in 1..2, Outcome(p, r, i, n) = "merged",
              Says(p, "merged", r, n = All), Remember(p, r, at[p][i], n = All)
       PROVE  LandingsInv'
  <2>1. /\ report' = [process |-> p, review |-> r, state |-> "merged",
                      sure |-> (n = All), held |-> (r \in told[p])]
        /\ told' = [told EXCEPT ![p] = told[p] \cup {r}]
      BY <1>12 DEF Says
  <2>2. ReportSound'
      BY <1>2, <1>9, <1>12, <2>1, Reported
  <2>3. told[p] \cup {r} \in SUBSET Reviews
      BY <1>3
  <2>4. CASE open[p][r] # None /\ open[p][r].base = at[p][i]
    <3>1. open' = [open EXCEPT ![p] = open[p]]
        BY <1>3, <1>12, <2>4 DEF Remember
    <3>2. \A s \in Reviews :
            /\ EntrySound(s, open[p][s])
            /\ s \in told[p] \cup {r} => open[p][s] # None
            /\ open[p][s] # None => open[p][s].base \in Past(at[p][2])
        BY <1>4, <2>4
    <3> QED BY <1>2, <1>3, <2>1, <2>2, <2>3, <3>1, <3>2, ReadKeeps
  <2>5. CASE ~(open[p][r] # None /\ open[p][r].base = at[p][i])
    <3> DEFINE new == [base |-> at[p][i], sure |-> n = All]
               ledger == [open[p] EXCEPT ![r] = new]
    <3>1. open' = [open EXCEPT ![p] = ledger]
        BY <1>12, <2>5 DEF Remember
    <3>2. new \in Entries /\ new # None /\ EntrySound(r, new) /\ new.base \in Past(at[p][2])
      <4>1. new \in Entries
          BY <1>9, <1>12 DEF Entries
      <4>2. new.base = at[p][i] /\ (new.sure <=> n = All)
          OBVIOUS
      <4> HIDE DEF new
      <4>3. EntrySound(r, new) /\ new.base \in Past(at[p][2])
          BY <1>9, <1>12, <4>2 DEF EntrySound
      <4> QED BY <4>1, <4>3, LandingsAssumption
    <3> HIDE DEF new
    <3>3. ledger \in Ledgers /\ \A s \in Reviews : ledger[s] = IF s = r THEN new ELSE open[p][s]
        BY <1>3, <3>2 DEF Ledgers
    <3> HIDE DEF ledger
    <3>4. \A s \in Reviews :
             /\ EntrySound(s, ledger[s])
             /\ s \in told[p] \cup {r} => ledger[s] # None
             /\ ledger[s] # None => ledger[s].base \in Past(at[p][2])
        BY <1>4, <3>2, <3>3
    <3> QED BY <1>2, <2>1, <2>2, <2>3, <3>1, <3>3, <3>4, ReadKeeps
  <2> QED BY <2>4, <2>5
<1> QED BY <1>1, <1>10, <1>11, <1>12 DEF Found

\* The history begins with one commit that holds nothing, and no ledger.
LEMMA LandingsBegin == LandingsInit => LandingsInv
<1> SUFFICES ASSUME LandingsInit PROVE LandingsInv
    OBVIOUS
<1> DEFINE root == [parents |-> <<>>, tree |-> {}, subject |-> NoSubject, past |-> {1},
                    line |-> {1}, on |-> Upstream]
<1>1. /\ commits = <<root>> /\ tips \in [Branches \cup Refs -> {0, 1}] /\ tips[Upstream] = 1
      /\ alone = Branches /\ file = [r \in Reviews |-> None] /\ open = [p \in Processes |-> None]
      /\ at = [p \in Processes |-> None] /\ told = [p \in Processes |-> {}] /\ report = None
    BY DEF LandingsInit
<1>2. Len(commits) = 1 /\ commits[1] = root /\ Upper = 1
    BY <1>1 DEF Upper
<1>3. CommitsTyped
  <2>1. NoSubject \in Subjects
      BY DEF NoSubject, Subjects, Numbered
  <2>2. root \in CommitRecord
    <3>1. <<>> \in Seq(Nat)
        OBVIOUS
    <3>2. root.parents = <<>> /\ root.tree \in SUBSET (Reviews \cup Nat)
          /\ root.past \in SUBSET Nat /\ root.line \in SUBSET Nat /\ root.on \in Branches \cup Refs
        BY RefNames
    <3> QED BY <2>1, <3>1, <3>2 DEF CommitRecord
  <2> HIDE DEF root
  <2> QED BY <1>1, <2>2 DEF CommitsTyped
<1>4. /\ Tree(1) = {} /\ Past(1) = {1} /\ Line(1) = {1} /\ Parents(1) = <<>>
      /\ commits[1].on = Upstream /\ commits[1].subject = NoSubject
    BY <1>2 DEF Tree, Past, Line, Parents
<1>5. CommitSound(1)
  <2>1. Shape(1) /\ Descends(1)
      BY <1>4, RefNames DEF Shape, Descends
  <2>2. Ancestry(1) /\ Lined(1) /\ Aside(1)
      BY <1>2, <1>4 DEF Ancestry, Lined, Aside
  <2>3. Names(1)
      BY <1>4 DEF Names, NoSubject
  <2> QED BY <2>1, <2>2, <2>3 DEF CommitSound
<1>6. CommitsSound
  <2>1. 1..Len(commits) = {1}
      BY <1>2
  <2> QED BY <1>5, <2>1 DEF CommitsSound
<1>7. TipsSound
  <2>1. 0..Len(commits) = {0, 1}
      BY <1>2
  <2> HIDE DEF root
  <2> QED BY <1>1, <1>2, <1>4, <2>1, RefNames DEF TipsSound, TipOf
<1>8. LedgerTyped
    BY <1>1 DEF LedgerTyped, Ledgers
<1>9. LedgerSound /\ ReadsSound /\ ReportSound
    BY <1>1 DEF LedgerSound, EntrySound, ReadsSound, OpenSound, BasesSound, ReportSound,
       NotBegunNotMerged, NamedLandingSeen, MergesStay
<1> QED BY <1>3, <1>6, <1>7, <1>8, <1>9 DEF LandingsInv, Made

\* Every step of authors and processes keeps the invariant.
LEMMA LandingsStep == LandingsInv /\ [LandingsNext]_landingsVars => LandingsInv'
<1> SUFFICES ASSUME LandingsInv, [LandingsNext]_landingsVars PROVE LandingsInv'
    OBVIOUS
<1>1. CASE AuthorStep
    BY <1>1, AuthorsMake, LedgersStay DEF LandingsInv
<1>2. ASSUME NEW r \in Reviews, Freeze(r) PROVE LandingsInv'
    BY <1>2, FreezeKeeps
<1>3. ASSUME NEW p \in Processes,
             OpenLedger(p) \/ BeginRead(p) \/ Save(p) \/ EndProcess(p) \/ \E r \in Reviews : Detect(p, r)
      PROVE  LandingsInv'
    BY <1>3, OpenKeeps, BeginKeeps, SaveKeeps, EndKeeps, DetectKeeps
<1>4. CASE UNCHANGED landingsVars
  <2>1. UNCHANGED git /\ UNCHANGED <<file, process, report>>
      BY <1>4 DEF landingsVars
  <2>2. Made' /\ LedgerSound' /\ LedgerTyped'
      BY <2>1, GitStays DEF LandingsInv, LedgerSound, LedgerTyped, process
  <2>3. ReadsSound'
    <3> SUFFICES ASSUME NEW p \in Processes PROVE OpenSound(p)' /\ BasesSound(p)'
        BY DEF ReadsSound
    <3>1. OpenSound(p) /\ BasesSound(p)
        BY DEF LandingsInv, ReadsSound
    <3>2. OpenSound(p)'
        BY <2>1, <3>1, GitStays DEF OpenSound, process
    <3>3. BasesSound(p)'
        BY <2>1, <3>1 DEF BasesSound, process, git, Line, Past, Upper
    <3> QED BY <3>2, <3>3
  <2>4. ReportSound'
    <3>1. NotBegunNotMerged /\ NamedLandingSeen /\ MergesStay
        BY DEF LandingsInv, ReportSound
    <3>2. NotBegunNotMerged'
        BY <2>1, <3>1 DEF NotBegunNotMerged, git, OwnBranch, EveryCommitAdds, Began, Line, Past, Tree, Parents
    <3>3. NamedLandingSeen'
        BY <2>1, <3>1 DEF NamedLandingSeen, git, process, Named, MovedOn, Line, Past, Tree, Parents
    <3>4. MergesStay'
        BY <2>1, <3>1 DEF MergesStay
    <3> QED BY <3>2, <3>3, <3>4 DEF ReportSound
  <2> QED BY <2>2, <2>3, <2>4 DEF LandingsInv
<1> QED BY <1>1, <1>2, <1>3, <1>4 DEF LandingsNext, AuthorStep

\* The inductive invariant: whatever authors, reads, cancellations, failed saves and
\* dying processes do, the history is of the shape above and every entry of every
\* ledger, on disk and opened, is of a commit in the base that holds the record.
THEOREM LandingsInvariance == LandingsSpec => []LandingsInv
BY LandingsBegin, LandingsStep, PTL DEF LandingsSpec

\* A review with a branch of its own, none of whose work is in the base, is called
\* merged by no read that went through, nor by an entry of the ledger (landing.go).
THEOREM UnbegunIsNotMerged == LandingsSpec => []NotBegunNotMerged
<1>1. LandingsInv => NotBegunNotMerged
    BY DEF LandingsInv, ReportSound
<1> QED BY <1>1, LandingsInvariance, PTL

\* A landing commit that names the review is found, also after the branch is gone or
\* has moved on (landing.go).
THEOREM NamedLandingIsSeen == LandingsSpec => []NamedLandingSeen
<1>1. LandingsInv => NamedLandingSeen
    BY DEF LandingsInv, ReportSound
<1> QED BY <1>1, LandingsInvariance, PTL

\* A process reports again every merge it has reported, through every history, with
\* entries that other processes wrote (landing.go, ledger.go).
THEOREM ReportedMergesStay == LandingsSpec => []MergesStay
<1>1. LandingsInv => MergesStay
    BY DEF LandingsInv, ReportSound
<1> QED BY <1>1, LandingsInvariance, PTL

=============================================================================
