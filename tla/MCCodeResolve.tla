---------------------------- MODULE MCCodeResolve ----------------------------
(* CodeResolve on every small edit of a file, and on a few repositories whose  *)
(* callers interleave.                                                         *)
EXTENDS CodeResolve, FiniteSetsExt, Functions, TLC
CONSTANTS a, b

Sq == INSTANCE SequencesExt

\* An edit keeps some lines of a file, and adds lines after some of them or at the
\* start (0).
Edits(old, most) ==
    UNION {{[old |-> old, kept |-> kept, added |-> added] :
              added \in {f \in [kept \cup {0} -> 0..most] : SumFunction(f) <= most}} :
           kept \in SUBSET (DOMAIN old)}

Gap(e, i) == Min({j \in e.kept \cup {Len(e.old) + 1} : j > i}) - i - 1
NewPlace(e, i) ==
    Cardinality({j \in e.kept : j <= i}) + SumFunctionOnSet(e.added, {j \in DOMAIN e.added : j < i})

HunkAfter(e, i) ==
    LET gone == Gap(e, i) IN
    [oldStart |-> IF gone = 0 THEN i ELSE i + 1, oldCount |-> gone,
     newStart |-> IF e.added[i] = 0 THEN NewPlace(e, i) ELSE NewPlace(e, i) + 1,
     newCount |-> e.added[i]]

HunksOf(e) ==
    LET places == {i \in DOMAIN e.added : Gap(e, i) + e.added[i] > 0} IN
    LET order == Sq!SetToSortSeq(places, <) IN [k \in DOMAIN order |-> HunkAfter(e, order[k])]

Result(e, text) ==
    [n \in 1..(Cardinality(e.kept) + SumFunction(e.added)) |->
       IF \E i \in e.kept : NewPlace(e, i) = n
       THEN e.old[CHOOSE i \in e.kept : NewPlace(e, i) = n] ELSE text]

\* References to all of a file, and to each of its ranges.
Reference(path, start, end, digest) == [path |-> path, start |-> start, end |-> end, digest |-> digest]
Whole(path, lines) == Reference(path, 0, 0, lines)
Lines(path, lines, start, end) == Reference(path, start, end, SubSeq(lines, start, end))
Every(path, lines) ==
    {Whole(path, lines)} \cup
    {Lines(path, lines, start, end) : start \in DOMAIN lines, end \in DOMAIN lines}

Change(to, hunks) ==
    [to |-> to, deleted |-> FALSE, binary |-> FALSE, mode |-> FALSE, hunks |-> hunks]

Edit(e, text) ==
    [pin |-> [f |-> e.old], head |-> [f |-> Result(e, text)],
     change |-> IF HunksOf(e) = <<>> THEN <<>> ELSE [f |-> Change("f", HunksOf(e))],
     refs |-> {ref \in Every("f", e.old) : Valid(ref)}]

\* One caller asks for everything a small edit can do to a file.
Small == {Edit(e, "n") : e \in Edits(<<"x", "}", "y", "x">>, 2) \cup Edits(<<"}", "x", "x">>, 2)}
Alone == [callers |-> {a}, ops |-> {"propose"}, views |-> {"head"}, asks |-> 1,
          prepares |-> 0, fails |-> 0, here |-> {TRUE}, fetch |-> FALSE]

\* Two files; the first changes in every way a file can, and the references are
\* to the rest of it, to all of the other file, and to what it never held.
Insert == [oldStart |-> 0, oldCount |-> 0, newStart |-> 1, newCount |-> 1]
Replace == [oldStart |-> 2, oldCount |-> 1, newStart |-> 2, newCount |-> 1]
Two(change, head) ==
    [pin |-> [f |-> <<"x", "y">>, o |-> <<"x">>],
     head |-> [o |-> <<"x">>] @@ head, change |-> [f |-> change],
     refs |-> {Lines("f", <<"x", "y">>, 2, 2), Whole("o", <<"x">>), Reference("f", 1, 1, <<"n">>)}]
Inserted == Two(Change("f", <<Insert>>), [f |-> <<"n", "x", "y">>])
Kinds ==
    {Two(Change("g", <<>>), [g |-> <<"x", "y">>]),
     Two(Change("g", <<Insert>>), [g |-> <<"n", "x", "y">>]),
     Two(Change("g", <<Replace>>), [g |-> <<"x", "n">>, f |-> <<"y">>]),
     Two([Change("f", <<>>) EXCEPT !.mode = TRUE], [f |-> <<"x", "y">>]),
     Two([Change("f", <<>>) EXCEPT !.binary = TRUE], [f |-> <<"n">>]),
     Two([Change(None, <<>>) EXCEPT !.deleted = TRUE], <<>>)}
Every2 == {[r EXCEPT !.refs = @ \cup {Whole("f", r.pin.f), Whole("g", <<"x">>)}] : r \in Kinds}

\* A Saga's file changes, or goes, and Git is not asked.
Untold(head) ==
    [pin |-> [s |-> <<"x", "y">>], head |-> head, change |-> <<>>,
     refs |-> {Lines("s", <<"x", "y">>, 2, 2), Whole("s", <<"x", "y">>)}]
OfSagas == {Untold([s |-> <<"n", "x", "y">>]), Untold(<<>>)}

\* They ask while commits are fetched; or while others prepare and warm.
Fetched == [callers |-> {a, b}, ops |-> {"resolve"}, views |-> {"pin", "head"}, asks |-> 2,
            prepares |-> 0, fails |-> 1, here |-> {TRUE, FALSE}, fetch |-> TRUE]
Prepared == [Fetched EXCEPT !.views = {"head"}, !.prepares = 2, !.here = {TRUE}]
OneByOne == [Prepared EXCEPT !.callers = {a}, !.ops = {"resolve", "propose"}]

MCRepositories == Small \cup {Inserted} \cup Every2 \cup OfSagas
MCBudgets(r) ==
    IF r \in Small THEN {Alone} ELSE IF r = Inserted THEN {Fetched, Prepared} ELSE {OneByOne}
=============================================================================
