---------------------------- MODULE MCRecordWrites ----------------------------
EXTENDS RecordWrites, TLC

\* Nothing goes wrong; or a process is killed and the machine stops; or steps fail.
Sound == [kill |-> 0, stop |-> 0, fail |-> 0]
Troubles == {Sound, [Sound EXCEPT !.kill = 1, !.stop = 1], [Sound EXCEPT !.fail = 2, !.stop = 1]}
Alike == Permutations(Procs)
=============================================================================
