---------------------------- MODULE MCRecordTimer ----------------------------
(* Small instances of RecordTimer for TLC. *)
EXTENDS RecordTimer, TLC

CONSTANTS t1, t2, t3, w1, w2, o1

OneWorkspace == [t \in Timers |-> 1]
TwoWorkspaces == [t \in Timers |-> IF t = t1 THEN 1 ELSE 2]
InOrder == [t \in Timers |-> IF t = t1 THEN 1 ELSE IF t = t2 THEN 2 ELSE 3]
AllTimers == {Timers}

SameWorkers == Permutations(Workers)
=============================================================================
