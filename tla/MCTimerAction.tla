---------------------------- MODULE MCTimerAction ----------------------------
(* Small instances of TimerAction for TLC. *)
EXTENDS TimerAction, TLC

CONSTANTS t1, w1, w2, o1

OneWorkspace == [t \in Timers |-> 1]
InOrder == [t \in Timers |-> 1]
AllTimers == {Timers}
=============================================================================
