----------------------- MODULE MCActionExecution -----------------------
(* Small instances of ActionExecution for TLC. *)
EXTENDS ActionExecution, TLC

CONSTANTS k1, c1, c2, t1, x1, j1

\* All callers name the same key.
SameKey == [c \in Callers |-> k1]
\* They ask for the same, or the timer asks for something else under that key.
OneRequest == [c \in Callers |-> "x"]
TwoRequests == [c \in Callers |-> IF c = t1 THEN "y" ELSE "x"]

\* The two callers with the same request and the same policy are interchangeable.
Interchange == {c1 :> c2 @@ c2 :> c1}
=============================================================================
