---------------------------- MODULE TimerAction ----------------------------
(***************************************************************************)
(* Record timers whose target is an action.  The target runtime invokes    *)
(* the action with the timer's ID as idempotency key and with              *)
(* PreventExecutionReclaim: every attempt of a timer names the same        *)
(* receipt, the first one inserts it and executes, the others replay what  *)
(* it says or are told that an execution is in progress.                   *)
(*                                                                         *)
(* The timers are those of RecordTimer, the receipts those of              *)
(* ActionReceipt, which ActionExecution implements as long as a lifecycle  *)
(* job deletes no receipt by ID that has changed since it was picked.      *)
(* Timers of this model end within the replay window of their receipts     *)
(* (30 days).                                                              *)
(***************************************************************************)
EXTENDS RecordTimer

VARIABLES
  receipt, expired, effects, calls,
  inside, \* what a worker does inside the action of its timer
  missed  \* history: timers whose effect was committed by a worker whose claim
          \* was no longer current, or that was not told so, or the holder of
          \* whose claim then failed before it could read the receipt

receiptVars == <<receipt, expired, effects, calls>>
allVars == <<vars, receiptVars, inside, missed>>

Receipt == INSTANCE ActionReceipt WITH Keys <- Timers

TimerActionInit ==
  /\ Init
  /\ Receipt!ReceiptInit
  /\ inside = [w \in Workers |-> "no"]
  /\ missed = {}

\* The receipt is new: the action begins.
BeginAction(w, t) ==
  /\ Running(w, t) /\ inside[w] = "no"
  /\ Receipt!Insert(t)
  /\ inside' = [inside EXCEPT ![w] = "running"]
  /\ UNCHANGED <<vars, missed>>

MutReplaySucceeds(t) == FALSE
\* A receipt that says succeeded is replayed as a success.
ReplaySucceeds(t) == receipt[t] = "succeeded"

\* The invocation fails before it reads the receipt (authorization, catalog,
\* payload, assurance) or at the claim itself (the store, the actor of the
\* receipt, a stored result that cannot be decoded): an error of the target,
\* whatever the receipt says.
RefuseAction(w, t) ==
  /\ inside[w] = "no"
  /\ ExecuteRecordTimer(w, t, FALSE)
  /\ missed' = IF receipt[t] = "succeeded" /\ LeaseConditions(w, t)
                THEN missed \cup {t} ELSE missed
  /\ UNCHANGED <<receiptVars, inside>>

\* There is a receipt already: a settled one is replayed; an unfinished or
\* retryable one, which this caller may not take over, is "in progress".
ReplayAction(w, t) ==
  /\ inside[w] = "no"
  /\ receipt[t] # "none"
  /\ ExecuteRecordTimer(w, t, ReplaySucceeds(t))
  /\ UNCHANGED <<receiptVars, inside, missed>>

CallConnector(w, t) ==
  /\ Running(w, t) /\ inside[w] = "running"
  /\ Receipt!Call(t)
  /\ inside' = [inside EXCEPT ![w] = "called"]
  /\ UNCHANGED <<vars, missed>>

\* The action ends, and with it the target of the timer.
EndAction(w, t, ok) ==
  /\ inside[w] # "no"
  /\ inside' = [inside EXCEPT ![w] = "no"]
  /\ Returns(w, t, ok)

\* The commit of the action; known: its result reaches the worker.
CommitAction(w, t, known) ==
  /\ EndAction(w, t, known)
  /\ Receipt!Commit(t)
  /\ missed' = IF known /\ LeaseConditions(w, t) THEN missed ELSE missed \cup {t}
  /\ Fault(~known)

\* A failure the receipt records.
FailAction(w, t, s) ==
  /\ EndAction(w, t, FALSE)
  /\ Receipt!Fail(t, s)
  /\ UNCHANGED <<missed, faults>>

\* A failure it does not: the receipt stays as it is.
LoseAction(w, t) ==
  /\ EndAction(w, t, FALSE)
  /\ Fault(TRUE)
  /\ UNCHANGED <<receiptVars, missed>>

CrashWorker(w) ==
  /\ Crash(w)
  /\ inside' = [inside EXCEPT ![w] = "no"]
  /\ UNCHANGED <<receiptVars, missed>>

RunTarget(w) ==
  \E t \in Timers :
    \/ BeginAction(w, t) \/ ReplayAction(w, t) \/ CallConnector(w, t)
    \/ CommitAction(w, t, TRUE)
    \/ \E s \in {"failed_retryable", "failed_terminal"} : FailAction(w, t, s)

WorkOn(w) ==
  RunTarget(w) \/ (Handle(w) /\ UNCHANGED <<receiptVars, inside, missed>>)

TimerActionNext ==
  \/ Environment /\ UNCHANGED <<receiptVars, inside, missed>>
  \/ \E w \in Workers :
       \/ WorkOn(w) \/ CrashWorker(w)
       \/ \E t \in Timers :
            RefuseAction(w, t) \/ LoseAction(w, t) \/ CommitAction(w, t, FALSE)

TimerActionSpec ==
  /\ TimerActionInit /\ [][TimerActionNext]_allVars
  /\ \A w \in Workers : WF_allVars(WorkOn(w))
  /\ WF_allVars(Tick /\ UNCHANGED <<receiptVars, inside, missed>>)

-----------------------------------------------------------------------------
(* Properties.                                                             *)

\* A timer that fired has exactly one committed effect, whichever of its
\* attempts, overlapping ones included, committed it; and once the effect is
\* committed under the current claim and the worker knows, the timer can only
\* fire: crashes, failed writes and spent attempts lead to further attempts
\* that replay the success, never to "failed" or a cancellation, unless such
\* an attempt is refused before the receipt answers it (executeRecordTimer).
FiredIffEffect ==
  \A t \in Timers :
    /\ status[t] = "fired" => receipt[t] = "succeeded" /\ effects[t] = 1
    /\ effects[t] = 1 /\ t \notin missed => status[t] \in {"leased", "fired"}

\* The action of a timer calls its connector at most once although its attempts
\* overlap and repeat: whoever is inside the action and has not called yet finds
\* that no attempt has (executeActionTarget, PreventExecutionReclaim).
CallIsFirst ==
  \A w \in Workers, t \in Timers :
    inside[w] = "running" /\ Running(w, t) => calls[t] = 0
=============================================================================
