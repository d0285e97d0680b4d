------------------------- MODULE PublicationOutbox -------------------------
(***************************************************************************)
(* The Runtime publication handoff: callers persist outbound messages in   *)
(* the _publication_outbox table, fenced workers hand each message to the  *)
(* Integration owner (Delivery.Accept) and record the outcome, operators   *)
(* retry or resolve messages through the dead-letter console.              *)
(*                                                                         *)
(* Code: application/publicationhandoff, and the two SQL stores under      *)
(* infrastructure/persistence/database/publicationhandoff.  Every SQL      *)
(* statement is one atomic step; everything between two statements can     *)
(* interleave with every other actor.                                      *)
(*                                                                         *)
(* Time.  An absolute deadline column is modelled by the time left until   *)
(* it: nextIn[m] = 0 is "next_attempt_at is empty or <= now" and           *)
(* leaseLeft[m] = 0 is "lease_expires_at is empty or <= now".  Tick lets   *)
(* one unit pass.  The clocks of the processes agree.                      *)
(***************************************************************************)
EXTENDS Integers, FiniteSets

CONSTANTS
  Messages,     \* deduplication identities: at most one row each
  Requests,     \* calls of Accept, retried by the caller until acknowledged
  MsgOf,        \* the deduplication identity a request names
  FpOf,         \* the fingerprint of a request's payload
  WsOf,         \* the workspace of a message
  Processes,    \* Runtime processes; the process is the lease owner
  Executors,    \* dispatcher executors (at most eight per process)
  ProcOf,       \* the process an executor runs in
  Operators,    \* operators of the dead-letter console
  OperatorStatuses, \* statuses operators ask for
  MaxAttempts,  \* maxHandoffAttempts
  BaseDelay, CapDelay, \* retryDelay's first delay and its cap
  LeaseTTL,     \* publicationLeaseExpiry
  WakeCap,      \* capacity of a process's wakeup channel
  MaxFaults,    \* bound: crashes, shutdowns, stalls and failed statements
  MaxInterventions, \* bound: operator writes
  NoMessage, NoOwner, NoFp \* null values

ASSUME ShapeAssumption ==
  /\ MsgOf \in [Requests -> Messages]
  /\ ProcOf \in [Executors -> Processes]
  /\ DOMAIN WsOf = Messages /\ DOMAIN FpOf = Requests
  /\ NoMessage \notin Messages /\ NoOwner \notin Processes
  /\ \A r \in Requests : FpOf[r] # NoFp

ASSUME NumberAssumption ==
  /\ MaxAttempts \in Nat /\ LeaseTTL \in Nat \ {0}
  /\ BaseDelay \in Nat \ {0} /\ CapDelay \in Nat \ {0} /\ WakeCap \in Nat
  /\ MaxFaults \in Nat /\ MaxInterventions \in Nat

\* The statuses UpdatePublicationStatus accepts.
AdminSettable == {"cancelled", "queued", "accepted", "failed", "dead_letter"}

\* The console resolves and acknowledges with "cancelled"; no caller lets an
\* operator record an outcome that only a worker can know.
ASSUME OperatorAssumption == OperatorStatuses \cap {"accepted", "dead_letter"} = {}

Statuses == AdminSettable \cup {"absent", "sending"}

VARIABLES
  \* _publication_outbox, one row per message
  status, fp, attempt, nextIn, owner, leaseLeft, token,
  scopes,     \* workspaces registered in _worker_queue_scopes
  delivered,  \* payloads the Integration owner holds (external)
  request,    \* progress of each Accept call
  wake,       \* wakeup channel of each process
  mode,       \* "run", or "stopping" once the worker context is cancelled
  pc, task, held, \* executors: stage, message, the row read back by the claim
  ownClaim,   \* history: the token an executor's own claim UPDATE produced
  beatLost,   \* executors whose heartbeat has failed
  view,       \* what each operator last read: status and lease of a message
  faults, interventions

rowVars == <<status, fp, attempt, nextIn, owner, leaseLeft, token>>
execVars == <<pc, task, held, ownClaim, beatLost>>
producerVars == <<scopes, request>>
vars == <<rowVars, scopes, delivered, request, wake, mode, execVars, view,
          faults, interventions>>

NoHold == [owner |-> NoOwner, token |-> 0, attempt |-> 0]
NoView == [msg |-> NoMessage, status |-> "absent", owner |-> NoOwner, token |-> 0]

Init ==
  /\ status = [m \in Messages |-> "absent"]
  /\ fp = [m \in Messages |-> NoFp]
  /\ attempt = [m \in Messages |-> 0]
  /\ nextIn = [m \in Messages |-> 0]
  /\ owner = [m \in Messages |-> NoOwner]
  /\ leaseLeft = [m \in Messages |-> 0]
  /\ token = [m \in Messages |-> 0]
  /\ scopes = {}
  /\ delivered = {}
  /\ request = [r \in Requests |-> "new"]
  /\ wake = [p \in Processes |-> {}]
  /\ mode = [p \in Processes |-> "run"]
  /\ pc = [e \in Executors |-> "idle"]
  /\ task = [e \in Executors |-> NoMessage]
  /\ held = [e \in Executors |-> NoHold]
  /\ ownClaim = [e \in Executors |-> 0]
  /\ beatLost = {}
  /\ view = [o \in Operators |-> NoView]
  /\ faults = 0 /\ interventions = 0

-----------------------------------------------------------------------------
(* Producers: Accept persists, registers the workspace, wakes a worker.    *)

\* Wake is a lossy hint: a full channel drops it.
Woken(p, m) ==
  IF Cardinality(wake[p]) < WakeCap
  THEN [wake EXCEPT ![p] = @ \cup {m}] ELSE wake

\* After a duplicate insert the recorded fingerprint decides: the same
\* payload is a replay, another one an idempotency conflict.
MutSamePayload(r) == TRUE
SamePayload(r) == fp[MsgOf[r]] = FpOf[r]

\* A replayed request re-registers the workspace while the row is still open.
MutNeedsScope(m) == FALSE
NeedsScope(m) == status[m] \in {"queued", "sending"}

\* InsertOutbox: the INSERT, or findByDedup when the row exists.
InsertOutbox(r) ==
  LET m == MsgOf[r] IN
  /\ request[r] = "new"
  /\ \/ /\ status[m] = "absent"
        /\ status' = [status EXCEPT ![m] = "queued"]
        /\ fp' = [fp EXCEPT ![m] = FpOf[r]]
        /\ request' = [request EXCEPT ![r] = "inserted"]
     \/ /\ status[m] # "absent"
        /\ request' = [request EXCEPT ![r] =
             IF ~SamePayload(r) THEN "rejected"
             ELSE IF NeedsScope(m) THEN "inserted" ELSE "settled"]
        /\ UNCHANGED <<status, fp>>
  /\ UNCHANGED <<attempt, nextIn, owner, leaseLeft, token, scopes, delivered,
                 wake, mode, execVars, view, faults, interventions>>

\* registerPublicationWorkerScope: recovery only visits registered workspaces.
RegisterScope(r) ==
  /\ request[r] = "inserted"
  /\ scopes' = scopes \cup {WsOf[MsgOf[r]]}
  /\ request' = [request EXCEPT ![r] = "registered"]
  /\ UNCHANGED <<rowVars, delivered, wake, mode, execVars, view, faults,
                 interventions>>

\* The rest of Accept: Wake, then the receipt goes back to the caller.
Acknowledge(r, p) ==
  /\ request[r] \in {"registered", "settled"}
  /\ request' = [request EXCEPT ![r] =
       IF request[r] = "registered" THEN "acked" ELSE "replayed"]
  /\ wake' = Woken(p, MsgOf[r])
  /\ UNCHANGED <<rowVars, scopes, delivered, mode, execVars, view, faults,
                 interventions>>

\* A statement fails or the producer crashes between two statements: the
\* caller sees an error and calls Accept again with the same identity.
AcceptFails(r) ==
  /\ request[r] \in {"inserted", "registered", "settled"}
  /\ faults < MaxFaults
  /\ faults' = faults + 1
  /\ request' = [request EXCEPT ![r] = "new"]
  /\ UNCHANGED <<rowVars, scopes, delivered, wake, mode, execVars, view,
                 interventions>>

-----------------------------------------------------------------------------
(* Workers: dispatch, claim, heartbeat, deliver, record the outcome.       *)

MutDueOnlyQueued(m) == status[m] = "queued" /\ nextIn[m] = 0
\* publicationDuePredicate: queued and due, or an expired claim.
publicationDuePredicate(m) ==
  \/ status[m] = "queued" /\ nextIn[m] = 0
  \/ status[m] = "sending" /\ leaseLeft[m] = 0

MutLeaseHeld(e) == status[task[e]] # "absent"
\* publicationLeasePredicate over the owner and token the executor read back.
LeaseHeld(e) ==
  /\ status[task[e]] = "sending"
  /\ owner[task[e]] = held[e].owner
  /\ token[task[e]] = held[e].token

\* The executor returns; the row is whatever the caller made of it.
Return(e) ==
  /\ pc' = [pc EXCEPT ![e] = "idle"]
  /\ task' = [task EXCEPT ![e] = NoMessage]
  /\ held' = [held EXCEPT ![e] = NoHold]
  /\ ownClaim' = [ownClaim EXCEPT ![e] = 0]
  /\ beatLost' = beatLost \ {e}

Accepting(e) == pc[e] = "idle" /\ mode[ProcOf[e]] = "run"

\* An executor takes a locator from its process's wakeup channel.
DispatchWakeup(e, m) ==
  /\ Accepting(e)
  /\ m \in wake[ProcOf[e]]
  /\ wake' = [wake EXCEPT ![ProcOf[e]] = @ \ {m}]
  /\ pc' = [pc EXCEPT ![e] = "claim"]
  /\ task' = [task EXCEPT ![e] = m]
  /\ UNCHANGED <<rowVars, producerVars, delivered, mode, held, ownClaim,
                 beatLost, view, faults, interventions>>

\* recoverLocators + ListDueOutbox: due rows of the registered workspaces.
DispatchRecovery(e, m) ==
  /\ Accepting(e)
  /\ WsOf[m] \in scopes
  /\ publicationDuePredicate(m)
  /\ pc' = [pc EXCEPT ![e] = "claim"]
  /\ task' = [task EXCEPT ![e] = m]
  /\ UNCHANGED <<rowVars, producerVars, delivered, wake, mode, held, ownClaim,
                 beatLost, view, faults, interventions>>

\* ClaimOutbox, the conditional UPDATE.  The attempt counter is untouched.
ClaimOutbox(e) ==
  LET m == task[e] IN
  /\ pc[e] = "claim"
  /\ \/ /\ publicationDuePredicate(m)
        /\ status' = [status EXCEPT ![m] = "sending"]
        /\ nextIn' = [nextIn EXCEPT ![m] = 0]
        /\ owner' = [owner EXCEPT ![m] = ProcOf[e]]
        /\ leaseLeft' = [leaseLeft EXCEPT ![m] = LeaseTTL]
        /\ token' = [token EXCEPT ![m] = @ + 1]
        /\ ownClaim' = [ownClaim EXCEPT ![e] = token[m] + 1]
        /\ pc' = [pc EXCEPT ![e] = "readback"]
        /\ UNCHANGED <<fp, attempt, task, held, beatLost>>
     \/ /\ ~publicationDuePredicate(m)
        /\ Return(e)
        /\ UNCHANGED rowVars
  /\ UNCHANGED <<producerVars, delivered, wake, mode, view, faults,
                 interventions>>

\* ClaimOutbox, the SELECT that follows: the lease the executor goes on with
\* is the row as it is now, whoever claimed it last.
ReadBack(e) ==
  LET m == task[e] IN
  /\ pc[e] = "readback"
  /\ held' = [held EXCEPT ![e] =
       [owner |-> owner[m], token |-> token[m], attempt |-> attempt[m]]]
  /\ pc' = [pc EXCEPT ![e] = "work"]
  /\ UNCHANGED <<rowVars, producerVars, delivered, wake, mode, task, ownClaim,
                 beatLost, view, faults, interventions>>

\* HeartbeatOutbox: renews the lease, or cancels the work it guards.
HeartbeatOutbox(e) ==
  /\ pc[e] = "work" /\ e \notin beatLost
  /\ \/ /\ LeaseHeld(e)
        /\ leaseLeft' = [leaseLeft EXCEPT ![task[e]] = LeaseTTL]
        /\ UNCHANGED beatLost
     \/ /\ ~LeaseHeld(e)
        /\ beatLost' = beatLost \cup {e}
        /\ UNCHANGED leaseLeft
  /\ UNCHANGED <<status, fp, attempt, nextIn, owner, token, producerVars,
                 delivered, wake, mode, pc, task, held, ownClaim, view, faults,
                 interventions>>

\* The stage after Delivery.Accept: only an accepted call whose heartbeat
\* never failed goes on to record the acceptance.
MutAfterDelivery(e, ok) == "complete"
AfterDelivery(e, ok) == IF ok /\ e \notin beatLost THEN "complete" ELSE "fail"

\* Payload preparation and Delivery.Accept.  The owner keeps the payload or
\* not, and an error can hide that it did.
Deliver(e, kept, ok) ==
  /\ pc[e] = "work"
  /\ ok => kept
  /\ delivered' = IF kept THEN delivered \cup {<<task[e], fp[task[e]]>>}
                          ELSE delivered
  /\ pc' = [pc EXCEPT ![e] = AfterDelivery(e, ok)]
  /\ UNCHANGED <<rowVars, producerVars, wake, mode, task, held, ownClaim,
                 beatLost, view, faults, interventions>>

\* Worker UpdateOutboxStatus: a fenced write that ends the claim.
EndClaim(e, s) ==
  LET m == task[e] IN
  IF LeaseHeld(e)
  THEN /\ status' = [status EXCEPT ![m] = s]
       /\ nextIn' = [nextIn EXCEPT ![m] = 0]
       /\ owner' = [owner EXCEPT ![m] = NoOwner]
       /\ leaseLeft' = [leaseLeft EXCEPT ![m] = 0]
       /\ UNCHANGED <<fp, attempt, token>>
  ELSE UNCHANGED rowVars

CompleteOutbox(e) ==
  /\ pc[e] = "complete"
  /\ EndClaim(e, "accepted")
  /\ Return(e)
  /\ UNCHANGED <<producerVars, delivered, wake, mode, view, faults,
                 interventions>>

Stopping(e) == mode[ProcOf[e]] = "stopping"
MutExhausted(e) == held[e].attempt + 1 >= MaxAttempts
Exhausted(e) == held[e].attempt >= MaxAttempts

\* process(), the cancelled branch: the message goes back to the queue.
ReleaseOutbox(e) ==
  /\ pc[e] = "fail" /\ Stopping(e)
  /\ EndClaim(e, "queued")
  /\ Return(e)
  /\ UNCHANGED <<producerVars, delivered, wake, mode, view, faults,
                 interventions>>

DeadLetterOutbox(e) ==
  /\ pc[e] = "fail" /\ ~Stopping(e) /\ Exhausted(e)
  /\ EndClaim(e, "dead_letter")
  /\ Return(e)
  /\ UNCHANGED <<producerVars, delivered, wake, mode, view, faults,
                 interventions>>

retryDelay(a) == IF BaseDelay * 2^a > CapDelay THEN CapDelay ELSE BaseDelay * 2^a

\* Worker ScheduleOutboxRetry.
ScheduleOutboxRetry(e) ==
  LET m == task[e] IN
  /\ pc[e] = "fail" /\ ~Stopping(e) /\ ~Exhausted(e)
  /\ IF LeaseHeld(e)
     THEN /\ status' = [status EXCEPT ![m] = "queued"]
          /\ attempt' = [attempt EXCEPT ![m] = @ + 1]
          /\ \E d \in 1..CapDelay :
               /\ d = retryDelay(held[e].attempt)
               /\ nextIn' = [nextIn EXCEPT ![m] = d]
          /\ owner' = [owner EXCEPT ![m] = NoOwner]
          /\ leaseLeft' = [leaseLeft EXCEPT ![m] = 0]
          /\ UNCHANGED <<fp, token>>
     ELSE UNCHANGED rowVars
  /\ Return(e)
  /\ UNCHANGED <<producerVars, delivered, wake, mode, view, faults,
                 interventions>>

\* The executor's statement fails, or its context is cancelled first, and
\* process() returns with the row untouched: the claim is left to expire.
AbandonClaim(e) ==
  /\ \/ /\ pc[e] \in {"readback", "complete"} /\ Stopping(e)
        /\ UNCHANGED faults
     \/ /\ pc[e] \in {"readback", "complete", "fail"}
        /\ faults < MaxFaults
        /\ faults' = faults + 1
  /\ Return(e)
  /\ UNCHANGED <<rowVars, producerVars, delivered, wake, mode, view,
                 interventions>>

-----------------------------------------------------------------------------
(* Processes, time and operators.                                          *)

\* Shutdown cancels the worker context; executors wind down by themselves.
Shutdown(p) ==
  /\ mode[p] = "run"
  /\ faults < MaxFaults
  /\ faults' = faults + 1
  /\ mode' = [mode EXCEPT ![p] = "stopping"]
  /\ UNCHANGED <<rowVars, producerVars, delivered, wake, execVars, view,
                 interventions>>

\* A process starts again, after a shutdown has drained its executors or out
\* of a crash: its executors and its wakeup channel start empty.
Restarted(p) ==
  LET mine == {e \in Executors : ProcOf[e] = p} IN
  /\ pc' = [e \in Executors |-> IF e \in mine THEN "idle" ELSE pc[e]]
  /\ task' = [e \in Executors |-> IF e \in mine THEN NoMessage ELSE task[e]]
  /\ held' = [e \in Executors |-> IF e \in mine THEN NoHold ELSE held[e]]
  /\ ownClaim' = [e \in Executors |-> IF e \in mine THEN 0 ELSE ownClaim[e]]
  /\ beatLost' = beatLost \ mine
  /\ wake' = [wake EXCEPT ![p] = {}]
  /\ mode' = [mode EXCEPT ![p] = "run"]

Restart(p) ==
  /\ mode[p] = "stopping"
  /\ \A e \in Executors : ProcOf[e] = p => pc[e] = "idle"
  /\ Restarted(p)
  /\ UNCHANGED <<rowVars, producerVars, delivered, view, faults, interventions>>

Crash(p) ==
  /\ \E e \in Executors : ProcOf[e] = p /\ pc[e] # "idle"
  /\ faults < MaxFaults
  /\ faults' = faults + 1
  /\ Restarted(p)
  /\ UNCHANGED <<rowVars, producerVars, delivered, view, interventions>>

\* Messages whose claim an executor is still working on.
InFlight ==
  {m \in Messages : status[m] = "sending" /\ \E e \in Executors :
     task[e] = m /\ ownClaim[e] = token[m]}

Elapse ==
  /\ nextIn' = [m \in Messages |-> IF nextIn[m] > 0 THEN nextIn[m] - 1 ELSE 0]
  /\ leaseLeft' = [m \in Messages |->
                     IF leaseLeft[m] > 0 THEN leaseLeft[m] - 1 ELSE 0]
  /\ UNCHANGED <<status, fp, attempt, owner, token, producerVars, delivered,
                 wake, mode, execVars, view, interventions>>

\* Time passes; a live worker renews its lease before it runs out (the
\* heartbeat period of 90 s is under a third of the lease).
Tick ==
  /\ \E m \in Messages : nextIn[m] + leaseLeft[m] > 0
  /\ \A m \in InFlight : leaseLeft[m] > 1
  /\ Elapse
  /\ UNCHANGED faults

\* A worker or its database stalls past the lease it holds.
Stall ==
  /\ \E m \in InFlight : leaseLeft[m] = 1
  /\ faults < MaxFaults
  /\ faults' = faults + 1
  /\ Elapse

\* InspectPublicationMessage, by itself or as SchedulePublicationRetry's read.
Inspect(o, m) ==
  /\ status[m] # "absent"
  /\ interventions < MaxInterventions
  /\ view' = [view EXCEPT ![o] = [msg |-> m, status |-> status[m],
                                 owner |-> owner[m], token |-> token[m]]]
  /\ UNCHANGED <<rowVars, producerVars, delivered, wake, mode, execVars,
                 faults, interventions>>

Intervene(o) ==
  /\ view[o].msg # NoMessage
  /\ interventions < MaxInterventions
  /\ interventions' = interventions + 1
  /\ view' = [view EXCEPT ![o] = NoView]

\* Any other status is refused as invalid_status.
MutSettable(s) == TRUE
Settable(s) == s \in AdminSettable

\* UpdatePublicationStatus: an unconditional write that leaves the lease.
UpdatePublicationStatus(o, s) ==
  LET m == view[o].msg IN
  /\ Settable(s)
  /\ Intervene(o)
  /\ status' = [status EXCEPT ![m] = s]
  /\ nextIn' = [nextIn EXCEPT ![m] = 0]
  /\ UNCHANGED <<fp, attempt, owner, leaseLeft, token, producerVars, delivered,
                 wake, mode, execVars, faults>>

Retryable == {"failed", "dead_letter", "cancelled"}

\* SchedulePublicationRetry's write: guarded by the status read earlier, and
\* by nothing in the UPDATE itself.
SchedulePublicationRetry(o) ==
  LET m == view[o].msg IN
  /\ Intervene(o)
  /\ view[o].status \in Retryable
  /\ status' = [status EXCEPT ![m] = "queued"]
  /\ attempt' = [attempt EXCEPT ![m] = @ + 1]
  /\ nextIn' = [nextIn EXCEPT ![m] = 0]
  /\ UNCHANGED <<fp, owner, leaseLeft, token, producerVars, delivered, wake,
                 mode, execVars, faults>>

\* The lease is still the one the operator saw.
LeaseAsSeen(o) ==
  /\ view[o].owner # NoOwner /\ view[o].token > 0
  /\ owner[view[o].msg] = view[o].owner
  /\ token[view[o].msg] = view[o].token

\* ForceReleaseOperationsLease, one serializable transaction: the lease seen
\* earlier has expired, or the operator vouches (stuck) that its holder hangs.
\* The row is left "sending" without a lease, for any worker to claim again.
ForceReleaseOperationsLease(o, stuck) ==
  LET m == view[o].msg IN
  /\ Intervene(o)
  /\ LeaseAsSeen(o)
  /\ leaseLeft[m] = 0 \/ stuck
  /\ owner' = [owner EXCEPT ![m] = NoOwner]
  /\ leaseLeft' = [leaseLeft EXCEPT ![m] = 0]
  /\ token' = [token EXCEPT ![m] = @ + 1]
  /\ UNCHANGED <<status, fp, attempt, nextIn, producerVars, delivered, wake,
                 mode, execVars, faults>>

-----------------------------------------------------------------------------
Produce(r) ==
  \/ InsertOutbox(r) \/ RegisterScope(r)
  \/ \E p \in Processes : Acknowledge(r, p)

Finish(e) ==
  CompleteOutbox(e) \/ ReleaseOutbox(e) \/ DeadLetterOutbox(e)
  \/ ScheduleOutboxRetry(e)

Work(e) ==
  \/ \E m \in Messages : DispatchWakeup(e, m) \/ DispatchRecovery(e, m)
  \/ ClaimOutbox(e) \/ ReadBack(e) \/ HeartbeatOutbox(e)
  \/ \E kept, ok \in BOOLEAN : Deliver(e, kept, ok)
  \/ Finish(e) \/ AbandonClaim(e)

Operate(o) ==
  \/ \E m \in Messages : Inspect(o, m)
  \/ \E s \in OperatorStatuses : UpdatePublicationStatus(o, s)
  \/ SchedulePublicationRetry(o)
  \/ \E stuck \in BOOLEAN : ForceReleaseOperationsLease(o, stuck)

Next ==
  \/ \E r \in Requests : Produce(r) \/ AcceptFails(r)
  \/ \E e \in Executors : Work(e)
  \/ \E p \in Processes : Shutdown(p) \/ Restart(p) \/ Crash(p)
  \/ \E o \in Operators : Operate(o)
  \/ Tick \/ Stall

Spec == Init /\ [][Next]_vars

\* Callers retry Accept, every executor keeps running, the recovery loop
\* visits due messages, heartbeats fire, time passes, processes restart.
Fairness ==
  /\ \A r \in Requests : WF_vars(Produce(r))
  /\ \A m \in Messages :
       /\ WF_vars(\E e \in Executors : DispatchRecovery(e, m))
       /\ WF_vars(\E e \in Executors : DispatchWakeup(e, m))
  /\ \A e \in Executors :
       /\ WF_vars(ClaimOutbox(e)) /\ WF_vars(ReadBack(e))
       /\ WF_vars(HeartbeatOutbox(e)) /\ WF_vars(Finish(e))
       /\ WF_vars(\E kept, ok \in BOOLEAN : Deliver(e, kept, ok))
  /\ \A p \in Processes : WF_vars(Restart(p))
  /\ WF_vars(Tick)

FairSpec == Spec /\ Fairness

-----------------------------------------------------------------------------
(* Properties.                                                             *)

\* "settled" and "replayed" are the branch of a duplicate of a settled message.
RequestStages ==
  {"new", "inserted", "registered", "settled", "acked", "replayed", "rejected"}
Fingerprints == {FpOf[r] : r \in Requests} \cup {NoFp}
Holds == [owner : Processes \cup {NoOwner}, token : Nat, attempt : Nat]
Views == [msg : Messages \cup {NoMessage}, status : Statuses,
          owner : Processes \cup {NoOwner}, token : Nat]
Receipt(r) == request[r] \in {"acked", "replayed"}
Stages == {"idle", "claim", "readback", "work", "complete", "fail"}

RowTypeOK ==
  /\ status \in [Messages -> Statuses]
  /\ fp \in [Messages -> Fingerprints]
  /\ attempt \in [Messages -> Nat] /\ nextIn \in [Messages -> Nat]
  /\ owner \in [Messages -> Processes \cup {NoOwner}]
  /\ leaseLeft \in [Messages -> Nat] /\ token \in [Messages -> Nat]

\* An executor that is not idle works on a message.
ExecTypeOK ==
  /\ pc \in [Executors -> Stages]
  /\ task \in [Executors -> Messages \cup {NoMessage}]
  /\ held \in [Executors -> Holds]
  /\ ownClaim \in [Executors -> Nat] /\ beatLost \subseteq Executors
  /\ \A e \in Executors : pc[e] # "idle" => task[e] \in Messages

\* Every column, channel and program counter keeps its type.
TypeOK ==
  /\ RowTypeOK
  /\ ExecTypeOK
  /\ scopes \subseteq {WsOf[m] : m \in Messages}
  /\ delivered \subseteq Messages \X Fingerprints
  /\ request \in [Requests -> RequestStages]
  /\ wake \in [Processes -> SUBSET Messages]
  /\ mode \in [Processes -> {"run", "stopping"}]
  /\ view \in [Operators -> Views]
  /\ faults \in Nat /\ interventions \in Nat

\* A message whose caller holds a receipt lies, as long as it is open, in a
\* workspace the recovery loop visits, whatever statement of Accept failed
\* before and however often it was retried.  A receipt given while the message
\* was open ("acked") survives every operator; one given for a settled message
\* registers nothing, which is enough only until an operator re-opens it.
AckedDiscoverable ==
  \A r \in Requests :
    request[r] = "acked" \/ (request[r] = "replayed" /\ interventions = 0)
      => (status[MsgOf[r]] \in {"queued", "sending"} => WsOf[MsgOf[r]] \in scopes)

\* A receipt is only given for the payload that is, was or will be handed to
\* the Integration owner: concurrent requests under one deduplication key
\* never mix payloads (the fingerprint check of InsertOutbox).
AckedPayload ==
  \A r \in Requests : Receipt(r) =>
    /\ fp[MsgOf[r]] = FpOf[r]
    /\ \A d \in delivered : d[1] = MsgOf[r] => d[2] = FpOf[r]

\* A message the workers recorded as accepted has reached the Integration
\* owner (process() records "accepted" only after Delivery.Accept).
AcceptedWasDelivered ==
  \A m \in Messages : status[m] = "accepted" => <<m, fp[m]>> \in delivered

\* A message is dead-lettered only once it has used up its attempts, even
\* when the counter the worker decides on was read before other workers'
\* and operators' writes.
DeadLetterExhausted ==
  \A m \in Messages : status[m] = "dead_letter" => attempt[m] >= MaxAttempts

\* Retries are bounded: beyond maxHandoffAttempts only an operator's retry
\* raises the counter.
AttemptBudget ==
  \A m \in Messages : attempt[m] <= MaxAttempts + interventions

Settled == {"accepted", "failed", "dead_letter", "cancelled"}

\* No worker, however late, changes a message that is settled: only an
\* operator's write does (the fenced UPDATEs of the worker store).
WorkersRespectSettled ==
  [][\A m \in Messages : status[m] \in Settled /\ status'[m] # status[m]
       => interventions' = interventions + 1]_vars

\* Every message whose caller holds a receipt is eventually settled: no lost
\* wakeup, crash, shutdown, stall or failed statement leaves it stuck.
AckedSettles ==
  \A r \in Requests :
    Receipt(r) ~> status[MsgOf[r]] \in Settled

=============================================================================
