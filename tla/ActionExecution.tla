-------------------------- MODULE ActionExecution --------------------------
(***************************************************************************)
(* Idempotent execution of business actions.  Every invocation claims the  *)
(* receipt of its idempotency key in _action_executions, runs the handler  *)
(* under a 30 s lease that nobody renews, and commits its record changes   *)
(* together with the receipt in one transaction.  Retried invocations      *)
(* replay the receipt, wait, or take an expired claim over.  Operators     *)
(* retry, reset and release receipts; cleaners delete them once their      *)
(* replay window has passed.                                               *)
(*                                                                         *)
(* Code: domain/action/runtime, application/action (unit of work, Invoke), *)
(* and the SQL stores under infrastructure/persistence/database.           *)
(*                                                                         *)
(* Time.  leaseLeft[k] is the time until lease_expires_at (0: empty or     *)
(* past), window[k] says whether expires_at is empty ("none"), ahead       *)
(* ("open") or past ("passed").  A caller reads the clock once, before its *)
(* first statement; acting on an old reading is a stall, counted in faults.*)
(*                                                                         *)
(* The callers of a key act for one principal; the check that a receipt    *)
(* belongs to the actor of the invocation is left out.                     *)
(***************************************************************************)
EXTENDS Integers, FiniteSets

CONSTANTS
  Keys,        \* idempotency keys with their scope: at most one receipt each
  Callers,     \* invocations, retried until they get a final answer
  KeyOf, FpOf, \* the key and the request fingerprint of an invocation
  Prevent,     \* callers with PreventExecutionReclaim (timers, schedules, agents)
  Cleaners,    \* idempotency cleanup workers
  LifecycleJobs, \* purge jobs of the lifecycle policy
  LeaseTTL,    \* actionExecutionLeaseTTL
  MaxFaults,   \* bound: stalls, crashes, lost replies and failed statements
  MaxInterventions, \* bound: operator writes
  MaxPurges,   \* bound: replay windows that pass
  NoOwner, NoFp \* null values

ASSUME ShapeAssumption ==
  /\ KeyOf \in [Callers -> Keys] /\ DOMAIN FpOf = Callers
  /\ \A c \in Callers : FpOf[c] # NoFp
  /\ Prevent \subseteq Callers /\ NoOwner \notin Callers

ASSUME NumberAssumption ==
  /\ LeaseTTL \in Nat \ {0} /\ MaxFaults \in Nat /\ MaxInterventions \in Nat
  /\ MaxPurges \in Nat

VARIABLES
  \* _action_executions, one row per key
  status, fp, owner, leaseLeft, token, window,
  effects,    \* history: effects committed under a key within its window
  calls,      \* history: external calls dispatched, likewise
  applied,    \* history: fingerprints whose effect was ever committed
  stray,      \* history: receipts of a key that the lifecycle purge deleted
              \* although they no longer qualified
  pc, held,   \* callers: stage, and the lease they work under
  answer,     \* what a caller was finally told
  picked,     \* the receipts a cleaner has selected
  faults, interventions, purges

rowVars == <<status, fp, owner, leaseLeft, token, window>>
history == <<effects, calls, applied, stray>>
callerVars == <<pc, held, answer>>
vars == <<rowVars, history, callerVars, picked, faults, interventions, purges>>

NoHold == [owner |-> NoOwner, token |-> 0]

Init ==
  /\ status = [k \in Keys |-> "none"]
  /\ fp = [k \in Keys |-> NoFp]
  /\ owner = [k \in Keys |-> NoOwner]
  /\ leaseLeft = [k \in Keys |-> 0]
  /\ token = [k \in Keys |-> 0]
  /\ window = [k \in Keys |-> "none"]
  /\ effects = [k \in Keys |-> 0] /\ calls = [k \in Keys |-> 0]
  /\ applied = [k \in Keys |-> {}] /\ stray = [k \in Keys |-> 0]
  /\ pc = [c \in Callers |-> "idle"]
  /\ held = [c \in Callers |-> NoHold]
  /\ answer = [c \in Callers |-> "none"]
  /\ picked = [x \in Cleaners \cup LifecycleJobs |-> {}]
  /\ faults = 0 /\ interventions = 0 /\ purges = 0

\* A step that only happens when something goes wrong uses up a fault.
Fault(b) ==
  IF b THEN faults < MaxFaults /\ faults' = faults + 1 ELSE UNCHANGED faults

-----------------------------------------------------------------------------
(* TryBeginExecution: insert, look up, take over, read back.               *)

\* The lease a claim writes counts from the caller's clock reading.
Claim(c, t, left) ==
  LET k == KeyOf[c] IN
  /\ status' = [status EXCEPT ![k] = "processing"]
  /\ owner' = [owner EXCEPT ![k] = c]
  /\ leaseLeft' = [leaseLeft EXCEPT ![k] = left]
  /\ token' = [token EXCEPT ![k] = t]

Goto(c, stage) == pc' = [pc EXCEPT ![c] = stage]

\* The INSERT of a new receipt.  Its reply can get lost (~ack), and then the
\* caller looks its own receipt up like anybody else's.
InsertExecution(c, left, ack) ==
  LET k == KeyOf[c] IN
  /\ pc[c] = "idle" /\ status[k] = "none"
  /\ Fault(left # LeaseTTL \/ ~ack)
  /\ Claim(c, 1, left)
  /\ fp' = [fp EXCEPT ![k] = FpOf[c]]
  /\ window' = [window EXCEPT ![k] = "none"]
  /\ held' = [held EXCEPT ![c] = [owner |-> c, token |-> 1]]
  /\ Goto(c, IF ack THEN "run" ELSE "lookup")
  /\ UNCHANGED <<history, answer, picked, interventions, purges>>

\* The INSERT meets an existing receipt.
InsertRefused(c) ==
  /\ pc[c] = "idle" /\ status[KeyOf[c]] # "none"
  /\ Goto(c, "lookup")
  /\ UNCHANGED <<rowVars, history, held, answer, picked, faults, interventions,
                 purges>>

\* idempotency.Classify; now says whether the caller's clock reading is fresh.
Classify(c, now) ==
  LET k == KeyOf[c] IN
  IF fp[k] # FpOf[c] THEN "conflict"
  ELSE IF status[k] \in {"succeeded", "failed_terminal"} THEN "replay"
  ELSE IF status[k] = "failed_retryable" \/ (leaseLeft[k] = 0 /\ now)
  THEN "acquired" ELSE "in_progress"

MutMayReclaim(c) == TRUE
MayReclaim(c) == c \notin Prevent

MutReplayed(k) == status[k]
MutReplayedAll(k) == "replay"
\* What a settled receipt tells the caller that replays it.
Replayed(k) == IF status[k] = "succeeded" THEN "replay" ELSE "failed"

\* waitForExecutionByScope and the decision on what it finds.  A caller that
\* is told to wait, or finds nothing, invokes the action again later.
LookUpExecution(c, now) ==
  LET k == KeyOf[c]
      decision == IF status[k] = "none" THEN "unavailable" ELSE Classify(c, now)
  IN
  /\ pc[c] = "lookup"
  /\ Fault(~now)
  /\ \/ /\ decision = "acquired" /\ MayReclaim(c)
        /\ Goto(c, "reclaim")
        /\ UNCHANGED answer
     \/ /\ decision \in {"in_progress", "unavailable"}
           \/ (decision = "acquired" /\ ~MayReclaim(c))
        /\ Goto(c, "idle")
        /\ UNCHANGED answer
     \/ /\ decision \in {"conflict", "replay"}
        /\ Goto(c, "done")
        /\ answer' = [answer EXCEPT ![c] =
             IF decision = "conflict" THEN "conflict" ELSE Replayed(k)]
  /\ UNCHANGED <<rowVars, history, held, picked, interventions, purges>>

MutReclaimFailed(c) == status[KeyOf[c]] = "failed_retryable"
\* The WHERE clause of the take-over: an expired claim or a retryable failure
\* of the same request.
Reclaimable(c) ==
  LET k == KeyOf[c] IN
  /\ fp[k] = FpOf[c]
  /\ \/ status[k] = "processing" /\ leaseLeft[k] = 0
     \/ status[k] = "failed_retryable"

\* The conditional UPDATE that takes a receipt over.
ReclaimExecution(c, left) ==
  /\ pc[c] = "reclaim"
  /\ \/ /\ Reclaimable(c)
        /\ Fault(left # LeaseTTL)
        /\ Claim(c, token[KeyOf[c]] + 1, left)
        /\ Goto(c, "readback")
        /\ UNCHANGED <<fp, window>>
     \/ /\ ~Reclaimable(c) /\ left = LeaseTTL
        /\ Goto(c, "idle")
        /\ UNCHANGED <<rowVars, faults>>
  /\ UNCHANGED <<history, held, answer, picked, interventions, purges>>

\* The SELECT after it: the caller goes on under whatever lease it reads.
ReadBackExecution(c) ==
  LET k == KeyOf[c] IN
  /\ pc[c] = "readback"
  /\ IF status[k] = "none"
     THEN Goto(c, "idle") /\ UNCHANGED held
     ELSE /\ held' = [held EXCEPT ![c] = [owner |-> owner[k], token |-> token[k]]]
          /\ Goto(c, "run")
  /\ UNCHANGED <<rowVars, history, answer, picked, faults, interventions, purges>>

-----------------------------------------------------------------------------
(* The execution itself: external call, commit, failure.                   *)

Executing(c) == pc[c] \in {"run", "called"}

MutLeaseHeld(c) ==
  LET k == KeyOf[c] IN
  owner[k] = held[c].owner /\ token[k] = held[c].token /\ status[k] # "none"
\* The predicate of every completion: status, owner and token.
LeaseHeld(c) ==
  LET k == KeyOf[c] IN
  /\ status[k] = "processing"
  /\ owner[k] = held[c].owner /\ token[k] = held[c].token

\* AcquireSynchronousConnectorCall for an external effect: only callers that
\* never take a receipt over may dispatch one.  The calls of one execution, all
\* before its first write, count as one.
CallConnector(c) ==
  /\ pc[c] = "run" /\ c \in Prevent
  /\ calls' = [calls EXCEPT ![KeyOf[c]] = @ + 1]
  /\ Goto(c, "called")
  /\ UNCHANGED <<rowVars, effects, applied, stray, held, answer, picked, faults,
                 interventions, purges>>

\* A completion settles the receipt and opens its replay window.  The lease
\* columns stay as they are.
Settle(k, s) ==
  /\ status' = [status EXCEPT ![k] = s]
  /\ window' = [window EXCEPT ![k] = "open"]
  /\ UNCHANGED <<fp, owner, leaseLeft, token>>

\* actionExecutionTransaction.Commit: the record changes and the fenced
\* completion in one transaction.
CommitEffects(c) ==
  /\ LeaseHeld(c)
  /\ Settle(KeyOf[c], "succeeded")
  /\ effects' = [effects EXCEPT ![KeyOf[c]] = @ + 1]
  /\ applied' = [applied EXCEPT ![KeyOf[c]] = @ \cup {FpOf[c]}]
  /\ UNCHANGED <<calls, stray>>

CommitExecution(c) ==
  /\ Executing(c)
  /\ CommitEffects(c)
  /\ Goto(c, "done")
  /\ answer' = [answer EXCEPT ![c] = "success"]
  /\ UNCHANGED <<held, picked, faults, interventions, purges>>

\* The transaction commits but its caller learns an error: an unknown commit
\* result ends the invocation, a failed read of the receipt is handled as a
\* failure of the action.
CommitUnnoticed(c, unknown) ==
  /\ Executing(c)
  /\ Fault(TRUE)
  /\ CommitEffects(c)
  /\ Goto(c, IF unknown THEN "idle" ELSE "fail_retryable")
  /\ UNCHANGED <<held, answer, picked, interventions, purges>>

\* The lease is lost at the commit, or the handler or the commit fails: the
\* transaction rolls back and the failure is recorded.
ExecutionFails(c, stage) ==
  /\ Executing(c)
  /\ \/ stage = "fail_terminal" /\ Fault(FALSE)
     \/ stage = "fail_retryable" /\ Fault(TRUE)
     \/ stage = "idle" /\ Fault(TRUE) \* commit result unknown
  /\ Goto(c, stage)
  /\ UNCHANGED <<rowVars, history, held, answer, picked, interventions, purges>>

\* Fail: a fenced completion, whose reply can get lost (~ack).  A lost lease is
\* a conflict the caller does not retry, whatever the failure was.
FailExecution(c, ack) ==
  /\ pc[c] \in {"fail_terminal", "fail_retryable"}
  /\ \/ /\ LeaseHeld(c)
        /\ Fault(~ack)
        /\ Settle(KeyOf[c], IF pc[c] = "fail_terminal" THEN "failed_terminal"
                                                        ELSE "failed_retryable")
        /\ IF pc[c] = "fail_terminal" /\ ack
           THEN Goto(c, "done") /\ answer' = [answer EXCEPT ![c] = "failed"]
           ELSE Goto(c, "idle") /\ UNCHANGED answer
     \/ /\ ~LeaseHeld(c) /\ ack
        /\ Goto(c, "done")
        /\ answer' = [answer EXCEPT ![c] = "lost"]
        /\ UNCHANGED <<rowVars, faults>>
  /\ UNCHANGED <<history, held, picked, interventions, purges>>

\* The process dies, or the failure cannot be recorded: the invocation is
\* repeated from the start and the receipt left as it is.
Crash(c) ==
  /\ pc[c] \notin {"idle", "done"}
  /\ Fault(TRUE)
  /\ Goto(c, "idle")
  /\ UNCHANGED <<rowVars, history, held, answer, picked, interventions, purges>>

-----------------------------------------------------------------------------
(* Operators.                                                              *)

Intervene ==
  interventions < MaxInterventions /\ interventions' = interventions + 1

Released(k) ==
  /\ owner' = [owner EXCEPT ![k] = NoOwner]
  /\ leaseLeft' = [leaseLeft EXCEPT ![k] = 0]
  /\ token' = [token EXCEPT ![k] = @ + 1]

\* transitionIdempotencyReceipt: Retry keeps failed_retryable, Reset turns
\* failed_terminal into it.
TransitionReceipt(k, from) ==
  /\ Intervene
  /\ status[k] = from
  /\ status' = [status EXCEPT ![k] = "failed_retryable"]
  /\ Released(k)
  /\ UNCHANGED <<fp, window, history, callerVars, picked, faults, purges>>

\* ForceReleaseOperationsLease.  The owner and token the operator expects are
\* compared in the same transaction: one that is out of date changes nothing.
ForceReleaseOperationsLease(k, stuck) ==
  /\ Intervene
  /\ owner[k] # NoOwner
  /\ leaseLeft[k] = 0 \/ stuck
  /\ Released(k)
  /\ UNCHANGED <<status, fp, window, history, callerVars, picked, faults, purges>>

-----------------------------------------------------------------------------
(* Time and cleanup.                                                       *)

Tick ==
  /\ \E k \in Keys : leaseLeft[k] > 0
  /\ leaseLeft' = [k \in Keys |-> IF leaseLeft[k] > 0 THEN leaseLeft[k] - 1 ELSE 0]
  /\ UNCHANGED <<status, fp, owner, token, window, history, callerVars, picked,
                 faults, interventions, purges>>

\* Thirty days after a completion; no invocation stays in flight that long.
WindowPasses(k) ==
  /\ window[k] = "open"
  /\ purges < MaxPurges
  /\ purges' = purges + 1
  /\ \A c \in Callers : KeyOf[c] = k => pc[c] \in {"idle", "done"}
  /\ window' = [window EXCEPT ![k] = "passed"]
  /\ leaseLeft' = [leaseLeft EXCEPT ![k] = 0]
  /\ effects' = [effects EXCEPT ![k] = 0]
  /\ calls' = [calls EXCEPT ![k] = 0]
  /\ UNCHANGED <<status, fp, owner, token, applied, stray, callerVars, picked,
                 faults, interventions>>

\* expiredReceiptEligibility
Eligible(k) ==
  window[k] = "passed" /\ status[k] \notin {"none", "processing"}

\* cleanupPredicate of the lifecycle policy, the same for this table
cleanupPredicate(k) ==
  window[k] = "passed" /\ status[k] \notin {"none", "processing"}

Delete(gone) ==
  /\ status' = [k \in Keys |-> IF k \in gone THEN "none" ELSE status[k]]
  /\ fp' = [k \in Keys |-> IF k \in gone THEN NoFp ELSE fp[k]]
  /\ owner' = [k \in Keys |-> IF k \in gone THEN NoOwner ELSE owner[k]]
  /\ leaseLeft' = [k \in Keys |-> IF k \in gone THEN 0 ELSE leaseLeft[k]]
  /\ token' = [k \in Keys |-> IF k \in gone THEN 0 ELSE token[k]]
  /\ window' = [k \in Keys |-> IF k \in gone THEN "none" ELSE window[k]]

\* Both cleaners first list a limited number of receipts that qualify ...
SelectReceipts(x, batch) ==
  /\ picked[x] = {} /\ batch # {}
  /\ \A k \in batch : IF x \in Cleaners THEN Eligible(k) ELSE cleanupPredicate(k)
  /\ picked' = [picked EXCEPT ![x] = batch]
  /\ UNCHANGED <<rowVars, history, callerVars, faults, interventions, purges>>

MutStillEligible(batch) == batch
StillEligible(batch) == {k \in batch : Eligible(k)}

\* ... then deleteExpiredReceiptBatch deletes, workspace by workspace, those
\* that still do ...
DeleteExpiredReceipts(x, batch) ==
  /\ batch # {} /\ batch \subseteq picked[x]
  /\ Delete(StillEligible(batch))
  /\ picked' = [picked EXCEPT ![x] = @ \ batch]
  /\ UNCHANGED <<history, callerVars, faults, interventions, purges>>

\* ... and the lifecycle executor deletes one after the other, by id and
\* without looking again, unless it skips one for a legal hold or a reference.
PurgeCandidate(x, k, skip) ==
  /\ k \in picked[x]
  /\ IF skip \/ status[k] = "none" THEN UNCHANGED rowVars ELSE Delete({k})
  /\ stray' = [stray EXCEPT ![k] =
       IF skip \/ status[k] = "none" \/ cleanupPredicate(k) THEN @ ELSE @ + 1]
  /\ picked' = [picked EXCEPT ![x] = @ \ {k}]
  /\ UNCHANGED <<effects, calls, applied, callerVars, faults, interventions, purges>>

Clean(x) ==
  \E batch \in SUBSET Keys : SelectReceipts(x, batch) \/ DeleteExpiredReceipts(x, batch)

Purge(x) ==
  \/ \E batch \in SUBSET Keys : SelectReceipts(x, batch)
  \/ \E k \in Keys, skip \in BOOLEAN : PurgeCandidate(x, k, skip)

-----------------------------------------------------------------------------
Begin(c) ==
  \/ \E left \in 0..LeaseTTL, ack \in BOOLEAN : InsertExecution(c, left, ack)
  \/ InsertRefused(c)
  \/ \E now \in BOOLEAN : LookUpExecution(c, now)
  \/ \E left \in 0..LeaseTTL : ReclaimExecution(c, left)
  \/ ReadBackExecution(c)

Execute(c) ==
  \/ CallConnector(c)
  \/ CommitExecution(c)
  \/ \E stage \in {"fail_terminal", "fail_retryable", "idle"} : ExecutionFails(c, stage)
  \/ \E ack \in BOOLEAN : FailExecution(c, ack)

Operate(k) ==
  \/ \E from \in {"failed_retryable", "failed_terminal"} : TransitionReceipt(k, from)
  \/ \E stuck \in BOOLEAN : ForceReleaseOperationsLease(k, stuck)

Next ==
  \/ \E c \in Callers :
       \/ Begin(c) \/ Execute(c) \/ Crash(c)
       \/ \E unknown \in BOOLEAN : CommitUnnoticed(c, unknown)
  \/ \E k \in Keys : Operate(k) \/ WindowPasses(k)
  \/ Tick
  \/ \E x \in Cleaners : Clean(x)
  \/ \E x \in LifecycleJobs : Purge(x)

Spec == Init /\ [][Next]_vars

\* Callers repeat their invocation and their statements return; a handler
\* ends; time passes.
FairSpec ==
  /\ Spec
  /\ \A c \in Callers : WF_vars(Begin(c)) /\ WF_vars(Execute(c))
  /\ WF_vars(Tick)

-----------------------------------------------------------------------------
(* Properties.                                                             *)

ReceiptStatuses ==
  {"none", "processing", "succeeded", "failed_retryable", "failed_terminal"}
Stages == {"idle", "lookup", "reclaim", "readback", "run", "called",
           "fail_terminal", "fail_retryable", "done"}
Answers == {"none", "success", "replay", "failed", "lost", "conflict"}
Fingerprints == {FpOf[c] : c \in Callers}

\* The columns of the receipts, the stages of the callers and the counters
\* keep their types.
TypeOK ==
  /\ status \in [Keys -> ReceiptStatuses]
  /\ fp \in [Keys -> Fingerprints \cup {NoFp}]
  /\ owner \in [Keys -> Callers \cup {NoOwner}]
  /\ leaseLeft \in [Keys -> Nat] /\ token \in [Keys -> Nat]
  /\ window \in [Keys -> {"none", "open", "passed"}]
  /\ effects \in [Keys -> Nat] /\ calls \in [Keys -> Nat]
  /\ applied \in [Keys -> SUBSET Fingerprints] /\ stray \in [Keys -> Nat]
  /\ pc \in [Callers -> Stages] /\ answer \in [Callers -> Answers]
  /\ held \in [Callers -> [owner : Callers \cup {NoOwner}, token : Nat]]
  /\ picked \in [Cleaners \cup LifecycleJobs -> SUBSET Keys]
  /\ faults \in Nat /\ interventions \in Nat /\ purges \in Nat

\* Within its replay window a key has one committed effect if its receipt says
\* succeeded, and none if it says anything else: neither callers that run
\* side by side after a lease ran out, nor two that read back the same token,
\* nor lost replies, operators and idempotency cleanup make an action take
\* effect twice or leave a receipt that tells another story.  Each receipt that
\* the lifecycle purge deletes on an old selection costs the key at most one
\* more effect (Commit, Fail, reclaim, the purge of candidates by id).
ReceiptExact ==
  \A k \in Keys :
    /\ effects[k] <= 1 + stray[k]
    /\ stray[k] = 0 =>
         effects[k] = IF status[k] = "succeeded" /\ window[k] = "open" THEN 1 ELSE 0

\* "A synchronous external effect may only run from a durable owner
\* invocation whose Action receipt can never be reclaimed": within a replay
\* window at most one external call is dispatched under a key, whatever
\* crashes, retries and releases happen, and one more for each receipt that the
\* lifecycle purge deletes on an old selection (AcquireSynchronousConnectorCall).
ExternalCallOnce == \A k \in Keys : calls[k] <= 1 + stray[k]

\* A caller is told success, directly or by replay, only for an effect of its
\* own request that is committed, unless the lifecycle purge took a receipt of
\* its key away on an old selection (fingerprint check, commit before answer).
SuccessWasCommitted ==
  \A c \in Callers :
    answer[c] \in {"success", "replay"} /\ stray[KeyOf[c]] = 0
      => FpOf[c] \in applied[KeyOf[c]]

\* Of all that deletes receipts, only the lifecycle purge deletes one whose
\* replay window has not passed or that somebody is processing: idempotency
\* cleaners select first and delete later, too, but check again.
PurgeOnlyExpired ==
  [][\A k \in Keys :
       /\ status[k] # "none" /\ status'[k] = "none"
       /\ \A x \in LifecycleJobs : picked'[x] = picked[x]
       => window[k] = "passed" /\ status[k] # "processing"]_vars

\* A caller that may take expired claims over is finally answered, whoever
\* crashed or stalled while holding the receipt.
CallersAnswered == \A c \in Callers \ Prevent : <>(pc[c] = "done")

\* The receipt as its users see it.
Receipt == INSTANCE ActionReceipt WITH
  receipt <- status,
  expired <- [k \in Keys |-> window[k] = "passed"]

\* Every step is a step of the abstract receipt or leaves it alone, until the
\* lifecycle purge deletes a receipt on an old selection: claims, take-overs,
\* fences, lost replies, operators, cleanup and the purge of what still
\* qualifies together give a key one effect, one external call and a success
\* that stays, per replay window.
ImplementsReceipt ==
  /\ Receipt!ReceiptInit
  /\ [][(\A k \in Keys : stray'[k] = 0)
         => [Receipt!ReceiptNext]_(Receipt!receiptVars)]_vars
=============================================================================
