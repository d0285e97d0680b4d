-------------------------- MODULE WorkflowApproval --------------------------
(***************************************************************************)
(* One workflow process at an approval node: approvers vote on the tasks   *)
(* of the node, an approval runs the business action behind it, a          *)
(* rejection ends the process.  Beside the votes, the initiator may        *)
(* withdraw the process and deadlines hand tasks to a deputy.              *)
(*                                                                         *)
(* The action runs in a continuation: the request that completed the vote  *)
(* tries to run it at once, a worker takes over what is left pending or    *)
(* whose lease ran out.  A failed continuation of a request puts the       *)
(* decision back, one of a worker is repeated until it is a dead letter.   *)
(*                                                                         *)
(* Code: application/workflow (decisions, recovery, engine, worker,        *)
(* withdrawal, deadlines) and infrastructure/persistence/database.  rev    *)
(* stands for updated_at of the process.  The action is idempotent by key  *)
(* (ActionExecution); the key counts the instances of its node.  "returned"*)
(* is a decision like "rejected".                                          *)
(***************************************************************************)
EXTENDS Integers, FiniteSets

CONSTANTS
  Tasks,       \* the sequence numbers of the tasks
  Deadlines,   \* the tasks with an escalation deadline
  Requests, Workers,
  Modes,       \* the approval modes considered
  Required,    \* RequiredApprovals of the mode "quorum"
  MaxAttempts, \* attempts of a continuation
  Tries,       \* how often a request computes its decision (5 in the code)
  MaxFailures, \* bound: errors of the action
  MaxFaults,   \* bound: crashes, failed writes, lost answers and leases
  NoOwner

ASSUME ApprovalShape ==
  /\ Tasks \subseteq Nat /\ IsFiniteSet(Tasks) /\ Tasks # {} /\ Deadlines \subseteq Tasks
  /\ Requests \cap Workers = {} /\ NoOwner \notin Workers
  /\ Modes \subseteq {"any", "quorum", "all", "sequential"}

ASSUME ApprovalNumbers ==
  /\ Required \in 1..Cardinality(Tasks)
  /\ MaxAttempts \in Nat \ {0} /\ Tries \in Nat \ {0}
  /\ MaxFailures \in Nat /\ MaxFaults \in Nat

VARIABLES
  mode,                 \* the mode of the node
  pstatus, rev,         \* the process row
  node, task, holder,   \* the approval node, its tasks and who may decide them
  exec,                 \* the execution row
  doneNodes, failedNodes, \* the instances of the action's node, by status
  effects,              \* the keys under which the action took effect
  stage,                \* what requests and workers do
  want, snap,           \* a request: what it asks for, what it has read
  got,                  \* a worker: the execution row it has read
  key,                  \* the action key a request or worker uses
  deadline, withdrawal, \* deadline timers; the revision a withdrawal has read
  failures, faults,
  forgotten, \* history: how often an effect may have been forgotten
  silent,    \* history: the last continuation did not tell the process its end
  stranded,  \* history: a request gave up a continuation it had claimed
  overran,   \* history: a worker outlived its lease
  reopened   \* history: the decided tasks an escalation rewrote

processVars == <<pstatus, rev>>
voteVars == <<node, task, holder>>
actionVars == <<doneNodes, failedNodes, effects>>
requestVars == <<want, snap>>
otherVars == <<mode, deadline, withdrawal, reopened>>
historyVars == <<forgotten, silent, stranded, overran>>
vars == <<processVars, voteVars, exec, actionVars, stage, requestVars, got, key,
          otherVars, failures, faults, historyVars>>

Actors == Requests \cup Workers

NoWish == [task |-> 0, decision |-> "none", who |-> "none", tries |-> 0]
NoSnap == [rev |-> 0, task |-> [t \in Tasks |-> "none"], holder |-> [t \in Tasks |-> "none"]]
NoRow == [status |-> "none", stamp |-> 0, owner |-> NoOwner, lease |-> "none",
          token |-> 0, attempt |-> 0]

FirstOf(set) == CHOOSE t \in set : \A u \in set : t <= u

\* createApprovalTasks: in a sequence only the first task is open.
Init ==
  /\ mode \in Modes
  /\ pstatus = "waiting" /\ rev = 1 /\ node = "waiting"
  /\ task = [t \in Tasks |->
               IF mode = "sequential" /\ t # FirstOf(Tasks) THEN "pending" ELSE "open"]
  /\ holder = [t \in Tasks |-> "assignee"]
  /\ exec = [NoRow EXCEPT !.status = "waiting"]
  /\ doneNodes = 0 /\ failedNodes = 0 /\ effects = {}
  /\ stage = [a \in Actors |-> "idle"]
  /\ want = [r \in Requests |-> NoWish] /\ snap = [r \in Requests |-> NoSnap]
  /\ got = [w \in Workers |-> NoRow]
  /\ key = [a \in Actors |-> 0]
  /\ deadline = [t \in Tasks |-> IF t \in Deadlines THEN "set" ELSE "done"]
  /\ withdrawal = 0
  /\ failures = 0 /\ faults = 0
  /\ forgotten = 0 /\ silent = FALSE /\ stranded = FALSE /\ overran = FALSE
  /\ reopened = {}

\* A step that only happens when something goes wrong uses up a fault.
Fault(b) ==
  \/ b /\ faults < MaxFaults /\ faults' = faults + 1
  \/ ~b /\ UNCHANGED faults

Goto(a, s) == stage' = [stage EXCEPT ![a] = s]

\* A request or worker is through and forgets what it has read.
Leave(a) ==
  /\ Goto(a, "idle")
  /\ key' = [key EXCEPT ![a] = 0]
  /\ want' = IF a \in Requests THEN [want EXCEPT ![a] = NoWish] ELSE want
  /\ snap' = IF a \in Requests THEN [snap EXCEPT ![a] = NoSnap] ELSE snap
  /\ got' = IF a \in Workers THEN [got EXCEPT ![a] = NoRow] ELSE got

\* updateTx and updateScopedRow: a cancelled row can only stay cancelled.
Overwritable(s) == s # "cancelled"

-----------------------------------------------------------------------------
(* A decision: decideTerminalWorkflowTaskWithContext.                      *)

\* GetTask, GetProcess and ListTasks, in this order: all writes in between but
\* an escalation move the revision.  What is read of the node and of the
\* execution (ListNodes, GetExecution) is current at the commit if the
\* revision is.
Read(r, wish) ==
  /\ want' = [want EXCEPT ![r] = wish]
  /\ snap' = [snap EXCEPT ![r] = [rev |-> rev, task |-> task, holder |-> holder]]
  /\ Goto(r, "decide")

BeginDecision(r, t, d) ==
  /\ stage[r] = "idle"
  /\ task[t] = "open"
  /\ Read(r, [task |-> t, decision |-> d, who |-> holder[t], tries |-> Tries])
  /\ UNCHANGED <<processVars, voteVars, exec, actionVars, got, key, otherVars, failures,
                 faults, historyVars>>

MutCurrent(r) == pstatus = "waiting"
\* guardApprovalSnapshotTx
Current(r) == pstatus = "waiting" /\ rev = snap[r].rev

\* decideTaskTx
Decidable(r) == LET t == want[r].task IN task[t] = "open" /\ holder[t] = want[r].who

\* The tasks as read, with the vote of r.
Votes(r) == [snap[r].task EXCEPT ![want[r].task] = want[r].decision]

\* WorkflowTerminalApprovalOutcome
MutApproved(votes) == Cardinality({t \in Tasks : votes[t] = "approved"}) > 0
Approved(votes) ==
  LET approvals == Cardinality({t \in Tasks : votes[t] = "approved"})
  IN CASE mode = "any" -> approvals > 0
       [] mode = "quorum" -> approvals >= Required
       [] OTHER -> approvals = Cardinality(Tasks)

\* DecideTerminalTask computes a decision anew while its snapshot is stale.
RetryDecision(r) ==
  LET wish == want[r]
      again == wish.tries > 1 /\ task[wish.task] = "open" /\ holder[wish.task] = wish.who
  IN
  /\ stage[r] = "decide" /\ ~Current(r)
  /\ IF again
     THEN Read(r, [wish EXCEPT !.tries = @ - 1]) /\ UNCHANGED <<got, key>>
     ELSE Leave(r)
  /\ UNCHANGED <<processVars, voteVars, exec, actionVars, otherVars, failures, faults,
                 historyVars>>

\* The task has been decided or handed over: task_already_decided.
RefuseDecision(r) ==
  /\ stage[r] = "decide" /\ Current(r) /\ ~Decidable(r)
  /\ Leave(r)
  /\ UNCHANGED <<processVars, voteVars, exec, actionVars, otherVars, failures, faults,
                 historyVars>>

Commits(r) == stage[r] = "decide" /\ Current(r) /\ Decidable(r)

\* A vote that does not decide the node; in a sequence it opens the next task.
PartialVote(r) ==
  LET t == want[r].task
      pending == {u \in Tasks : snap[r].task[u] = "pending"}
      opened == IF mode = "sequential" /\ pending # {} THEN {FirstOf(pending)} ELSE {}
  IN
  /\ Commits(r) /\ want[r].decision = "approved" /\ ~Approved(Votes(r))
  /\ task' = [u \in Tasks |-> IF u = t THEN "approved"
                              ELSE IF u \in opened THEN "open" ELSE task[u]]
  /\ rev' = rev + 1
  /\ Leave(r)
  /\ UNCHANGED <<pstatus, node, holder, exec, actionVars, otherVars, failures, faults,
                 historyVars>>

\* The tasks when r decides the node: those that were undecided are cancelled.
Decided(r) ==
  [u \in Tasks |-> IF u = want[r].task THEN want[r].decision
                   ELSE IF snap[r].task[u] \in {"open", "pending"} THEN "cancelled"
                   ELSE task[u]]

\* The node is approved and the continuation queued with the same commit.
ApprovingVote(r) ==
  /\ Commits(r) /\ node = "waiting"
  /\ want[r].decision = "approved" /\ Approved(Votes(r))
  /\ task' = Decided(r) /\ node' = "approved"
  /\ pstatus' = "running" /\ rev' = rev + 1
  /\ exec' = [exec EXCEPT !.status = "pending", !.attempt = 0, !.stamp = rev + 1]
  /\ Goto(r, "claim")
  /\ UNCHANGED <<holder, actionVars, requestVars, got, key, otherVars, failures, faults,
                 historyVars>>

\* Nothing follows a rejection: the process ends.
RejectingVote(r) ==
  /\ Commits(r) /\ node = "waiting" /\ want[r].decision = "rejected"
  /\ task' = Decided(r) /\ node' = "rejected"
  /\ pstatus' = "rejected" /\ rev' = rev + 1
  /\ exec' = [exec EXCEPT !.status = "rejected"]
  /\ Leave(r)
  /\ UNCHANGED <<holder, actionVars, otherVars, failures, faults, historyVars>>

\* runCommittedWorkflowContinuation: a claim without a lease, unless a worker
\* was faster.
ClaimInline(r) ==
  /\ stage[r] = "claim"
  /\ IF exec.status = "pending" /\ exec.stamp = snap[r].rev + 1
     THEN /\ exec' = [exec EXCEPT !.status = "running"]
          /\ Goto(r, "prepare") /\ UNCHANGED <<requestVars, got, key>>
     ELSE Leave(r) /\ UNCHANGED exec
  /\ UNCHANGED <<processVars, voteVars, actionVars, otherVars, failures, faults, historyVars>>

-----------------------------------------------------------------------------
(* A worker's claim: processDueWorkflowExecutions.                         *)

\* WorkflowExecutionDue, once the retry delay is over.  A running execution
\* without a lease is never due.
MutDue == exec.status \in {"pending", "failed"}
Due ==
  \/ exec.status \in {"pending", "failed"} /\ exec.attempt < MaxAttempts
  \/ exec.status = "running" /\ exec.lease = "expired"

ReadExecution(w) ==
  /\ stage[w] = "idle" /\ Due
  /\ got' = [got EXCEPT ![w] = exec]
  /\ Goto(w, "claim")
  /\ UNCHANGED <<processVars, voteVars, exec, actionVars, requestVars, key, otherVars,
                 failures, faults, historyVars>>

\* The conditions of the claim.
Unchanged(w) ==
  /\ exec.status = got[w].status /\ exec.stamp = got[w].stamp
  /\ exec.owner = got[w].owner /\ exec.token = got[w].token

\* The attempt that would be one too many never comes to a claim: the last
\* failure was recorded as a dead letter.
ClaimExecution(w) ==
  /\ stage[w] = "claim"
  /\ IF Unchanged(w)
     THEN /\ exec' = [exec EXCEPT !.status = "running", !.owner = w, !.lease = "live",
                                  !.token = @ + 1]
          /\ Goto(w, "prepare") /\ UNCHANGED <<requestVars, got, key>>
     ELSE Leave(w) /\ UNCHANGED exec
  /\ UNCHANGED <<processVars, voteVars, actionVars, otherVars, failures, faults, historyVars>>

-----------------------------------------------------------------------------
(* The continuation: runWithContext, executeNode, executeActionNode.       *)

\* The instances of the action's node.  Their iterations are 1..Instances: a
\* unique index keeps them apart, so that of a record whose own listing failed,
\* and whose iteration is 1, the insert fails when there is an instance already.
Instances == doneNodes + failedNodes

MutNextNodeIteration(listed) == exec.token + 1
\* nextNodeIteration: the next number, or 1 if the nodes cannot be listed.
NextNodeIteration(listed) == IF listed THEN Instances + 1 ELSE 1

\* The iteration determines the key.
PrepareAction(a, listed) ==
  /\ stage[a] = "prepare"
  /\ Fault(~listed)
  /\ key' = [key EXCEPT ![a] = NextNodeIteration(listed)]
  /\ forgotten' = IF ~listed /\ Instances # 0 THEN forgotten + 1 ELSE forgotten
  /\ Goto(a, "act")
  /\ UNCHANGED <<processVars, voteVars, exec, actionVars, requestVars, got, otherVars,
                 failures, silent, stranded, overran>>

\* The action takes effect, or fails, or takes effect and the answer is lost.
\* Under a key that has taken effect before it does nothing.
InvokeAction(a, result) ==
  /\ stage[a] = "act"
  /\ Fault(result = "lost")
  /\ effects' = IF result = "failed" THEN effects ELSE effects \cup {key[a]}
  /\ IF result = "failed" THEN failures < MaxFailures /\ failures' = failures + 1
                          ELSE UNCHANGED failures
  /\ Goto(a, IF result = "done" THEN "note" ELSE "note_failure")
  /\ UNCHANGED <<processVars, voteVars, exec, doneNodes, failedNodes, requestVars, got, key,
                 otherVars, historyVars>>

\* recordCompletedNode; an error of the insert fails the process.
RecordCompletedNode(a, written) ==
  /\ stage[a] = "note"
  /\ Fault(~written)
  /\ doneNodes' = IF written THEN doneNodes + 1 ELSE doneNodes
  /\ Goto(a, IF written THEN "complete" ELSE "fail")
  /\ UNCHANGED <<processVars, voteVars, exec, failedNodes, effects, requestVars, got, key,
                 otherVars, failures, historyVars>>

\* recordFailedNode: the next attempt has another key, unless the insert fails,
\* which nobody is told.
RecordFailedNode(a, written) ==
  /\ stage[a] = "note_failure"
  /\ Fault(~written)
  /\ failedNodes' = IF written THEN failedNodes + 1 ELSE failedNodes
  /\ forgotten' = IF written /\ Instances + 1 \in effects THEN forgotten + 1 ELSE forgotten
  /\ Goto(a, "fail")
  /\ UNCHANGED <<processVars, voteVars, exec, doneNodes, effects, requestVars, got, key,
                 otherVars, failures, silent, stranded, overran>>

\* What a runner does about an error of the continuation.
Failure(a) == IF a \in Requests THEN "recover" ELSE "mark"

\* failProcess overwrites the process, whatever has become of it since; an error
\* of the update is dropped.
FailProcess(a, written) ==
  LET done == written /\ Overwritable(pstatus)
  IN
  /\ stage[a] = "fail"
  /\ Fault(~written)
  /\ pstatus' = IF done THEN "configuration_error" ELSE pstatus
  /\ rev' = IF done THEN rev + 1 ELSE rev
  /\ silent' = ~done
  /\ Goto(a, Failure(a))
  /\ UNCHANGED <<voteVars, exec, actionVars, requestVars, got, key, otherVars, failures,
                 forgotten, stranded, overran>>

\* The end of runWithContext.  If the write fails, the node remains recorded.
CompleteProcess(a, written) ==
  LET done == written /\ Overwritable(pstatus)
  IN
  /\ stage[a] = "complete"
  /\ Fault(~written)
  /\ pstatus' = IF done THEN "completed" ELSE pstatus
  /\ rev' = IF done THEN rev + 1 ELSE rev
  /\ silent' = ~done
  /\ forgotten' = IF done THEN forgotten ELSE forgotten + 1
  /\ Goto(a, IF done THEN "settle" ELSE Failure(a))
  /\ UNCHANGED <<voteVars, exec, actionVars, requestVars, got, key, otherVars, failures,
                 stranded, overran>>

-----------------------------------------------------------------------------
(* The end of a continuation.                                              *)

\* The execution is written without conditions.
SettleInline(r) ==
  /\ stage[r] = "settle"
  /\ exec' = IF Overwritable(exec.status)
             THEN [exec EXCEPT !.status = "completed", !.attempt = @ + 1] ELSE exec
  /\ Leave(r)
  /\ UNCHANGED <<processVars, voteVars, actionVars, otherVars, failures, faults, historyVars>>

\* recoverWorkflowDecision: CommitWorkflowState writes every row back as it was
\* read before the vote, or none of them.
Restorable(r) ==
  /\ Overwritable(pstatus) /\ Overwritable(node) /\ Overwritable(exec.status)
  /\ \A t \in Tasks : snap[r].task[t] = "cancelled" \/ Overwritable(task[t])

Restored(r) == snap[r].task

RecoverDecision(r) ==
  /\ stage[r] = "recover"
  /\ IF Restorable(r)
     THEN /\ pstatus' = "waiting" /\ rev' = rev + 1 /\ node' = "waiting"
          /\ task' = Restored(r) /\ holder' = snap[r].holder
          /\ exec' = [exec EXCEPT !.status = "waiting", !.attempt = 0]
          /\ UNCHANGED stranded
     ELSE stranded' = TRUE /\ UNCHANGED <<processVars, voteVars, exec>>
  /\ Leave(r)
  /\ UNCHANGED <<actionVars, otherVars, failures, faults, forgotten, silent, overran>>

\* commitClaimedWorkflowExecution: still the execution that w claimed.
Holds(w) == exec.status = "running" /\ exec.owner = w /\ exec.token = got[w].token + 1

\* WorkflowMarkFailed
Marked(n) == IF n >= MaxAttempts THEN "dead_letter" ELSE "failed"

\* The result of a worker: completed, or failed and perhaps for good.
CommitClaimed(w) ==
  LET attempt == got[w].attempt + 1
      result == IF stage[w] = "settle" THEN "completed" ELSE Marked(attempt)
  IN
  /\ stage[w] \in {"settle", "mark"}
  /\ exec' = IF Holds(w) THEN [exec EXCEPT !.status = result, !.owner = NoOwner,
                                            !.lease = "none", !.attempt = attempt]
             ELSE exec
  /\ Leave(w)
  /\ UNCHANGED <<processVars, voteVars, actionVars, otherVars, failures, faults, historyVars>>

-----------------------------------------------------------------------------
(* Crashes and leases.                                                     *)

Continuing == {"prepare", "act", "note", "note_failure", "fail", "complete", "settle",
               "recover", "mark"}

\* The process dies, or the client disconnects: the context of all further
\* statements is cancelled.
AbortRequest(r) ==
  /\ stage[r] \in Continuing \cup {"claim"}
  /\ Fault(TRUE)
  /\ stranded' = (stranded \/ stage[r] \in Continuing)
  /\ forgotten' = IF stage[r] = "complete" THEN forgotten + 1 ELSE forgotten
  /\ Leave(r)
  /\ UNCHANGED <<processVars, voteVars, exec, actionVars, otherVars, failures, silent,
                 overran>>

\* A worker dies, or its heartbeat finds that the lease is lost.
StopWorker(w) ==
  /\ stage[w] \in Continuing
  /\ Fault(Holds(w))
  /\ forgotten' = IF stage[w] \in {"complete", "settle"} THEN forgotten + 1 ELSE forgotten
  /\ Leave(w)
  /\ UNCHANGED <<processVars, voteVars, exec, actionVars, otherVars, failures, silent,
                 stranded, overran>>

Running == {"prepare", "act", "note", "note_failure", "fail", "complete"}

\* The heartbeat cannot renew the lease and cancels the context of the work: no
\* statement of the continuation succeeds any more, but the worker records the
\* failure of the execution, which it may still hold, in a context of its own.
CancelWork(w) ==
  /\ stage[w] \in Running
  /\ Fault(TRUE)
  /\ silent' = TRUE
  /\ forgotten' = IF stage[w] = "complete" THEN forgotten + 1 ELSE forgotten
  /\ Goto(w, "mark")
  /\ UNCHANGED <<processVars, voteVars, exec, actionVars, requestVars, got, key, otherVars,
                 failures, stranded, overran>>

\* Somebody works under the present claim and keeps it alive.
Working == \E w \in Workers : stage[w] \in Continuing /\ Holds(w)

LeaseExpires ==
  /\ exec.status = "running" /\ exec.lease = "live"
  /\ Fault(Working)
  /\ overran' = (overran \/ Working)
  /\ exec' = [exec EXCEPT !.lease = "expired"]
  /\ UNCHANGED <<processVars, voteVars, actionVars, stage, requestVars, got, key,
                 otherVars, failures, forgotten, silent, stranded>>

-----------------------------------------------------------------------------
(* Withdrawal and deadlines.                                               *)

\* prepareWorkflowWithdrawal
PrepareWithdrawal ==
  /\ withdrawal = 0 /\ pstatus = "waiting"
  /\ withdrawal' = rev
  /\ UNCHANGED <<processVars, voteVars, exec, actionVars, stage, requestVars, got, key,
                 mode, deadline, reopened, failures, faults, historyVars>>

MutWithdrawable == pstatus # "completed"
Withdrawable == pstatus = "waiting" /\ rev = withdrawal

\* ApplyWorkflowWithdrawalTx
Withdraw ==
  /\ withdrawal # 0
  /\ IF Withdrawable
     THEN /\ pstatus' = "cancelled" /\ rev' = rev + 1
          /\ task' = [t \in Tasks |->
                        IF task[t] \in {"open", "pending"} THEN "cancelled" ELSE task[t]]
          /\ node' = IF node = "waiting" THEN "cancelled" ELSE node
          /\ exec' = IF exec.status \in {"pending", "running", "waiting", "failed"}
                     THEN [exec EXCEPT !.status = "cancelled", !.owner = NoOwner,
                                       !.lease = "none"]
                     ELSE exec
     ELSE UNCHANGED <<processVars, task, node, exec>>
  /\ withdrawal' = 0
  /\ UNCHANGED <<holder, actionVars, stage, requestVars, got, key, mode, deadline,
                 reopened, failures, faults, historyVars>>

\* ProcessApprovalDeadlineTimer finds the task open ...
ReadDeadline(t) ==
  /\ deadline[t] = "set"
  /\ deadline' = [deadline EXCEPT ![t] = IF task[t] = "open" THEN "read" ELSE "done"]
  /\ UNCHANGED <<processVars, voteVars, exec, actionVars, stage, requestVars, got, key,
                 mode, withdrawal, reopened, failures, faults, historyVars>>

\* ... and commitWorkflowTaskEscalation writes the whole row, as it was read,
\* with another assignee.
Escalate(t) ==
  /\ deadline[t] = "read"
  /\ deadline' = [deadline EXCEPT ![t] = "done"]
  /\ IF Overwritable(task[t])
     THEN /\ task' = [task EXCEPT ![t] = "open"]
          /\ holder' = [holder EXCEPT ![t] = "deputy"]
          /\ reopened' = IF task[t] = "open" THEN reopened ELSE reopened \cup {t}
     ELSE UNCHANGED <<task, holder, reopened>>
  /\ UNCHANGED <<processVars, node, exec, actionVars, stage, requestVars, got, key, mode,
                 withdrawal, failures, faults, historyVars>>

-----------------------------------------------------------------------------
Continue(a) ==
  \/ \E listed \in BOOLEAN : PrepareAction(a, listed)
  \/ \E result \in {"done", "failed", "lost"} : InvokeAction(a, result)
  \/ \E written \in BOOLEAN :
       \/ RecordCompletedNode(a, written) \/ CompleteProcess(a, written)
       \/ RecordFailedNode(a, written) \/ FailProcess(a, written)

\* A request, once begun, runs to its end.
Serve(r) ==
  \/ RetryDecision(r) \/ RefuseDecision(r)
  \/ PartialVote(r) \/ ApprovingVote(r) \/ RejectingVote(r)
  \/ ClaimInline(r) \/ Continue(r) \/ SettleInline(r) \/ RecoverDecision(r)

Work(w) == ReadExecution(w) \/ ClaimExecution(w) \/ Continue(w) \/ CommitClaimed(w)

Next ==
  \/ \E r \in Requests :
       \/ Serve(r) \/ AbortRequest(r)
       \/ \E t \in Tasks, d \in {"approved", "rejected"} : BeginDecision(r, t, d)
  \/ \E w \in Workers : Work(w) \/ StopWorker(w) \/ CancelWork(w)
  \/ LeaseExpires
  \/ PrepareWithdrawal \/ Withdraw
  \/ \E t \in Tasks : ReadDeadline(t) \/ Escalate(t)

Spec == Init /\ [][Next]_vars

\* Statements and actions return, the worker's recovery pass comes round, and
\* leases that nobody keeps alive run out.  Nobody has to vote.
FairSpec ==
  /\ Spec
  /\ \A r \in Requests : WF_vars(Serve(r))
  /\ \A w \in Workers : WF_vars(Work(w))
  /\ WF_vars(LeaseExpires)

-----------------------------------------------------------------------------
(* Properties.                                                             *)

TaskStatuses == {"pending", "open", "approved", "rejected", "cancelled"}
Rows == [status : {"none", "waiting", "pending", "running", "completed", "failed",
                   "rejected", "dead_letter", "cancelled"},
         stamp : Nat, owner : Workers \cup {NoOwner},
         lease : {"none", "live", "expired"}, token : Nat, attempt : Nat]

\* Rows, requests and workers keep their types.
TypeOK ==
  /\ mode \in Modes /\ rev \in Nat
  /\ doneNodes \in Nat /\ failedNodes \in Nat /\ effects \subseteq Nat
  /\ pstatus \in {"waiting", "running", "completed", "rejected", "configuration_error",
                  "cancelled"}
  /\ node \in {"waiting", "approved", "rejected", "cancelled"}
  /\ task \in [Tasks -> TaskStatuses] /\ holder \in [Tasks -> {"assignee", "deputy"}]
  /\ exec \in Rows
  /\ stage \in [Actors -> Continuing \cup {"idle", "decide", "claim"}]
  /\ got \in [Workers -> Rows] /\ key \in [Actors -> Nat]
  /\ deadline \in [Tasks -> {"set", "read", "done"}] /\ withdrawal \in Nat
  /\ failures \in Nat /\ faults \in Nat /\ forgotten \in Nat /\ reopened \subseteq Tasks

\* Votes from the same snapshot never decide the node together on counts that
\* were true for neither: an approved node has the approvals its mode asks
\* for, apart from tasks an escalation took back (guardApprovalSnapshotTx).
VotesCount ==
  node = "approved" /\ reopened = {} =>
    LET approved == {t \in Tasks : task[t] = "approved"}
    IN /\ approved # {}
       /\ mode = "quorum" => Cardinality(approved) >= Required
       /\ mode \in {"all", "sequential"} => approved = Tasks

\* A process that waits can be decided: its node waits, a task is open, and no
\* continuation of an earlier decision is left (RecoverDecision, PartialVote).
WaitingIsDecidable ==
  pstatus = "waiting" =>
    /\ node = "waiting" /\ exec.status = "waiting"
    /\ \E t \in Tasks : task[t] = "open"
    /\ \A a \in Actors : stage[a] \notin Continuing

\* The process, its node and its execution tell the same story, although they
\* are written by different transactions: as long as no worker has outlived
\* its lease, a completed execution goes with a completed process, and a dead
\* letter with a failed one unless the last attempt could not write the process
\* (failProcess drops the error, the worker records the failure all the same).
RowsAgree ==
  /\ exec.status = "waiting" <=> pstatus = "waiting"
  /\ exec.status = "cancelled" <=> pstatus = "cancelled"
  /\ exec.status = "rejected" <=> pstatus = "rejected"
  /\ pstatus \in {"running", "completed", "configuration_error"} => node = "approved"
  /\ ~overran /\ exec.status = "completed" => pstatus = "completed"
  /\ ~overran /\ ~silent /\ exec.status = "dead_letter" => pstatus = "configuration_error"

\* The action takes effect before the process is complete, and once only.  Each
\* effect beyond the first goes back to one of four failures: the nodes could
\* not be listed, so that the key was the first one again; a failed node was
\* recorded although the action had taken effect; the continuation stopped
\* between the record of the node and that of the process, or of the execution;
\* or a worker outlived its lease.  A crash at any other point, and any number
\* of errors and attempts, repeat the action under the same key.
EffectOnce ==
  /\ pstatus = "completed" => effects # {}
  /\ ~overran => Cardinality(effects) <= 1 + forgotten

\* Nothing happens to a withdrawn process: it stays withdrawn and the action
\* does not take effect afterwards (prepareWorkflowWithdrawal: "it cannot race
\* an external side effect").
WithdrawnStays ==
  [][pstatus = "cancelled" =>
       pstatus' = "cancelled" /\ effects' = effects /\ exec' = exec]_vars

\* A failed decision does not stay: the decision is put back, or a worker
\* repeats the continuation until it is a dead letter ("keeps the task
\* retryable instead of leaving an approved task attached to a failed
\* process").
FailureIsRetryable ==
  pstatus = "configuration_error" =>
    \/ exec.status \in {"pending", "failed", "dead_letter", "completed"}
    \/ exec.status = "running" /\ exec.lease # "none"
    \/ \E r \in Requests : stage[r] = "recover"

\* A queued continuation comes to an end, unless the request that claimed it
\* without a lease gives up: it is completed, put back, or a dead letter.
ContinuationEnds ==
  exec.status = "pending" ~>
    exec.status \in {"completed", "waiting", "dead_letter", "cancelled"} \/ stranded
=============================================================================
