# Formal specification of Domainry Runtime

TLA+ modules for the durable, concurrent parts of Domainry Runtime, the TLC
runs that check them on small instances, and TLAPS proofs of their main
properties for every size of instance. Paths below are relative to the
repository; `worker_store.go` and so on are unique base names.

## 1. The system and its parts

Runtime is a Go process (several of them share one SQL database) that executes
business actions on records and carries the consequences over process and
ownership boundaries: to the Integration owner, to Workflow, to timers, to
operators. All coordination between processes goes through SQL rows: a
conditional `UPDATE` claims a row for a worker, gives it a lease with an expiry
and a *fencing token*, and every later write of the worker names owner and
token. Inside a process, work is announced through small in-memory wakeup
channels which may lose what they are told.

| Component | State | Operations | Interacts with | What is hard | What makes it correct |
| --- | --- | --- | --- | --- | --- |
| Publication handoff (`application/publicationhandoff`, `database/publicationhandoff`) | `_publication_outbox` rows, `_worker_queue_scopes`, wakeup channel | `Accept`, `ClaimOutbox`, `HeartbeatOutbox`, `UpdateOutboxStatus`, `ScheduleOutboxRetry`, recovery scan, operator retry / status update | every producer of publications; Integration `Delivery.Accept`; operations console | two processes claim the same row; crash between INSERT and scope registration; lease expiry while the worker still runs; operators write without a fence | nothing acknowledged is lost; one payload per deduplication key; `accepted` only after delivery; bounded retries; stale workers change nothing |
| Release cohort (`runtime_release_cohort_store.go`, `runtime_release_identity.go`, `worker_lifecycle.go`) | `_release_cohorts`, `_release_instances`, the process's admission state | claim, heartbeat, release, admission failure | startup, HTTP admission, worker admission | two releases start at once; a process sleeps past its lease; a restart under the same instance ID | only one release identity serves traffic at a time |
| Record timers (`application/recordtimer`) | `record_timer`, `record_timer_event` records | schedule, cancel, supersede, claim, finish, fail, retry, resolve | Workflow deadlines, Action targets, Operations | whole-record optimistic writes from a leased copy; a batch claim falling back to single ones; leases that nobody renews; one clock reading per pass | claims stay apart; a timer fires only when its target succeeded under the recording claim; ended timers stay ended; every timer ends |
| Transaction boundary intents (`database/transaction/boundary_intent_store.go`) | `_transaction_boundary_intents` | create, claim, transition | no production caller at this commit | same claim/read-back shape as the outbox | only allowed transitions, fenced |
| Unit of work and after-commit hooks (`database/transaction`) | SQL transaction in the context, hook list | begin, commit, rollback, defer hook | all application services | hooks after commit fail or are lost in a crash | hooks never run for a rolled-back transaction |
| Action execution receipts (`application/action`, `domain/action/runtime`, `database/action`) | `_action_executions` | claim, take over, replay, commit, fail, operator retry / reset / release, cleanup, purge | HTTP, timers, scheduler, workflow, automation; connectors; lifecycle policy | retries racing an execution whose 30 s lease is never renewed; lost replies and unknown commits; external calls; purge of receipts in use | one effect per key and replay window, told truthfully; no repeated external call; every caller answered |
| Record mutation receipts (`application/recordmutation`) | `_record_mutation_executions` | claim, complete, replay | record writes | the same | the same |
| Workflow executions and receipts (`application/workflow`) | `_workflow_executions`, `_workflow_execution_receipts` | claim, heartbeat, complete, retry, dead-letter, process-due | Scheduler callback, agent callback, operators | lease expiry, callback before commit, replays | one execution per receipt; fenced completion |
| Workflow process engine (`application/workflow`, `domain/workflow`) | process, node, task instances, events | start, decide task, recover a decision, continue, withdraw, escalate, join | records, principals, timers, actions | votes from the same snapshot, a withdrawal racing a decision, a continuation run by request or worker, recovery of a decision whose action failed | the votes the mode asks for; nothing happens to a withdrawn process; the action takes effect once; a continuation ends |
| Automation instructions (`application/automation`) | `_automation_instruction_executions` | claim, heartbeat, step, complete | record changes | reclaim of expired claims | a step is not run twice under one claim |
| Dispatch callbacks (`application/dispatch`) | dispatch receipts | accept callback, replay | Integration, Agent | duplicated and late callbacks | idempotent |
| Notification publication relay (`notificationfacade`, `database/notificationpublication`) | template publication requests, revisions | publish, supersede, claim, refresh renderer | notification module | superseded request finishing late | newest revision wins |
| Operations (`application/operations`) | `_operation_requests`, `_operation_controls`, break-glass grants, retirement plans | request, approve, execute, control, dead-letter action | every owner with dead letters | two operators; approval by the requester; stale dead-letter views | four eyes, one execution per request |
| Database copy (`database/datamigration`) | checkpoint and lease files, the target | plan, run, final delta, verify, finalize | operator, source and target databases | commit and checkpoint are two writes; a run beside a final delta; writes until the cutover; keys beyond float64 | a checkpoint never claims what is not copied; a finalized target equals its source |
| Database retirement (`application/operations`, `database/operations`) | `_operation_database_retirements`, the retired table | discover, advance, restore, preview, execute, count accesses | operators | DDL first and record afterwards, on a state read earlier | the record tells where the table is; no drop within the quarantine |
| Workspace provisioning (`application/workspaceprovision`) | provisioning receipts, aggregates | provision, replay | participants | a participant failing half-way | all or nothing |
| Rate limiter (`database/ratelimit`, `ratelimitredis`) | buckets | take | HTTP | window boundary, concurrent takes | never above the limit |
| Uploads and file scanning (`application/upload`, `blobstore`) | artifacts, blobs | stage, scan, attach, expire | records | crash between blob and row | no attached file without a clean scan |
| Principal cache (`principalcache`, `principalredis`) | cached principals | get, put, invalidate | Identity | stale authorisation | revision-keyed |
| Idempotency cleanup and lifecycle purge (`idempotency_cleanup_store.go`, `lifecyclemodule`) | cleanup lease; the rows of every receipt table | select expired rows, delete them | all owners of receipts | rows change between the selection and the deletion | only expired, settled rows go |
| Metadata snapshot watcher, worker lifecycle | in-memory projections | refresh, start, drain | all | drain racing start | drained before exit |
| Records, app schema, manifest, capability, change plan, business calendar, pipeline, seed, report export, localization, HTTP transport, agent host, coding runtime, scripts | definitions, records, requests | validation, compilation, CRUD | - | mostly sequential | functional correctness, covered by unit tests |

## 2. Plan

Order of work, most important behaviour first.

| | Module | About | State |
| --- | --- | --- | --- |
| 1 | `PublicationOutbox`, `PublicationOutboxProofs` | producers, workers, recovery and operators of the outbox | done |
| 2 | `ReleaseCohort`, `ReleaseCohortProofs` | the release fence with clock readings, late calls, stalls, restarts | done |
| 3 | `ActionExecution`, `ActionExecutionProofs` | receipts of actions, external calls, cleanup and purge | done for single invocations |
| 4 | `ActionReceipt` | what a receipt promises: an abstract specification that `ActionExecution` implements | done |
| 5 | `RecordTimer`, `RecordTimerProofs` | passes, batch and single claims, results, operator recovery | done |
| 6 | `TimerAction`, `TimerActionProofs` | `RecordTimer` composed with `ActionReceipt` | done |
| 7 | `WorkflowApproval`, `WorkflowApprovalProofs` | votes, continuation, recovery, withdrawal, escalation | done for one approval and one action |
| 8 | `DatabaseCopy`, `DatabaseRetirement`, and a module of proofs for each | migration to another engine; retirement of a table | done |
| 9 | `RecordMutation`, dispatch callbacks | further implementations of `ActionReceipt` | planned |
| 10 | `BulkAction`, `BoundaryIntent`, `AutomationInstruction` | a receipt over receipts; the remaining claim/complete protocols | planned |

Every safety invariant and action property of the passing runs is a theorem as well
(section 7). Worth adding: that the steps of `TimerAction` are steps, or none, of the
safety part of `RecordTimer`, up to the count of faults; and a run that shows the
lifecycle purge delete a receipt in use, against `runtime-state-inventory.md:14`, which
now only the histories of `ActionExecution` record.

## 3. Modules and code

Every SQL statement, or transaction, is one atomic step, and so is every
external call; between two of them all other actors may run. Columns become
functions from row identities; timestamps become the time left until them
(`PublicationOutbox`, `ActionExecution`, `RecordTimer`), instants of a global clock
(`ReleaseCohort`, `DatabaseRetirement`) or revisions (`WorkflowApproval`). Payloads,
results, audit records and error texts are left out. The precise lines each
definition stands for are listed in `PROJECT.json`.

### PublicationOutbox

`_publication_outbox` is `status, fp, attempt, nextIn, owner, leaseLeft, token`,
one row per deduplication key; `scopes` is `_worker_queue_scopes`; `wake` are
the wakeup channels; `delivered` is what Integration holds.

- *Producer* (`Accept`): `InsertOutbox` (a new row, or the look-up of an existing
  one and its fingerprint check), `RegisterScope`, `Acknowledge`, and
  `AcceptFails` at any point; the caller then repeats the call.
- *Worker* (`process`): `DispatchWakeup` and `DispatchRecovery` start an executor,
  `ClaimOutbox` and `ReadBack` are the two statements of a claim, then
  `HeartbeatOutbox`, `Deliver`, and one of `CompleteOutbox`, `ReleaseOutbox`
  (shutdown), `DeadLetterOutbox`, `ScheduleOutboxRetry`, `AbandonClaim`.
- *Operators*: `Inspect` reads a row; `UpdatePublicationStatus`,
  `SchedulePublicationRetry` and `ForceReleaseOperationsLease` write it later on
  the strength of that reading.
- *Environment*: `Shutdown`, `Restart`, `Crash`, `Tick`, and `Stall`: time passes
  although heartbeats are due.

### ReleaseCohort

`generation, active` are the row of `_release_cohorts`; `leased, leaseGen,
leaseId, leaseEnd` are `_release_instances`; `phase` is what a process does, from
`off` over `joining`, `starting`, `built` to `serving`, `closing`, `gone`, with
`doomed` (startup after a failed heartbeat) and `failed` (admission closed).
`Join` reads the clock, `Claim` runs the transaction with that reading;
`BeginHeartbeat` and `HeartbeatRuntimeRelease` do the same for renewals. `Tick`
lets time pass only while every claim, heartbeat and handover is at most `Grace`
late; `Stall` lets any time pass, and `stalls` counts how often it did. `Overlap`
says whether a process may start while another run still uses its instance ID.

### ActionExecution and ActionReceipt

`status, fp, owner, leaseLeft, token, window` is the receipt of a key in
`_action_executions` (`window`: is `expires_at` empty, ahead, past?); `effects`
and `calls` count what was done under a key within its replay window, `applied`
remembers whose request ever took effect.

- *Begin* (`tryBeginExecutionOnce`): `InsertExecution`, whose reply may get lost,
  `InsertRefused`, `LookUpExecution` (replay, conflict, wait, take over),
  `ReclaimExecution`, `ReadBackExecution`.
- *Execute* (`Invoke`): `CallConnector`, `CommitExecution`, `ExecutionFails`,
  `FailExecution`; `CommitUnnoticed` is a commit its caller does not learn of.
- *Operators*: `TransitionReceipt` (retry, reset), `ForceReleaseOperationsLease`.
- *Cleanup*: `SelectReceipts`, then `DeleteExpiredReceipts` (idempotency cleanup:
  checks again) or `PurgeCandidate` (lifecycle policy: by id). The history `stray`
  counts, for every key, the receipts that a purge deleted although they no longer
  qualified.

The lease that serializes idempotency cleaners is left out; any number of them
run at once, and the properties hold all the same. Callers of one key act for one
principal. `HeartbeatExecution` exists in the store but nothing calls it, so
leases of actions are never renewed in the model either.

`ActionReceipt` is what remains for somebody who relies on a receipt: a status, an
expiry, at most one effect and one external call per replay window, effect and
status changing together, and removal of expired receipts nobody processes. There
are no callers, leases or tokens in it. `ImplementsReceipt` maps `receipt` to
`status`, `expired` to `window = "passed"`, and `effects` and `calls` to themselves;
it speaks of all steps until a stray deletion, which no abstract step allows.

### RecordTimer

`status, dueIn, owner, leaseLeft, token, attempt` are the `record_timer` rows; a
worker's pass is `stage, age, first, quota, todo, cursor, batch`; `cand` and `seen`
are the rows a worker or client has read and not yet written.

- *Clients*: `Schedule`; `ListScheduled` and `CancelRecordTimers` (the code repeats
  the pair until the list is empty, the model as often as `MaxInterventions` allows);
  `ReadTimer` followed by `SupersedeTimer`, `RetryFailure` or `ResolveFailure`.
- *Pass* (`ProcessDueForAllWorkspaces`): `BeginPass` reads the clock, orders the
  workspaces from the rotation cursor and gives each its share; for each,
  `ListCandidates` (due timers, then expired leases in the room that is left),
  `ClaimBatch`, or `ClaimSingly` for each candidate when the batch failed; then for
  each lease `ExecuteRecordTimer` and `FinishRecordTimer` or `FailRecordTimer`.
- *Commits* may be done, undone, or done without the writer knowing.

All timers share one retry policy. `TimerAction` replaces the target by an action:
`BeginAction`, `CallConnector` and `CommitAction`, `FailAction` or `LoseAction`, and
`ReplayAction` for a later attempt of the same timer, which finds a receipt. Any
attempt may also be refused before it reads the receipt, or by the claim itself
(`RefuseAction`: authorization, catalog, payload, assurance, the store, a stored result
that cannot be decoded), and the timer is then rescheduled or failed whatever the
receipt says. The receipt steps are those of `ActionReceipt`. A pass and its targets are the same
goroutine, so the worker's stage says when its action may run.

### WorkflowApproval

`pstatus, rev` is the process row, `node, task, holder` the approval node and its
tasks, `exec` the execution row; `doneNodes, failedNodes` count the instances of the
action's node, whose number is the action's idempotency key.

- *Decision* (`decideTerminalWorkflowTaskWithContext`): `BeginDecision` reads, then
  one of `PartialVote`, `ApprovingVote`, `RejectingVote`, or `RetryDecision`
  (snapshot changed) and `RefuseDecision` (task decided or handed over).
- *Continuation*: `ClaimInline` by the request, `ReadExecution` and `ClaimExecution`
  by a worker; `PrepareAction`, `InvokeAction`, `RecordCompletedNode` or
  `RecordFailedNode`, `CompleteProcess` or `FailProcess`; then `SettleInline` or
  `RecoverDecision` for a request, `CommitClaimed` for a worker.
- *Others*: `PrepareWithdrawal` and `Withdraw`, `ReadDeadline` and `Escalate`, each a
  reading and a later write.
- *Faults*: `AbortRequest`, `StopWorker`, `LeaseExpires`, and `CancelWork`: the
  heartbeat cancels the context of the continuation, whose writes then all fail,
  while the worker commits the failure of the execution in a context of its own.
- *Errors*: the nodes cannot be listed and the key falls back to 1 (`PrepareAction`),
  a node is not recorded, the process is not written. `failProcess` and
  `recordFailedNode` drop such errors, and so do the actions.

A process has one approval node with one action behind it, and nothing behind a
rejection. "returned" behaves like "rejected". Routes, agent tasks, timer nodes,
`on_error` branches and the operators' retry and resolve of executions are left out.

### DatabaseCopy

A row is a version number; `source`, `target`, the checkpoint `file`, the `lease`
file's lock, and for every copier its `plan`, its checkpoint in memory and the batch
it has read. `StartRun`/`StartFinalDelta`, `SaveReset`, `BeginRun`, then `ReadBatch`,
`CommitBatch`, `SaveCheckpoint` for every batch, `SavePaused` or `FinishRun`;
`BeginFinalize`, `DigestSource` and `DigestTarget` for every table, `AddConstraint`,
`ValidateConstraint`. `Decoded` is what becomes of a key on its way through JSON and
float64, `Unconvertible` the rows `convertRow` refuses. Clients `Write` the source
until `StopWrites`. A `Copier` may be built without a lease (`copy.go:77`, `85`); that
branch is not modelled, every run takes the lease.

### DatabaseRetirement

`row` is the retirement record, `table` where the table is. `Advance` is
`BeginAdvance` (read and validate), `ApplyTransition` (triggers or a rename),
`RecordTransition` (write if the state is still the one that was read); `Execute` is
`BeginExecute`, `Preview`, `DropTable`, `RecordTransition`. Of the evidence the model
keeps the end of the quarantine, the date of the backup and the access count.
`Submitted` is what operators send with each step: `Advance` replaces the evidence of
the record by it and validates only what the step asks for, so a record can lose what
it had. The engine's DDL is transactional, as in PostgreSQL and SQLite; a drop may fail
for reasons of the engine (a lock, a view that depends on the table).

## 4. Runs

| Run | Question | Result |
| --- | --- | --- |
| `outbox_operator` | Do late workers, two processes and an operator with old readings keep every row honest? | holds |
| `outbox_liveness` | Three requests under one key, two payloads, a fault at any statement, no operator: do payloads stay apart, and is every acknowledged message settled? | holds |
| `cohort_rollout` | Starts, crashes, shutdowns and a stall of three processes of two releases: one release at a time, and what is left after a stall? | one release until the stall; leases and generations stay consistent after it |
| `action_receipts` | Retries, a reused key, a timer, cleanup and purge: one effect and one external call per key, true answers, and does all this implement the abstract receipt? | holds until the purge deletes a receipt in use; each such deletion costs at most one more effect and one more call |
| `action_answered` | Is every caller finally answered? | yes |
| `timer_claims` | Two workers, two timers, a client and two faults: do claims stay apart, and does a timer fire, fail and end as recorded? | holds |
| `timer_action` | Does a fired timer have exactly one effect, a known effect a fired timer, and does every timer end? | holds; a known effect may miss its timer only if a later attempt is refused |
| `workflow_votes` | Votes, an escalation and a withdrawal on old readings, in four modes: do the votes count, can a waiting process be decided, does a withdrawal stay? | holds |
| `workflow_continuation` | Request and two workers, crashes, lost answers, lost leases, dropped errors: do the rows agree, is the effect single, does the continuation end? | holds, with the exceptions the properties name; every effect beyond the first is accounted for |
| `workflow_recovery_refused` | "restoring these snapshots keeps the task retryable" | violated |
| `database_copy` | Crashes between commit and checkpoint, writes until the cutover, a run beside a final delta: is the target complete, and finally equal? | holds, with the exceptions the properties name |
| `database_retirement` | Two operators on old readings with any evidence, a crash, restores: does the record tell where the table is, are writes refused, and does the quarantine count? | holds, with the exceptions the properties name |

### Finding

`workflow_recovery_refused`: an approval in the modes "any" and "quorum" cancels the
sibling tasks together with the vote. If the action behind it then fails,
`recoverWorkflowDecision` writes all tasks back as they were read, but `updateTx`
(`workflow_decision_store.go:342`) never overwrites a cancelled row, so the commit is
rolled back as a whole. The process stays `configuration_error`, its task approved,
and its execution running without a lease, which `WorkflowExecutionDue` never finds.
The counterexample needs two tasks, one vote and one error of the action.

### Limits the properties name

Several properties have a condition. Each condition marks a behaviour of the code
that TLC finds when the condition is taken away (or, for the outbox, the cohort and
the purge, when the property of that name in an earlier state of these modules was
checked); they matter to whoever relies on the sentences quoted here.

Outbox, cohort, receipts:

- *Claim and read-back* (`worker_store.go:106`). The row is read after the claim
  without comparing owner or token; a worker delayed in between adopts the token
  of the next claimant and reports under it, against "A stale worker cannot complete
  a newer claim" (`runtime-cross-boundary-consistency-contract.md:22`). The take-over
  of action receipts has the same shape; there `ReceiptExact` shows it harmless.
- *Operator retry* (`publication_store.go:211`): check, then write by id; the slower
  of two retries re-queues a message that is being sent or accepted.
- *Replay of a settled message* (`publication_store.go:143`): acknowledged without
  registering the workspace; after a crash, a cancellation, a replay and a retry the
  message is queued where recovery never looks. `outbox_liveness` has no operator.
- *Shared instance ID* (`runtime_release_cohort_store.go:303`): the lease row belongs
  to host name and port, and a draining predecessor deletes its successor's.
  `OneRelease` is therefore checked and proved for `Overlap = FALSE`.
- *Stalls*: admission never compares the clock with the lease (application service,
  line 146); `OneRelease` and `ActiveHoldsLease` hold while `stalls = 0`.
- *Doomed startup* (`runtime_release_bootstrap_heartbeat.go:48`): a failed heartbeat
  is noticed only when startup is over.
- *Lifecycle purge* (`stray`; `relational_owner_process.go:108`): deletes by id what
  was selected earlier, also when a caller has reclaimed it since, against "terminal
  and expired only" (`runtime-state-inventory.md:14`). The key can then take effect
  again, and a caller be told success for an effect of a receipt that is gone.
  `ReceiptExact` and `ExternalCallOnce` count: one more per deletion.
  `SuccessWasCommitted` and `ImplementsReceipt` hold until one, and `PurgeOnlyExpired`
  is about everything that deletes but this.

Timers (`missed` in `FiredIffEffect`): an action that commits after its worker lost the
claim, or whose reply is lost, may leave a timer that is recorded as failed, or was
cancelled by an operator after that, although its effect exists. The same happens after
a timely commit if the result is not recorded and the next attempts are refused before
the receipt can answer them: `record_timer_processing.go:156` reschedules, and finally
fails, a timer whose effect is committed.

Workflow:

- `forgotten` in `EffectOnce` counts the failures after which the key no longer stands
  for what was done under it. The key counts *every* recorded instance of the action's
  node, although the comment at `workflow_process_runtime_application_service.go:106`
  means to "advance the key after a durable failed node is recorded": if the node of
  a success is recorded and the process or the execution is not written after it, or
  the answer of a success is lost and a failed node recorded, the next attempt uses a
  new key. And if `ListNodes` fails, `nextNodeIteration` falls back to 1, a key that
  may have been given up before.
- `silent` in `RowsAgree`: `failProcess` drops the error of its `UpdateProcess` (line
  174), and after `CancelWork` none of the writes of the continuation succeeds; the
  worker commits the failed execution all the same. A dead letter can then belong to a
  process that still says "running".
- `overran`: a worker that outlives its lease runs `failProcess` without conditions
  and can overwrite a process that its successor completed.
- `reopened` in `VotesCount`: an escalation that read the task open writes the whole
  row and so reopens a task that was decided in between.
- `stranded` in `ContinuationEnds`: a request claims its continuation without a lease;
  if it dies, the execution is running for ever.

Database copy:

- `interfered` in `DeltaIsComplete`: `RunFinalDelta` resets the checkpoint before its
  run takes the lease; a live run then saves its own checkpoint over the reset.
- `Skipped`: keys beyond 2^53 that float64 rounds up pass over rows; `Verify` refuses
  such a target, so it is never finalized.
- Deletions before the cutover are never carried over, and `Verify` then refuses
  (`Blocked`). With a maximum of batches a final delta can stop after each batch,
  because the count of batches survives the reset.
- `quiet` in `FinalizedIsExact`: a batch read before a rival's final delta may commit
  after `Verify` has digested its table.
- A finalization that dies between ADD and VALIDATE leaves the constraint NOT VALID
  for good: the next one finds it by name. `FinalizedIsExact` only promises that it
  is there.

Database retirement:

- `crossed` in `RecordTellsPlace`: the rename is done before the record is compared,
  so a call that read an older state can move the table although its transition is
  then refused; likewise `faults`: a crash between the two leaves the table moved and
  the record behind, and the step cannot be repeated. That writes are refused, and that
  the table keeps its name until observation is complete, does not depend on either.
- `Advance` to "code_removed" asks for nothing but an audit id, and the evidence sent
  with it replaces the record's. `TypeCorrect` therefore says only of records in
  quarantine, and dropped ones, that they have the end of a quarantine.
- `restores` in `DroppedAfterQuarantine`: an `Execute` that was validated before a
  restore can drop the table within its second quarantine.
- A record can say "blocked" although the table is gone (two `Execute` at once), and
  "dropped" although it is there (`Advance` to "dropped" has no effect on the table).

## 5. Bounds

One row is enough where rows do not interact: every statement of the outbox and of
the receipts names one row, and the theorems cover any number. Two processes with
one executor each give two workers with different owners; a third would repeat the
second. Leases last 1 or 2 units: long enough to be held and to expire while the
worker still runs. `MaxFaults` (crashes, lost replies, failed statements, stalls)
and `MaxInterventions` are 1 or 2, because the shortest violations found need at
most one fault and two interventions. `MaxAttempts` is 1 or 2, so that a retry after
the last attempt is reached soon. In `ReleaseCohort` the lease is 3 and the
interval 1, the smallest numbers with the ratio of the code (45 s, 15 s) and no
grace; the theorems cover every grace that `ReleaseNumbers` allows. `Horizon` lets a
lease expire and be succeeded by another. `MaxPurges` lets one receipt expire and its
key start again. `action_receipts` has two callers with one request, a timer that names
their key for another request and may not take receipts over, one cleaner and one
lifecycle job, so that a purge can meet a receipt in use and its key be executed again
within the bounds.

- *Timers*: two timers make a batch that can be claimed, finished and given up in
  part; two workers can hold the same timer one after the other; `MaxPass = 1` and
  `LeaseTTL = 1` let a pass outlive its leases. One workspace: the order of the
  workspaces and their shares decide when a timer is visited, not what happens to
  it. `timer_action` has one timer, since receipts of different timers do not meet,
  and two faults, enough for a lost commit and a crash; a refused attempt is no fault and
  may happen any number of times.
- *Workflow*: three tasks are the fewest with which the quorum of two differs from
  "any" and "all"; two requests vote from one snapshot; one deadline. The
  continuation does not depend on the number of tasks, so that run has one, with two
  workers to follow each other.
- *Copy*: two tables, two keys, batches of one row, one write to the source. One
  copier runs with a maximum of two batches, the other one runs final deltas without.
- *Retirement*: two operators, one restore, one crash, one access; `Horizon = 3` lets
  a quarantine be set, end and be set again. Operators send every evidence of the model
  to the quarantine, and to the other steps what their validation tells apart.

The passing runs have 0.2 to 4.5 million distinct states. Deadlock is not checked:
callers that were answered, processes that have gone, ended timers and processes and
used-up bounds stop the system legitimately.

## 6. Fairness

Always weak fairness of steps that the code performs by itself, in `outbox_liveness`,
`action_answered`, `timer_action`, `workflow_continuation` and `database_copy`:

- Outbox: callers repeat `Accept` until they are acknowledged (every producer
  derives its deduplication key from durable state); executors are goroutines that
  run on; the recovery loop lists every due row in the registered workspaces;
  heartbeats are driven by a ticker; processes are restarted by their supervisor;
  time passes. No fairness is assumed of operators, and none of faults.
- Actions: a caller repeats its invocation while it is told to wait, its statements
  return, its handler ends; time passes. Cleaners need not run. Callers that must
  not take receipts over (`Prevent`) are excluded: an abandoned receipt is theirs
  for good, as the comment in `action_executor_mutation.go:31` intends.
- Timers: the polling loop (`worker_lifecycle.go`) keeps running passes, statements
  and actions return, time passes. Nobody has to cancel or requeue.
- Workflow: a request that has begun runs to its end, the worker's recovery pass
  comes round, leases that nobody keeps alive run out. Nobody has to vote.
- Copy: a run that was started goes on; after the cutover the operator keeps running
  final deltas and `Finalize` until one returns without an error. This last one is an
  assumption about the operator: `CopyConverges` says that persistence is enough.

## 7. Proofs

The theorems hold for any sets of messages, requests, processes, instances, keys,
callers, timers and workers and for any bounds, from the named assumptions in the
modules (`ShapeAssumption`, `NumberAssumption`, `OperatorAssumption`, `ReleaseShape`,
`ReleaseNumbers`, `TimerShape`, `TimerNumbers`, `ApprovalShape`, `ApprovalNumbers`,
`RowAssumption`, `SubmittedAssumption`). They ask for little: an approval has finitely many tasks, numbered,
and at least one; a migration has finitely many copiers and at least one; the clock of
a retirement can move once, and what operators submit is evidence. Together they say that there is a system to speak of.

*Outbox.* `TypeCorrect` first. `DeadLetterCorrect` and `AttemptBudgetCorrect` share
`BudgetInv`: whatever an executor read back is fenced (`HoldIsFenced`), that is, its
token is at most the row's, and if the tokens are equal and the row is still
`sending`, the attempts are equal too; without that the decision on a counter read
earlier says nothing about the row. `SettledCorrect` is an action property and follows from
the types: each fenced UPDATE finds the row `sending`. `Discoverable`,
`PayloadCorrect` and `AcceptedCorrect` rest on `PayloadInv` (executors, wakeups and
deliveries name rows that exist, requests past the INSERT have their row and, past
the registration, their scope, and who is about to complete has delivered), on
`RowsStay` (a row, once there, stays with its fingerprint) and on `ReplaysSettled` for receipts given for settled
messages.

*Release cohort.* `LeasesAgreeCorrect` and `GenerationCorrect` need no assumption
about time: `GenerationInv` says that no process's generation is ahead of the current
one, that a process of the current generation has the active identity, and that no
generation stands for two identities. `ActiveHoldsLeaseCorrect` and
`OneReleaseCorrect` assume `Overlap = FALSE` and speak of states before the first
stall. Their invariant `ReleaseInv` says that no two live
processes share an instance ID (`Unshared`), that the lease of a working process is
its own (`Holding`), and that every claim, heartbeat and handover is at most `Grace`
late while the lease outlives the next one (`OnTime`); the arithmetic is
`2 * HeartbeatInterval + 4 * Grace < LeaseDuration`.

*Actions.* `CallerKinds` and `OtherKinds` reduce the steps to nine kinds (quiet,
insert, take over, call, complete, operate, clean, stray deletion, window passes) and
every invariant is shown over those, for any number of lifecycle jobs. `ReceiptExact`
needs `EffectInv`: the effects of a key are that of its receipt and at most one for
each stray deletion, so that a deletion which turns the receipt's effect into nobody's
is paid for when it happens. `SuccessWasCommitted` needs `ReplayInv`: as long as its key
has no stray deletion, an engaged caller's receipt stays and keeps its fingerprint
(`ClaimsStay`), nobody is engaged with a receipt that may be deleted (`ExpiredIdle`), a
succeeded receipt stands for an applied request (`SuccessApplied`). `ExternalCallOnce`
needs `CallInv`: the calls made, and the callers that are about to make theirs, are
together at most one for the live receipt and one for each stray deletion; a bound on
the calls alone would not be inductive, because a deletion lets a second caller in
while the first has yet to call. `ImplementsReceiptCorrect` is the refinement of
`ActionReceipt`: the initial states map to initial states, and each kind of step but the
stray deletion to one abstract action or to a stutter, with the invariants above
supplying the abstract guards.

*Timers.* `TypeCorrect` is shown with one lemma per action. `OneHolderCorrect` is
inductive with `HoldInv`: a worker that still looks for work holds nothing, what it
holds was claimed with a token not above the row's, and who is about to record a
success has its token in `succeeded`. A claim takes the next token, so whoever holds
an older claim of the row is told apart from the new one, whether or not it knows
that its lease is over. From `HoldInv` each step changes a row in one of four ways
(`RowStep`: not at all, by a client, by a claim, by the holder of the current token),
and `FiredWasExecutedCorrect`, `FailedExhaustedCorrect` and `EndedStaysCorrect` are read
off these. All is stated over `TimerStep`, in which the target may end in any way at
any time; so the same lemmas hold in the composition.

*Timers and actions.* Every step of `TimerAction` is a `TimerStep`
(`ActionSteps`), which gives `TimersKeepTheirPromises` at once. `FiredIffEffectCorrect`
needs `ActionInv`: the effect is committed exactly when the receipt says so
(`EffectRecorded`), no two workers are inside the action of one timer although both may
hold it (`InsideAlone`), a success is recorded only on such a receipt
(`SuccessKnown`), and after a timely commit nobody is about to record a failure under
the current claim (`CommitKept`): a repeated attempt that reaches the receipt replays
it and cannot fail, and one that is refused before that makes the timer `missed`.
`CallIsFirstCorrect` needs `CallsKept`: a call leaves its receipt behind, and whoever is
inside the action before its own call has inserted that receipt, so it finds no earlier
call. The guard of the abstract `Call`, which asks for none, is therefore never what keeps
a second call out.

*Workflow.* `ApprovalInv` has ten parts. Most steps matter to few of them, so
`Shapes` reduces the steps to eight shapes (beside the continuation, around it, a
decision, a withdrawal, a claim, progress, an end, an expired lease). `RowsInv` and
`ClaimInv` say what the rows and the actors tell of each other: a request that
continues is alone, on an execution without an owner, and what a worker read before
its claim cannot be overtaken unnoticed because a claim moves the token.
`WaitingIsDecidableCorrect` and `WithdrawnStaysCorrect` follow, the latter because a
withdrawal finds the process waiting, when nobody continues it. `LeaseInv` says that as
long as no worker has outlived its lease there is one continuation at a time;
`RowsAgreeCorrect` needs it with `OutcomeInv`, which follows the last attempt from its
write of the process, or its silence, to the dead letter. `EffectOnceCorrect` needs it
with `EffectInv`: of the keys under which the action has taken effect or is about to
(`Tried`), all but one are paid for by `forgotten`, and that one is the key of the next
attempt unless the action is over. The exception has to be a key and not a number:
when a failed listing sends the key back to 1, or a recorded node moves it on, it is the
key left behind that joins the forgotten ones (`OneForgotten`).
`VotesCountCorrect` rests on `SnapInv`: a vote is computed on an earlier snapshot, and
a snapshot whose revision is still current differs from the tasks only where an
escalation, which does not move the revision, reopened a task. That is why the
property excepts reopened tasks, and why nothing weaker is inductive. That a set of
tasks has a first one (`FirstExists`) comes from the well-foundedness of the order on
the naturals.

*Copy.* `Good(t, k, X)` says that a row is in the target or has an excuse; a write to
the source since the row was copied is an excuse unless the row is in `X`. `CopyInv(X)`
says that the checkpoint file and the checkpoints of copying runs pass good rows only,
and that a batch holds what the source held in the whole interval of keys it decides
about. It is inductive for `X = {}`, which gives `CheckpointCoversCorrect`, and, once a
final delta has reset the checkpoint on a stopped source, for `X` all rows, which gives
`DeltaIsCompleteCorrect`: one proof serves both. The step that reads a batch needs
`Limit`, what `ORDER BY key LIMIT n` leaves out. `FinalizedIsExactCorrect` needs
`Harmless`: once the source has stopped and every batch on its way holds what the source
holds, copying makes the databases only more equal, so a table that `Verify` has passed
stays equal while the later ones are read. Counting and greatest keys are reached
through least elements, since induction over data is not available here. `TypeOK`
contains the exclusion by the lease file.

*Retirement.* A call reads the record, may change the table, and writes the record in
a later transaction. `Validated` carries what was checked at the first read; `Guarded`
that the triggers were in place before anybody could read or record
`writes_disabled`, and that whoever moved the table had read a record whose observation
was complete, which the record never ceases to be: the two parts of
`RecordTellsPlaceCorrect` that no crash and no stale call disturbs. Its last part needs
`Accounted`: record and table agree but for one call that is hiding, restoring or
dropping the table and has yet to say so. `DroppedAfterQuarantineCorrect` needs `Once`: without a restore the table enters
quarantine once, so the end of quarantine a call read earlier is the record's.
`StepByStepCorrect` follows from `Validated`, because the record is written only if it
is still in the state that was read.

## 8. Only model-checked, and not modelled

Model-checked only: liveness (`AckedSettles`, `CallersAnswered`, `TimersSettle`,
`ContinuationEnds`, `CopyConverges`), which is beyond the prover, and the violated
property `FailureIsRetryable`, which is a counterexample.

Not modelled, with the reasons in `PROJECT.json`: the protocols of the plan's later
rows; record storage and queries (assumed atomic transactions); compilation and
validation of definitions; adapters to owners outside the repository; file and
scanner I/O; schema migrations. These are most of the repository's lines: it is
mainly definition compilers, HTTP handlers, SQL generation and tooling, sequential
code whose unit tests reach it. In the modelled parts: bulk invocations, workflow
starts after an action's commit, the actor check of receipts, archives of the
lifecycle purge, capacity, maintenance and drain controls of HTTP, the parts of
workflows, copies and retirements named in section 3.

## 9. Reproducing

`tlc -config <cfg> <MC module>` for each run, `tlapm <module>Proofs.tla` for the
proofs. Operators named `Mut...` are deliberately wrong versions of the definition
that follows them; substituted for it, they make the property named in
`PROJECT.json` fail, which shows that the property depends on that piece of code.
