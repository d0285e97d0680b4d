---------------------- MODULE PublicationOutboxProofs ----------------------
(* Proofs about PublicationOutbox, for every set of messages, requests,    *)
(* processes, executors and operators and every value of the bounds.       *)
EXTENDS PublicationOutbox, TLAPS

\* The rows, channels and program counters start with their types.
LEMMA TypeInit == Init => TypeOK
  BY ShapeAssumption
  DEF Init, NoView, TypeOK, RowTypeOK, ExecTypeOK, Statuses, AdminSettable,
      RequestStages, Stages, NoHold, Fingerprints, Holds, Views

\* A returning executor is idle and keeps nothing of its claim.
LEMMA ReturnTypes ==
  ASSUME ExecTypeOK, NEW e \in Executors, Return(e)
  PROVE  ExecTypeOK'
<1>1. NoHold \in Holds /\ "idle" \in Stages
  BY DEF NoHold, Holds, Stages
<1> QED BY <1>1 DEF ExecTypeOK, Return

\* So is every executor of a process that starts again.
LEMMA RestartedTypes ==
  ASSUME ExecTypeOK, NEW p \in Processes, Restarted(p)
  PROVE  ExecTypeOK'
<1>1. NoHold \in Holds /\ "idle" \in Stages
  BY DEF NoHold, Holds, Stages
<1> QED BY <1>1 DEF ExecTypeOK, Restarted

\* The fenced write that ends a claim keeps the row's types.
LEMMA EndClaimTypes ==
  ASSUME RowTypeOK, NEW e \in Executors, task[e] \in Messages,
         NEW s \in Statuses, EndClaim(e, s)
  PROVE  RowTypeOK'
  BY DEF RowTypeOK, EndClaim, rowVars

\* Every action keeps every type.
LEMMA TypeStep == TypeOK /\ [Next]_vars => TypeOK'
<1> SUFFICES ASSUME TypeOK, [Next]_vars
             PROVE  TypeOK'
  OBVIOUS
<1> USE ShapeAssumption, NumberAssumption DEF TypeOK
<1>s. {"queued", "sending", "accepted", "dead_letter"} \subseteq Statuses
  BY DEF Statuses, AdminSettable
<1>p. {"idle", "claim", "readback", "work", "complete", "fail"} \subseteq Stages
  BY DEF Stages
<1>1. ASSUME NEW r \in Requests, InsertOutbox(r)
      PROVE  TypeOK'
  <2>1. MsgOf[r] \in Messages /\ FpOf[r] \in Fingerprints
    BY DEF Fingerprints
  <2>2. RowTypeOK' /\ ExecTypeOK'
    BY <1>1, <1>s, <2>1 DEF InsertOutbox, execVars, RowTypeOK, ExecTypeOK
  <2> QED BY <1>1, <2>2 DEF InsertOutbox, RequestStages
<1>2. ASSUME NEW r \in Requests, RegisterScope(r)
      PROVE  TypeOK'
  <2>1. RowTypeOK' /\ ExecTypeOK'
    BY <1>2 DEF RegisterScope, rowVars, execVars, RowTypeOK, ExecTypeOK
  <2> QED BY <1>2, <2>1 DEF RegisterScope, RequestStages
<1>3. ASSUME NEW r \in Requests, NEW p \in Processes, Acknowledge(r, p)
      PROVE  TypeOK'
  <2>1. RowTypeOK' /\ ExecTypeOK'
    BY <1>3 DEF Acknowledge, rowVars, execVars, RowTypeOK, ExecTypeOK
  <2> QED BY <1>3, <2>1 DEF Acknowledge, Woken, RequestStages
<1>4. ASSUME NEW r \in Requests, AcceptFails(r)
      PROVE  TypeOK'
  <2>1. RowTypeOK' /\ ExecTypeOK'
    BY <1>4 DEF AcceptFails, rowVars, execVars, RowTypeOK, ExecTypeOK
  <2> QED BY <1>4, <2>1 DEF AcceptFails, RequestStages
<1>5. ASSUME NEW e \in Executors, NEW m \in Messages,
             DispatchWakeup(e, m) \/ DispatchRecovery(e, m)
      PROVE  TypeOK'
  <2>1. RowTypeOK'
    BY <1>5 DEF DispatchWakeup, DispatchRecovery, rowVars, RowTypeOK
  <2>2. ExecTypeOK'
    BY <1>5, <1>p DEF DispatchWakeup, DispatchRecovery, ExecTypeOK
  <2> QED BY <1>5, <2>1, <2>2 DEF DispatchWakeup, DispatchRecovery, producerVars
<1>6. ASSUME NEW e \in Executors, ClaimOutbox(e)
      PROVE  TypeOK'
  <2>1. task[e] \in Messages
    BY <1>6 DEF ClaimOutbox, ExecTypeOK
  <2>2. CASE publicationDuePredicate(task[e])
    <3>1. RowTypeOK'
      BY <1>6, <1>s, <2>1, <2>2 DEF ClaimOutbox, RowTypeOK
    <3>2. ExecTypeOK'
      BY <1>6, <1>p, <2>1, <2>2 DEF ClaimOutbox, ExecTypeOK, RowTypeOK
    <3> QED BY <1>6, <3>1, <3>2 DEF ClaimOutbox, producerVars
  <2>3. CASE ~publicationDuePredicate(task[e])
    <3>1. ExecTypeOK'
      BY <1>6, <2>3, ReturnTypes DEF ClaimOutbox
    <3>2. RowTypeOK'
      BY <1>6, <2>3 DEF ClaimOutbox, RowTypeOK, rowVars
    <3> QED BY <1>6, <3>1, <3>2 DEF ClaimOutbox, producerVars
  <2> QED BY <2>2, <2>3
<1>7. ASSUME NEW e \in Executors, ReadBack(e)
      PROVE  TypeOK'
  <2>1. RowTypeOK'
    BY <1>7 DEF ReadBack, rowVars, RowTypeOK
  <2>2. [owner |-> owner[task[e]], token |-> token[task[e]],
         attempt |-> attempt[task[e]]] \in Holds
    BY <1>7 DEF ReadBack, RowTypeOK, ExecTypeOK, Holds
  <2>3. ExecTypeOK'
    BY <1>7, <1>p, <2>2 DEF ReadBack, ExecTypeOK
  <2> QED BY <1>7, <2>1, <2>3 DEF ReadBack, producerVars
<1>8. ASSUME NEW e \in Executors, HeartbeatOutbox(e)
      PROVE  TypeOK'
  <2>1. RowTypeOK' /\ ExecTypeOK'
    BY <1>8 DEF HeartbeatOutbox, RowTypeOK, ExecTypeOK
  <2> QED BY <1>8, <2>1 DEF HeartbeatOutbox, producerVars
<1>9. ASSUME NEW e \in Executors, NEW kept \in BOOLEAN, NEW ok \in BOOLEAN,
             Deliver(e, kept, ok)
      PROVE  TypeOK'
  <2>1. RowTypeOK'
    BY <1>9 DEF Deliver, rowVars, RowTypeOK
  <2>2. ExecTypeOK'
    BY <1>9, <1>p DEF Deliver, AfterDelivery, ExecTypeOK
  <2>3. task[e] \in Messages /\ fp[task[e]] \in Fingerprints
    BY <1>9 DEF Deliver, RowTypeOK, ExecTypeOK
  <2> QED BY <1>9, <2>1, <2>2, <2>3 DEF Deliver, producerVars
<1>10. ASSUME NEW e \in Executors, Finish(e)
       PROVE  TypeOK'
  <2>1. task[e] \in Messages
    BY <1>10 DEF Finish, CompleteOutbox, ReleaseOutbox, DeadLetterOutbox,
                 ScheduleOutboxRetry, ExecTypeOK
  <2>2. ExecTypeOK'
    BY <1>10, ReturnTypes DEF Finish, CompleteOutbox, ReleaseOutbox,
                              DeadLetterOutbox, ScheduleOutboxRetry
  <2>3. CASE CompleteOutbox(e) \/ ReleaseOutbox(e) \/ DeadLetterOutbox(e)
    <3>1. RowTypeOK'
      BY <1>s, <2>1, <2>3, EndClaimTypes
      DEF CompleteOutbox, ReleaseOutbox, DeadLetterOutbox
    <3> QED BY <2>2, <2>3, <3>1
            DEF CompleteOutbox, ReleaseOutbox, DeadLetterOutbox, producerVars
  <2>4. CASE ScheduleOutboxRetry(e)
    <3>1. RowTypeOK'
      BY <1>s, <2>1, <2>4 DEF ScheduleOutboxRetry, RowTypeOK, rowVars
    <3> QED BY <2>2, <2>4, <3>1 DEF ScheduleOutboxRetry, producerVars
  <2> QED BY <1>10, <2>3, <2>4 DEF Finish
<1>11. ASSUME NEW e \in Executors, AbandonClaim(e)
       PROVE  TypeOK'
  <2>1. RowTypeOK'
    BY <1>11 DEF AbandonClaim, rowVars, RowTypeOK
  <2>2. ExecTypeOK'
    BY <1>11, ReturnTypes DEF AbandonClaim
  <2> QED BY <1>11, <2>1, <2>2 DEF AbandonClaim, producerVars
<1>12. ASSUME NEW p \in Processes, Shutdown(p)
       PROVE  TypeOK'
  <2>1. RowTypeOK' /\ ExecTypeOK'
    BY <1>12 DEF Shutdown, rowVars, execVars, RowTypeOK, ExecTypeOK
  <2> QED BY <1>12, <2>1 DEF Shutdown, producerVars
<1>13. ASSUME NEW p \in Processes, Restart(p) \/ Crash(p)
       PROVE  TypeOK'
  <2>1. RowTypeOK'
    BY <1>13 DEF Restart, Crash, rowVars, RowTypeOK
  <2>2. ExecTypeOK'
    BY <1>13, RestartedTypes DEF Restart, Crash
  <2> QED BY <1>13, <2>1, <2>2 DEF Restart, Crash, Restarted, producerVars
<1>14. ASSUME NEW o \in Operators, NEW m \in Messages, Inspect(o, m)
       PROVE  TypeOK'
  <2>1. RowTypeOK' /\ ExecTypeOK'
    BY <1>14 DEF Inspect, rowVars, execVars, RowTypeOK, ExecTypeOK
  <2>2. [msg |-> m, status |-> status[m], owner |-> owner[m],
         token |-> token[m]] \in Views
    BY DEF RowTypeOK, Views
  <2> QED BY <1>14, <2>1, <2>2 DEF Inspect, producerVars
<1>15. ASSUME NEW o \in Operators, Intervene(o),
              \/ \E s \in OperatorStatuses : UpdatePublicationStatus(o, s)
              \/ SchedulePublicationRetry(o)
              \/ \E stuck \in BOOLEAN : ForceReleaseOperationsLease(o, stuck)
       PROVE  TypeOK'
  <2>1. view[o].msg \in Messages
    BY <1>15 DEF Intervene, Views
  <2>2. NoView \in Views
    BY DEF NoView, Views, Statuses
  <2>3. RowTypeOK'
    BY <1>15, <1>s, <2>1
    DEF UpdatePublicationStatus, SchedulePublicationRetry,
        ForceReleaseOperationsLease, RowTypeOK, Statuses, Settable
  <2>4. ExecTypeOK'
    BY <1>15 DEF UpdatePublicationStatus, SchedulePublicationRetry,
                 ForceReleaseOperationsLease, execVars, ExecTypeOK
  <2> QED BY <1>15, <2>2, <2>3, <2>4
          DEF Intervene, UpdatePublicationStatus, SchedulePublicationRetry,
              ForceReleaseOperationsLease, producerVars
<1>16. CASE Tick \/ Stall
  <2>1. RowTypeOK' /\ ExecTypeOK'
    BY <1>16 DEF Tick, Stall, Elapse, execVars, RowTypeOK, ExecTypeOK
  <2> QED BY <1>16, <2>1 DEF Tick, Stall, Elapse, producerVars
<1>17. CASE UNCHANGED vars
  BY <1>17 DEF vars, rowVars, execVars, RowTypeOK, ExecTypeOK
<1> QED
  BY <1>1, <1>2, <1>3, <1>4, <1>5, <1>6, <1>7, <1>8, <1>9, <1>10, <1>11,
     <1>12, <1>13, <1>14, <1>15, <1>16, <1>17
  DEF Next, Produce, Work, Operate, UpdatePublicationStatus,
      SchedulePublicationRetry, ForceReleaseOperationsLease

\* Type correctness: the columns, the channels and the program counters of
\* the publication handoff keep their types in every reachable state.
THEOREM TypeCorrect == Spec => []TypeOK
  BY TypeInit, TypeStep, PTL DEF Spec

-----------------------------------------------------------------------------
(* Retry budget.  The invariant needed is about the lease copy a worker    *)
(* decides on: its token never runs ahead of the row, and as long as the   *)
(* claim it names is the current one its attempt counter is current too.   *)

HoldIsFenced ==
  \A e \in Executors : pc[e] \in {"work", "complete", "fail"} =>
    /\ held[e].token <= token[task[e]]
    /\ held[e].token = token[task[e]] /\ status[task[e]] = "sending"
         => held[e].attempt = attempt[task[e]]

BudgetInv == HoldIsFenced /\ DeadLetterExhausted /\ AttemptBudget

\* A step that leaves the rows and the leases alone keeps the budget.
LEMMA BudgetFrame ==
  ASSUME BudgetInv, UNCHANGED <<status, attempt, token, held, task>>,
         interventions \in Nat, interventions' \in Nat,
         interventions' >= interventions, TypeOK,
         \A e \in Executors : pc'[e] \in {"work", "complete", "fail"} =>
           pc[e] \in {"work", "complete", "fail"}
  PROVE  BudgetInv'
<1>1. HoldIsFenced'
  BY DEF BudgetInv, HoldIsFenced
<1>2. DeadLetterExhausted'
  BY DEF BudgetInv, DeadLetterExhausted
<1>3. AttemptBudget'
  BY NumberAssumption DEF BudgetInv, AttemptBudget, TypeOK, RowTypeOK
<1> QED BY <1>1, <1>2, <1>3 DEF BudgetInv

\* A step that settles or re-queues one row, counting at most one attempt
\* within the budget, and returns its executor (if any) keeps the budget.
LEMMA BudgetWrite ==
  ASSUME BudgetInv, TypeOK, TypeOK', NEW m \in Messages,
         NEW s \in Statuses \ {"sending"}, NEW a \in Nat, a >= attempt[m],
         status' = [status EXCEPT ![m] = s],
         attempt' = [attempt EXCEPT ![m] = a],
         UNCHANGED token, interventions' >= interventions,
         a <= MaxAttempts + interventions',
         s = "dead_letter" => a >= MaxAttempts,
         \A e \in Executors : pc'[e] \in {"work", "complete", "fail"} =>
           pc'[e] = pc[e] /\ task'[e] = task[e] /\ held'[e] = held[e]
  PROVE  BudgetInv'
<1>1. HoldIsFenced'
  BY DEF BudgetInv, HoldIsFenced, TypeOK, RowTypeOK, ExecTypeOK
<1>2. DeadLetterExhausted'
  BY DEF BudgetInv, DeadLetterExhausted, TypeOK, RowTypeOK
<1>3. AttemptBudget'
  BY NumberAssumption DEF BudgetInv, AttemptBudget, TypeOK, RowTypeOK
<1> QED BY <1>1, <1>2, <1>3 DEF BudgetInv

\* Every action keeps the retry budget.
LEMMA BudgetStep == TypeOK /\ TypeOK' /\ BudgetInv /\ [Next]_vars => BudgetInv'
<1> SUFFICES ASSUME TypeOK, TypeOK', BudgetInv, [Next]_vars
             PROVE  BudgetInv'
  OBVIOUS
<1> USE NumberAssumption
<1>n. /\ interventions \in Nat /\ interventions' \in Nat
      /\ interventions >= interventions /\ MaxAttempts <= MaxAttempts + interventions
  BY DEF TypeOK
<1>1. ASSUME NEW r \in Requests, InsertOutbox(r)
      PROVE  BudgetInv'
  <2>1. CASE status[MsgOf[r]] = "absent"
    <3>1. MsgOf[r] \in Messages
      BY ShapeAssumption
    <3>2. /\ "queued" \in Statuses \ {"sending"}
          /\ attempt[MsgOf[r]] \in Nat /\ attempt[MsgOf[r]] >= attempt[MsgOf[r]]
          /\ attempt[MsgOf[r]] <= MaxAttempts + interventions
      BY <3>1 DEF Statuses, AdminSettable, TypeOK, RowTypeOK, BudgetInv, AttemptBudget
    <3>3. attempt' = [attempt EXCEPT ![MsgOf[r]] = attempt[MsgOf[r]]]
      BY <1>1, <3>1 DEF InsertOutbox, TypeOK, RowTypeOK
    <3>4. /\ status' = [status EXCEPT ![MsgOf[r]] = "queued"]
          /\ UNCHANGED <<token, pc, task, held, interventions>>
      BY <1>1, <2>1 DEF InsertOutbox, execVars
    <3> QED BY <1>n, <3>1, <3>2, <3>3, <3>4, BudgetWrite
  <2>2. CASE status[MsgOf[r]] # "absent"
    BY <1>1, <1>n, <2>2, BudgetFrame DEF InsertOutbox, execVars
  <2> QED BY <2>1, <2>2
<1>2. ASSUME NEW r \in Requests,
             RegisterScope(r) \/ (\E p \in Processes : Acknowledge(r, p)) \/ AcceptFails(r)
      PROVE  BudgetInv'
  BY <1>2, <1>n, BudgetFrame
  DEF RegisterScope, Acknowledge, AcceptFails, rowVars, execVars
<1>3. ASSUME NEW e \in Executors, NEW m \in Messages,
             DispatchWakeup(e, m) \/ DispatchRecovery(e, m)
      PROVE  BudgetInv'
  <2>1. HoldIsFenced'
    BY <1>3 DEF DispatchWakeup, DispatchRecovery, rowVars, BudgetInv,
                HoldIsFenced, TypeOK, ExecTypeOK
  <2>2. DeadLetterExhausted' /\ AttemptBudget'
    BY <1>3 DEF DispatchWakeup, DispatchRecovery, rowVars, BudgetInv,
                DeadLetterExhausted, AttemptBudget
  <2> QED BY <2>1, <2>2 DEF BudgetInv
<1>r. ASSUME NEW e \in Executors, Return(e), UNCHANGED rowVars,
             UNCHANGED interventions
      PROVE  BudgetInv'
  <2>1. HoldIsFenced'
    BY <1>r DEF Return, rowVars, BudgetInv, HoldIsFenced, TypeOK, ExecTypeOK
  <2>2. DeadLetterExhausted' /\ AttemptBudget'
    BY <1>r DEF rowVars, BudgetInv, DeadLetterExhausted, AttemptBudget
  <2> QED BY <2>1, <2>2 DEF BudgetInv
<1>4. ASSUME NEW e \in Executors, ClaimOutbox(e)
      PROVE  BudgetInv'
  <2>1. CASE publicationDuePredicate(task[e])
    <3>1. ASSUME NEW x \in Executors, pc'[x] \in {"work", "complete", "fail"}
          PROVE  /\ held'[x].token <= token'[task'[x]]
                 /\ held'[x].token = token'[task'[x]] /\ status'[task'[x]] = "sending"
                      => held'[x].attempt = attempt'[task'[x]]
      <4>1. /\ task[x] \in Messages /\ task[e] \in Messages
            /\ token[task[x]] \in Nat /\ held[x].token \in Nat
            /\ pc[x] \in {"work", "complete", "fail"}
            /\ UNCHANGED <<held, task, attempt>>
        BY <1>4, <2>1, <3>1 DEF ClaimOutbox, TypeOK, RowTypeOK, ExecTypeOK, Holds
      <4>2. CASE task[x] = task[e]
        <5>1. token'[task[x]] = token[task[x]] + 1
          BY <1>4, <2>1, <4>1, <4>2 DEF ClaimOutbox, TypeOK, RowTypeOK
        <5> QED BY <4>1, <5>1 DEF BudgetInv, HoldIsFenced
      <4>3. CASE task[x] # task[e]
        <5>1. UNCHANGED <<token[task[x]], status[task[x]]>>
          BY <1>4, <2>1, <4>1, <4>3 DEF ClaimOutbox, TypeOK, RowTypeOK
        <5> QED BY <4>1, <5>1 DEF BudgetInv, HoldIsFenced
      <4> QED BY <4>2, <4>3
    <3>2. DeadLetterExhausted' /\ AttemptBudget'
      BY <1>4, <2>1 DEF ClaimOutbox, BudgetInv, DeadLetterExhausted,
                        AttemptBudget, TypeOK, RowTypeOK
    <3> QED BY <3>1, <3>2 DEF BudgetInv, HoldIsFenced
  <2>2. CASE ~publicationDuePredicate(task[e])
    BY <1>4, <1>r, <2>2 DEF ClaimOutbox
  <2> QED BY <2>1, <2>2
<1>5. ASSUME NEW e \in Executors, ReadBack(e)
      PROVE  BudgetInv'
  <2>1. HoldIsFenced'
    BY <1>5 DEF ReadBack, rowVars, BudgetInv, HoldIsFenced, TypeOK, RowTypeOK,
                ExecTypeOK
  <2>2. DeadLetterExhausted' /\ AttemptBudget'
    BY <1>5 DEF ReadBack, rowVars, BudgetInv, DeadLetterExhausted, AttemptBudget
  <2> QED BY <2>1, <2>2 DEF BudgetInv
<1>6. ASSUME NEW e \in Executors, HeartbeatOutbox(e)
      PROVE  BudgetInv'
  BY <1>6, <1>n, BudgetFrame DEF HeartbeatOutbox
<1>7. ASSUME NEW e \in Executors, NEW kept \in BOOLEAN, NEW ok \in BOOLEAN,
             Deliver(e, kept, ok)
      PROVE  BudgetInv'
  <2>1. \A x \in Executors : pc'[x] \in {"work", "complete", "fail"} =>
          pc[x] \in {"work", "complete", "fail"}
    BY <1>7 DEF Deliver, TypeOK, ExecTypeOK
  <2> QED BY <1>7, <1>n, <2>1, BudgetFrame DEF Deliver, rowVars
<1>8. ASSUME NEW e \in Executors, Finish(e)
      PROVE  BudgetInv'
  <2>1. /\ task[e] \in Messages /\ pc[e] \in {"complete", "fail"}
        /\ Return(e) /\ UNCHANGED interventions
    BY <1>8 DEF Finish, CompleteOutbox, ReleaseOutbox, DeadLetterOutbox,
                ScheduleOutboxRetry, TypeOK, ExecTypeOK
  <2>2. CASE ~LeaseHeld(e)
    BY <1>8, <1>r, <2>1, <2>2
    DEF Finish, CompleteOutbox, ReleaseOutbox, DeadLetterOutbox,
        ScheduleOutboxRetry, EndClaim
  <2>3. CASE LeaseHeld(e)
    <3>1. /\ held[e].attempt = attempt[task[e]]
          /\ attempt[task[e]] \in Nat /\ attempt[task[e]] >= attempt[task[e]]
          /\ attempt[task[e]] <= MaxAttempts + interventions
      BY <2>1, <2>3 DEF LeaseHeld, BudgetInv, HoldIsFenced, AttemptBudget,
                        TypeOK, RowTypeOK
    <3>2. \A x \in Executors : pc'[x] \in {"work", "complete", "fail"} =>
            pc'[x] = pc[x] /\ task'[x] = task[x] /\ held'[x] = held[x]
      BY <2>1 DEF Return, TypeOK, ExecTypeOK
    <3>3. {"queued", "accepted", "dead_letter"} \subseteq Statuses \ {"sending"}
      BY DEF Statuses, AdminSettable
    <3>4. ASSUME NEW s \in {"queued", "accepted", "dead_letter"},
                 EndClaim(e, s), s = "dead_letter" => Exhausted(e)
          PROVE  BudgetInv'
      <4>1. attempt' = [attempt EXCEPT ![task[e]] = attempt[task[e]]]
        BY <2>1, <2>3, <3>4 DEF EndClaim, TypeOK, RowTypeOK
      <4>2. s = "dead_letter" => attempt[task[e]] >= MaxAttempts
        BY <3>1, <3>4 DEF Exhausted
      <4>3. /\ status' = [status EXCEPT ![task[e]] = s]
            /\ UNCHANGED <<token, interventions>>
        BY <2>1, <2>3, <3>4 DEF EndClaim
      <4> QED BY <1>n, <2>1, <3>1, <3>2, <3>3, <4>1, <4>2, <4>3, BudgetWrite
    <3>5. CASE CompleteOutbox(e) \/ ReleaseOutbox(e) \/ DeadLetterOutbox(e)
      BY <3>4, <3>5 DEF CompleteOutbox, ReleaseOutbox, DeadLetterOutbox
    <3>6. CASE ScheduleOutboxRetry(e)
      <4>1. /\ status' = [status EXCEPT ![task[e]] = "queued"]
            /\ attempt' = [attempt EXCEPT ![task[e]] = attempt[task[e]] + 1]
            /\ UNCHANGED <<token, interventions>>
        BY <2>1, <2>3, <3>6 DEF ScheduleOutboxRetry, TypeOK, RowTypeOK
      <4>2. /\ attempt[task[e]] + 1 \in Nat
            /\ attempt[task[e]] + 1 >= attempt[task[e]]
            /\ attempt[task[e]] + 1 <= MaxAttempts + interventions
        BY <1>n, <3>1, <3>6 DEF ScheduleOutboxRetry, Exhausted
      <4> QED BY <1>n, <2>1, <3>2, <3>3, <4>1, <4>2, BudgetWrite
    <3> QED BY <1>8, <3>5, <3>6 DEF Finish
  <2> QED BY <2>2, <2>3
<1>9. ASSUME NEW e \in Executors, AbandonClaim(e)
      PROVE  BudgetInv'
  BY <1>9, <1>r DEF AbandonClaim
<1>10. ASSUME NEW p \in Processes, Shutdown(p)
       PROVE  BudgetInv'
  BY <1>10, <1>n, BudgetFrame DEF Shutdown, rowVars, execVars
<1>11. ASSUME NEW p \in Processes, Restart(p) \/ Crash(p)
       PROVE  BudgetInv'
  <2>1. HoldIsFenced'
    BY <1>11 DEF Restart, Crash, Restarted, rowVars, BudgetInv, HoldIsFenced,
                 TypeOK, ExecTypeOK
  <2>2. DeadLetterExhausted' /\ AttemptBudget'
    BY <1>11 DEF Restart, Crash, rowVars, BudgetInv, DeadLetterExhausted,
                 AttemptBudget
  <2> QED BY <2>1, <2>2 DEF BudgetInv
<1>12. ASSUME NEW o \in Operators, NEW m \in Messages, Inspect(o, m)
       PROVE  BudgetInv'
  BY <1>12, <1>n, BudgetFrame DEF Inspect, rowVars, execVars
<1>13. ASSUME NEW o \in Operators, Intervene(o),
              \/ \E s \in OperatorStatuses : UpdatePublicationStatus(o, s)
              \/ SchedulePublicationRetry(o)
              \/ \E stuck \in BOOLEAN : ForceReleaseOperationsLease(o, stuck)
       PROVE  BudgetInv'
  <2>1. /\ view[o].msg \in Messages /\ attempt[view[o].msg] \in Nat
        /\ attempt[view[o].msg] <= MaxAttempts + interventions
        /\ interventions' = interventions + 1
    BY <1>13 DEF Intervene, TypeOK, RowTypeOK, Views, BudgetInv, AttemptBudget
  <2>2. CASE \E s \in OperatorStatuses : UpdatePublicationStatus(o, s)
    <3>1. PICK s \in OperatorStatuses : UpdatePublicationStatus(o, s)
      BY <2>2
    <3>2. s \in Statuses \ {"sending"} /\ s # "dead_letter"
      BY <3>1, OperatorAssumption
      DEF UpdatePublicationStatus, Settable, Statuses, AdminSettable
    <3>3. attempt' = [attempt EXCEPT ![view[o].msg] = attempt[view[o].msg]]
      BY <2>1, <3>1 DEF UpdatePublicationStatus, TypeOK, RowTypeOK
    <3>4. /\ status' = [status EXCEPT ![view[o].msg] = s]
          /\ UNCHANGED <<token, pc, task, held>>
      BY <3>1 DEF UpdatePublicationStatus, execVars
    <3>5. /\ attempt[view[o].msg] <= MaxAttempts + interventions'
          /\ attempt[view[o].msg] >= attempt[view[o].msg]
          /\ interventions' >= interventions
      BY <1>n, <2>1
    <3> QED BY <1>n, <2>1, <3>2, <3>3, <3>4, <3>5, BudgetWrite
  <2>3. CASE SchedulePublicationRetry(o)
    <3>1. /\ status' = [status EXCEPT ![view[o].msg] = "queued"]
          /\ attempt' = [attempt EXCEPT ![view[o].msg] = attempt[view[o].msg] + 1]
          /\ UNCHANGED <<token, pc, task, held>>
      BY <2>1, <2>3 DEF SchedulePublicationRetry, execVars, TypeOK, RowTypeOK
    <3>2. "queued" \in Statuses \ {"sending"}
      BY DEF Statuses, AdminSettable
    <3>3. /\ attempt[view[o].msg] + 1 <= MaxAttempts + interventions'
          /\ attempt[view[o].msg] + 1 \in Nat
          /\ attempt[view[o].msg] + 1 >= attempt[view[o].msg]
          /\ interventions' >= interventions
      BY <1>n, <2>1
    <3> QED BY <2>1, <3>1, <3>2, <3>3, BudgetWrite
  <2>4. CASE \E stuck \in BOOLEAN : ForceReleaseOperationsLease(o, stuck)
    <3>1. /\ token' = [token EXCEPT ![view[o].msg] = token[view[o].msg] + 1]
          /\ UNCHANGED <<status, attempt, pc, task, held>>
      BY <2>4 DEF ForceReleaseOperationsLease, execVars, TypeOK, RowTypeOK
    <3>2. HoldIsFenced'
      BY <2>1, <3>1
      DEF BudgetInv, HoldIsFenced, TypeOK, RowTypeOK, ExecTypeOK, Holds
    <3>3. DeadLetterExhausted' /\ AttemptBudget'
      BY <1>n, <2>1, <3>1
      DEF BudgetInv, DeadLetterExhausted, AttemptBudget, TypeOK, RowTypeOK
    <3> QED BY <3>2, <3>3 DEF BudgetInv
  <2> QED BY <1>13, <2>2, <2>3, <2>4
<1>14. CASE Tick \/ Stall
  BY <1>14, <1>n, BudgetFrame DEF Tick, Stall, Elapse, execVars
<1>15. CASE UNCHANGED vars
  BY <1>15, <1>n, BudgetFrame DEF vars, rowVars, execVars
<1> QED
  BY <1>1, <1>2, <1>3, <1>4, <1>5, <1>6, <1>7, <1>8, <1>9, <1>10, <1>11,
     <1>12, <1>13, <1>14, <1>15
  DEF Next, Produce, Work, Operate, UpdatePublicationStatus,
      SchedulePublicationRetry, ForceReleaseOperationsLease

LEMMA BudgetInit == Init => BudgetInv
  BY NumberAssumption
  DEF Init, BudgetInv, HoldIsFenced, DeadLetterExhausted, AttemptBudget

\* A worker dead-letters a message only after its attempts are used up.
THEOREM DeadLetterCorrect == Spec => []DeadLetterExhausted
<1>1. BudgetInv => DeadLetterExhausted
  BY DEF BudgetInv
<1> QED BY <1>1, TypeInit, TypeStep, BudgetInit, BudgetStep, PTL DEF Spec

\* Beyond maxHandoffAttempts only operators raise the attempt counter.
THEOREM AttemptBudgetCorrect == Spec => []AttemptBudget
<1>1. BudgetInv => AttemptBudget
  BY DEF BudgetInv
<1> QED BY <1>1, TypeInit, TypeStep, BudgetInit, BudgetStep, PTL DEF Spec

-----------------------------------------------------------------------------
(* Settled messages: every write of a worker is fenced.                    *)

SettledStays ==
  \A m \in Messages : status[m] \in Settled /\ status'[m] # status[m]
    => interventions' = interventions + 1

\* Every action leaves settled messages alone or is an operator's write.
LEMMA SettledStep == TypeOK /\ [Next]_vars => SettledStays
<1> SUFFICES ASSUME TypeOK, [Next]_vars
             PROVE  SettledStays
  OBVIOUS
<1> USE DEF TypeOK, RowTypeOK, SettledStays, Settled
<1>1. ASSUME NEW r \in Requests, Produce(r) \/ AcceptFails(r)
      PROVE  SettledStays
  BY <1>1, ShapeAssumption
  DEF Produce, InsertOutbox, RegisterScope, Acknowledge, AcceptFails, rowVars
<1>2. ASSUME NEW e \in Executors, NEW m \in Messages,
             DispatchWakeup(e, m) \/ DispatchRecovery(e, m)
      PROVE  SettledStays
  BY <1>2 DEF DispatchWakeup, DispatchRecovery, rowVars
<1>3. ASSUME NEW e \in Executors,
             ReadBack(e) \/ HeartbeatOutbox(e)
             \/ AbandonClaim(e) \/ \E kept, ok \in BOOLEAN : Deliver(e, kept, ok)
      PROVE  SettledStays
  BY <1>3 DEF ReadBack, HeartbeatOutbox, AbandonClaim, Deliver, rowVars
<1>4. ASSUME NEW e \in Executors, ClaimOutbox(e)
      PROVE  SettledStays
  BY <1>4 DEF ClaimOutbox, publicationDuePredicate, rowVars
<1>5. ASSUME NEW e \in Executors, Finish(e)
      PROVE  SettledStays
  BY <1>5 DEF Finish, CompleteOutbox, ReleaseOutbox, DeadLetterOutbox,
     ScheduleOutboxRetry, EndClaim, LeaseHeld, rowVars
<1>6. ASSUME NEW p \in Processes, Shutdown(p) \/ Restart(p) \/ Crash(p)
      PROVE  SettledStays
  BY <1>6 DEF Shutdown, Restart, Crash, rowVars
<1>7. ASSUME NEW o \in Operators, Operate(o)
      PROVE  SettledStays
  BY <1>7 DEF Operate, Inspect, UpdatePublicationStatus,
     SchedulePublicationRetry, ForceReleaseOperationsLease, Intervene, rowVars
<1>8. CASE Tick \/ Stall \/ UNCHANGED vars
  BY <1>8 DEF Tick, Stall, Elapse, vars, rowVars
<1> QED BY <1>1, <1>2, <1>3, <1>4, <1>5, <1>6, <1>7, <1>8 DEF Next, Work

\* No worker, however stale, changes a settled message.
THEOREM SettledCorrect == Spec => WorkersRespectSettled
<1>1. TypeOK /\ [Next]_vars => [SettledStays]_vars
  BY SettledStep
<1> QED BY <1>1, TypeInit, TypeStep, PTL
        DEF Spec, WorkersRespectSettled, SettledStays

-----------------------------------------------------------------------------
(* What a receipt promises.  The invariant follows a message from the      *)
(* INSERT to the Integration owner: a row never disappears nor changes its *)
(* payload, and every actor that names a message names one with a row.     *)

ExecutorsNameRows ==
  \A e \in Executors : pc[e] # "idle" => status[task[e]] # "absent"

WakeupsNameRows ==
  \A p \in Processes : \A m \in wake[p] : status[m] # "absent"

\* A request past its INSERT: the row holds the payload of the request.
RequestsPersisted ==
  \A r \in Requests : request[r] \notin {"new", "rejected"} =>
    status[MsgOf[r]] # "absent" /\ fp[MsgOf[r]] = FpOf[r]

RequestsRegistered ==
  \A r \in Requests :
    request[r] \in {"registered", "acked"} => WsOf[MsgOf[r]] \in scopes

\* A replayed receipt is for a settled message, until an operator steps in.
ReplaysSettled ==
  \A r \in Requests : request[r] \in {"settled", "replayed"} /\ interventions = 0
    => status[MsgOf[r]] \in Settled

DeliveriesNameRows ==
  \A d \in delivered : status[d[1]] # "absent" /\ d[2] = fp[d[1]]

CompletionsDelivered ==
  \A e \in Executors :
    pc[e] = "complete" => <<task[e], fp[task[e]]>> \in delivered

PayloadInv ==
  /\ ExecutorsNameRows /\ WakeupsNameRows
  /\ RequestsPersisted /\ RequestsRegistered
  /\ DeliveriesNameRows /\ CompletionsDelivered /\ AcceptedWasDelivered

RowsStay ==
  \A m \in Messages :
    status[m] # "absent" => status'[m] # "absent" /\ fp'[m] = fp[m]

\* No step removes a row or changes the payload it holds.
LEMMA RowsStayStep == TypeOK /\ [Next]_vars => RowsStay
<1> SUFFICES ASSUME TypeOK, [Next]_vars
             PROVE  RowsStay
  OBVIOUS
<1> USE DEF TypeOK, RowTypeOK, RowsStay
<1>1. ASSUME NEW r \in Requests, Produce(r) \/ AcceptFails(r)
      PROVE  RowsStay
  BY <1>1, ShapeAssumption
  DEF Produce, InsertOutbox, RegisterScope, Acknowledge, AcceptFails, rowVars
<1>2. ASSUME NEW e \in Executors, NEW m \in Messages,
             DispatchWakeup(e, m) \/ DispatchRecovery(e, m)
      PROVE  RowsStay
  BY <1>2 DEF DispatchWakeup, DispatchRecovery, rowVars
<1>3. ASSUME NEW e \in Executors,
             ClaimOutbox(e) \/ ReadBack(e) \/ HeartbeatOutbox(e)
             \/ AbandonClaim(e) \/ \E kept, ok \in BOOLEAN : Deliver(e, kept, ok)
      PROVE  RowsStay
  BY <1>3 DEF ClaimOutbox, ReadBack, HeartbeatOutbox, AbandonClaim, Deliver, rowVars
<1>4. ASSUME NEW e \in Executors, Finish(e)
      PROVE  RowsStay
  BY <1>4 DEF Finish, CompleteOutbox, ReleaseOutbox, DeadLetterOutbox,
              ScheduleOutboxRetry, EndClaim, rowVars
<1>5. ASSUME NEW p \in Processes, Shutdown(p) \/ Restart(p) \/ Crash(p)
      PROVE  RowsStay
  BY <1>5 DEF Shutdown, Restart, Crash, rowVars
<1>6. ASSUME NEW o \in Operators, Operate(o)
      PROVE  RowsStay
  <2>1. \A s \in OperatorStatuses : Settable(s) => s # "absent"
    BY DEF Settable, AdminSettable
  <2> QED BY <1>6, <2>1 DEF Operate, Inspect, UpdatePublicationStatus,
                            SchedulePublicationRetry,
                            ForceReleaseOperationsLease, rowVars
<1>7. CASE Tick \/ Stall \/ UNCHANGED vars
  BY <1>7 DEF Tick, Stall, Elapse, vars, rowVars
<1> QED BY <1>1, <1>2, <1>3, <1>4, <1>5, <1>6, <1>7 DEF Next, Work

\* A step that hands out no new name, promise or delivery.
PayloadQuiet ==
  /\ scopes \subseteq scopes' /\ UNCHANGED <<delivered, request>>
  /\ \A p \in Processes : wake'[p] \subseteq wake[p]
  /\ \A e \in Executors : pc'[e] # "idle" =>
       /\ pc[e] # "idle" /\ task'[e] = task[e]
       /\ pc'[e] = "complete" => pc[e] = "complete"
  /\ \A m \in Messages : status'[m] = "accepted" =>
       \/ status[m] = "accepted"
       \/ status[m] # "absent" /\ <<m, fp[m]>> \in delivered

\* Such a step keeps them all.
LEMMA PayloadFrame ==
  ASSUME TypeOK, PayloadInv, RowsStay, PayloadQuiet
  PROVE  PayloadInv'
<1> USE DEF PayloadInv, RowsStay, PayloadQuiet
<1>1. ExecutorsNameRows'
  BY DEF ExecutorsNameRows, TypeOK, ExecTypeOK
<1>2. WakeupsNameRows'
  BY DEF WakeupsNameRows, TypeOK
<1>3. RequestsPersisted' /\ RequestsRegistered'
  BY ShapeAssumption DEF RequestsPersisted, RequestsRegistered
<1>4. DeliveriesNameRows'
  BY DEF DeliveriesNameRows, TypeOK
<1>5. CompletionsDelivered'
  BY DEF CompletionsDelivered, ExecutorsNameRows, TypeOK, ExecTypeOK
<1>6. AcceptedWasDelivered'
  BY DEF AcceptedWasDelivered
<1> QED BY <1>1, <1>2, <1>3, <1>4, <1>5, <1>6

\* Every action keeps the promises.
LEMMA PayloadStep == TypeOK /\ TypeOK' /\ PayloadInv /\ [Next]_vars => PayloadInv'
<1> SUFFICES ASSUME TypeOK, TypeOK', PayloadInv, [Next]_vars
             PROVE  PayloadInv'
  OBVIOUS
<1>s. RowsStay
  BY RowsStayStep
<1>1. ASSUME NEW r \in Requests, Produce(r) \/ AcceptFails(r)
      PROVE  PayloadInv'
  <2> USE DEF PayloadInv, RowsStay
  <2>1. /\ UNCHANGED <<pc, task, delivered>> /\ MsgOf[r] \in Messages
        /\ scopes \subseteq scopes'
    BY <1>1, ShapeAssumption
    DEF Produce, InsertOutbox, RegisterScope, Acknowledge, AcceptFails, execVars
  <2>2. ExecutorsNameRows' /\ DeliveriesNameRows' /\ CompletionsDelivered'
    BY <1>s, <2>1 DEF ExecutorsNameRows, DeliveriesNameRows,
       CompletionsDelivered, TypeOK, ExecTypeOK
  <2>3. WakeupsNameRows'
    <3>1. ASSUME NEW p \in Processes, Acknowledge(r, p)
          PROVE  WakeupsNameRows'
      BY <1>s, <2>1, <3>1 DEF Acknowledge, Woken, WakeupsNameRows, TypeOK,
         RequestsPersisted
    <3>2. CASE UNCHANGED wake
      BY <1>s, <3>2 DEF WakeupsNameRows, TypeOK
    <3> QED BY <1>1, <3>1, <3>2
            DEF Produce, InsertOutbox, RegisterScope, AcceptFails
  <2>4. RequestsPersisted'
    <3>1. CASE InsertOutbox(r)
      <4>1. request'[r] \notin {"new", "rejected"} =>
              status'[MsgOf[r]] # "absent" /\ fp'[MsgOf[r]] = FpOf[r]
        BY <2>1, <3>1 DEF InsertOutbox, SamePayload, TypeOK, RowTypeOK
      <4>2. \A q \in Requests : q # r => request'[q] = request[q]
        BY <3>1 DEF InsertOutbox, TypeOK
      <4> QED BY <1>s, <4>1, <4>2, ShapeAssumption DEF RequestsPersisted
    <3>2. CASE RegisterScope(r) \/ AcceptFails(r) \/ \E p \in Processes : Acknowledge(r, p)
      BY <1>s, <3>2, ShapeAssumption
      DEF RegisterScope, AcceptFails, Acknowledge, RequestsPersisted, TypeOK
    <3> QED BY <1>1, <3>1, <3>2 DEF Produce
  <2>5. RequestsRegistered'
    BY <1>1, <2>1 DEF Produce, InsertOutbox, RegisterScope, Acknowledge,
       AcceptFails, RequestsRegistered, TypeOK
  <2>6. AcceptedWasDelivered'
    <3>1. \A m \in Messages : status'[m] = "accepted" => status[m] = "accepted"
      BY <1>1, <2>1 DEF Produce, InsertOutbox, RegisterScope, Acknowledge,
         AcceptFails, TypeOK, RowTypeOK, rowVars
    <3> QED BY <1>s, <2>1, <3>1 DEF AcceptedWasDelivered
  <2> QED BY <2>2, <2>3, <2>4, <2>5, <2>6
<1>2. ASSUME NEW e \in Executors, NEW m \in Messages,
             DispatchWakeup(e, m) \/ DispatchRecovery(e, m)
      PROVE  PayloadInv'
  <2> USE DEF PayloadInv
  <2>1. /\ UNCHANGED <<status, fp, scopes, request, delivered>>
        /\ status[m] # "absent"
        /\ \A p \in Processes : wake'[p] \subseteq wake[p]
        /\ task' = [task EXCEPT ![e] = m] /\ pc' = [pc EXCEPT ![e] = "claim"]
    BY <1>2, ShapeAssumption DEF DispatchWakeup, DispatchRecovery, rowVars,
       producerVars, publicationDuePredicate, WakeupsNameRows, TypeOK
  <2>2. ExecutorsNameRows' /\ CompletionsDelivered'
    BY <2>1 DEF ExecutorsNameRows, CompletionsDelivered, TypeOK, ExecTypeOK
  <2>3. WakeupsNameRows'
    BY <2>1 DEF WakeupsNameRows
  <2>4. RequestsPersisted' /\ RequestsRegistered' /\ DeliveriesNameRows'
        /\ AcceptedWasDelivered'
    BY <2>1 DEF RequestsPersisted, RequestsRegistered, DeliveriesNameRows,
       AcceptedWasDelivered
  <2> QED BY <2>2, <2>3, <2>4
<1>3. ASSUME NEW e \in Executors,
             ClaimOutbox(e) \/ ReadBack(e) \/ HeartbeatOutbox(e) \/ AbandonClaim(e)
      PROVE  PayloadInv'
  <2>1. /\ UNCHANGED <<scopes, delivered, request, wake>>
        /\ \A x \in Executors : pc'[x] # "idle" =>
             pc[x] # "idle" /\ task'[x] = task[x] /\ (pc'[x] = "complete" => pc[x] = "complete")
    BY <1>3 DEF ClaimOutbox, ReadBack, HeartbeatOutbox, AbandonClaim, Return,
       producerVars, TypeOK, ExecTypeOK
  <2>2. \A m \in Messages : status'[m] = "accepted" => status[m] = "accepted"
    BY <1>3 DEF ClaimOutbox, ReadBack, HeartbeatOutbox, AbandonClaim, rowVars,
       TypeOK, RowTypeOK
  <2>q. PayloadQuiet
    BY <2>1, <2>2 DEF PayloadQuiet
  <2> QED BY <1>s, <2>q, PayloadFrame
<1>4. ASSUME NEW e \in Executors, NEW kept \in BOOLEAN, NEW ok \in BOOLEAN,
             Deliver(e, kept, ok)
      PROVE  PayloadInv'
  <2> USE DEF PayloadInv
  <2>1. /\ UNCHANGED <<status, fp, scopes, request, wake, task>>
        /\ delivered \subseteq delivered'
        /\ delivered' \subseteq delivered \cup {<<task[e], fp[task[e]]>>}
        /\ pc[e] = "work" /\ status[task[e]] # "absent"
        /\ \A x \in Executors : x # e => pc'[x] = pc[x]
        /\ pc'[e] = "complete" => <<task[e], fp[task[e]]>> \in delivered'
    BY <1>4 DEF Deliver, AfterDelivery, rowVars, producerVars, TypeOK,
       ExecTypeOK, ExecutorsNameRows
  <2>2. ExecutorsNameRows' /\ CompletionsDelivered'
    BY <2>1 DEF ExecutorsNameRows, CompletionsDelivered
  <2>3. DeliveriesNameRows' /\ AcceptedWasDelivered'
    BY <2>1 DEF DeliveriesNameRows, AcceptedWasDelivered
  <2>4. WakeupsNameRows' /\ RequestsPersisted' /\ RequestsRegistered'
    BY <2>1 DEF WakeupsNameRows, RequestsPersisted, RequestsRegistered
  <2> QED BY <2>2, <2>3, <2>4
<1>5. ASSUME NEW e \in Executors, Finish(e)
      PROVE  PayloadInv'
  <2>1. /\ UNCHANGED <<scopes, delivered, request, wake>> /\ Return(e)
        /\ pc[e] # "idle" /\ task[e] \in Messages
    BY <1>5 DEF Finish, CompleteOutbox, ReleaseOutbox, DeadLetterOutbox,
       ScheduleOutboxRetry, producerVars, TypeOK, ExecTypeOK
  <2>2. \A x \in Executors : pc'[x] # "idle" =>
          pc[x] # "idle" /\ task'[x] = task[x] /\ (pc'[x] = "complete" => pc[x] = "complete")
    BY <2>1 DEF Return, TypeOK, ExecTypeOK
  <2>3. CASE CompleteOutbox(e)
    <3>1. <<task[e], fp[task[e]]>> \in delivered /\ status[task[e]] # "absent"
      BY <2>1, <2>3 DEF CompleteOutbox, PayloadInv, CompletionsDelivered,
         ExecutorsNameRows
    <3>2. \A m \in Messages : m # task[e] => status'[m] = status[m]
      BY <2>1, <2>3 DEF CompleteOutbox, EndClaim, rowVars, TypeOK, RowTypeOK
    <3>q. PayloadQuiet
      BY <2>1, <2>2, <3>1, <3>2 DEF PayloadQuiet
    <3> QED BY <1>s, <3>q, PayloadFrame
  <2>4. CASE ReleaseOutbox(e) \/ DeadLetterOutbox(e) \/ ScheduleOutboxRetry(e)
    <3>1. \A m \in Messages : status'[m] = "accepted" => status[m] = "accepted"
      BY <2>1, <2>4 DEF ReleaseOutbox, DeadLetterOutbox, ScheduleOutboxRetry,
         EndClaim, rowVars, TypeOK, RowTypeOK
    <3>q. PayloadQuiet
      BY <2>1, <2>2, <3>1 DEF PayloadQuiet
    <3> QED BY <1>s, <3>q, PayloadFrame
  <2> QED BY <1>5, <2>3, <2>4 DEF Finish
<1>6. ASSUME NEW p \in Processes, Shutdown(p) \/ Restart(p) \/ Crash(p)
      PROVE  PayloadInv'
  <2>1. /\ UNCHANGED <<status, scopes, delivered, request>>
        /\ \A x \in Processes : wake'[x] \subseteq wake[x]
    BY <1>6 DEF Shutdown, Restart, Crash, Restarted, rowVars, producerVars, TypeOK
  <2>2. \A x \in Executors : pc'[x] # "idle" =>
          pc[x] # "idle" /\ task'[x] = task[x] /\ (pc'[x] = "complete" => pc[x] = "complete")
    BY <1>6 DEF Shutdown, Restart, Crash, Restarted, execVars, TypeOK, ExecTypeOK
  <2>q. PayloadQuiet
    BY <2>1, <2>2 DEF PayloadQuiet
  <2> QED BY <1>s, <2>q, PayloadFrame
<1>7. ASSUME NEW o \in Operators, Operate(o)
      PROVE  PayloadInv'
  <2>1. UNCHANGED <<scopes, delivered, request, wake, pc, task>>
    BY <1>7 DEF Operate, Inspect, UpdatePublicationStatus,
       SchedulePublicationRetry, ForceReleaseOperationsLease, producerVars,
       execVars
  <2>2. \A m \in Messages : status'[m] = "accepted" => status[m] = "accepted"
    BY <1>7, OperatorAssumption
    DEF Operate, Inspect, UpdatePublicationStatus, SchedulePublicationRetry,
        ForceReleaseOperationsLease, rowVars, TypeOK, RowTypeOK
  <2>q. PayloadQuiet
    BY <2>1, <2>2 DEF PayloadQuiet
  <2> QED BY <1>s, <2>q, PayloadFrame
<1>8. CASE Tick \/ Stall \/ UNCHANGED vars
  <2>1. UNCHANGED <<status, scopes, delivered, request, wake, pc, task>>
    BY <1>8 DEF Tick, Stall, Elapse, producerVars, execVars, vars, rowVars
  <2>q. PayloadQuiet
    BY <2>1 DEF PayloadQuiet
  <2> QED BY <1>s, <2>q, PayloadFrame
<1> QED BY <1>1, <1>2, <1>3, <1>4, <1>5, <1>6, <1>7, <1>8 DEF Next, Work

LEMMA PayloadInit == Init => PayloadInv
  BY ShapeAssumption
  DEF Init, PayloadInv, ExecutorsNameRows, WakeupsNameRows, RequestsPersisted,
      RequestsRegistered, DeliveriesNameRows, CompletionsDelivered,
      AcceptedWasDelivered

\* Without operators a replayed receipt stays true.
LEMMA ReplayStep == TypeOK /\ TypeOK' /\ ReplaysSettled /\ [Next]_vars => ReplaysSettled'
<1> SUFFICES ASSUME TypeOK, TypeOK', ReplaysSettled, [Next]_vars,
                    interventions' = 0
             PROVE  ReplaysSettled'
  BY DEF ReplaysSettled
<1>s. SettledStays
  BY SettledStep
<1>1. interventions' = interventions
  <2>1. interventions' = interventions \/ interventions' = interventions + 1
    BY DEF Next, Produce, InsertOutbox, RegisterScope, Acknowledge, AcceptFails,
       Work, DispatchWakeup, DispatchRecovery, ClaimOutbox, ReadBack,
       HeartbeatOutbox, Deliver, Finish, CompleteOutbox, ReleaseOutbox,
       DeadLetterOutbox, ScheduleOutboxRetry, AbandonClaim, Shutdown, Restart,
       Crash, Operate, Inspect, UpdatePublicationStatus,
       SchedulePublicationRetry, ForceReleaseOperationsLease, Intervene, Tick,
       Stall, Elapse, vars
  <2> QED BY <2>1 DEF TypeOK
<1>2. \A m \in Messages : status[m] \in Settled => status'[m] \in Settled
  BY <1>s, <1>1 DEF SettledStays, TypeOK
<1>3. CASE UNCHANGED request
  BY <1>1, <1>2, <1>3, ShapeAssumption DEF ReplaysSettled
<1>4. ASSUME NEW r \in Requests, Produce(r) \/ AcceptFails(r)
      PROVE  ReplaysSettled'
  <2>1. \A q \in Requests : q # r => request'[q] = request[q]
    BY <1>4 DEF Produce, InsertOutbox, RegisterScope, Acknowledge, AcceptFails, TypeOK
  <2>2. request'[r] \in {"settled", "replayed"} =>
          \/ request[r] \in {"settled", "replayed"}
          \/ status[MsgOf[r]] \notin {"absent", "queued", "sending"}
    BY <1>4 DEF Produce, InsertOutbox, NeedsScope, RegisterScope, Acknowledge,
       AcceptFails, TypeOK
  <2>3. status[MsgOf[r]] \notin {"absent", "queued", "sending"}
          => status[MsgOf[r]] \in Settled
    BY ShapeAssumption DEF TypeOK, RowTypeOK, Statuses, AdminSettable, Settled
  <2> QED BY <1>1, <1>2, <2>1, <2>2, <2>3, ShapeAssumption DEF ReplaysSettled
<1>5. (\E r \in Requests : Produce(r) \/ AcceptFails(r)) \/ UNCHANGED request
  <2>1. ASSUME NEW e \in Executors, Work(e)
        PROVE  UNCHANGED request
    BY <2>1 DEF Work, DispatchWakeup, DispatchRecovery, ClaimOutbox, ReadBack,
       HeartbeatOutbox, Deliver, Finish, CompleteOutbox, ReleaseOutbox,
       DeadLetterOutbox, ScheduleOutboxRetry, AbandonClaim, producerVars
  <2>2. ASSUME NEW o \in Operators, Operate(o)
        PROVE  UNCHANGED request
    BY <2>2 DEF Operate, Inspect, UpdatePublicationStatus,
       SchedulePublicationRetry, ForceReleaseOperationsLease, producerVars
  <2>3. ASSUME NEW p \in Processes, Shutdown(p) \/ Restart(p) \/ Crash(p)
        PROVE  UNCHANGED request
    BY <2>3 DEF Shutdown, Restart, Crash, producerVars
  <2>4. CASE Tick \/ Stall \/ UNCHANGED vars
    BY <2>4 DEF Tick, Stall, Elapse, vars, producerVars
  <2> QED BY <2>1, <2>2, <2>3, <2>4 DEF Next
<1> QED BY <1>3, <1>4, <1>5

\* A message with a receipt stays where the recovery loop finds it.
THEOREM Discoverable == Spec => []AckedDiscoverable
<1>1. PayloadInv /\ ReplaysSettled => AckedDiscoverable
  BY DEF PayloadInv, RequestsRegistered, ReplaysSettled, Settled, AckedDiscoverable
<1>2. Init => ReplaysSettled
  BY DEF Init, ReplaysSettled
<1> QED BY <1>1, <1>2, TypeInit, TypeStep, PayloadInit, PayloadStep, ReplayStep,
           PTL DEF Spec

\* A receipt names the payload the row holds and the owner receives.
THEOREM PayloadCorrect == Spec => []AckedPayload
<1>1. TypeOK /\ PayloadInv => AckedPayload
  BY DEF PayloadInv, RequestsPersisted, DeliveriesNameRows, AckedPayload, Receipt
<1> QED BY <1>1, TypeInit, TypeStep, PayloadInit, PayloadStep, PTL DEF Spec

\* "accepted" is only recorded for a message the Integration owner holds.
THEOREM AcceptedCorrect == Spec => []AcceptedWasDelivered
<1>1. PayloadInv => AcceptedWasDelivered
  BY DEF PayloadInv
<1> QED BY <1>1, TypeInit, TypeStep, PayloadInit, PayloadStep, PTL DEF Spec

=============================================================================
