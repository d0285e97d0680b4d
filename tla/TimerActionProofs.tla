------------------------- MODULE TimerActionProofs -------------------------
(***************************************************************************)
(* Proofs about TimerAction: record timers and the receipts of their       *)
(* actions together, for any number of timers, workers, faults and         *)
(* interventions.  What RecordTimerProofs says about the timers carries    *)
(* over, because every step of the composition is a TimerStep.             *)
(***************************************************************************)
EXTENDS TimerAction, RecordTimerProofs

USE DEF rowVars, passVars, workVars

-----------------------------------------------------------------------------
(* The steps of the composition.                                           *)

LEMMA ActionSteps ==
  ASSUME TypeOK, TimerActionNext \/ UNCHANGED allVars
  PROVE  TimerStep
<1>1. ASSUME NEW w \in Workers, NEW t \in Timers, NEW ok \in BOOLEAN,
             Returns(w, t, ok), faults' \in Nat
      PROVE  TimerStep
  BY <1>1 DEF TimerStep, WorkerStep
<1>2. ASSUME NEW b \in BOOLEAN, Fault(b) PROVE faults' \in Nat
  BY <1>2 DEF Fault, TypeOK
<1>3. ASSUME NEW w \in Workers, NEW t \in Timers, BeginAction(w, t) \/ CallConnector(w, t)
      PROVE  TimerStep
  BY <1>3 DEF BeginAction, CallConnector, TimerStep
<1>4. ASSUME NEW w \in Workers, NEW t \in Timers, ReplayAction(w, t) PROVE TimerStep
  <2>1. ReplaySucceeds(t) \in BOOLEAN /\ faults' \in Nat
    BY <1>4 DEF ReplaySucceeds, ReplayAction, ExecuteRecordTimer, TypeOK
  <2> QED BY <1>1, <1>4, <2>1 DEF ReplayAction, ExecuteRecordTimer
<1>5. ASSUME NEW w \in Workers, NEW t \in Timers, NEW known \in BOOLEAN,
             CommitAction(w, t, known)
      PROVE  TimerStep
  BY <1>1, <1>2, <1>5 DEF CommitAction, EndAction
<1>6. ASSUME NEW w \in Workers, NEW t \in Timers,
             LoseAction(w, t) \/ \E s \in {"failed_retryable", "failed_terminal"} : FailAction(w, t, s)
      PROVE  TimerStep
  <2>1. faults' \in Nat
    BY <1>2, <1>6 DEF LoseAction, FailAction, TypeOK
  <2> QED BY <1>1, <1>6, <2>1 DEF LoseAction, FailAction, EndAction
<1>10. ASSUME NEW w \in Workers, NEW t \in Timers, RefuseAction(w, t) PROVE TimerStep
  BY <1>1, <1>10 DEF RefuseAction, ExecuteRecordTimer, TypeOK
<1>7. CASE Environment
  BY <1>7, EnvironmentSteps
<1>8. ASSUME NEW w \in Workers, Handle(w) \/ CrashWorker(w) PROVE TimerStep
  BY <1>8 DEF CrashWorker, TimerStep, WorkerStep
<1>9. CASE UNCHANGED allVars
  BY <1>9 DEF allVars, TimerStep
<1> QED BY <1>3, <1>4, <1>5, <1>6, <1>7, <1>8, <1>9, <1>10
        DEF TimerActionNext, WorkOn, RunTarget

-----------------------------------------------------------------------------
(* What the steps do to leases.                                            *)

\* A lease ends with the result that its worker records; nobody takes part in
\* a lease of another worker except by claiming the timer for itself.
LEMMA LeaseSteps ==
  ASSUME TypeOK, NEW w \in Workers, WorkerStep(w), NEW t \in Timers
  PROVE  /\ status[t] = "leased" /\ status'[t] \notin {"leased", "fired"} =>
              stage[w] = "fail" /\ IsFirst(w, t, batch[w]) /\ LeaseConditions(w, t)
         /\ status'[t] = "fired" /\ status[t] # "fired" =>
              stage[w] = "finish" /\ IsFirst(w, t, batch[w])
         /\ \A v \in Workers \ {w} :
              status'[t] = "leased" /\ owner'[t] = v =>
                status[t] = "leased" /\ owner[t] = v /\ token'[t] = token[t]
<1> USE DEF TypeOK
<1>1. ASSUME NEW set, Claim(w, set)
      PROVE  /\ status'[t] = status[t] \/ status'[t] = "leased"
             /\ \A v \in Workers \ {w} :
                  status'[t] = "leased" /\ owner'[t] = v =>
                    status[t] = "leased" /\ owner[t] = v /\ token'[t] = token[t]
  BY <1>1 DEF Claim
<1>2. ASSUME NEW result \in Commits, ClaimBatch(w, result)
      PROVE  UNCHANGED rowVars \/ Claim(w, cand[w])
  BY <1>2 DEF ClaimBatch
<1>3. ASSUME NEW result \in Commits, NEW u \in Timers, ClaimSingly(w, u, result)
      PROVE  UNCHANGED rowVars \/ Claim(w, {u})
  BY <1>3 DEF ClaimSingly
<1>4. ASSUME NEW result \in Commits, NEW u \in Timers, FinishRecordTimer(w, u, result)
      PROVE  /\ token' = token
             /\ \/ status'[t] = status[t] /\ owner'[t] = owner[t]
                \/ /\ status'[t] = "fired" /\ stage[w] = "finish" /\ IsFirst(w, t, batch[w])
  BY <1>4 DEF FinishRecordTimer, Drop, Released
<1>5. ASSUME NEW result \in Commits, NEW u \in Timers, FailRecordTimer(w, u, result)
      PROVE  /\ token' = token
             /\ \/ status'[t] = status[t] /\ owner'[t] = owner[t]
                \/ /\ status'[t] \in {"failed", "scheduled"} /\ LeaseConditions(w, t)
                   /\ stage[w] = "fail" /\ IsFirst(w, t, batch[w])
  BY <1>5 DEF FailRecordTimer, Drop, Released, Exhausted
<1>6. ASSUME \/ BeginPass(w) \/ EndPass(w) \/ Crash(w)
             \/ \E x \in Workspaces, failed \in BOOLEAN : ListCandidates(w, x, failed)
      PROVE  UNCHANGED rowVars
  BY <1>6 DEF BeginPass, EndPass, Crash, ListCandidates
<1>7. ASSUME NEW u \in Timers, NEW ok \in BOOLEAN, Returns(w, u, ok)
      PROVE  UNCHANGED rowVars
  BY <1>7 DEF Returns
<1> HIDE DEF TypeOK
<1> QED BY <1>1, <1>2, <1>3, <1>4, <1>5, <1>6, <1>7 DEF WorkerStep, Handle

\* Clients and the clock leave leases alone.
LEMMA OutsideLeases ==
  ASSUME TypeOK,
         \/ \E u \in Timers, due \in 0..MaxDue : Schedule(u, due)
         \/ \E c \in Clients : Act(c)
         \/ Elapse
         \/ UNCHANGED vars
  PROVE  /\ \A w \in Workers : Keeps(w)
         /\ UNCHANGED <<owner, token>>
         /\ \A t \in Timers : /\ status'[t] = "leased" <=> status[t] = "leased"
                              /\ status'[t] = "fired" <=> status[t] = "fired"
<1>1. CASE \E c \in Clients : Act(c)
  <2>1. UNCHANGED owner
    BY <1>1 DEF Act, ListScheduled, ReadTimer, CancelRecordTimers, SupersedeTimer,
       RetryFailure, ResolveFailure
  <2> QED BY <1>1, <2>1, ClientKeeps, ClientRows DEF SameRow, ClientChange
<1>2. CASE \E u \in Timers, due \in 0..MaxDue : Schedule(u, due)
  BY <1>2 DEF Schedule, Create, TypeOK, Keeps
<1>3. CASE Elapse \/ UNCHANGED vars
  BY <1>3 DEF Elapse, vars, Keeps
<1> QED BY <1>1, <1>2, <1>3

-----------------------------------------------------------------------------
(* The invariant.                                                          *)

ActionType ==
  /\ receipt \in [Timers -> {"none", "processing", "succeeded", "failed_retryable",
                             "failed_terminal"}]
  /\ effects \in [Timers -> {0, 1}]
  /\ inside \in [Workers -> {"no", "running", "called"}]

\* The effect is committed exactly when the receipt says succeeded.
EffectRecorded == \A t \in Timers : effects[t] = 1 <=> receipt[t] = "succeeded"

\* A worker inside an action runs the first timer of its batch, its receipt is
\* in process, and nobody else is inside the same action.
InsideAlone ==
  \A w \in Workers : inside[w] # "no" =>
    /\ stage[w] = "run"
    /\ \A t \in Timers : IsFirst(w, t, batch[w]) =>
         /\ receipt[t] = "processing"
         /\ \A v \in Workers \ {w} : inside[v] # "no" => ~IsFirst(v, t, batch[v])

\* Who is about to record a success, or has recorded one, had a receipt that
\* says so.
SuccessKnown ==
  /\ \A w \in Workers : stage[w] = "finish" =>
       \A t \in Timers : IsFirst(w, t, batch[w]) => receipt[t] = "succeeded"
  /\ \A t \in Timers : status[t] = "fired" => receipt[t] = "succeeded"

\* After a timely commit the timer stays with its claims until it fires: no
\* worker is about to record a failure under the current claim.
CommitKept ==
  \A t \in Timers : effects[t] = 1 /\ t \notin missed =>
    /\ status[t] \in {"leased", "fired"}
    /\ \A w \in Workers :
         stage[w] = "fail" /\ IsFirst(w, t, batch[w]) => ~LeaseConditions(w, t)

\* A call leaves its receipt behind, and nobody inside has one before its own.
CallsKept ==
  /\ \A t \in Timers : calls[t] # 0 => receipt[t] # "none"
  /\ \A w \in Workers, t \in Timers :
       inside[w] = "running" /\ IsFirst(w, t, batch[w]) => calls[t] = 0

ActionInv ==
  ActionType /\ EffectRecorded /\ InsideAlone /\ SuccessKnown /\ CommitKept /\ CallsKept

\* No worker moves a timer that has fired.
LEMMA WorkerFired ==
  ASSUME TypeOK, NEW w \in Workers, HoldsOf(w), WorkerStep(w), NEW t \in Timers,
         status[t] = "fired"
  PROVE  status'[t] = "fired"
  BY WorkerRows DEF SameRow, RowClaimed, RowSettled

LEMMA InitActionInv == TimerActionInit => ActionInv
  BY DEF TimerActionInit, Init, Receipt!ReceiptInit, ActionInv, ActionType, EffectRecorded,
     InsideAlone, SuccessKnown, CommitKept, CallsKept

\* A worker that keeps what it holds keeps its place in it.
LEMMA KeepsFirst ==
  ASSUME NEW w \in Workers, Keeps(w), NEW t \in Timers
  PROVE  /\ IsFirst(w, t, batch[w])' <=> IsFirst(w, t, batch[w])
         /\ Held(w, t)' = Held(w, t)
  BY DEF Keeps, IsFirst, Precedes, Held

LEMMA OutsideActionInv ==
  ASSUME TypeOK, ActionInv, UNCHANGED <<receiptVars, inside, missed>>,
         \/ \E u \in Timers, due \in 0..MaxDue : Schedule(u, due)
         \/ \E c \in Clients : Act(c)
         \/ Elapse
         \/ UNCHANGED vars
  PROVE  ActionInv'
<1> USE DEF receiptVars
<1>1. \A w \in Workers : Keeps(w)
  BY OutsideLeases DEF Keeps
<1>2. ActionType' /\ EffectRecorded'
  BY DEF ActionInv, ActionType, EffectRecorded
<1>3. InsideAlone'
  BY <1>1, KeepsFirst DEF ActionInv, InsideAlone, Keeps
<1>4. SuccessKnown'
  BY <1>1, KeepsFirst, OutsideLeases DEF ActionInv, SuccessKnown, Keeps
<1>5. CommitKept'
  <2> SUFFICES ASSUME NEW t \in Timers, effects[t] = 1, t \notin missed
               PROVE  /\ status'[t] \in {"leased", "fired"}
                      /\ \A w \in Workers :
                           stage'[w] = "fail" /\ IsFirst(w, t, batch[w])'
                             => ~LeaseConditions(w, t)'
    BY DEF CommitKept
  <2>1. status'[t] = status[t] /\ status[t] \in {"leased", "fired"}
    BY OutsideLeases DEF ActionInv, CommitKept
  <2>2. UNCHANGED <<owner, token>>
    BY OutsideLeases
  <2> QED BY <1>1, <2>1, <2>2, KeepsFirst DEF ActionInv, CommitKept, LeaseConditions, Keeps
<1>6. CallsKept'
  BY <1>1, KeepsFirst DEF ActionInv, CallsKept
<1> QED BY <1>2, <1>3, <1>4, <1>5, <1>6 DEF ActionInv

\* A worker's step outside of actions.
LEMMA HandleActionInv ==
  ASSUME TypeOK, ActionInv, NEW w \in Workers, HoldsOf(w), WorkerStep(w),
         ~ \E t \in Timers, ok \in BOOLEAN : Returns(w, t, ok),
         UNCHANGED <<receiptVars, missed>>,
         \/ inside' = inside /\ ~Crash(w)
         \/ inside' = [inside EXCEPT ![w] = "no"]
  PROVE  ActionInv'
<1> USE DEF receiptVars
<1>1. \A v \in Workers \ {w} : Keeps(v) /\ inside'[v] = inside[v]
  BY OthersKeep DEF ActionInv, ActionType
<1>2. stage'[w] \notin {"finish", "fail"}
  <2> USE DEF TypeOK
  <2>1. ASSUME NEW x \in Workspaces, NEW failed \in BOOLEAN, ListCandidates(w, x, failed)
        PROVE  stage'[w] \notin {"finish", "fail"}
    BY <2>1 DEF ListCandidates
  <2>2. ASSUME NEW result \in Commits, NEW t \in Timers,
               FinishRecordTimer(w, t, result) \/ FailRecordTimer(w, t, result)
        PROVE  stage'[w] \notin {"finish", "fail"}
    BY <2>2 DEF FinishRecordTimer, FailRecordTimer, Drop
  <2>3. ASSUME NEW result \in Commits,
               ClaimBatch(w, result) \/ \E t \in Timers : ClaimSingly(w, t, result)
        PROVE  stage'[w] \notin {"finish", "fail"}
    BY <2>3 DEF ClaimBatch, ClaimSingly
  <2>4. ASSUME BeginPass(w) \/ EndPass(w) \/ Crash(w)
        PROVE  stage'[w] \notin {"finish", "fail"}
    BY <2>4 DEF BeginPass, EndPass, Crash
  <2> HIDE DEF TypeOK
  <2> QED BY <2>1, <2>2, <2>3, <2>4 DEF WorkerStep, Handle
<1>3. inside'[w] = "no"
  <2>1. CASE inside' = inside /\ ~Crash(w)
    <3>1. stage[w] # "run"
      BY <2>1 DEF WorkerStep, Handle, BeginPass, EndPass, ListCandidates, ClaimBatch,
         ClaimSingly, FinishRecordTimer, FailRecordTimer
    <3> QED BY <2>1, <3>1 DEF ActionInv, InsideAlone
  <2>2. CASE inside' = [inside EXCEPT ![w] = "no"]
    BY <2>2 DEF ActionInv, ActionType
  <2> QED BY <2>1, <2>2
<1>4. ActionType' /\ EffectRecorded'
  BY DEF ActionInv, ActionType, EffectRecorded
<1>5. InsideAlone'
  <2> SUFFICES ASSUME NEW v \in Workers, inside'[v] # "no"
               PROVE  /\ stage'[v] = "run"
                      /\ \A t \in Timers : IsFirst(v, t, batch[v])' =>
                           /\ receipt'[t] = "processing"
                           /\ \A u \in Workers \ {v} :
                                inside'[u] # "no" => ~IsFirst(u, t, batch[u])'
    BY DEF InsideAlone
  <2>1. v # w
    BY <1>3
  <2> QED BY <1>1, <1>3, <2>1, KeepsFirst DEF ActionInv, InsideAlone, Keeps
<1>6. SuccessKnown'
  <2>1. ASSUME NEW t \in Timers, status'[t] = "fired" PROVE receipt[t] = "succeeded"
    BY <2>1, LeaseSteps DEF ActionInv, SuccessKnown
  <2> QED BY <1>1, <1>2, <2>1, KeepsFirst DEF ActionInv, SuccessKnown, Keeps
<1>7. CommitKept'
  <2> SUFFICES ASSUME NEW t \in Timers, effects[t] = 1, t \notin missed
               PROVE  /\ status'[t] \in {"leased", "fired"}
                      /\ \A v \in Workers :
                           stage'[v] = "fail" /\ IsFirst(v, t, batch[v])'
                             => ~LeaseConditions(v, t)'
    BY DEF CommitKept
  <2>1. status'[t] \in {"leased", "fired"}
    <3>1. CASE status[t] = "leased"
      BY <3>1, LeaseSteps DEF ActionInv, CommitKept
    <3>2. CASE status[t] = "fired"
      BY <3>2, WorkerFired
    <3> QED BY <3>1, <3>2 DEF ActionInv, CommitKept
  <2>2. ASSUME NEW v \in Workers, stage'[v] = "fail", IsFirst(v, t, batch[v])',
               LeaseConditions(v, t)'
        PROVE  FALSE
    <3>1. v # w /\ Keeps(v)
      BY <1>1, <1>2, <2>2
    <3>2. status'[t] = "leased" /\ owner'[t] = v /\ token'[t] = Held(v, t)
      BY <2>2, <3>1, KeepsFirst DEF LeaseConditions
    <3>3. LeaseConditions(v, t)
      BY <3>1, <3>2, LeaseSteps DEF LeaseConditions
    <3> QED BY <2>2, <3>1, <3>3, KeepsFirst DEF ActionInv, CommitKept, Keeps
  <2> QED BY <2>1, <2>2
<1>8. CallsKept'
  BY <1>1, <1>3, KeepsFirst DEF ActionInv, CallsKept
<1> QED BY <1>4, <1>5, <1>6, <1>7, <1>8 DEF ActionInv

\* The first timer of a batch, when the worker enters or leaves its action: the
\* batch stays as it is.
LEMMA ReturnFirst ==
  ASSUME TypeOK, NEW w \in Workers, NEW t \in Timers, NEW ok \in BOOLEAN, Returns(w, t, ok)
  PROVE  /\ UNCHANGED rowVars
         /\ stage[w] = "run" /\ stage'[w] = IF ok THEN "finish" ELSE "fail"
         /\ \A v \in Workers \ {w} : stage'[v] = stage[v]
         /\ \A v \in Workers, u \in Timers :
              /\ IsFirst(v, u, batch[v])' <=> IsFirst(v, u, batch[v])
              /\ LeaseConditions(v, u)' <=> LeaseConditions(v, u)
         /\ \A u \in Timers : IsFirst(w, u, batch[w]) <=> u = t
<1>1. UNCHANGED rowVars /\ UNCHANGED <<batch, seen>> /\ IsFirst(w, t, batch[w])
      /\ stage[w] = "run" /\ stage' = [stage EXCEPT ![w] = IF ok THEN "finish" ELSE "fail"]
  BY DEF Returns, Running
<1>2. \A u \in Timers : IsFirst(w, u, batch[w]) <=> u = t
  BY <1>1, FirstUnique
<1>3. \A v \in Workers, u \in Timers :
        /\ IsFirst(v, u, batch[v])' <=> IsFirst(v, u, batch[v])
        /\ LeaseConditions(v, u)' <=> LeaseConditions(v, u)
  BY <1>1 DEF IsFirst, Precedes, LeaseConditions, Held
<1> QED BY <1>1, <1>2, <1>3 DEF TypeOK

\* The target ends, with or without a change of its receipt.
LEMMA ReturnActionInv ==
  ASSUME TypeOK, ActionInv, NEW w \in Workers, NEW t \in Timers, NEW ok \in BOOLEAN,
         Returns(w, t, ok), ActionType', EffectRecorded',
         inside' = [inside EXCEPT ![w] = "no"],
         \A u \in Timers \ {t} : receipt'[u] = receipt[u] /\ effects'[u] = effects[u],
         receipt'[t] = receipt[t] \/ inside[w] # "no",
         receipt[t] = "succeeded" => receipt'[t] = "succeeded",
         calls' = calls, receipt'[t] # "none" \/ receipt'[t] = receipt[t],
         missed \subseteq missed',
         ok => receipt'[t] = "succeeded",
         effects'[t] = 1 /\ t \notin missed' =>
           \/ ok /\ (effects[t] = 1 \/ LeaseConditions(w, t))
           \/ effects[t] = 1 /\ ~LeaseConditions(w, t)
  PROVE  ActionInv'
<1> USE ReturnFirst
<1>1. \A v \in Workers \ {w} : inside'[v] = inside[v]
  BY DEF ActionInv, ActionType
<1>2. inside'[w] = "no"
  BY DEF ActionInv, ActionType
<1>3. InsideAlone'
  <2> SUFFICES ASSUME NEW v \in Workers, inside'[v] # "no"
               PROVE  /\ stage'[v] = "run"
                      /\ \A u \in Timers : IsFirst(v, u, batch[v])' =>
                           /\ receipt'[u] = "processing"
                           /\ \A x \in Workers \ {v} :
                                inside'[x] # "no" => ~IsFirst(x, u, batch[x])'
    BY DEF InsideAlone
  <2>1. v # w /\ inside[v] # "no" /\ stage'[v] = stage[v]
    BY <1>1, <1>2
  <2>2. ASSUME NEW u \in Timers, IsFirst(v, u, batch[v]) PROVE receipt'[u] = "processing"
    BY <2>1, <2>2 DEF ActionInv, InsideAlone
  <2> QED BY <1>1, <1>2, <2>1, <2>2 DEF ActionInv, InsideAlone
<1>4. \A u \in Timers : receipt[u] = "succeeded" => receipt'[u] = "succeeded"
  OBVIOUS
<1>5. SuccessKnown'
  BY <1>4 DEF ActionInv, SuccessKnown
<1>6. CommitKept'
  <2> SUFFICES ASSUME NEW u \in Timers, effects'[u] = 1, u \notin missed'
               PROVE  /\ status'[u] \in {"leased", "fired"}
                      /\ \A v \in Workers :
                           stage'[v] = "fail" /\ IsFirst(v, u, batch[v])'
                             => ~LeaseConditions(v, u)'
    BY DEF CommitKept
  <2>1. CASE u # t
    BY <2>1 DEF ActionInv, CommitKept
  <2>2. CASE u = t /\ effects[t] = 1
    BY <2>2 DEF ActionInv, CommitKept
  <2>3. CASE u = t /\ effects[t] # 1
    <3>1. ok /\ LeaseConditions(w, t)
      BY <2>3
    <3>2. status'[t] = "leased"
      BY <3>1 DEF LeaseConditions
    <3>3. ASSUME NEW v \in Workers, LeaseConditions(v, t)' PROVE stage'[v] # "fail"
      <4>1. v = w
        BY <3>1, <3>3 DEF LeaseConditions
      <4>2. stage' = [stage EXCEPT ![w] = "finish"]
        BY <3>1 DEF Returns
      <4>3. stage'[w] = "finish"
        BY <4>2 DEF TypeOK
      <4> QED BY <4>1, <4>3
    <3> QED BY <2>3, <3>2, <3>3
  <2> QED BY <2>1, <2>2, <2>3
<1>7. CallsKept'
  BY <1>1, <1>2 DEF ActionInv, CallsKept
<1> QED BY <1>3, <1>5, <1>6, <1>7 DEF ActionInv

LEMMA TargetActionInv ==
  ASSUME TypeOK, ActionInv, NEW w \in Workers, NEW t \in Timers,
         \/ BeginAction(w, t) \/ ReplayAction(w, t) \/ CallConnector(w, t)
         \/ \E known \in BOOLEAN : CommitAction(w, t, known)
         \/ \E s \in {"failed_retryable", "failed_terminal"} : FailAction(w, t, s)
         \/ LoseAction(w, t) \/ RefuseAction(w, t)
  PROVE  ActionInv'
<1> USE DEF receiptVars
<1>1. CASE BeginAction(w, t)
  <2>1. /\ UNCHANGED vars /\ missed' = missed /\ effects' = effects
        /\ receipt[t] = "none" /\ receipt' = [receipt EXCEPT ![t] = "processing"]
        /\ inside' = [inside EXCEPT ![w] = "running"]
        /\ stage[w] = "run" /\ IsFirst(w, t, batch[w])
    BY <1>1 DEF BeginAction, Receipt!Insert, Running
  <2>2. \A v \in Workers, u \in Timers :
          /\ IsFirst(v, u, batch[v])' <=> IsFirst(v, u, batch[v])
          /\ LeaseConditions(v, u)' <=> LeaseConditions(v, u)
    BY <2>1 DEF vars, IsFirst, Precedes, LeaseConditions, Held
  <2>3. \A u \in Timers : IsFirst(w, u, batch[w]) => u = t
    BY <2>1, FirstUnique
  <2>4. ActionType' /\ EffectRecorded'
    BY <2>1 DEF ActionInv, ActionType, EffectRecorded
  <2>5. \A v \in Workers : inside[v] # "no" => ~IsFirst(v, t, batch[v])
    BY <2>1 DEF ActionInv, InsideAlone
  <2>6. InsideAlone'
    BY <2>1, <2>2, <2>3, <2>5 DEF ActionInv, InsideAlone, ActionType, vars
  <2>7. SuccessKnown'
    BY <2>1, <2>2 DEF ActionInv, ActionType, SuccessKnown, vars
  <2>8. CommitKept'
    BY <2>1, <2>2 DEF ActionInv, CommitKept, vars
  <2>9. CallsKept'
    <3>1. calls' = calls /\ calls[t] = 0
      BY <1>1, <2>1 DEF ActionInv, CallsKept, BeginAction, Receipt!Insert
    <3> QED BY <2>1, <2>2, <2>3, <3>1 DEF ActionInv, ActionType, CallsKept
  <2> QED BY <2>4, <2>6, <2>7, <2>8, <2>9 DEF ActionInv
<1>2. CASE CallConnector(w, t)
  <2>1. /\ UNCHANGED vars /\ UNCHANGED <<missed, effects, receipt>>
        /\ inside' = [inside EXCEPT ![w] = "called"] /\ inside[w] = "running"
    BY <1>2 DEF CallConnector, Receipt!Call
  <2>2. \A v \in Workers, u \in Timers :
          /\ IsFirst(v, u, batch[v])' <=> IsFirst(v, u, batch[v])
          /\ LeaseConditions(v, u)' <=> LeaseConditions(v, u)
    BY <2>1 DEF vars, IsFirst, Precedes, LeaseConditions, Held
  <2>3. ActionType' /\ EffectRecorded'
    BY <2>1 DEF ActionInv, ActionType, EffectRecorded
  <2>4. \A v \in Workers : inside'[v] # "no" <=> inside[v] # "no"
    BY <2>1 DEF ActionInv, ActionType
  <2>5. InsideAlone'
    BY <2>1, <2>2, <2>4 DEF ActionInv, InsideAlone, vars
  <2>6. SuccessKnown' /\ CommitKept'
    BY <2>1, <2>2 DEF ActionInv, SuccessKnown, CommitKept, vars
  <2>7. /\ receipt[t] = "processing" /\ calls' = [calls EXCEPT ![t] = 1]
        /\ \A v \in Workers \ {w} : inside[v] # "no" => ~IsFirst(v, t, batch[v])
    BY <1>2, <2>1 DEF ActionInv, InsideAlone, CallConnector, Running, Receipt!Call
  <2>8. CallsKept'
    <3>1. ASSUME NEW u \in Timers, calls'[u] # 0 PROVE receipt'[u] # "none"
      BY <2>1, <2>7, <3>1 DEF ActionInv, CallsKept
    <3>2. ASSUME NEW v \in Workers, NEW u \in Timers, inside'[v] = "running",
                 IsFirst(v, u, batch[v])
          PROVE  calls'[u] = 0
      <4>1. v # w /\ inside[v] = "running"
        BY <2>1, <3>2 DEF ActionInv, ActionType
      <4>2. u # t /\ calls[u] = 0
        BY <2>7, <3>2, <4>1 DEF ActionInv, CallsKept
      <4> QED BY <2>7, <4>2
    <3> QED BY <2>2, <3>1, <3>2 DEF CallsKept
  <2> QED BY <2>3, <2>5, <2>6, <2>8 DEF ActionInv
<1>3. CASE ReplayAction(w, t)
  <2>1. /\ Returns(w, t, receipt[t] = "succeeded") /\ UNCHANGED <<receipt, effects, calls, missed, inside>>
        /\ inside[w] = "no"
    BY <1>3 DEF ReplayAction, ReplaySucceeds, ExecuteRecordTimer
  <2>2. inside' = [inside EXCEPT ![w] = "no"]
    BY <2>1 DEF ActionInv, ActionType
  <2>3. ActionType' /\ EffectRecorded'
    BY <2>1 DEF ActionInv, ActionType, EffectRecorded
  <2>4. effects[t] = 1 <=> receipt[t] = "succeeded"
    BY DEF ActionInv, EffectRecorded
  <2>5. (receipt[t] = "succeeded") \in BOOLEAN
    OBVIOUS
  <2> QED BY <2>1, <2>2, <2>3, <2>4, <2>5, ReturnActionInv
<1>4. ASSUME NEW known \in BOOLEAN, CommitAction(w, t, known) PROVE ActionInv'
  <2>1. /\ Returns(w, t, known) /\ inside' = [inside EXCEPT ![w] = "no"] /\ inside[w] # "no"
        /\ receipt' = [receipt EXCEPT ![t] = "succeeded"]
        /\ effects' = [effects EXCEPT ![t] = 1] /\ calls' = calls
        /\ missed' = IF known /\ LeaseConditions(w, t) THEN missed ELSE missed \cup {t}
    BY <1>4 DEF CommitAction, EndAction, Receipt!Commit
  <2>2. ActionType' /\ EffectRecorded'
    BY <2>1 DEF ActionInv, ActionType, EffectRecorded
  <2>3. /\ receipt'[t] = "succeeded" /\ missed \subseteq missed'
        /\ \A u \in Timers \ {t} : receipt'[u] = receipt[u] /\ effects'[u] = effects[u]
    BY <2>1 DEF ActionInv, ActionType
  <2>4. t \notin missed' => known /\ LeaseConditions(w, t)
    BY <2>1
  <2> QED BY <2>1, <2>2, <2>3, <2>4, ReturnActionInv
<1>5. ASSUME NEW s \in {"failed_retryable", "failed_terminal"}, FailAction(w, t, s)
      PROVE  ActionInv'
  <2>1. /\ Returns(w, t, FALSE) /\ inside' = [inside EXCEPT ![w] = "no"] /\ inside[w] # "no"
        /\ receipt[t] = "processing" /\ receipt' = [receipt EXCEPT ![t] = s]
        /\ UNCHANGED <<effects, calls, missed>>
    BY <1>5 DEF FailAction, EndAction, Receipt!Fail
  <2>2. effects[t] # 1
    BY <2>1 DEF ActionInv, EffectRecorded
  <2>3. ActionType' /\ EffectRecorded'
    BY <2>1, <2>2 DEF ActionInv, ActionType, EffectRecorded
  <2>4. \A u \in Timers \ {t} : receipt'[u] = receipt[u] /\ effects'[u] = effects[u]
    BY <2>1 DEF ActionInv, ActionType
  <2>5. receipt'[t] # "none" /\ receipt'[t] # "succeeded" /\ effects'[t] # 1
    BY <2>1, <2>2 DEF ActionInv, ActionType
  <2> QED BY <2>1, <2>2, <2>3, <2>4, <2>5, ReturnActionInv
<1>6. CASE LoseAction(w, t)
  <2>1. /\ Returns(w, t, FALSE) /\ inside' = [inside EXCEPT ![w] = "no"] /\ inside[w] # "no"
        /\ UNCHANGED <<receipt, effects, calls, missed>>
    BY <1>6 DEF LoseAction, EndAction
  <2>2. receipt[t] = "processing"
    BY <2>1, ReturnFirst DEF ActionInv, InsideAlone
  <2>3. effects[t] # 1
    BY <2>2 DEF ActionInv, EffectRecorded
  <2>4. ActionType' /\ EffectRecorded'
    BY <2>1 DEF ActionInv, ActionType, EffectRecorded
  <2> QED BY <2>1, <2>3, <2>4, ReturnActionInv
<1>7. CASE RefuseAction(w, t)
  <2>1. /\ Returns(w, t, FALSE) /\ UNCHANGED <<receipt, effects, calls, inside>> /\ inside[w] = "no"
        /\ missed' = IF receipt[t] = "succeeded" /\ LeaseConditions(w, t)
                     THEN missed \cup {t} ELSE missed
    BY <1>7 DEF RefuseAction, ExecuteRecordTimer
  <2>2. inside' = [inside EXCEPT ![w] = "no"]
    BY <2>1 DEF ActionInv, ActionType
  <2>3. ActionType' /\ EffectRecorded'
    BY <2>1 DEF ActionInv, ActionType, EffectRecorded
  <2>4. effects'[t] = 1 /\ t \notin missed' => effects[t] = 1 /\ ~LeaseConditions(w, t)
    BY <2>1 DEF ActionInv, EffectRecorded
  <2>5. missed \subseteq missed'
    BY <2>1
  <2> QED BY <2>1, <2>2, <2>3, <2>4, <2>5, ReturnActionInv
<1> QED BY <1>1, <1>2, <1>3, <1>4, <1>5, <1>6, <1>7

LEMMA StepActionInv ==
  ASSUME TypeOK, HoldInv, ActionInv, TimerActionNext \/ UNCHANGED allVars
  PROVE  ActionInv'
<1>1. ASSUME NEW w \in Workers, NEW x \in Workspaces, ListCandidates(w, x, TRUE),
             UNCHANGED <<receiptVars, inside, missed>>
      PROVE  ActionInv'
  <2>1. WorkerStep(w) /\ stage[w] = "visit"
    BY <1>1 DEF WorkerStep, ListCandidates
  <2>2. ~Crash(w) /\ ~ \E t \in Timers, ok \in BOOLEAN : Returns(w, t, ok)
    BY <1>1, <2>1 DEF Returns, Running, ListCandidates, Crash, TypeOK
  <2> QED BY <1>1, <2>1, <2>2, HandleActionInv DEF HoldInv
<1>2. CASE Environment /\ UNCHANGED <<receiptVars, inside, missed>>
  <2>1. \/ \E u \in Timers, due \in 0..MaxDue : Schedule(u, due)
        \/ \E c \in Clients : Act(c)
        \/ Elapse
        \/ \E w \in Workers, x \in Workspaces : ListCandidates(w, x, TRUE)
    BY <1>2 DEF Environment, Tick, Stall
  <2> QED BY <1>1, <1>2, <2>1, OutsideActionInv
<1>3. CASE UNCHANGED allVars
  BY <1>3, OutsideActionInv DEF allVars
<1>4. ASSUME NEW w \in Workers, Handle(w), UNCHANGED <<receiptVars, inside, missed>>
      PROVE  ActionInv'
  <2>1. WorkerStep(w)
    BY <1>4 DEF WorkerStep
  <2>2. CASE \E t \in Timers, ok \in BOOLEAN : Returns(w, t, ok)
    <3>1. stage[w] = "run"
      BY <2>2 DEF Returns, Running
    <3> QED BY <1>4, <3>1 DEF Handle, BeginPass, EndPass, ListCandidates, ClaimBatch,
               ClaimSingly, FinishRecordTimer, FailRecordTimer
  <2>3. CASE Crash(w)
    <3>1. inside' = inside
      BY <1>4
    <3>2. CASE inside[w] = "no"
      <4>1. inside' = [inside EXCEPT ![w] = "no"]
        BY <3>1, <3>2 DEF ActionInv, ActionType
      <4> QED BY <1>4, <2>1, <2>2, <4>1, HandleActionInv DEF HoldInv
    <3>3. CASE inside[w] # "no"
      <4>1. stage[w] = "run"
        BY <3>3 DEF ActionInv, InsideAlone
      <4> QED BY <1>4, <4>1 DEF Handle, BeginPass, EndPass, ListCandidates, ClaimBatch,
                 ClaimSingly, FinishRecordTimer, FailRecordTimer
    <3> QED BY <3>2, <3>3
  <2>4. CASE ~Crash(w) /\ ~ \E t \in Timers, ok \in BOOLEAN : Returns(w, t, ok)
    BY <1>4, <2>1, <2>4, HandleActionInv DEF HoldInv
  <2> QED BY <2>2, <2>3, <2>4
<1>5. ASSUME NEW w \in Workers, CrashWorker(w) PROVE ActionInv'
  <2>1. WorkerStep(w) /\ Crash(w) /\ stage'[w] = "idle" /\ UNCHANGED <<receiptVars, missed>>
        /\ inside' = [inside EXCEPT ![w] = "no"]
    BY <1>5 DEF CrashWorker, WorkerStep, Crash, TypeOK
  <2>2. ~ \E t \in Timers, ok \in BOOLEAN : Returns(w, t, ok)
    BY <2>1 DEF Returns, TypeOK
  <2> QED BY <2>1, <2>2, HandleActionInv DEF HoldInv
<1> QED BY <1>2, <1>3, <1>4, <1>5, TargetActionInv
        DEF TimerActionNext, WorkOn, RunTarget

\* A timer that fired has exactly one committed effect, and a timely effect
\* leads to nothing but a fired timer, for any number of overlapping attempts,
\* crashes and lost answers, unless an attempt that holds the claim fails before
\* the receipt answers it (executeRecordTimer, executeActionTarget).
THEOREM FiredIffEffectCorrect == TimerActionSpec => []FiredIffEffect
<1>1. TimerActionInit => TypeOK /\ HoldInv /\ ActionInv
  BY InitTypeOK, InitHoldInv, InitActionInv DEF TimerActionInit
<1>2. TypeOK /\ HoldInv /\ ActionInv /\ [TimerActionNext]_allVars
      => TypeOK' /\ HoldInv' /\ ActionInv'
  BY ActionSteps, StepTypeOK, StepHoldInv, StepActionInv
<1>3. ActionInv => FiredIffEffect
  BY DEF ActionInv, ActionType, EffectRecorded, SuccessKnown, CommitKept, FiredIffEffect
<1> QED BY <1>1, <1>2, <1>3, PTL DEF TimerActionSpec

\* The composition keeps what the timers alone promise: claims are told apart
\* by their tokens, and a fired timer was executed under its own claim.
THEOREM TimersKeepTheirPromises == TimerActionSpec => [](OneHolder /\ FiredWasExecuted)
<1>1. TimerActionInit => TypeOK /\ HoldInv /\ FiredWasExecuted
  BY InitTypeOK, InitHoldInv DEF TimerActionInit, Init, FiredWasExecuted
<1>2. TypeOK /\ HoldInv /\ FiredWasExecuted /\ [TimerActionNext]_allVars
      => TypeOK' /\ HoldInv' /\ FiredWasExecuted'
  BY ActionSteps, StepTypeOK, StepHoldInv, StepFired
<1>3. HoldInv => OneHolder
  BY DEF HoldInv
<1> QED BY <1>1, <1>2, <1>3, PTL DEF TimerActionSpec

\* No two attempts of a timer call the connector: the receipt, not the guard of
\* Receipt!Call, keeps a second call out, for any number of overlapping attempts
\* (executeActionTarget with PreventExecutionReclaim).
THEOREM CallIsFirstCorrect == TimerActionSpec => []CallIsFirst
<1>1. TimerActionInit => TypeOK /\ HoldInv /\ ActionInv
  BY InitTypeOK, InitHoldInv, InitActionInv DEF TimerActionInit
<1>2. TypeOK /\ HoldInv /\ ActionInv /\ [TimerActionNext]_allVars
      => TypeOK' /\ HoldInv' /\ ActionInv'
  BY ActionSteps, StepTypeOK, StepHoldInv, StepActionInv
<1>3. ActionInv => CallIsFirst
  BY DEF ActionInv, CallsKept, CallIsFirst, Running
<1> QED BY <1>1, <1>2, <1>3, PTL DEF TimerActionSpec
=============================================================================
