------------------------- MODULE RecordTimerProofs -------------------------
(***************************************************************************)
(* Proofs about RecordTimer, for any number of timers, workers, clients    *)
(* and workspaces, any retry policy, lease and batch size, and any number  *)
(* of faults and interventions.                                            *)
(***************************************************************************)
EXTENDS RecordTimer, TLAPS

USE DEF rowVars, passVars, workVars

-----------------------------------------------------------------------------
(* Types.                                                                  *)

RowType ==
  /\ status \in [Timers -> Statuses]
  /\ dueIn \in [Timers -> Int] /\ leaseLeft \in [Timers -> Int]
  /\ owner \in [Timers -> Workers \cup {NoOwner}]
  /\ token \in [Timers -> Nat] /\ attempt \in [Timers -> Nat]

WorkType ==
  /\ stage \in [Workers -> Stages] /\ age \in [Workers -> Nat]
  /\ todo \in [Workers -> SUBSET Workspaces] /\ batch \in [Workers -> SUBSET Timers]

ReadType ==
  /\ cand \in [Workers \cup Clients -> SUBSET Timers]
  /\ seen \in [Workers \cup Clients -> [Timers -> [status : Statuses, token : Nat]]]

CountType ==
  succeeded \in [Timers -> SUBSET Nat] /\ faults \in Nat /\ interventions \in Nat

LEMMA TypeParts ==
  /\ TypeOK <=> RowType /\ WorkType /\ ReadType /\ CountType
  /\ TypeOK' <=> RowType' /\ WorkType' /\ ReadType' /\ CountType'
  BY DEF TypeOK, RowType, WorkType, ReadType, CountType

LEMMA InitTypeOK == Init => TypeOK
  BY DEF Init, TypeOK, Unread, Statuses, Stages

LEMMA ReadTypeOK ==
  ASSUME RowType, ReadType, NEW a \in Workers \cup Clients, NEW set \in SUBSET Timers,
         Read(a, set)
  PROVE  ReadType'
  BY DEF RowType, ReadType, Read, Row, Unread, Statuses

LEMMA ForgetTypeOK ==
  ASSUME ReadType, NEW a \in Workers \cup Clients, NEW set, Forget(a, set)
  PROVE  seen' \in [Workers \cup Clients -> [Timers -> [status : Statuses, token : Nat]]]
  BY DEF ReadType, Forget, Unread, Statuses

LEMMA EndTurnTypeOK ==
  ASSUME TypeOK, NEW c \in Clients, EndTurn(c)
  PROVE  WorkType' /\ ReadType' /\ CountType'
<1>1. seen' \in [Workers \cup Clients -> [Timers -> [status : Statuses, token : Nat]]]
  BY TypeParts, ForgetTypeOK DEF EndTurn
<1> QED BY <1>1 DEF TypeOK, EndTurn, WorkType, ReadType, CountType

LEMMA ClientTypeOK ==
  ASSUME TypeOK, NEW c \in Clients, Act(c)
  PROVE  TypeOK'
<1> USE TimerShape, TimerNumbers
<1>1. ASSUME NEW g \in Groups, ListScheduled(c, g) PROVE TypeOK'
  <2>1. {t \in g : status[t] = "scheduled"} \in SUBSET Timers
    OBVIOUS
  <2>2. ReadType'
    BY <1>1, <2>1, TypeParts, ReadTypeOK DEF ListScheduled
  <2> QED BY <1>1, <2>2, TypeParts
          DEF ListScheduled, Intervene, RowType, WorkType, CountType
<1>2. ASSUME NEW t \in Timers, ReadTimer(c, t) PROVE TypeOK'
  <2>1. ReadType'
    BY <1>2, TypeParts, ReadTypeOK DEF ReadTimer
  <2> QED BY <1>2, <2>1, TypeParts
          DEF ReadTimer, Intervene, RowType, WorkType, CountType
<1>3. CASE CancelRecordTimers(c)
  <2>1. RowType'
    BY <1>3 DEF CancelRecordTimers, TypeOK, RowType, Statuses
  <2> QED BY <1>3, <2>1, TypeParts, EndTurnTypeOK DEF CancelRecordTimers
<1>4. ASSUME NEW t \in Timers, NEW u \in Timers, NEW due \in 0..MaxDue,
             SupersedeTimer(c, t, u, due)
      PROVE  TypeOK'
  <2>1. RowType'
    <3>1. status' \in [Timers -> Statuses]
      <4> status \in [Timers -> Statuses]
        BY DEF TypeOK
      <4> QED BY <1>4 DEF SupersedeTimer, Statuses
    <3>2. dueIn' \in [Timers -> Int] /\ leaseLeft' \in [Timers -> Int]
      BY <1>4 DEF SupersedeTimer, Create, TypeOK
    <3>3. owner' \in [Timers -> Workers \cup {NoOwner}]
      BY <1>4 DEF SupersedeTimer, Create, TypeOK
    <3>4. token' \in [Timers -> Nat] /\ attempt' \in [Timers -> Nat]
      BY <1>4 DEF SupersedeTimer, Create, TypeOK
    <3> QED BY <3>1, <3>2, <3>3, <3>4 DEF RowType
  <2> QED BY <1>4, <2>1, TypeParts, EndTurnTypeOK DEF SupersedeTimer
<1>5. ASSUME NEW t \in Timers, RetryFailure(c, t) PROVE TypeOK'
  <2>1. RowType'
    <3>1. status' \in [Timers -> Statuses]
      BY <1>5 DEF RetryFailure, TypeOK, Statuses
    <3>2. dueIn' \in [Timers -> Int] /\ leaseLeft' \in [Timers -> Int]
      BY <1>5 DEF RetryFailure, TypeOK
    <3>3. owner' \in [Timers -> Workers \cup {NoOwner}]
      BY <1>5 DEF RetryFailure, TypeOK
    <3>4. token' \in [Timers -> Nat]
      BY <1>5 DEF RetryFailure, TypeOK
    <3>5. attempt' \in [Timers -> Nat]
      <4> attempt \in [Timers -> Nat]
        BY DEF TypeOK
      <4> QED BY <1>5 DEF RetryFailure
    <3> QED BY <3>1, <3>2, <3>3, <3>4, <3>5 DEF RowType
  <2> QED BY <1>5, <2>1, TypeParts, EndTurnTypeOK DEF RetryFailure
<1>6. ASSUME NEW t \in Timers, ResolveFailure(c, t) PROVE TypeOK'
  <2>1. RowType'
    BY <1>6 DEF ResolveFailure, TypeOK, RowType, Statuses
  <2> QED BY <1>6, <2>1, TypeParts, EndTurnTypeOK DEF ResolveFailure
<1> QED BY <1>1, <1>2, <1>3, <1>4, <1>5, <1>6 DEF Act

LEMMA ClaimTypeOK ==
  ASSUME TypeOK, NEW w \in Workers, NEW set, Claim(w, set)
  PROVE  RowType'
<1>1. LeaseTTL - age[w] \in Int /\ w \in Workers \cup {NoOwner}
  BY TimerNumbers DEF TypeOK
<1>2. status' \in [Timers -> Statuses] /\ owner' \in [Timers -> Workers \cup {NoOwner}]
  BY <1>1 DEF TypeOK, Claim, Statuses
<1>3. leaseLeft' \in [Timers -> Int] /\ dueIn' \in [Timers -> Int]
  BY <1>1 DEF TypeOK, Claim
<1>4. token' \in [Timers -> Nat] /\ attempt' \in [Timers -> Nat]
  BY DEF TypeOK, Claim
<1> QED BY <1>2, <1>3, <1>4 DEF RowType

\* What a worker may do.  The end of a target may use up a fault, as it does
\* where the target is modelled in detail.
WorkerStep(w) ==
  \/ Handle(w) \/ Crash(w)
  \/ \E x \in Workspaces : ListCandidates(w, x, TRUE)
  \/ \E t \in Timers, ok \in BOOLEAN : Returns(w, t, ok) /\ faults' \in Nat

LEMMA WorkTypeOK ==
  ASSUME TypeOK, NEW w \in Workers, WorkerStep(w)
  PROVE  TypeOK'
<1>1. CASE BeginPass(w)
  <2>1. DueWorkspaces(0) \subseteq Workspaces
    BY TimerShape DEF DueWorkspaces
  <2>2. todo' \in [Workers -> SUBSET Workspaces]
    BY <1>1, <2>1 DEF BeginPass, TypeOK
  <2> QED BY <1>1, <2>2 DEF BeginPass, TypeOK, Stages
<1>2. CASE EndPass(w)
  BY <1>2 DEF EndPass, TypeOK, Stages
<1>3. ASSUME NEW x \in Workspaces, NEW failed \in BOOLEAN, ListCandidates(w, x, failed)
      PROVE  TypeOK'
  <2>1. Candidates(x, age[w], quota[w][x]) \in SUBSET Timers
    BY DEF Candidates, Page
  <2>2. ReadType'
    BY <1>3, <2>1, TypeParts, ReadTypeOK DEF ListCandidates, ReadType
  <2>3. WorkType' /\ RowType'
    BY <1>3 DEF ListCandidates, TypeOK, WorkType, RowType, Stages
  <2>4. CountType'
    BY <1>3 DEF ListCandidates, Fault, TypeOK, CountType
  <2> QED BY <2>2, <2>3, <2>4, TypeParts
<1>4. ASSUME NEW result \in Commits, ClaimBatch(w, result) PROVE TypeOK'
  <2>1. RowType'
    BY <1>4, ClaimTypeOK, TypeParts DEF ClaimBatch, RowType
  <2>2. WorkType' /\ ReadType'
    BY <1>4 DEF ClaimBatch, TypeOK, WorkType, ReadType, Stages
  <2>3. CountType'
    BY <1>4 DEF ClaimBatch, Fault, TypeOK, CountType
  <2> QED BY <2>1, <2>2, <2>3, TypeParts
<1>5. ASSUME NEW result \in Commits, NEW t \in Timers, ClaimSingly(w, t, result)
      PROVE TypeOK'
  <2>1. RowType'
    BY <1>5, ClaimTypeOK, TypeParts DEF ClaimSingly, RowType
  <2>2. seen' \in [Workers \cup Clients -> [Timers -> [status : Statuses, token : Nat]]]
    BY <1>5, ForgetTypeOK, TypeParts DEF ClaimSingly, ReadType
  <2>3. WorkType' /\ cand' \in [Workers \cup Clients -> SUBSET Timers]
    BY <1>5 DEF ClaimSingly, TypeOK, WorkType, Stages
  <2>4. CountType'
    BY <1>5 DEF ClaimSingly, Fault, TypeOK, CountType
  <2> QED BY <2>1, <2>2, <2>3, <2>4, TypeParts DEF ReadType
<1>6. ASSUME NEW t \in Timers, NEW ok \in BOOLEAN, Returns(w, t, ok), faults' \in Nat
      PROVE  TypeOK'
  <2>1. Held(w, t) \in Nat
    BY DEF Held, TypeOK
  <2> QED BY <1>6, <2>1 DEF Returns, TypeOK, Stages
<1>7. ASSUME NEW set \in SUBSET Timers, Drop(w, set),
             UNCHANGED <<age, todo, cand, succeeded, interventions>>, faults' \in Nat
      PROVE  WorkType' /\ ReadType' /\ CountType'
  <2>1. seen' \in [Workers \cup Clients -> [Timers -> [status : Statuses, token : Nat]]]
    BY <1>7, ForgetTypeOK, TypeParts DEF Drop
  <2> QED BY <1>7, <2>1 DEF Drop, TypeOK, WorkType, ReadType, CountType, Stages
<1>8. ASSUME NEW result \in Commits, NEW t \in Timers, FinishRecordTimer(w, t, result)
      PROVE TypeOK'
  <2>1. RowType'
    <3>1. status' \in [Timers -> Statuses]
      BY <1>8 DEF FinishRecordTimer, Released, TypeOK, Statuses
    <3>2. dueIn' \in [Timers -> Int] /\ leaseLeft' \in [Timers -> Int]
      BY <1>8 DEF FinishRecordTimer, Released, TypeOK
    <3>3. owner' \in [Timers -> Workers \cup {NoOwner}]
      BY <1>8 DEF FinishRecordTimer, Released, TypeOK
    <3>4. token' \in [Timers -> Nat] /\ attempt' \in [Timers -> Nat]
      BY <1>8 DEF FinishRecordTimer, Released, TypeOK
    <3> QED BY <3>1, <3>2, <3>3, <3>4 DEF RowType
  <2>2. faults' \in Nat
    BY <1>8 DEF FinishRecordTimer, Fault, TypeOK
  <2> QED BY <1>7, <1>8, <2>1, <2>2, TypeParts DEF FinishRecordTimer
<1>9. ASSUME NEW result \in Commits, NEW t \in Timers, FailRecordTimer(w, t, result)
      PROVE TypeOK'
  <2>1. RetryDelay(attempt[t]) - age[w] \in Int
    <3>1. RetryDelay(attempt[t]) \in Int
      BY TimerNumbers DEF RetryDelay
    <3> QED BY <3>1 DEF TypeOK
  <2>2. RowType'
    <3>1. status' \in [Timers -> Statuses]
      BY <1>9, <2>1 DEF FailRecordTimer, Exhausted, Released, TypeOK, Statuses
    <3>2. dueIn' \in [Timers -> Int] /\ leaseLeft' \in [Timers -> Int]
      BY <1>9, <2>1 DEF FailRecordTimer, Exhausted, Released, TypeOK
    <3>3. owner' \in [Timers -> Workers \cup {NoOwner}]
      BY <1>9, <2>1 DEF FailRecordTimer, Exhausted, Released, TypeOK
    <3>4. token' \in [Timers -> Nat] /\ attempt' \in [Timers -> Nat]
      BY <1>9, <2>1 DEF FailRecordTimer, Exhausted, Released, TypeOK
    <3> QED BY <3>1, <3>2, <3>3, <3>4 DEF RowType
  <2>3. faults' \in Nat
    BY <1>9 DEF FailRecordTimer, Fault, TypeOK
  <2>4. {t} \in SUBSET Timers /\ batch[w] \in SUBSET Timers
    BY DEF TypeOK
  <2> QED BY <1>7, <1>9, <2>2, <2>3, <2>4, TypeParts DEF FailRecordTimer
<1>10. CASE Crash(w)
  <2>1. seen' \in [Workers \cup Clients -> [Timers -> [status : Statuses, token : Nat]]]
    BY <1>10, ForgetTypeOK, TypeParts DEF Crash
  <2>2. WorkType' /\ cand' \in [Workers \cup Clients -> SUBSET Timers]
    BY <1>10 DEF Crash, TypeOK, WorkType, Stages
  <2>3. RowType'
    BY <1>10 DEF Crash, TypeOK, RowType
  <2>4. faults' \in Nat
    BY <1>10 DEF Crash, Fault, TypeOK
  <2> QED BY <1>10, <2>1, <2>2, <2>3, <2>4, TypeParts DEF Crash, ReadType, CountType
<1> QED BY <1>1, <1>2, <1>3, <1>4, <1>5, <1>6, <1>8, <1>9, <1>10 DEF WorkerStep, Handle

\* What anybody may do, at the level of detail the invariants below need.
TimerStep ==
  \/ \E t \in Timers, due \in 0..MaxDue : Schedule(t, due)
  \/ \E c \in Clients : Act(c)
  \/ \E w \in Workers : WorkerStep(w)
  \/ Elapse /\ faults' \in Nat
  \/ UNCHANGED vars

LEMMA EnvironmentSteps == TypeOK /\ Environment => TimerStep
<1>1. TypeOK /\ (Tick \/ Stall) => Elapse /\ faults' \in Nat
  BY TimerNumbers DEF TypeOK, Tick, Stall, Fault
<1> QED BY <1>1 DEF Environment, TimerStep, WorkerStep

LEMMA NextSteps == TypeOK /\ [Next]_vars => TimerStep
<1> SUFFICES ASSUME TypeOK, [Next]_vars PROVE TimerStep
  OBVIOUS
<1>1. ASSUME NEW w \in Workers, Work(w) \/ Crash(w) PROVE WorkerStep(w)
  BY <1>1 DEF Work, WorkerStep, ExecuteRecordTimer, TypeOK
<1>2. CASE Environment
  BY <1>2, EnvironmentSteps
<1> QED BY <1>1, <1>2 DEF Next, TimerStep

LEMMA StepTypeOK == TypeOK /\ TimerStep => TypeOK'
<1> SUFFICES ASSUME TypeOK, TimerStep PROVE TypeOK'
  OBVIOUS
<1>1. ASSUME NEW t \in Timers, NEW due \in 0..MaxDue, Schedule(t, due) PROVE TypeOK'
  BY <1>1, TimerNumbers DEF Schedule, Create, TypeOK, Statuses
<1>2. CASE Elapse /\ faults' \in Nat
  BY <1>2, TimerNumbers DEF Elapse, Past, TypeOK
<1>3. CASE UNCHANGED vars
  BY <1>3 DEF vars, TypeOK
<1> QED BY <1>1, <1>2, <1>3, ClientTypeOK, WorkTypeOK DEF TimerStep

\* The state keeps its types.
THEOREM TypeCorrect == Spec => []TypeOK
  BY InitTypeOK, NextSteps, StepTypeOK, PTL DEF Spec

-----------------------------------------------------------------------------
(* What a worker holds.                                                    *)

\* Between its clock reading and the end of its pass a worker reads rows as
\* scheduled or leased, claims them, and works through what it has claimed.
\* What it has claimed carries tokens up to the row's, and while it is about
\* to record a success the target has succeeded under this very claim.
HoldsOf(w) ==
  /\ stage[w] \notin {"claim", "singly"} => cand[w] = {}
  /\ stage[w] \in {"idle", "visit", "claim"} => batch[w] = {}
  /\ cand[w] \cap batch[w] = {}
  /\ \A t \in cand[w] : seen[w][t].status \in {"scheduled", "leased"}
  /\ \A t \in batch[w] : Held(w, t) <= token[t]
  /\ stage[w] = "finish" =>
       \A t \in Timers : IsFirst(w, t, batch[w]) => Held(w, t) \in succeeded[t]

\* Another worker's claim of a timer has another token.
Apart(v, w) == \A t \in batch[v] \cap batch[w] : Held(v, t) # Held(w, t)

HoldInv ==
  /\ \A w \in Workers : HoldsOf(w)
  /\ OneHolder

\* What w holds stays: its batch, and what it read of the timers it has in hand.
Keeps(w) ==
  /\ stage'[w] = stage[w] /\ batch'[w] = batch[w]
  /\ cand'[w] = cand[w] /\ seen'[w] = seen[w]

\* Tokens and the record of successes only grow.
Grows ==
  \A t \in Timers : token[t] <= token'[t] /\ succeeded[t] \subseteq succeeded'[t]

\* The order of a list has at most one first element.
LEMMA FirstUnique ==
  ASSUME TypeOK, NEW w \in Workers, NEW set, NEW t \in Timers, NEW u \in Timers,
         IsFirst(w, t, set), IsFirst(w, u, set)
  PROVE  t = u
<1>1. Rank[t] \in Nat /\ Rank[u] \in Nat
  BY TimerShape
<1>2. CASE t # u
  <2>1. Precedes(w, t, u) /\ Precedes(w, u, t)
    BY <1>2 DEF IsFirst
  <2> QED BY <1>1, <2>1 DEF Precedes
<1> QED BY <1>2

LEMMA KeepsHolds ==
  ASSUME TypeOK, TypeOK', NEW w \in Workers, HoldsOf(w), Keeps(w), Grows
  PROVE  HoldsOf(w)'
<1> USE DEF Keeps, HoldsOf, Held
<1>1. \A t \in batch[w] : Held(w, t)' <= token'[t]
  <2> SUFFICES ASSUME NEW t \in batch[w] PROVE seen[w][t].token + 1 <= token'[t]
    OBVIOUS
  <2>1. /\ seen[w][t].token \in Nat /\ token[t] \in Nat /\ token'[t] \in Nat
        /\ token[t] <= token'[t]
    BY DEF TypeOK, Grows
  <2> QED BY <2>1
<1>2. ASSUME stage[w] = "finish", NEW t \in Timers, IsFirst(w, t, batch[w])'
      PROVE  Held(w, t)' \in succeeded'[t]
  <2>1. IsFirst(w, t, batch[w])
    BY <1>2 DEF IsFirst, Precedes
  <2> QED BY <1>2, <2>1 DEF Grows
<1> QED BY <1>1, <1>2

LEMMA ClientKeeps ==
  ASSUME TypeOK, NEW c \in Clients, Act(c)
  PROVE  /\ \A w \in Workers : Keeps(w)
         /\ UNCHANGED <<token, succeeded>>
<1> USE TimerShape DEF TypeOK
<1>1. \A w \in Workers : w # c
  OBVIOUS
<1>2. ASSUME NEW set, Read(c, set)
      PROVE  \A w \in Workers : cand'[w] = cand[w] /\ seen'[w] = seen[w]
  BY <1>1, <1>2 DEF Read
<1>3. ASSUME EndTurn(c)
      PROVE  \A w \in Workers : cand'[w] = cand[w] /\ seen'[w] = seen[w]
  BY <1>1, <1>3 DEF EndTurn, Forget
<1>4. \A w \in Workers : cand'[w] = cand[w] /\ seen'[w] = seen[w]
  BY <1>2, <1>3 DEF Act, ListScheduled, ReadTimer, CancelRecordTimers, SupersedeTimer,
     RetryFailure, ResolveFailure
<1>5. UNCHANGED <<stage, batch, token, succeeded>>
  BY DEF Act, ListScheduled, ReadTimer, CancelRecordTimers, SupersedeTimer,
     RetryFailure, ResolveFailure, EndTurn
<1> QED BY <1>4, <1>5 DEF Keeps

LEMMA OthersKeep ==
  ASSUME TypeOK, NEW w \in Workers, WorkerStep(w), NEW v \in Workers, v # w
  PROVE  Keeps(v)
<1> USE DEF TypeOK, Keeps
<1>1. CASE BeginPass(w) \/ EndPass(w)
  BY <1>1 DEF BeginPass, EndPass
<1>2. ASSUME NEW x \in Workspaces, NEW failed \in BOOLEAN, ListCandidates(w, x, failed)
      PROVE  Keeps(v)
  BY <1>2 DEF ListCandidates, Read
<1>3. ASSUME NEW result \in Commits, ClaimBatch(w, result) PROVE Keeps(v)
  BY <1>3 DEF ClaimBatch
<1>4. ASSUME NEW result \in Commits, NEW t \in Timers, ClaimSingly(w, t, result)
      PROVE  Keeps(v)
  BY <1>4 DEF ClaimSingly, Forget
<1>5. ASSUME NEW t \in Timers, NEW ok \in BOOLEAN, Returns(w, t, ok)
      PROVE  Keeps(v)
  BY <1>5 DEF Returns
<1>6. ASSUME NEW result \in Commits, NEW t \in Timers,
             FinishRecordTimer(w, t, result) \/ FailRecordTimer(w, t, result)
      PROVE  Keeps(v)
  BY <1>6 DEF FinishRecordTimer, FailRecordTimer, Drop, Forget
<1>7. CASE Crash(w)
  BY <1>7 DEF Crash, Forget
<1> HIDE DEF TypeOK, Keeps
<1> QED BY <1>1, <1>2, <1>3, <1>4, <1>5, <1>6, <1>7 DEF WorkerStep, Handle

\* Only Claim changes tokens; only the end of a target notes successes.
LEMMA WorkerGrows ==
  ASSUME TypeOK, NEW w \in Workers, WorkerStep(w)
  PROVE  Grows
<1> USE DEF TypeOK, Grows
<1>1. ASSUME NEW set, Claim(w, set), UNCHANGED succeeded PROVE Grows
  BY <1>1 DEF Claim
<1>2. ASSUME UNCHANGED <<token, succeeded>> PROVE Grows
  BY <1>2
<1>3. ASSUME NEW t \in Timers, NEW ok \in BOOLEAN, Returns(w, t, ok) PROVE Grows
  BY <1>3 DEF Returns
<1>4. ASSUME NEW result \in Commits, ClaimBatch(w, result) PROVE Grows
  BY <1>1, <1>2, <1>4 DEF ClaimBatch
<1>5. ASSUME NEW result \in Commits, NEW t \in Timers, ClaimSingly(w, t, result)
      PROVE  Grows
  BY <1>1, <1>2, <1>5 DEF ClaimSingly
<1>6. ASSUME NEW result \in Commits, NEW t \in Timers,
             FinishRecordTimer(w, t, result) \/ FailRecordTimer(w, t, result)
      PROVE  Grows
  BY <1>2, <1>6 DEF FinishRecordTimer, FailRecordTimer
<1>7. ASSUME BeginPass(w) \/ EndPass(w) \/ Crash(w) PROVE Grows
  BY <1>2, <1>7 DEF BeginPass, EndPass, Crash
<1>8. ASSUME NEW x \in Workspaces, NEW failed \in BOOLEAN, ListCandidates(w, x, failed)
      PROVE  Grows
  BY <1>2, <1>8 DEF ListCandidates
<1> HIDE DEF TypeOK, Grows
<1> QED BY <1>3, <1>4, <1>5, <1>6, <1>7, <1>8 DEF WorkerStep, Handle

\* A claim raises the token of a row to the one the claimant holds it under.
LEMMA ClaimRaises ==
  ASSUME TypeOK, NEW w \in Workers, NEW set, Claim(w, set),
         NEW t \in set, t \in Timers, Unchanged(w, t)
  PROVE  token'[t] = Held(w, t)
  BY DEF TypeOK, Claim, Unchanged, Row, Held

\* A worker that gives some of its leases up keeps the others.
LEMMA DropHolds ==
  ASSUME TypeOK, TypeOK', Grows, NEW w \in Workers, HoldsOf(w), NEW set \in SUBSET Timers,
         stage[w] \in {"finish", "fail"}, Drop(w, set), UNCHANGED cand
  PROVE  HoldsOf(w)'
<1> USE DEF TypeOK, HoldsOf
<1>1. /\ batch'[w] = batch[w] \ set
      /\ stage'[w] = IF batch[w] \subseteq set THEN "visit" ELSE "run"
      /\ \A t \in Timers \ set : seen'[w][t] = seen[w][t]
  BY DEF Drop, Forget
<1>2. \A t \in batch'[w] : Held(w, t)' = Held(w, t)
  BY <1>1 DEF Held
<1>3. ASSUME NEW t \in batch'[w] PROVE Held(w, t)' <= token'[t]
  <2>1. Held(w, t) <= token[t] /\ token[t] <= token'[t] /\ t \in Timers
    BY <1>1 DEF Grows
  <2>2. Held(w, t) \in Nat /\ token[t] \in Nat /\ token'[t] \in Nat
    BY <2>1 DEF Held
  <2> QED BY <1>2, <2>1, <2>2
<1> QED BY <1>1, <1>3

LEMMA WorkerHolds ==
  ASSUME TypeOK, TypeOK', NEW w \in Workers, HoldsOf(w), WorkerStep(w)
  PROVE  HoldsOf(w)'
<1>1. CASE BeginPass(w) \/ EndPass(w)
  BY <1>1 DEF BeginPass, EndPass, TypeOK, HoldsOf, Held
<1>2. ASSUME NEW x \in Workspaces, NEW failed \in BOOLEAN, ListCandidates(w, x, failed)
      PROVE  HoldsOf(w)'
  <2> DEFINE found == Candidates(x, age[w], quota[w][x])
  <2>1. \A t \in found : t \in Timers /\ status[t] \in {"scheduled", "leased"}
    BY DEF Candidates, Page, Due, Expired
  <2>2. CASE failed \/ found = {}
    BY <1>2, <2>2 DEF ListCandidates, TypeOK, HoldsOf, Held
  <2>3. CASE ~(failed \/ found = {})
    <3>1. /\ stage'[w] = "claim" /\ cand'[w] = found /\ batch'[w] = {}
          /\ \A t \in found : seen'[w][t] = Row(t)
      BY <1>2, <2>1, <2>3 DEF ListCandidates, Read, TypeOK, HoldsOf
    <3> HIDE DEF found
    <3>2. \A t \in Timers : Row(t).status = status[t]
      BY DEF Row
    <3>3. \A t \in found : seen'[w][t].status \in {"scheduled", "leased"}
      BY <2>1, <3>1, <3>2
    <3> QED BY <3>1, <3>3 DEF HoldsOf
  <2> QED BY <2>2, <2>3
<1>3. ASSUME NEW result \in Commits, ClaimBatch(w, result) PROVE HoldsOf(w)'
  <2> USE DEF TypeOK, HoldsOf
  <2>1. CASE result = "done"
    <3>1. /\ batch'[w] = cand[w] /\ cand'[w] = {} /\ stage'[w] = "run"
          /\ seen' = seen /\ Claim(w, cand[w]) /\ cand[w] \subseteq Timers
          /\ \A t \in cand[w] : Unchanged(w, t)
      BY <1>3, <2>1 DEF ClaimBatch, ClaimConditions
    <3>2. \A t \in cand[w] : token'[t] = Held(w, t) /\ Held(w, t)' = Held(w, t)
      BY <3>1, ClaimRaises DEF Held
    <3>3. \A t \in cand[w] : Held(w, t) \in Nat
      BY <3>1 DEF Held
    <3> QED BY <3>1, <3>2, <3>3
  <2>2. CASE result # "done"
    <3>1. batch' = batch /\ cand' = cand /\ stage'[w] = "singly" /\ seen' = seen /\ batch[w] = {}
      BY <1>3, <2>2 DEF ClaimBatch
    <3> QED BY <3>1
  <2> QED BY <2>1, <2>2
<1>4. ASSUME NEW result \in Commits, NEW t \in Timers, ClaimSingly(w, t, result)
      PROVE  HoldsOf(w)'
  <2> USE DEF TypeOK, HoldsOf
  <2>1. /\ cand'[w] = cand[w] \ {t} /\ t \in cand[w] /\ stage[w] = "singly"
        /\ stage'[w] \in {"singly", "visit", "run"}
        /\ \A u \in Timers \ {t} : seen'[w][u] = seen[w][u]
        /\ stage'[w] = "visit" => batch'[w] = {}
        /\ stage'[w] # "singly" => cand'[w] = {}
    BY <1>4 DEF ClaimSingly, Forget, IsFirst
  <2>2. \A u \in batch[w] : u # t /\ Held(w, u)' = Held(w, u)
    BY <2>1 DEF Held
  <2>3. ASSUME NEW u \in batch[w] PROVE Held(w, u)' <= token'[u]
    <3>1. Held(w, u) <= token[u] /\ token[u] <= token'[u] /\ u \in Timers
      <4> WorkerStep(w)
        BY <1>4 DEF WorkerStep, Handle
      <4> QED BY WorkerGrows DEF Grows
    <3>2. Held(w, u) \in Nat /\ token[u] \in Nat /\ token'[u] \in Nat
      BY <3>1 DEF Held
    <3> QED BY <2>2, <3>1, <3>2
  <2>4. CASE result = "done"
    <3>1. batch'[w] = batch[w] \cup {t} /\ seen' = seen /\ Claim(w, {t}) /\ Unchanged(w, t)
      BY <1>4, <2>4 DEF ClaimSingly, ClaimConditions
    <3>2. token'[t] = Held(w, t) /\ Held(w, t)' = Held(w, t) /\ Held(w, t) \in Nat
      BY <3>1, ClaimRaises DEF Held
    <3> QED BY <2>1, <2>3, <3>1, <3>2
  <2>5. CASE result # "done"
    <3>1. batch'[w] = batch[w]
      BY <1>4, <2>5 DEF ClaimSingly
    <3> QED BY <2>1, <2>3, <3>1
  <2> QED BY <2>4, <2>5
<1>5. ASSUME NEW t \in Timers, NEW ok \in BOOLEAN, Returns(w, t, ok)
      PROVE  HoldsOf(w)'
  <2>1. /\ UNCHANGED <<cand, batch, seen, token>>
        /\ stage[w] = "run" /\ stage'[w] = IF ok THEN "finish" ELSE "fail"
        /\ IsFirst(w, t, batch[w])
        /\ ok => Held(w, t) \in succeeded'[t]
    BY <1>5 DEF Returns, Running, TypeOK
  <2>2. ASSUME ok, NEW u \in Timers, IsFirst(w, u, batch[w])
        PROVE  u = t
    BY <2>1, <2>2, FirstUnique
  <2>3. \A u \in Timers : /\ Held(w, u)' = Held(w, u)
                          /\ IsFirst(w, u, batch[w])' <=> IsFirst(w, u, batch[w])
    BY <2>1 DEF Held, IsFirst, Precedes
  <2>4. batch[w] \subseteq Timers
    BY DEF TypeOK
  <2> QED BY <2>1, <2>2, <2>3, <2>4 DEF HoldsOf
<1>6. ASSUME NEW result \in Commits, NEW t \in Timers,
             FinishRecordTimer(w, t, result) \/ FailRecordTimer(w, t, result)
      PROVE  HoldsOf(w)'
  <2>1. WorkerStep(w)
    BY <1>6 DEF WorkerStep, Handle
  <2>2. {t} \in SUBSET Timers /\ batch[w] \in SUBSET Timers
    BY DEF TypeOK
  <2> QED BY <1>6, <2>1, <2>2, WorkerGrows, DropHolds DEF FinishRecordTimer, FailRecordTimer
<1>7. CASE Crash(w)
  BY <1>7 DEF Crash, TypeOK, HoldsOf
<1> QED BY <1>1, <1>2, <1>3, <1>4, <1>5, <1>6, <1>7 DEF WorkerStep, Handle

\* The timers a worker takes into its batch are those it claims with this step;
\* of the others it holds, what it read stays.
LEMMA BatchGrows ==
  ASSUME TypeOK, NEW w \in Workers, HoldsOf(w), WorkerStep(w), NEW t \in batch'[w]
  PROVE  /\ t \in Timers /\ Held(w, t)' = Held(w, t)
         /\ t \in batch[w] \/ (token[t] < Held(w, t) /\ Held(w, t) = token'[t])
<1> USE DEF TypeOK
<1>1. CASE BeginPass(w) \/ EndPass(w) \/ \E u \in Timers, ok \in BOOLEAN : Returns(w, u, ok)
  BY <1>1 DEF BeginPass, EndPass, Returns, Held
<1>2. ASSUME NEW x \in Workspaces, NEW failed \in BOOLEAN, ListCandidates(w, x, failed)
      PROVE  FALSE
  BY <1>2 DEF ListCandidates, HoldsOf
<1>3. ASSUME NEW set, Claim(w, set), t \in set, t \in Timers, Unchanged(w, t), seen' = seen
      PROVE  token[t] < Held(w, t) /\ Held(w, t) = token'[t] /\ Held(w, t)' = Held(w, t)
  <2>1. token'[t] = Held(w, t) /\ token'[t] = token[t] + 1 /\ token[t] \in Nat
    BY <1>3, ClaimRaises DEF Claim
  <2> QED BY <1>3, <2>1 DEF Held
<1>4. ASSUME NEW result \in Commits, ClaimBatch(w, result)
      PROVE  /\ t \in Timers /\ Held(w, t)' = Held(w, t)
             /\ token[t] < Held(w, t) /\ Held(w, t) = token'[t]
  <2>1. /\ t \in cand[w] /\ t \in Timers /\ Claim(w, cand[w]) /\ Unchanged(w, t)
        /\ seen' = seen
    BY <1>4 DEF ClaimBatch, ClaimConditions, HoldsOf
  <2> QED BY <1>3, <2>1
<1>5. ASSUME NEW result \in Commits, NEW u \in Timers, ClaimSingly(w, u, result)
      PROVE  /\ t \in Timers /\ Held(w, t)' = Held(w, t)
             /\ t \in batch[w] \/ (token[t] < Held(w, t) /\ Held(w, t) = token'[t])
  <2>1. t \in Timers /\ u \in cand[w]
    BY <1>5 DEF ClaimSingly, IsFirst
  <2>2. CASE t \in batch[w]
    <3>1. t # u /\ (seen' = seen \/ Forget(w, {u}))
      BY <1>5, <2>1, <2>2 DEF ClaimSingly, HoldsOf
    <3>2. seen'[w][t] = seen[w][t]
      BY <2>1, <3>1 DEF Forget
    <3> QED BY <2>1, <2>2, <3>2 DEF Held
  <2>3. CASE t \notin batch[w]
    <3>1. t = u /\ Claim(w, {t}) /\ Unchanged(w, t) /\ seen' = seen
      BY <1>5, <2>3 DEF ClaimSingly, ClaimConditions
    <3> QED BY <1>3, <2>1, <3>1
  <2> QED BY <2>2, <2>3
<1>6. ASSUME NEW result \in Commits, NEW u \in Timers,
             FinishRecordTimer(w, u, result) \/ FailRecordTimer(w, u, result)
      PROVE  t \in Timers /\ t \in batch[w] /\ Held(w, t)' = Held(w, t)
  BY <1>6 DEF FinishRecordTimer, FailRecordTimer, Drop, Forget, Held
<1>7. ASSUME Crash(w) PROVE FALSE
  BY <1>7 DEF Crash
<1> HIDE DEF TypeOK
<1> QED BY <1>1, <1>2, <1>4, <1>5, <1>6, <1>7 DEF WorkerStep, Handle

LEMMA InitHoldInv == Init => HoldInv
  BY DEF Init, HoldInv, HoldsOf, OneHolder

LEMMA StepHoldInv ==
  ASSUME TypeOK, HoldInv, TimerStep
  PROVE  HoldInv'
<1> USE StepTypeOK
<1>1. ASSUME \A w \in Workers : Keeps(w), UNCHANGED <<token, succeeded>>
      PROVE  HoldInv'
  <2>1. Grows
    BY <1>1 DEF Grows, TypeOK
  <2>2. \A w \in Workers : HoldsOf(w)'
    BY <1>1, <2>1, KeepsHolds DEF HoldInv
  <2>3. OneHolder'
    BY <1>1 DEF HoldInv, OneHolder, Keeps, Held
  <2> QED BY <2>2, <2>3 DEF HoldInv
<1>2. ASSUME NEW w \in Workers, WorkerStep(w) PROVE HoldInv'
  <2>1. Grows
    BY <1>2, WorkerGrows
  <2>2. \A v \in Workers \ {w} : Keeps(v)
    BY <1>2, OthersKeep
  <2>3. \A v \in Workers : HoldsOf(v)'
    BY <1>2, <2>1, <2>2, KeepsHolds, WorkerHolds DEF HoldInv
  <2>4. ASSUME NEW v \in Workers \ {w}, NEW t \in batch'[v], t \in batch'[w]
        PROVE  Held(v, t)' # Held(w, t)'
    <3>1. t \in batch[v] /\ Held(v, t)' = Held(v, t) /\ Held(v, t) <= token[t]
      BY <2>2, <2>4 DEF Keeps, Held, HoldInv, HoldsOf
    <3>2. /\ t \in Timers /\ Held(w, t)' = Held(w, t)
          /\ t \in batch[w] \/ token[t] < Held(w, t)
      BY <1>2, <2>4, BatchGrows DEF HoldInv
    <3>3. Held(v, t) \in Nat /\ Held(w, t) \in Nat /\ token[t] \in Nat
      BY <3>2 DEF Held, TypeOK
    <3> QED BY <3>1, <3>2, <3>3 DEF HoldInv, OneHolder
  <2>5. ASSUME NEW v \in Workers \ {w}, NEW u \in Workers \ {w, v}, NEW t \in batch'[v],
               t \in batch'[u]
        PROVE  Held(v, t)' # Held(u, t)'
    BY <2>2, <2>5 DEF HoldInv, OneHolder, Keeps, Held
  <2>6. OneHolder'
    BY <2>4, <2>5 DEF OneHolder
  <2> QED BY <2>3, <2>6 DEF HoldInv
<1>3. ASSUME \/ \E t \in Timers, due \in 0..MaxDue : Schedule(t, due)
             \/ Elapse \/ UNCHANGED vars
      PROVE  HoldInv'
  <2>1. \A w \in Workers : Keeps(w)
    BY <1>3 DEF Schedule, Elapse, vars, Keeps
  <2>2. UNCHANGED <<token, succeeded>>
    BY <1>3 DEF Schedule, Elapse, vars
  <2> QED BY <1>1, <2>1, <2>2
<1>4. ASSUME NEW c \in Clients, Act(c) PROVE HoldInv'
  BY <1>1, <1>4, ClientKeeps
<1> QED BY <1>2, <1>3, <1>4 DEF TimerStep

\* Two workers never work on a timer under the same claim, for any number of
\* workers, timers, crashes, stalls and lost replies (PrepareClaim).
THEOREM OneHolderCorrect == Spec => []OneHolder
<1>1. HoldInv => OneHolder
  BY DEF HoldInv
<1> QED BY <1>1, InitTypeOK, NextSteps, StepTypeOK, InitHoldInv, StepHoldInv, PTL DEF Spec

-----------------------------------------------------------------------------
(* What may become of a row.                                               *)

SameRow(t) ==
  status'[t] = status[t] /\ token'[t] = token[t] /\ attempt'[t] = attempt[t]

\* The row changes as a client may change it.
ClientChange(t) ==
  /\ token'[t] = token[t]
  /\ \/ /\ <<status[t], status'[t]>> \in
             {<<"none", "scheduled">>, <<"scheduled", "cancelled">>,
              <<"scheduled", "superseded">>, <<"failed", "cancelled">>}
        /\ attempt'[t] = attempt[t]
     \/ status[t] = "failed" /\ status'[t] = "scheduled" /\ attempt'[t] = 0

\* A row that waits, or whose lease ran out, is claimed.
RowClaimed(t) ==
  /\ status[t] \in {"scheduled", "leased"} /\ status'[t] = "leased"
  /\ token'[t] = token[t] + 1 /\ attempt'[t] = attempt[t] + 1

\* The result of a claim: fired after a success under this claim, failed when
\* the attempts are used up, else scheduled again.
RowSettled(t) ==
  /\ status[t] = "leased" /\ token'[t] = token[t] /\ attempt'[t] = attempt[t]
  /\ \/ status'[t] = "fired" /\ token[t] \in succeeded[t]
     \/ status'[t] = "failed" /\ attempt[t] >= MaxAttempts
     \/ status'[t] = "scheduled" /\ ~(attempt[t] >= MaxAttempts)

RowStep(t) == SameRow(t) \/ ClientChange(t) \/ RowClaimed(t) \/ RowSettled(t)

LEMMA ClientRows ==
  ASSUME TypeOK, NEW c \in Clients, Act(c), NEW t \in Timers
  PROVE  SameRow(t) \/ ClientChange(t)
<1> USE DEF TypeOK
<1>1. ASSUME UNCHANGED <<status, token, attempt>> PROVE SameRow(t)
  BY <1>1 DEF SameRow
<1>2. ASSUME NEW u \in Timers, NEW s, ReadAs(c, s), u \in cand[c], Unchanged(c, u)
      PROVE  status[u] = s
  BY <1>2 DEF ReadAs, Unchanged, Row
<1>3. ASSUME NEW g \in Groups, ListScheduled(c, g) PROVE SameRow(t)
  BY <1>1, <1>3 DEF ListScheduled
<1>4. ASSUME NEW u \in Timers, ReadTimer(c, u) PROVE SameRow(t)
  BY <1>1, <1>4 DEF ReadTimer
<1>5. ASSUME CancelRecordTimers(c) PROVE SameRow(t) \/ ClientChange(t)
  <2>1. UNCHANGED <<token, attempt>>
    BY <1>5 DEF CancelRecordTimers
  <2>2. CASE status'[t] = status[t]
    BY <2>1, <2>2 DEF SameRow
  <2>3. CASE status'[t] # status[t]
    <3>1. t \in cand[c] /\ Unchanged(c, t) /\ status'[t] = "cancelled" /\ ReadAs(c, "scheduled")
      BY <1>5, <2>3 DEF CancelRecordTimers
    <3> QED BY <1>2, <2>1, <3>1 DEF ClientChange
  <2> QED BY <2>2, <2>3
<1>6. ASSUME NEW u \in Timers, NEW v \in Timers, NEW due \in 0..MaxDue,
             SupersedeTimer(c, u, v, due)
      PROVE  SameRow(t) \/ ClientChange(t)
  <2>1. UNCHANGED <<token, attempt>>
    BY <1>6 DEF SupersedeTimer
  <2>2. CASE UNCHANGED status
    BY <2>1, <2>2 DEF SameRow
  <2>3. CASE ~UNCHANGED status
    <3>1. /\ Unchanged(c, u) /\ ReadAs(c, "scheduled") /\ u \in cand[c]
          /\ status' = [status EXCEPT ![u] = "superseded", ![v] = "scheduled"]
          /\ status[v] = "none"
      BY <1>6, <2>3 DEF SupersedeTimer
    <3>2. status[u] = "scheduled"
      BY <1>2, <3>1
    <3>3. /\ t # u /\ t # v => status'[t] = status[t]
          /\ t = u => status'[t] = "superseded"
          /\ t = v => status'[t] = "scheduled"
      BY <3>1, <3>2
    <3> QED BY <2>1, <3>1, <3>2, <3>3 DEF SameRow, ClientChange
  <2> QED BY <2>2, <2>3
<1>7. ASSUME NEW u \in Timers, RetryFailure(c, u) PROVE SameRow(t) \/ ClientChange(t)
  <2>1. CASE Unchanged(c, u)
    <3>1. status[u] = "failed"
      BY <1>2, <1>7, <2>1 DEF RetryFailure
    <3>2. /\ token' = token /\ status' = [status EXCEPT ![u] = "scheduled"]
          /\ attempt' = [attempt EXCEPT ![u] = 0]
      BY <1>7, <2>1 DEF RetryFailure
    <3> QED BY <3>1, <3>2 DEF SameRow, ClientChange
  <2>2. CASE ~Unchanged(c, u)
    BY <1>1, <1>7, <2>2 DEF RetryFailure
  <2> QED BY <2>1, <2>2
<1>8. ASSUME NEW u \in Timers, ResolveFailure(c, u) PROVE SameRow(t) \/ ClientChange(t)
  <2>1. CASE Unchanged(c, u)
    <3>1. status[u] = "failed"
      BY <1>2, <1>8, <2>1 DEF ResolveFailure
    <3>2. UNCHANGED <<token, attempt>> /\ status' = [status EXCEPT ![u] = "cancelled"]
      BY <1>8, <2>1 DEF ResolveFailure
    <3> QED BY <3>1, <3>2 DEF SameRow, ClientChange
  <2>2. CASE ~Unchanged(c, u)
    BY <1>1, <1>8, <2>2 DEF ResolveFailure
  <2> QED BY <2>1, <2>2
<1> HIDE DEF TypeOK
<1> QED BY <1>3, <1>4, <1>5, <1>6, <1>7, <1>8 DEF Act

LEMMA WorkerRows ==
  ASSUME TypeOK, NEW w \in Workers, HoldsOf(w), WorkerStep(w), NEW t \in Timers
  PROVE  SameRow(t) \/ RowClaimed(t) \/ RowSettled(t)
<1> USE DEF TypeOK
<1>1. ASSUME UNCHANGED <<status, token, attempt>> PROVE SameRow(t)
  BY <1>1 DEF SameRow
<1>2. ASSUME NEW set \in SUBSET cand[w], Claim(w, set), \A u \in set : Unchanged(w, u)
      PROVE  SameRow(t) \/ RowClaimed(t)
  <2>1. CASE t \in set
    <3>1. seen[w][t].status \in {"scheduled", "leased"} /\ Row(t) = seen[w][t]
      BY <1>2, <2>1 DEF HoldsOf, Unchanged
    <3>2. Row(t).status = status[t]
      BY DEF Row
    <3> QED BY <3>2, <1>2, <2>1, <3>1 DEF Claim, RowClaimed
  <2>2. CASE t \notin set
    BY <1>2, <2>2 DEF Claim, SameRow
  <2> QED BY <2>1, <2>2
<1>3. ASSUME NEW result \in Commits, ClaimBatch(w, result)
      PROVE  SameRow(t) \/ RowClaimed(t)
  BY <1>1, <1>2, <1>3 DEF ClaimBatch, ClaimConditions
<1>4. ASSUME NEW result \in Commits, NEW u \in Timers, ClaimSingly(w, u, result)
      PROVE  SameRow(t) \/ RowClaimed(t)
  <2>1. u \in cand[w]
    BY <1>4 DEF ClaimSingly, IsFirst
  <2>2. {u} \in SUBSET cand[w]
    BY <2>1
  <2>3. \/ UNCHANGED <<status, token, attempt>>
        \/ Claim(w, {u}) /\ Unchanged(w, u)
    BY <1>4 DEF ClaimSingly, ClaimConditions
  <2> QED BY <1>1, <1>2, <2>2, <2>3
<1>5. ASSUME NEW result \in Commits, NEW u \in Timers, FinishRecordTimer(w, u, result)
      PROVE  SameRow(t) \/ RowSettled(t)
  <2>1. CASE result = "undone"
    BY <1>1, <1>5, <2>1 DEF FinishRecordTimer
  <2>2. CASE result # "undone"
    <3>1. /\ status' = [status EXCEPT ![u] = "fired"] /\ UNCHANGED <<token, attempt>>
          /\ status[u] = "leased" /\ token[u] = Held(w, u)
          /\ stage[w] = "finish" /\ IsFirst(w, u, batch[w])
      BY <1>5, <2>2 DEF FinishRecordTimer, LeaseConditions
    <3>2. token[u] \in succeeded[u]
      BY <3>1 DEF HoldsOf
    <3> QED BY <3>1, <3>2 DEF SameRow, RowSettled
  <2> QED BY <2>1, <2>2
<1>6. ASSUME NEW result \in Commits, NEW u \in Timers, FailRecordTimer(w, u, result)
      PROVE  SameRow(t) \/ RowSettled(t)
  <2>1. CASE result = "undone"
    BY <1>1, <1>6, <2>1 DEF FailRecordTimer
  <2>2. CASE result # "undone"
    <3>1. /\ status' = [status EXCEPT ![u] = IF attempt[u] >= MaxAttempts THEN "failed"
                                             ELSE "scheduled"]
          /\ UNCHANGED <<token, attempt>> /\ status[u] = "leased"
      BY <1>6, <2>2 DEF FailRecordTimer, LeaseConditions, Exhausted
    <3> QED BY <3>1 DEF SameRow, RowSettled
  <2> QED BY <2>1, <2>2
<1>7. ASSUME \/ BeginPass(w) \/ EndPass(w) \/ Crash(w)
             \/ \E u \in Timers, ok \in BOOLEAN : Returns(w, u, ok)
      PROVE  SameRow(t)
  BY <1>1, <1>7 DEF BeginPass, EndPass, Crash, Returns
<1>8. ASSUME NEW x \in Workspaces, NEW failed \in BOOLEAN, ListCandidates(w, x, failed)
      PROVE  SameRow(t)
  BY <1>1, <1>8 DEF ListCandidates
<1> HIDE DEF TypeOK
<1> QED BY <1>3, <1>4, <1>5, <1>6, <1>7, <1>8 DEF WorkerStep, Handle

LEMMA StepRows ==
  ASSUME TypeOK, HoldInv, TimerStep, NEW t \in Timers
  PROVE  RowStep(t)
<1>1. ASSUME NEW u \in Timers, NEW due \in 0..MaxDue, Schedule(u, due)
      PROVE  SameRow(t) \/ ClientChange(t)
  BY <1>1 DEF Schedule, Create, TypeOK, SameRow, ClientChange
<1>2. CASE Elapse \/ UNCHANGED vars
  BY <1>2 DEF Elapse, vars, RowStep, SameRow
<1> QED BY <1>1, <1>2, ClientRows, WorkerRows DEF TimerStep, RowStep, HoldInv

LEMMA StepGrows ==
  ASSUME TypeOK, TimerStep
  PROVE  Grows
<1>1. ASSUME UNCHANGED <<token, succeeded>> PROVE Grows
  BY <1>1 DEF Grows, TypeOK
<1>2. CASE \/ \E t \in Timers, due \in 0..MaxDue : Schedule(t, due)
           \/ Elapse \/ UNCHANGED vars
  BY <1>1, <1>2 DEF Schedule, Elapse, vars
<1> QED BY <1>1, <1>2, ClientKeeps, WorkerGrows DEF TimerStep

LEMMA StepFired ==
  ASSUME TypeOK, HoldInv, FiredWasExecuted, TimerStep
  PROVE  FiredWasExecuted'
<1> SUFFICES ASSUME NEW t \in Timers, status'[t] = "fired" PROVE token'[t] \in succeeded'[t]
  BY DEF FiredWasExecuted
<1>1. RowStep(t) /\ succeeded[t] \subseteq succeeded'[t]
  BY StepRows, StepGrows DEF Grows
<1> QED BY <1>1 DEF RowStep, SameRow, ClientChange, RowClaimed, RowSettled, FiredWasExecuted

\* A timer has fired only if its target ended without error under the very
\* claim that recorded it, however leases ran out and commits went unheard
\* (FinishRecordTimer).
THEOREM FiredWasExecutedCorrect == Spec => []FiredWasExecuted
<1>1. Init => FiredWasExecuted
  BY DEF Init, FiredWasExecuted
<1> QED BY <1>1, InitTypeOK, NextSteps, StepTypeOK, InitHoldInv, StepHoldInv, StepFired, PTL
        DEF Spec

\* A timer that does not exist yet has made no attempt.
NewUntried == \A t \in Timers : status[t] = "none" => attempt[t] = 0

AttemptInv == NewUntried /\ FailedExhausted

LEMMA StepAttempts ==
  ASSUME TypeOK, HoldInv, AttemptInv, TimerStep
  PROVE  AttemptInv'
<1> USE DEF AttemptInv, NewUntried, FailedExhausted
<1> SUFFICES ASSUME NEW t \in Timers
             PROVE  /\ status'[t] = "none" => attempt'[t] = 0
                    /\ status'[t] = "failed" => attempt'[t] >= MaxAttempts
                    /\ status'[t] = "scheduled" => attempt'[t] < MaxAttempts
  OBVIOUS
<1>1. RowStep(t)
  BY StepRows
<1>2. attempt[t] \in Nat /\ MaxAttempts \in Nat /\ MaxAttempts > 0
  BY TimerNumbers DEF TypeOK
<1>3. CASE SameRow(t)
  BY <1>3 DEF SameRow
<1>4. CASE ClientChange(t)
  BY <1>2, <1>4 DEF ClientChange
<1>5. CASE RowClaimed(t)
  BY <1>5 DEF RowClaimed
<1>6. CASE RowSettled(t)
  BY <1>2, <1>6 DEF RowSettled
<1> QED BY <1>1, <1>3, <1>4, <1>5, <1>6 DEF RowStep

\* A timer fails only when its attempts are used up, and one that waits for
\* its first or a further attempt has attempts left, for any retry policy
\* (FailRecordTimer, transitionRecordTimerFailure).
THEOREM FailedExhaustedCorrect == Spec => []FailedExhausted
<1>1. Init => AttemptInv
  BY TimerNumbers DEF Init, AttemptInv, NewUntried, FailedExhausted
<1>2. AttemptInv => FailedExhausted
  BY DEF AttemptInv
<1> QED BY <1>1, <1>2, InitTypeOK, NextSteps, StepTypeOK, InitHoldInv, StepHoldInv,
           StepAttempts, PTL DEF Spec

\* Nobody revives a timer that fired or was cancelled or superseded, and a
\* failed one only an operator moves (the conditions of all updates).
THEOREM EndedStaysCorrect == Spec => EndedStays
<1> DEFINE Stays ==
      \A t \in Timers :
        /\ status[t] \in {"fired", "cancelled", "superseded"} => status'[t] = status[t]
        /\ status[t] = "failed" => status'[t] \in {"failed", "scheduled", "cancelled"}
<1>1. ASSUME TypeOK, HoldInv, TimerStep PROVE Stays
  <2> SUFFICES ASSUME NEW t \in Timers
               PROVE /\ status[t] \in {"fired", "cancelled", "superseded"}
                          => status'[t] = status[t]
                     /\ status[t] = "failed"
                          => status'[t] \in {"failed", "scheduled", "cancelled"}
    OBVIOUS
  <2>1. RowStep(t)
    BY <1>1, StepRows
  <2> QED BY <2>1 DEF RowStep, SameRow, ClientChange, RowClaimed, RowSettled
<1>2. TypeOK /\ HoldInv /\ [Next]_vars => [Stays]_vars
  BY <1>1, NextSteps
<1> QED BY <1>2, InitTypeOK, NextSteps, StepTypeOK, InitHoldInv, StepHoldInv, PTL
        DEF Spec, EndedStays
=============================================================================
