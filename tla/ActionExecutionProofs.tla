----------------------- MODULE ActionExecutionProofs -----------------------
(***************************************************************************)
(* Proofs about ActionExecution, for any number of keys, callers and       *)
(* cleaners, any lease and any number of faults and interventions, and for *)
(* any number of lifecycle jobs, which delete receipts they selected       *)
(* earlier without looking again: stray counts how often that was wrong.   *)
(***************************************************************************)
EXTENDS ActionExecution, FiniteSetTheorems, TLAPS

USE DEF rowVars, history, callerVars

-----------------------------------------------------------------------------
(* Types.                                                                  *)

LEMMA InitTypeOK == Init => TypeOK
  BY ShapeAssumption
  DEF Init, TypeOK, NoHold, ReceiptStatuses, Stages, Answers, Fingerprints

LEMMA BeginTypeOK ==
  ASSUME TypeOK, NEW c \in Callers, Begin(c)
  PROVE  TypeOK'
<1> USE ShapeAssumption, NumberAssumption
    DEF TypeOK, ReceiptStatuses, Stages, Fingerprints, Goto, Fault
<1> KeyOf[c] \in Keys /\ FpOf[c] \in Fingerprints
  OBVIOUS
<1>1. ASSUME NEW left \in 0..LeaseTTL, NEW ack \in BOOLEAN, InsertExecution(c, left, ack)
      PROVE  TypeOK'
  BY <1>1 DEF InsertExecution, Claim
<1>2. CASE InsertRefused(c)
  BY <1>2 DEF InsertRefused
<1>3. ASSUME NEW now \in BOOLEAN, LookUpExecution(c, now)
      PROVE  TypeOK'
  <2>1. answer' \in [Callers -> Answers]
    BY <1>3 DEF LookUpExecution, Replayed, Answers
  <2> QED BY <1>3, <2>1 DEF LookUpExecution
<1>4. ASSUME NEW left \in 0..LeaseTTL, ReclaimExecution(c, left)
      PROVE  TypeOK'
  <2>1. CASE Reclaimable(c)
    <3>1. /\ Claim(c, token[KeyOf[c]] + 1, left) /\ pc' = [pc EXCEPT ![c] = "readback"]
          /\ faults' \in Nat
          /\ UNCHANGED <<fp, window, history, held, answer, picked, interventions, purges>>
      BY <1>4, <2>1 DEF ReclaimExecution
    <3>2. left \in Nat /\ token[KeyOf[c]] + 1 \in Nat
      OBVIOUS
    <3> QED BY <3>1, <3>2 DEF Claim
  <2>2. CASE ~Reclaimable(c)
    BY <1>4, <2>2 DEF ReclaimExecution
  <2> QED BY <2>1, <2>2
<1>5. CASE ReadBackExecution(c)
  <2>1. /\ held' \in [Callers -> [owner : Callers \cup {NoOwner}, token : Nat]]
        /\ pc' \in [Callers -> Stages]
    <3>1. pc' = [pc EXCEPT ![c] = "idle"] \/ pc' = [pc EXCEPT ![c] = "run"]
      BY <1>5 DEF ReadBackExecution
    <3>2. \/ held' = held
          \/ held' = [held EXCEPT ![c] = [owner |-> owner[KeyOf[c]], token |-> token[KeyOf[c]]]]
      BY <1>5 DEF ReadBackExecution
    <3>3. owner[KeyOf[c]] \in Callers \cup {NoOwner} /\ token[KeyOf[c]] \in Nat
      OBVIOUS
    <3>4. pc' \in [Callers -> Stages]
      BY <3>1
    <3>5. held' \in [Callers -> [owner : Callers \cup {NoOwner}, token : Nat]]
      BY <3>2, <3>3
    <3> QED BY <3>4, <3>5
  <2>2. UNCHANGED <<rowVars, history, answer, picked, faults, interventions, purges>>
    BY <1>5 DEF ReadBackExecution
  <2> QED BY <2>1, <2>2
<1> HIDE DEF TypeOK, Goto, Fault
<1> QED BY <1>1, <1>2, <1>3, <1>4, <1>5 DEF Begin

LEMMA ExecuteTypeOK ==
  ASSUME TypeOK, NEW c \in Callers,
         \/ Execute(c) \/ Crash(c)
         \/ \E unknown \in BOOLEAN : CommitUnnoticed(c, unknown)
  PROVE  TypeOK'
<1> USE ShapeAssumption, NumberAssumption
    DEF TypeOK, ReceiptStatuses, Stages, Answers, Fingerprints, Goto, Fault
<1> KeyOf[c] \in Keys /\ FpOf[c] \in Fingerprints
  OBVIOUS
<1>1. CASE CallConnector(c)
  BY <1>1 DEF CallConnector
<1>2. CASE CommitExecution(c)
  BY <1>2 DEF CommitExecution, CommitEffects, Settle
<1>3. ASSUME NEW stage \in {"fail_terminal", "fail_retryable", "idle"},
             ExecutionFails(c, stage)
      PROVE  TypeOK'
  BY <1>3 DEF ExecutionFails
<1>4. ASSUME NEW ack \in BOOLEAN, FailExecution(c, ack) PROVE TypeOK'
  <2>1. CASE LeaseHeld(c)
    <3>1. /\ \/ Settle(KeyOf[c], "failed_terminal")
             \/ Settle(KeyOf[c], "failed_retryable")
          /\ UNCHANGED <<history, held, picked, interventions, purges>>
          /\ faults' \in Nat /\ pc' \in [Callers -> Stages] /\ answer' \in [Callers -> Answers]
      BY <1>4, <2>1 DEF FailExecution
    <3>2. /\ status' \in [Keys -> ReceiptStatuses]
          /\ window' \in [Keys -> {"none", "open", "passed"}]
      <4>1. \/ status' = [status EXCEPT ![KeyOf[c]] = "failed_terminal"]
            \/ status' = [status EXCEPT ![KeyOf[c]] = "failed_retryable"]
        BY <3>1 DEF Settle
      <4>2. window' = [window EXCEPT ![KeyOf[c]] = "open"]
        BY <3>1 DEF Settle
      <4>3. status' \in [Keys -> ReceiptStatuses]
        BY <4>1
      <4>4. window' \in [Keys -> {"none", "open", "passed"}]
        BY <4>2
      <4> QED BY <4>3, <4>4
    <3>3. UNCHANGED <<fp, owner, leaseLeft, token>>
      BY <3>1 DEF Settle
    <3> QED BY <3>1, <3>2, <3>3
  <2>2. CASE ~LeaseHeld(c)
    BY <1>4, <2>2 DEF FailExecution
  <2> QED BY <2>1, <2>2
<1>5. CASE Crash(c)
  BY <1>5 DEF Crash
<1>6. ASSUME NEW unknown \in BOOLEAN, CommitUnnoticed(c, unknown)
      PROVE  TypeOK'
  BY <1>6 DEF CommitUnnoticed, CommitEffects, Settle
<1> HIDE DEF TypeOK, Goto, Fault
<1> QED BY <1>1, <1>2, <1>3, <1>4, <1>5, <1>6 DEF Execute

LEMMA DeleteTypeOK ==
  ASSUME TypeOK, NEW gone, Delete(gone),
         picked' \in [Cleaners \cup LifecycleJobs -> SUBSET Keys],
         stray' \in [Keys -> Nat],
         UNCHANGED <<effects, calls, applied, callerVars, faults, interventions, purges>>
  PROVE  TypeOK'
<1>1. /\ status' \in [Keys -> ReceiptStatuses]
      /\ fp' \in [Keys -> Fingerprints \cup {NoFp}]
  BY DEF TypeOK, Delete, ReceiptStatuses
<1>2. /\ owner' \in [Keys -> Callers \cup {NoOwner}]
      /\ leaseLeft' \in [Keys -> Nat] /\ token' \in [Keys -> Nat]
      /\ window' \in [Keys -> {"none", "open", "passed"}]
  BY DEF TypeOK, Delete
<1> QED BY <1>1, <1>2 DEF TypeOK

LEMMA OthersTypeOK ==
  ASSUME TypeOK,
         \/ \E k \in Keys : Operate(k) \/ WindowPasses(k)
         \/ Tick
         \/ \E x \in Cleaners : Clean(x)
         \/ \E x \in LifecycleJobs : Purge(x)
  PROVE  TypeOK'
<1>1. ASSUME NEW k \in Keys, Operate(k) PROVE TypeOK'
  BY <1>1, ShapeAssumption, NumberAssumption
  DEF Operate, TransitionReceipt, ForceReleaseOperationsLease, Intervene, Released,
      TypeOK, ReceiptStatuses
<1>2. ASSUME NEW k \in Keys, WindowPasses(k) PROVE TypeOK'
  BY <1>2, NumberAssumption DEF WindowPasses, TypeOK
<1>3. CASE Tick
  BY <1>3 DEF Tick, TypeOK
<1>4. ASSUME NEW x \in Cleaners \cup LifecycleJobs, NEW batch \in SUBSET Keys,
             SelectReceipts(x, batch)
      PROVE  TypeOK'
  BY <1>4 DEF SelectReceipts, TypeOK
<1>5. ASSUME NEW x \in Cleaners, NEW batch \in SUBSET Keys, DeleteExpiredReceipts(x, batch)
      PROVE  TypeOK'
  <2>1. picked' \in [Cleaners \cup LifecycleJobs -> SUBSET Keys]
    BY <1>5 DEF DeleteExpiredReceipts, TypeOK
  <2> QED BY <1>5, <2>1, DeleteTypeOK DEF DeleteExpiredReceipts, TypeOK
<1>6. ASSUME NEW x \in LifecycleJobs, NEW k \in Keys, NEW skip \in BOOLEAN,
             PurgeCandidate(x, k, skip)
      PROVE  TypeOK'
  <2>1. picked' \in [Cleaners \cup LifecycleJobs -> SUBSET Keys]
    BY <1>6 DEF PurgeCandidate, TypeOK
  <2>2. stray' \in [Keys -> Nat]
    BY <1>6 DEF PurgeCandidate, TypeOK
  <2>3. CASE skip \/ status[k] = "none"
    BY <1>6, <2>1, <2>2, <2>3 DEF PurgeCandidate, TypeOK
  <2>4. CASE ~(skip \/ status[k] = "none")
    BY <1>6, <2>1, <2>2, <2>4, DeleteTypeOK DEF PurgeCandidate
  <2> QED BY <2>3, <2>4
<1> QED BY <1>1, <1>2, <1>3, <1>4, <1>5, <1>6 DEF Clean, Purge

LEMMA NextTypeOK == TypeOK /\ [Next]_vars => TypeOK'
<1> SUFFICES ASSUME TypeOK, [Next]_vars PROVE TypeOK'
  OBVIOUS
<1>1. CASE UNCHANGED vars
  BY <1>1 DEF vars, TypeOK
<1> QED BY <1>1, BeginTypeOK, ExecuteTypeOK, OthersTypeOK DEF Next

\* The state keeps its types, with and without lifecycle jobs.
THEOREM TypeCorrect == Spec => []TypeOK
  BY InitTypeOK, NextTypeOK, PTL DEF Spec

-----------------------------------------------------------------------------
(* The kinds of steps, as far as receipts and stages are concerned.        *)

receipts == <<status, fp, window, history>>

\* The caller of a stage in EngagedStages has claimed the receipt of its key.
EngagedStages == {"readback", "run", "called", "fail_terminal", "fail_retryable"}
Engaged(c) == pc[c] \in EngagedStages

\* A step of c alone: it engages nobody.
Quiet(c) ==
  /\ UNCHANGED receipts
  /\ \E s \in Stages :
       /\ pc' = [pc EXCEPT ![c] = s]
       /\ s \in EngagedStages => Engaged(c)
       /\ s = "run" => pc[c] = "readback"
       /\ s = "reclaim" => c \notin Prevent
       /\ s # "readback"

Inserts(c) ==
  /\ status[KeyOf[c]] = "none" /\ pc[c] = "idle"
  /\ status' = [status EXCEPT ![KeyOf[c]] = "processing"]
  /\ fp' = [fp EXCEPT ![KeyOf[c]] = FpOf[c]]
  /\ window' = [window EXCEPT ![KeyOf[c]] = "none"]
  /\ \E s \in {"run", "lookup"} : pc' = [pc EXCEPT ![c] = s]
  /\ UNCHANGED history

TakesOver(c) ==
  /\ pc[c] = "reclaim" /\ Reclaimable(c)
  /\ status' = [status EXCEPT ![KeyOf[c]] = "processing"]
  /\ pc' = [pc EXCEPT ![c] = "readback"]
  /\ UNCHANGED <<fp, window, history>>

Completes(c) ==
  /\ Engaged(c) /\ status[KeyOf[c]] = "processing"
  /\ \E s \in {"idle", "done", "fail_retryable"} : pc' = [pc EXCEPT ![c] = s]
  /\ window' = [window EXCEPT ![KeyOf[c]] = "open"]
  /\ UNCHANGED <<fp, calls, stray>>
  /\ \/ /\ status' = [status EXCEPT ![KeyOf[c]] = "succeeded"]
        /\ effects' = [effects EXCEPT ![KeyOf[c]] = @ + 1]
        /\ applied' = [applied EXCEPT ![KeyOf[c]] = @ \cup {FpOf[c]}]
     \/ /\ \E s \in {"failed_retryable", "failed_terminal"} :
             status' = [status EXCEPT ![KeyOf[c]] = s]
        /\ UNCHANGED <<effects, applied>>

CallerStep(c) ==
  \/ Begin(c) \/ Execute(c) \/ Crash(c)
  \/ \E unknown \in BOOLEAN : CommitUnnoticed(c, unknown)

LEMMA CallerKinds ==
  ASSUME TypeOK, NEW c \in Callers, CallerStep(c)
  PROVE  Quiet(c) \/ Inserts(c) \/ TakesOver(c) \/ CallConnector(c) \/ Completes(c)
<1> USE DEF Goto, receipts, EngagedStages, Stages, Engaged
<1>1. CASE Begin(c)
  <2>1. ASSUME NEW left \in 0..LeaseTTL, NEW ack \in BOOLEAN,
               InsertExecution(c, left, ack)
        PROVE  Inserts(c)
    BY <2>1 DEF InsertExecution, Claim, Inserts
  <2>2. CASE InsertRefused(c)
    BY <2>2 DEF InsertRefused, Quiet
  <2>3. ASSUME NEW now \in BOOLEAN, LookUpExecution(c, now) PROVE Quiet(c)
    BY <2>3 DEF LookUpExecution, Quiet, MayReclaim
  <2>4. ASSUME NEW left \in 0..LeaseTTL, ReclaimExecution(c, left)
        PROVE  Quiet(c) \/ TakesOver(c)
    <3>1. CASE Reclaimable(c)
      BY <2>4, <3>1 DEF ReclaimExecution, Claim, TakesOver
    <3>2. CASE ~Reclaimable(c)
      BY <2>4, <3>2 DEF ReclaimExecution, Quiet
    <3> QED BY <3>1, <3>2
  <2>5. CASE ReadBackExecution(c)
    BY <2>5 DEF ReadBackExecution, Quiet
  <2> HIDE DEF Goto, Engaged
  <2> QED BY <1>1, <2>1, <2>2, <2>3, <2>4, <2>5 DEF Begin
<1>2. CASE CommitExecution(c)
  BY <1>2 DEF CommitExecution, CommitEffects, LeaseHeld, Executing, Settle, Completes
<1>3. ASSUME NEW unknown \in BOOLEAN, CommitUnnoticed(c, unknown)
      PROVE  Completes(c)
  BY <1>3 DEF CommitUnnoticed, CommitEffects, LeaseHeld, Executing, Settle, Completes
<1>4. ASSUME NEW stage \in {"fail_terminal", "fail_retryable", "idle"},
             ExecutionFails(c, stage)
      PROVE  Quiet(c)
  BY <1>4 DEF ExecutionFails, Executing, Quiet
<1>5. ASSUME NEW ack \in BOOLEAN, FailExecution(c, ack) PROVE Quiet(c) \/ Completes(c)
  <2>1. CASE LeaseHeld(c)
    <3>1. /\ \E s \in {"failed_retryable", "failed_terminal"} : Settle(KeyOf[c], s)
          /\ \E s \in {"idle", "done"} : pc' = [pc EXCEPT ![c] = s]
          /\ Engaged(c) /\ UNCHANGED history
      BY <1>5, <2>1 DEF FailExecution
    <3> QED BY <2>1, <3>1 DEF Settle, LeaseHeld, Completes
  <2>2. CASE ~LeaseHeld(c)
    BY <1>5, <2>2 DEF FailExecution, Quiet
  <2> QED BY <2>1, <2>2
<1>6. CASE Crash(c)
  BY <1>6 DEF Crash, Quiet
<1> HIDE DEF Goto, Engaged
<1> QED BY <1>1, <1>2, <1>3, <1>4, <1>5, <1>6 DEF CallerStep, Execute

\* An operator turns a failure into a retryable one, or leaves the status.
Operates ==
  /\ \/ UNCHANGED status
     \/ \E k \in Keys : /\ status[k] \in {"failed_retryable", "failed_terminal"}
                        /\ status' = [status EXCEPT ![k] = "failed_retryable"]
  /\ UNCHANGED <<fp, window, history, pc>>

\* A cleaner or a purge deletes receipts that are eligible at that moment.
Cleans ==
  /\ \E gone \in SUBSET {k \in Keys : Eligible(k)} : Delete(gone)
  /\ UNCHANGED <<history, pc>>

\* A purge deletes another one.
Strays(k) ==
  /\ Delete({k})
  /\ stray' = [stray EXCEPT ![k] = @ + 1]
  /\ UNCHANGED <<effects, calls, applied, pc>>

LEMMA OtherKinds ==
  ASSUME TypeOK, [Next]_vars, ~ \E c \in Callers : CallerStep(c)
  PROVE  /\ \/ Operates \/ Cleans
            \/ \E k \in Keys : WindowPasses(k) \/ Strays(k)
         /\ UNCHANGED answer
<1>1. ASSUME NEW k \in Keys, Operate(k) PROVE Operates /\ UNCHANGED answer
  BY <1>1 DEF Operate, TransitionReceipt, ForceReleaseOperationsLease, Operates
<1>2. CASE Tick \/ UNCHANGED vars
  BY <1>2 DEF Tick, vars, Operates
<1>3. ASSUME NEW x \in Cleaners \cup LifecycleJobs, NEW batch \in SUBSET Keys,
             SelectReceipts(x, batch)
      PROVE  Operates /\ UNCHANGED answer
  BY <1>3 DEF SelectReceipts, Operates
<1>4. ASSUME NEW x \in Cleaners, NEW batch \in SUBSET Keys, DeleteExpiredReceipts(x, batch)
      PROVE  Cleans /\ UNCHANGED answer
  <2>1. StillEligible(batch) \in SUBSET {k \in Keys : Eligible(k)}
    BY DEF StillEligible
  <2> QED BY <1>4, <2>1 DEF DeleteExpiredReceipts, Cleans
<1>5. ASSUME NEW k \in Keys, WindowPasses(k) PROVE UNCHANGED answer
  BY <1>5 DEF WindowPasses
<1>6. ASSUME NEW x \in LifecycleJobs, NEW k \in Keys, NEW skip \in BOOLEAN,
             PurgeCandidate(x, k, skip)
      PROVE  (Operates \/ Cleans \/ Strays(k)) /\ UNCHANGED answer
  <2>0. UNCHANGED <<effects, calls, applied, pc, answer>>
    BY <1>6 DEF PurgeCandidate
  <2>1. CASE skip \/ status[k] = "none"
    <3>1. stray' = stray /\ UNCHANGED rowVars
      BY <1>6, <2>1 DEF PurgeCandidate, TypeOK
    <3> QED BY <2>0, <3>1 DEF Operates
  <2>2. CASE ~skip /\ status[k] # "none" /\ cleanupPredicate(k)
    <3>1. stray' = stray /\ Delete({k})
      BY <1>6, <2>2 DEF PurgeCandidate, TypeOK
    <3>2. {k} \in SUBSET {l \in Keys : Eligible(l)}
      BY <2>2 DEF Eligible, cleanupPredicate
    <3> QED BY <2>0, <3>1, <3>2 DEF Cleans
  <2>3. CASE ~skip /\ status[k] # "none" /\ ~cleanupPredicate(k)
    BY <1>6, <2>0, <2>3 DEF PurgeCandidate, Strays
  <2> QED BY <2>1, <2>2, <2>3
<1> QED BY <1>1, <1>2, <1>3, <1>4, <1>5, <1>6 DEF Next, CallerStep, Clean, Purge

LEMMA StepKinds ==
  ASSUME TypeOK, [Next]_vars
  PROVE  \/ \E c \in Callers :
              \/ Quiet(c) \/ Inserts(c) \/ TakesOver(c) \/ CallConnector(c)
              \/ Completes(c)
         \/ Operates \/ Cleans
         \/ \E k \in Keys : WindowPasses(k) \/ Strays(k)
  BY CallerKinds, OtherKinds

-----------------------------------------------------------------------------
(* One effect per key.                                                     *)

\* Every effect is that of the receipt or of one that was wrongly deleted.
EffectInv ==
  \A k \in Keys :
    LET told == IF status[k] = "succeeded" /\ window[k] = "open" THEN 1 ELSE 0
    IN effects[k] <= told + stray[k] /\ (stray[k] = 0 => effects[k] = told)

LEMMA NextEffectInv ==
  ASSUME TypeOK, EffectInv, [Next]_vars
  PROVE  EffectInv'
<1> USE ShapeAssumption DEF TypeOK, EffectInv
<1>1. ASSUME NEW c \in Callers, Quiet(c) PROVE EffectInv'
  BY <1>1 DEF Quiet, receipts
<1>2. ASSUME NEW c \in Callers, Inserts(c) PROVE EffectInv'
  BY <1>2 DEF Inserts
<1>3. ASSUME NEW c \in Callers, TakesOver(c) PROVE EffectInv'
  BY <1>3 DEF TakesOver, Reclaimable
<1>4. ASSUME NEW c \in Callers, CallConnector(c) PROVE EffectInv'
  BY <1>4 DEF CallConnector
<1>5. ASSUME NEW c \in Callers, Completes(c) PROVE EffectInv'
  BY <1>5 DEF Completes
<1>6. CASE Operates
  BY <1>6 DEF Operates
<1>7. CASE Cleans
  BY <1>7 DEF Cleans, Delete, Eligible
<1>8. ASSUME NEW k \in Keys, WindowPasses(k) PROVE EffectInv'
  BY <1>8 DEF WindowPasses
<1>9. ASSUME NEW k \in Keys, Strays(k) PROVE EffectInv'
  BY <1>9 DEF Strays, Delete
<1> HIDE DEF TypeOK, EffectInv
<1> QED BY <1>1, <1>2, <1>3, <1>4, <1>5, <1>6, <1>7, <1>8, <1>9, StepKinds

LEMMA InitEffectInv == Init => EffectInv
  BY DEF Init, EffectInv

\* A key has exactly the effect its receipt tells of, however many callers,
\* crashes, stalls, lost replies and interventions there are: completions are
\* fenced by status, owner and token.  A lifecycle purge that trusts an old
\* selection costs one more effect for each receipt it deletes wrongly.
THEOREM ReceiptExactCorrect == Spec => []ReceiptExact
<1>1. TypeOK /\ EffectInv /\ [Next]_vars => EffectInv'
  BY NextEffectInv
<1>2. TypeOK /\ EffectInv => ReceiptExact
  BY DEF TypeOK, EffectInv, ReceiptExact
<1> QED BY <1>1, <1>2, InitEffectInv, TypeCorrect, PTL DEF Spec

-----------------------------------------------------------------------------
(* Deletion.                                                               *)

LEMMA StepPurge ==
  ASSUME TypeOK, [Next]_vars, NEW k \in Keys,
         status[k] # "none", status'[k] = "none",
         \A x \in LifecycleJobs : picked'[x] = picked[x]
  PROVE  window[k] = "passed" /\ status[k] # "processing"
<1> USE ShapeAssumption DEF TypeOK
<1>1. ASSUME NEW c \in Callers,
             Quiet(c) \/ Inserts(c) \/ TakesOver(c) \/ CallConnector(c) \/ Completes(c)
      PROVE  FALSE
  BY <1>1 DEF Quiet, receipts, Inserts, TakesOver, CallConnector, Completes
<1>2. CASE \/ UNCHANGED vars \/ Tick
           \/ \E l \in Keys : Operate(l) \/ WindowPasses(l)
  BY <1>2 DEF vars, Tick, Operate, TransitionReceipt, ForceReleaseOperationsLease, WindowPasses
<1>3. ASSUME NEW x \in Cleaners \cup LifecycleJobs, NEW batch \in SUBSET Keys,
             SelectReceipts(x, batch)
      PROVE  FALSE
  BY <1>3 DEF SelectReceipts
<1>4. ASSUME NEW x \in Cleaners, NEW batch \in SUBSET Keys, DeleteExpiredReceipts(x, batch)
      PROVE  window[k] = "passed" /\ status[k] # "processing"
  BY <1>4 DEF DeleteExpiredReceipts, Delete, StillEligible, Eligible
<1>5. ASSUME NEW x \in LifecycleJobs, NEW l \in Keys, NEW skip \in BOOLEAN,
             PurgeCandidate(x, l, skip)
      PROVE  FALSE
  <2>1. picked'[x] = picked[x] \ {l} /\ l \in picked[x]
    BY <1>5 DEF PurgeCandidate
  <2> QED BY <2>1
<1> HIDE DEF TypeOK
<1>6. CASE \E c \in Callers : CallerStep(c)
  BY <1>1, <1>6, CallerKinds
<1> QED BY <1>2, <1>3, <1>4, <1>5, <1>6 DEF Next, CallerStep, Clean, Purge

\* Any number of idempotency cleaners, each deleting what it selected any
\* time before, delete only receipts whose window has passed and that nobody
\* processes, whatever lifecycle jobs do besides: the DELETE checks again.
THEOREM PurgeOnlyExpiredCorrect == Spec => PurgeOnlyExpired
<1>1. TypeOK /\ [Next]_vars
      => [\A k \in Keys :
            /\ status[k] # "none" /\ status'[k] = "none"
            /\ \A x \in LifecycleJobs : picked'[x] = picked[x]
            => window[k] = "passed" /\ status[k] # "processing"]_vars
  BY StepPurge
<1> QED BY <1>1, TypeCorrect, PTL DEF Spec, PurgeOnlyExpired

-----------------------------------------------------------------------------
(* What callers are told.                                                  *)

\* The receipt a caller has claimed stays, with the caller's fingerprint,
\* while the caller is engaged, unless a purge took it away.
ClaimsStay ==
  \A c \in Callers :
    Engaged(c) /\ stray[KeyOf[c]] = 0 => status[KeyOf[c]] # "none" /\ fp[KeyOf[c]] = FpOf[c]

\* Nobody is engaged with a receipt that may be deleted.
ExpiredIdle ==
  \A c \in Callers :
    window[KeyOf[c]] = "passed" /\ status[KeyOf[c]] # "processing" /\ stray[KeyOf[c]] = 0
      => ~Engaged(c)

\* A receipt that says succeeded stands for an effect of its request.
SuccessApplied ==
  \A k \in Keys : status[k] = "succeeded" /\ stray[k] = 0 => fp[k] \in applied[k]

ReplayInv == ClaimsStay /\ ExpiredIdle /\ SuccessApplied

LEMMA NextReplayInv ==
  ASSUME TypeOK, ReplayInv, [Next]_vars
  PROVE  ReplayInv'
<1> USE ShapeAssumption
    DEF TypeOK, ReplayInv, ClaimsStay, ExpiredIdle, SuccessApplied, Engaged
<1>1. ASSUME NEW c \in Callers, Quiet(c) PROVE ReplayInv'
  BY <1>1 DEF Quiet, receipts
<1>2. ASSUME NEW c \in Callers, Inserts(c) PROVE ReplayInv'
  <2>1. \A d \in Callers : KeyOf[d] = KeyOf[c] /\ stray[KeyOf[c]] = 0 => ~Engaged(d)
    BY <1>2 DEF Inserts
  <2>2. \A d \in Callers \ {c} : Engaged(d)' => Engaged(d)
    BY <1>2 DEF Inserts
  <2>3. ClaimsStay' /\ ExpiredIdle'
    BY <1>2, <2>1, <2>2 DEF Inserts
  <2>4. SuccessApplied'
    BY <1>2 DEF Inserts
  <2> QED BY <2>3, <2>4
<1>3. ASSUME NEW c \in Callers, TakesOver(c) PROVE ReplayInv'
  BY <1>3 DEF TakesOver, Reclaimable
<1>4. ASSUME NEW c \in Callers, CallConnector(c) PROVE ReplayInv'
  BY <1>4 DEF CallConnector, Goto, EngagedStages
<1>5. ASSUME NEW c \in Callers, Completes(c) PROVE ReplayInv'
  <2>1. \A d \in Callers : Engaged(d)' => Engaged(d)
    BY <1>5 DEF Completes, EngagedStages
  <2>2. (stray[KeyOf[c]] = 0 => fp[KeyOf[c]] = FpOf[c]) /\ KeyOf[c] \in Keys
    BY <1>5 DEF Completes
  <2>3. SuccessApplied'
    BY <1>5, <2>2 DEF Completes
  <2>4. ClaimsStay' /\ ExpiredIdle'
    BY <1>5, <2>1 DEF Completes
  <2> QED BY <2>3, <2>4
<1>6. CASE Operates
  BY <1>6 DEF Operates
<1>7. CASE Cleans
  BY <1>7 DEF Cleans, Delete, Eligible
<1>8. ASSUME NEW k \in Keys, WindowPasses(k) PROVE ReplayInv'
  BY <1>8 DEF WindowPasses, EngagedStages
<1>9. ASSUME NEW k \in Keys, Strays(k) PROVE ReplayInv'
  <2>1. stray'[k] # 0 /\ UNCHANGED <<pc, applied>>
    BY <1>9 DEF Strays
  <2>2. \A l \in Keys \ {k} : stray'[l] = stray[l] /\ status'[l] = status[l]
                              /\ fp'[l] = fp[l] /\ window'[l] = window[l]
    BY <1>9 DEF Strays, Delete
  <2> QED BY <2>1, <2>2
<1> HIDE DEF TypeOK, ReplayInv, Engaged
<1> QED BY <1>1, <1>2, <1>3, <1>4, <1>5, <1>6, <1>7, <1>8, <1>9, StepKinds

LEMMA NextSuccessWasCommitted ==
  ASSUME TypeOK, ReplayInv, SuccessWasCommitted, [Next]_vars
  PROVE  SuccessWasCommitted'
<1> USE ShapeAssumption DEF SuccessWasCommitted
<1>1. \A k \in Keys : applied[k] \subseteq applied'[k] /\ (stray'[k] = 0 => stray[k] = 0)
  <2> USE DEF TypeOK
  <2>1. ASSUME NEW c \in Callers,
               Quiet(c) \/ Inserts(c) \/ TakesOver(c) \/ CallConnector(c)
        PROVE  UNCHANGED <<applied, stray>>
    BY <2>1 DEF Quiet, receipts, Inserts, TakesOver, CallConnector
  <2>2. ASSUME NEW c \in Callers, Completes(c)
        PROVE  \A k \in Keys : applied[k] \subseteq applied'[k] /\ stray' = stray
    BY <2>2 DEF Completes
  <2>3. CASE Operates \/ Cleans \/ \E k \in Keys : WindowPasses(k)
    BY <2>3 DEF Operates, Cleans, WindowPasses
  <2>4. ASSUME NEW k \in Keys, Strays(k)
        PROVE  applied' = applied /\ \A l \in Keys : stray'[l] = 0 => stray[l] = 0
    BY <2>4 DEF Strays
  <2> HIDE DEF TypeOK
  <2> QED BY <2>1, <2>2, <2>3, <2>4, StepKinds
<1>2. ASSUME NEW c \in Callers, CallerStep(c)
      PROVE  \A d \in Callers : answer'[d] \in {"success", "replay"}
               => \/ answer[d] = answer'[d]
                  \/ stray[KeyOf[d]] # 0
                  \/ FpOf[d] \in applied'[KeyOf[d]]
  <2> USE DEF TypeOK
  <2>1. CASE CommitExecution(c)
    BY <1>2, <2>1 DEF CommitExecution, CommitEffects
  <2>2. ASSUME NEW now \in BOOLEAN, LookUpExecution(c, now)
        PROVE  \A d \in Callers : answer'[d] \in {"success", "replay"}
                 => \/ answer[d] = answer'[d]
                    \/ stray[KeyOf[d]] # 0
                    \/ FpOf[d] \in applied'[KeyOf[d]]
    <3>1. CASE answer' = answer
      BY <3>1
    <3>2. CASE answer' # answer
      <4>1. /\ Classify(c, now) \in {"conflict", "replay"}
            /\ answer' = [answer EXCEPT ![c] =
                 IF Classify(c, now) = "conflict" THEN "conflict" ELSE Replayed(KeyOf[c])]
            /\ applied' = applied
        BY <2>2, <3>2 DEF LookUpExecution
      <4>2. answer'[c] = "replay"
            => status[KeyOf[c]] = "succeeded" /\ fp[KeyOf[c]] = FpOf[c]
        BY <4>1 DEF Classify, Replayed
      <4>3. answer'[c] # "success"
        BY <4>1 DEF Replayed
      <4> QED BY <4>1, <4>2, <4>3 DEF ReplayInv, SuccessApplied
    <3> QED BY <3>1, <3>2
  <2>3. ASSUME NEW ack \in BOOLEAN, FailExecution(c, ack)
        PROVE  \A d \in Callers : answer'[d] \in {"success", "replay"}
                 => answer[d] = answer'[d]
    BY <2>3 DEF FailExecution
  <2>4. ASSUME ~CommitExecution(c), ~ \E ack \in BOOLEAN : FailExecution(c, ack),
               ~ \E now \in BOOLEAN : LookUpExecution(c, now)
        PROVE  answer' = answer
    BY <1>2, <2>4 DEF CallerStep, Begin, Execute, InsertExecution, InsertRefused,
         ReclaimExecution, ReadBackExecution, CallConnector, ExecutionFails, Crash,
         CommitUnnoticed
  <2> HIDE DEF TypeOK
  <2> QED BY <2>1, <2>2, <2>3, <2>4
<1>3. CASE \E c \in Callers : CallerStep(c)
  BY <1>1, <1>2, <1>3
<1>4. CASE ~ \E c \in Callers : CallerStep(c)
  BY <1>1, <1>4, OtherKinds
<1> QED BY <1>3, <1>4

\* A caller is told success only for a committed effect of its own request:
\* the receipt it replays carries its fingerprint, and the receipt an
\* execution completes is still the one it claimed, unless a lifecycle purge
\* deleted one of the key on an old selection.
THEOREM SuccessWasCommittedCorrect == Spec => []SuccessWasCommitted
<1>1. Init => ReplayInv /\ SuccessWasCommitted
  BY ShapeAssumption DEF Init, ReplayInv, ClaimsStay, ExpiredIdle, SuccessApplied,
     Engaged, EngagedStages, SuccessWasCommitted
<1>2. TypeOK /\ ReplayInv /\ [Next]_vars => ReplayInv'
  BY NextReplayInv
<1>3. TypeOK /\ ReplayInv /\ SuccessWasCommitted /\ [Next]_vars => SuccessWasCommitted'
  BY NextSuccessWasCommitted
<1> QED BY <1>1, <1>2, <1>3, TypeCorrect, PTL DEF Spec

-----------------------------------------------------------------------------
(* External calls.                                                         *)

\* The callers that never take over and are about to make their call.
Pending(k) == {c \in Prevent : KeyOf[c] = k /\ pc[c] = "run"}

\* Does the key have a receipt under which a call may be made?
Live(k) == IF status[k] # "none" /\ window[k] # "passed" THEN 1 ELSE 0

\* A caller that must not take over never does, and every call, made or about
\* to be made, belongs to the receipt or to one that was wrongly deleted.
CallInv ==
  /\ \A c \in Prevent : pc[c] \notin {"reclaim", "readback"}
  /\ \A k \in Keys :
       /\ IsFiniteSet(Pending(k))
       /\ Cardinality(Pending(k)) + calls[k] <= Live(k) + stray[k]

\* Nobody new is about to call under k.
LEMMA PendingLess ==
  ASSUME NEW k \in Keys, IsFiniteSet(Pending(k)), Pending(k)' \subseteq Pending(k)
  PROVE  /\ IsFiniteSet(Pending(k)')
         /\ Cardinality(Pending(k)') \in Nat /\ Cardinality(Pending(k)) \in Nat
         /\ Cardinality(Pending(k)') <= Cardinality(Pending(k))
  BY FS_Subset, FS_CardinalityType

\* Steps after which no more calls are made or to be made than before.
LEMMA CallsKept ==
  ASSUME TypeOK, CallInv, NEW k \in Keys, Pending(k)' \subseteq Pending(k),
         calls'[k] <= calls[k], calls'[k] \in Nat,
         Live(k)' + stray'[k] >= Live(k) + stray[k], stray'[k] \in Nat
  PROVE  /\ IsFiniteSet(Pending(k)')
         /\ Cardinality(Pending(k)') + calls'[k] <= Live(k)' + stray'[k]
<1>1. Cardinality(Pending(k)) + calls[k] <= Live(k) + stray[k] /\ IsFiniteSet(Pending(k))
  BY DEF CallInv
<1>2. Live(k) \in Nat /\ Live(k)' \in Nat /\ calls[k] \in Nat /\ stray[k] \in Nat
  BY DEF Live, TypeOK
<1> QED BY <1>1, <1>2, PendingLess

LEMMA NextCallInv ==
  ASSUME TypeOK, TypeOK', CallInv, [Next]_vars
  PROVE  CallInv'
<1> USE ShapeAssumption
<1> DEFINE Bounded(k) ==
      /\ IsFiniteSet(Pending(k)')
      /\ Cardinality(Pending(k)') + calls'[k] <= Live(k)' + stray'[k]
<1>0. /\ \A c \in Prevent : pc[c] \notin {"reclaim", "readback"}
      /\ \A k \in Keys : calls'[k] \in Nat /\ stray'[k] \in Nat /\ calls[k] \in Nat
                         /\ stray[k] \in Nat
  BY DEF CallInv, TypeOK
<1> SUFFICES ASSUME TRUE
             PROVE  /\ \A c \in Prevent : pc'[c] \notin {"reclaim", "readback"}
                    /\ \A k \in Keys : Bounded(k)
  BY DEF CallInv
<1>1. ASSUME NEW c \in Callers, Quiet(c)
      PROVE  /\ \A d \in Prevent : pc'[d] \notin {"reclaim", "readback"}
             /\ \A k \in Keys : Bounded(k)
  <2>1. /\ UNCHANGED <<status, window, calls, stray>>
        /\ \A d \in Prevent : pc'[d] \notin {"reclaim", "readback"}
        /\ \A d \in Prevent : pc'[d] = "run" => pc[d] = "run"
    BY <1>0, <1>1 DEF Quiet, receipts, TypeOK
  <2>2. ASSUME NEW k \in Keys PROVE Bounded(k)
    <3>1. Pending(k)' \subseteq Pending(k) /\ Live(k)' = Live(k)
      BY <2>1 DEF Pending, Live
    <3> QED BY <1>0, <2>1, <3>1, CallsKept DEF Live
  <2> QED BY <2>1, <2>2
<1>2. ASSUME NEW c \in Callers, Inserts(c)
      PROVE  /\ \A d \in Prevent : pc'[d] \notin {"reclaim", "readback"}
             /\ \A k \in Keys : Bounded(k)
  <2>1. /\ UNCHANGED <<calls, stray>>
        /\ Live(KeyOf[c]) = 0 /\ Live(KeyOf[c])' = 1
        /\ \A k \in Keys \ {KeyOf[c]} : Live(k)' = Live(k)
        /\ \A d \in Prevent : pc'[d] \notin {"reclaim", "readback"}
        /\ \A d \in Prevent \ {c} : pc'[d] = pc[d]
    BY <1>0, <1>2 DEF Inserts, TypeOK, Live
  <2>2. ASSUME NEW k \in Keys, k # KeyOf[c] PROVE Bounded(k)
    <3>1. Pending(k)' \subseteq Pending(k)
      BY <2>1, <2>2 DEF Pending
    <3> QED BY <1>0, <2>1, <2>2, <3>1, CallsKept DEF Live
  <2>3. Bounded(KeyOf[c])
    <3> DEFINE k == KeyOf[c]
    <3>1. Pending(k)' \subseteq Pending(k) \cup {c}
      BY <2>1 DEF Pending
    <3>2. IsFiniteSet(Pending(k)) /\ Cardinality(Pending(k)) + calls[k] <= stray[k]
      BY <2>1, <1>0 DEF CallInv
    <3>3. /\ IsFiniteSet(Pending(k) \cup {c})
          /\ Cardinality(Pending(k) \cup {c}) <= Cardinality(Pending(k)) + 1
      <4>1. Cardinality(Pending(k)) \in Nat
        BY <3>2, FS_CardinalityType
      <4>2. CASE c \in Pending(k)
        <5>1. Pending(k) \cup {c} = Pending(k)
          BY <4>2
        <5>2. Cardinality(Pending(k) \cup {c}) = Cardinality(Pending(k))
          BY <5>1
        <5>3. IsFiniteSet(Pending(k) \cup {c})
          BY <3>2, <5>1
        <5> QED BY <4>1, <5>2, <5>3
      <4>3. CASE c \notin Pending(k)
        <5>1. /\ IsFiniteSet(Pending(k) \cup {c})
              /\ Cardinality(Pending(k) \cup {c}) = Cardinality(Pending(k)) + 1
          BY <3>2, <4>3, FS_AddElement
        <5> QED BY <4>1, <5>1
      <4> QED BY <4>2, <4>3
    <3>4. /\ IsFiniteSet(Pending(k)')
          /\ Cardinality(Pending(k)') <= Cardinality(Pending(k) \cup {c})
      BY <3>1, <3>3, FS_Subset
    <3>5. /\ Cardinality(Pending(k)) \in Nat /\ Cardinality(Pending(k)') \in Nat
          /\ Cardinality(Pending(k) \cup {c}) \in Nat
      BY <3>2, <3>3, <3>4, FS_CardinalityType
    <3>6. k \in Keys
      OBVIOUS
    <3> QED BY <1>0, <2>1, <3>2, <3>3, <3>4, <3>5, <3>6
  <2> QED BY <2>1, <2>2, <2>3
<1>3. ASSUME NEW c \in Callers, CallConnector(c)
      PROVE  /\ \A d \in Prevent : pc'[d] \notin {"reclaim", "readback"}
             /\ \A k \in Keys : Bounded(k)
  <2>1. /\ UNCHANGED <<status, window, stray>> /\ c \in Prevent /\ pc[c] = "run"
        /\ calls' = [calls EXCEPT ![KeyOf[c]] = @ + 1]
        /\ \A d \in Prevent : pc'[d] = IF d = c THEN "called" ELSE pc[d]
    BY <1>3 DEF CallConnector, Goto, TypeOK
  <2>2. ASSUME NEW k \in Keys, k # KeyOf[c] PROVE Bounded(k)
    <3>1. Pending(k)' \subseteq Pending(k) /\ Live(k)' = Live(k) /\ calls'[k] = calls[k]
      BY <2>1, <2>2 DEF Pending, Live, TypeOK
    <3> QED BY <1>0, <2>1, <2>2, <3>1, CallsKept DEF Live
  <2>3. Bounded(KeyOf[c])
    <3> DEFINE k == KeyOf[c]
    <3>1. Pending(k)' = Pending(k) \ {c} /\ c \in Pending(k)
      BY <2>1 DEF Pending
    <3>2. IsFiniteSet(Pending(k)) /\ Cardinality(Pending(k)) + calls[k] <= Live(k) + stray[k]
      BY DEF CallInv
    <3>3. IsFiniteSet(Pending(k)') /\ Cardinality(Pending(k)') = Cardinality(Pending(k)) - 1
      BY <3>1, <3>2, FS_RemoveElement
    <3>4. Cardinality(Pending(k)) \in Nat /\ calls'[k] = calls[k] + 1 /\ calls[k] \in Nat
      BY <2>1, <3>2, FS_CardinalityType DEF TypeOK
    <3>5. Live(k)' = Live(k) /\ Live(k) \in Nat /\ stray'[k] = stray[k] /\ stray[k] \in Nat
      BY <2>1 DEF Live, TypeOK
    <3> QED BY <3>2, <3>3, <3>4, <3>5
  <2> QED BY <1>0, <2>1, <2>2, <2>3
<1>4. ASSUME NEW c \in Callers, TakesOver(c) \/ Completes(c)
      PROVE  /\ \A d \in Prevent : pc'[d] \notin {"reclaim", "readback"}
             /\ \A k \in Keys : Bounded(k)
  <2>1. /\ UNCHANGED <<calls, stray>>
        /\ \A d \in Prevent : pc'[d] \notin {"reclaim", "readback"}
        /\ \A d \in Prevent : pc'[d] = "run" => pc[d] = "run"
    BY <1>0, <1>4 DEF TakesOver, Completes, TypeOK
  <2>2. \A k \in Keys : /\ status[k] # "none" => status'[k] # "none"
                        /\ window'[k] = window[k] \/ window'[k] = "open"
    BY <1>4 DEF TakesOver, Completes, TypeOK
  <2>3. ASSUME NEW k \in Keys PROVE Bounded(k)
    <3>1. Pending(k)' \subseteq Pending(k) /\ Live(k)' >= Live(k) /\ Live(k)' \in Nat
      BY <2>1, <2>2 DEF Pending, Live
    <3>2. Live(k) \in Nat
      BY DEF Live
    <3> QED BY <1>0, <2>1, <3>1, <3>2, CallsKept
  <2> QED BY <2>1, <2>3
<1>5. ASSUME pc' = pc, \A k \in Keys : /\ calls'[k] = calls[k]
                                       /\ Live(k)' + stray'[k] >= Live(k) + stray[k]
      PROVE  /\ \A d \in Prevent : pc'[d] \notin {"reclaim", "readback"}
             /\ \A k \in Keys : Bounded(k)
  <2>1. ASSUME NEW k \in Keys PROVE Bounded(k)
    <3>1. Pending(k)' \subseteq Pending(k)
      BY <1>5 DEF Pending
    <3> QED BY <1>0, <1>5, <3>1, CallsKept
  <2> QED BY <1>0, <1>5, <2>1
<1>6. CASE Operates
  <2>1. pc' = pc /\ \A k \in Keys : /\ calls'[k] = calls[k] /\ stray'[k] = stray[k]
                                     /\ Live(k)' = Live(k) /\ Live(k) \in Nat
    BY <1>6 DEF Operates, TypeOK, Live
  <2> QED BY <1>0, <1>5, <2>1
<1>7. CASE Cleans
  <2>1. pc' = pc /\ \A k \in Keys : /\ calls'[k] = calls[k] /\ stray'[k] = stray[k]
                                     /\ Live(k)' = Live(k) /\ Live(k) \in Nat
    BY <1>7 DEF Cleans, Delete, Eligible, TypeOK, Live
  <2> QED BY <1>0, <1>5, <2>1
<1>8. ASSUME NEW l \in Keys, Strays(l)
      PROVE  /\ \A d \in Prevent : pc'[d] \notin {"reclaim", "readback"}
             /\ \A k \in Keys : Bounded(k)
  <2>1. /\ pc' = pc /\ calls' = calls
        /\ \A k \in Keys : stray'[k] = IF k = l THEN stray[k] + 1 ELSE stray[k]
        /\ \A k \in Keys : k # l => status'[k] = status[k] /\ window'[k] = window[k]
    <3>1. pc' = pc /\ calls' = calls
      BY <1>8 DEF Strays
    <3>2. \A k \in Keys : stray'[k] = IF k = l THEN stray[k] + 1 ELSE stray[k]
      BY <1>8 DEF Strays, TypeOK
    <3>3. \A k \in Keys : k # l => status'[k] = status[k] /\ window'[k] = window[k]
      BY <1>8 DEF Strays, Delete
    <3> QED BY <3>1, <3>2, <3>3
  <2>2. ASSUME NEW k \in Keys
        PROVE  calls'[k] = calls[k] /\ Live(k)' + stray'[k] >= Live(k) + stray[k]
    <3> DEFINE L == Live(k)
               M == Live(k)'
    <3>1. /\ M \in {0, 1} /\ L \in {0, 1}
          /\ k # l => M = L
      BY <2>1 DEF Live
    <3>2. /\ calls'[k] = calls[k] /\ stray[k] \in Nat
          /\ stray'[k] = IF k = l THEN stray[k] + 1 ELSE stray[k]
      BY <1>0, <2>1
    <3> HIDE DEF L, M
    <3>3. calls'[k] = calls[k] /\ M + stray'[k] >= L + stray[k]
      BY <3>1, <3>2
    <3> QED BY <3>3 DEF L, M
  <2>3. pc' = pc
    BY <2>1
  <2> HIDE DEF Bounded
  <2> QED BY <1>5, <2>2, <2>3
<1>9. ASSUME NEW l \in Keys, WindowPasses(l)
      PROVE  /\ \A d \in Prevent : pc'[d] \notin {"reclaim", "readback"}
             /\ \A k \in Keys : Bounded(k)
  <2>1. /\ pc' = pc /\ stray' = stray /\ calls' = [calls EXCEPT ![l] = 0]
        /\ \A k \in Keys \ {l} : Live(k)' = Live(k)
        /\ Live(l)' = 0 /\ \A c \in Prevent : KeyOf[c] = l => pc[c] # "run"
    BY <1>9 DEF WindowPasses, TypeOK, Live
  <2>2. ASSUME NEW k \in Keys, k # l PROVE Bounded(k)
    <3>1. Pending(k)' \subseteq Pending(k) /\ calls'[k] = calls[k] /\ Live(k)' = Live(k)
      BY <2>1, <2>2 DEF Pending, TypeOK
    <3> QED BY <1>0, <2>1, <3>1, CallsKept DEF Live
  <2>3. Bounded(l)
    <3>1. Pending(l)' = {} /\ calls'[l] = 0
      BY <2>1 DEF Pending, TypeOK
    <3> QED BY <1>0, <2>1, <3>1, FS_EmptySet
  <2> QED BY <1>0, <2>1, <2>2, <2>3
<1> HIDE DEF Bounded
<1> QED BY <1>1, <1>2, <1>3, <1>4, <1>6, <1>7, <1>8, <1>9, StepKinds

LEMMA InitCallInv == Init => CallInv
<1> SUFFICES ASSUME Init PROVE CallInv
  OBVIOUS
<1>1. \A k \in Keys : Pending(k) = {} /\ calls[k] = 0 /\ stray[k] = 0 /\ Live(k) = 0
  BY ShapeAssumption DEF Init, Pending, Live
<1> QED BY <1>1, FS_EmptySet, ShapeAssumption DEF Init, CallInv

\* Under one key at most one external call is dispatched per replay window,
\* and one more for each receipt a lifecycle purge deletes on an old selection:
\* only the invocation that inserted the receipt gets to make a call.
THEOREM ExternalCallOnceCorrect == Spec => []ExternalCallOnce
<1>1. TypeOK /\ TypeOK' /\ CallInv /\ [Next]_vars => CallInv'
  BY NextCallInv
<1>2. TypeOK /\ CallInv => ExternalCallOnce
  <2> SUFFICES ASSUME TypeOK, CallInv, NEW k \in Keys PROVE calls[k] <= 1 + stray[k]
    BY DEF ExternalCallOnce
  <2>1. Cardinality(Pending(k)) \in Nat /\ Cardinality(Pending(k)) + calls[k] <= Live(k) + stray[k]
    BY FS_CardinalityType DEF CallInv
  <2> QED BY <2>1 DEF Live, TypeOK
<1> QED BY <1>1, <1>2, InitCallInv, TypeCorrect, PTL DEF Spec

-----------------------------------------------------------------------------
(* The abstract receipt.                                                   *)

\* A key without receipt has no replay window.
AbsentClosed == \A k \in Keys : status[k] = "none" => window[k] = "none"

LEMMA NextAbsentClosed ==
  ASSUME TypeOK, AbsentClosed, [Next]_vars
  PROVE  AbsentClosed'
<1> USE ShapeAssumption DEF TypeOK, AbsentClosed
<1>1. ASSUME NEW c \in Callers,
             Quiet(c) \/ Inserts(c) \/ TakesOver(c) \/ CallConnector(c) \/ Completes(c)
      PROVE  AbsentClosed'
  BY <1>1 DEF Quiet, receipts, Inserts, TakesOver, CallConnector, Completes
<1>2. CASE Operates
  BY <1>2 DEF Operates
<1>3. CASE Cleans
  BY <1>3 DEF Cleans, Delete
<1>4. ASSUME NEW k \in Keys, WindowPasses(k) \/ Strays(k) PROVE AbsentClosed'
  BY <1>4 DEF WindowPasses, Strays, Delete
<1> HIDE DEF TypeOK, AbsentClosed
<1> QED BY <1>1, <1>2, <1>3, <1>4, StepKinds

\* Where somebody is about to call and one receipt is all there is, none has.
LEMMA RoomForOne ==
  ASSUME NEW pending \in Nat, pending # 0, NEW made \in Nat, NEW live \in {0, 1},
         pending + made <= live + 0
  PROVE  made = 0
OBVIOUS

LEMMA CallerRefines ==
  ASSUME TypeOK, EffectInv, CallInv, NEW c \in Callers, stray'[KeyOf[c]] = 0,
         \/ Quiet(c) \/ Inserts(c) \/ TakesOver(c) \/ CallConnector(c) \/ Completes(c)
  PROVE  [Receipt!ReceiptNext]_(Receipt!receiptVars)
<1> USE ShapeAssumption DEF TypeOK, Receipt!receiptVars
<1> DEFINE k == KeyOf[c]
<1> k \in Keys
  OBVIOUS
<1>1. CASE Quiet(c)
  BY <1>1 DEF Quiet, receipts
<1>2. CASE Inserts(c)
  <2>1. Receipt!Insert(k)
    BY <1>2 DEF Inserts, Receipt!Insert
  <2> QED BY <2>1 DEF Receipt!ReceiptNext
<1>3. CASE TakesOver(c)
  <2>1. CASE status[k] = "failed_retryable"
    <3>1. Receipt!Retry(k)
      BY <1>3, <2>1 DEF TakesOver, Receipt!Retry
    <3> QED BY <3>1 DEF Receipt!ReceiptNext
  <2>2. CASE status[k] = "processing"
    BY <1>3, <2>2 DEF TakesOver
  <2> QED BY <1>3, <2>1, <2>2 DEF TakesOver, Reclaimable
<1>4. CASE CallConnector(c)
  <2>1. calls[k] = 0
    <3>1. c \in Pending(k) /\ stray[k] = 0
      BY <1>4 DEF CallConnector, Pending
    <3>2. IsFiniteSet(Pending(k)) /\ Cardinality(Pending(k)) + calls[k] <= Live(k) + stray[k]
      BY DEF CallInv
    <3>3. Cardinality(Pending(k)) \in Nat /\ Cardinality(Pending(k)) # 0
      <4>1. Cardinality(Pending(k)) = 0 <=> Pending(k) = {}
        BY <3>2, FS_EmptySet
      <4> QED BY <3>1, <3>2, <4>1, FS_CardinalityType
    <3>4. Live(k) \in {0, 1} /\ calls[k] \in Nat
      BY DEF Live
    <3>5. Cardinality(Pending(k)) + calls[k] <= Live(k) + 0
      BY <3>1, <3>2
    <3> HIDE DEF k, TypeOK
    <3> QED BY <3>3, <3>4, <3>5, RoomForOne
  <2>2. calls' = [calls EXCEPT ![k] = 1] /\ UNCHANGED <<status, window, effects>>
    BY <1>4, <2>1 DEF CallConnector
  <2>3. Receipt!Call(k)
    BY <2>1, <2>2 DEF Receipt!Call
  <2> QED BY <2>3 DEF Receipt!ReceiptNext
<1>5. CASE Completes(c)
  <2>1. ASSUME status' = [status EXCEPT ![k] = "succeeded"],
               effects' = [effects EXCEPT ![k] = @ + 1]
        PROVE  Receipt!Commit(k)
    <3>1. effects[k] = 0
      BY <1>5 DEF Completes, EffectInv
    <3>2. effects' = [effects EXCEPT ![k] = 1]
      BY <2>1, <3>1
    <3>3. /\ status[k] = "processing" /\ UNCHANGED calls
          /\ window' = [window EXCEPT ![k] = "open"]
      BY <1>5 DEF Completes
    <3> QED BY <2>1, <3>1, <3>2, <3>3 DEF Receipt!Commit
  <2>2. ASSUME NEW s \in {"failed_retryable", "failed_terminal"},
               status' = [status EXCEPT ![k] = s], UNCHANGED <<effects, applied>>
        PROVE  Receipt!Fail(k, s)
    BY <1>5, <2>2 DEF Completes, Receipt!Fail
  <2> QED BY <1>5, <2>1, <2>2 DEF Completes, Receipt!ReceiptNext
<1> QED BY <1>1, <1>2, <1>3, <1>4, <1>5

LEMMA OtherRefines ==
  ASSUME TypeOK, AbsentClosed,
         Operates \/ Cleans \/ \E k \in Keys : WindowPasses(k)
  PROVE  [Receipt!ReceiptNext]_(Receipt!receiptVars)
<1> USE DEF TypeOK, Receipt!receiptVars
<1>1. CASE Operates
  <2>1. ASSUME NEW k \in Keys, status[k] \in {"failed_retryable", "failed_terminal"},
               status' = [status EXCEPT ![k] = "failed_retryable"]
        PROVE  [Receipt!ReceiptNext]_(Receipt!receiptVars)
    <3>1. CASE status[k] = "failed_terminal"
      <4>1. Receipt!Reset(k)
        BY <1>1, <2>1, <3>1 DEF Operates, Receipt!Reset
      <4> QED BY <4>1 DEF Receipt!ReceiptNext
    <3>2. CASE status[k] = "failed_retryable"
      BY <1>1, <2>1, <3>2 DEF Operates
    <3> QED BY <2>1, <3>1, <3>2
  <2> QED BY <1>1, <2>1 DEF Operates
<1>2. CASE Cleans
  <2>1. PICK gone \in SUBSET {k \in Keys : Eligible(k)} : Delete(gone)
    BY <1>2 DEF Cleans
  <2>2. Receipt!Remove(gone)
    BY <1>2, <2>1 DEF Cleans, Delete, Eligible, Receipt!Remove
  <2> QED BY <2>2 DEF Receipt!ReceiptNext
<1>3. ASSUME NEW k \in Keys, WindowPasses(k)
      PROVE  [Receipt!ReceiptNext]_(Receipt!receiptVars)
  <2>1. CASE status[k] # "none"
    <3>1. Receipt!Expire(k)
      BY <1>3, <2>1 DEF WindowPasses, Receipt!Expire
    <3> QED BY <3>1 DEF Receipt!ReceiptNext
  <2> QED BY <1>3, <2>1 DEF AbsentClosed, WindowPasses
<1> QED BY <1>1, <1>2, <1>3

\* The detailed receipts implement the abstract one, for any number of
\* callers, keys, cleaners, lifecycle jobs, faults and interventions, until a
\* lifecycle purge deletes a receipt on an old selection: whoever relies on
\* ActionReceipt may do so up to then.
THEOREM ImplementsReceiptCorrect == Spec => ImplementsReceipt
<1> DEFINE Inv == TypeOK /\ EffectInv /\ CallInv /\ AbsentClosed
           Step == (\A k \in Keys : stray'[k] = 0)
                   => [Receipt!ReceiptNext]_(Receipt!receiptVars)
<1>1. Init => Receipt!ReceiptInit
  BY DEF Init, Receipt!ReceiptInit
<1>2. Init => Inv
  BY InitTypeOK, InitEffectInv, InitCallInv DEF Init, AbsentClosed
<1>3. Inv /\ [Next]_vars => Inv'
  BY NextTypeOK, NextEffectInv, NextCallInv, NextAbsentClosed
<1>4. Inv /\ [Next]_vars => [Step]_vars
  <2> SUFFICES ASSUME Inv, [Next]_vars, \A k \in Keys : stray'[k] = 0
               PROVE  [Receipt!ReceiptNext]_(Receipt!receiptVars)
    OBVIOUS
  <2>1. ASSUME NEW c \in Callers,
               \/ Quiet(c) \/ Inserts(c) \/ TakesOver(c) \/ CallConnector(c) \/ Completes(c)
        PROVE  [Receipt!ReceiptNext]_(Receipt!receiptVars)
    BY <2>1, CallerRefines, ShapeAssumption
  <2>2. ASSUME NEW k \in Keys, Strays(k) PROVE FALSE
    <3>1. stray \in [Keys -> Nat]
      BY DEF TypeOK
    <3>2. stray'[k] = stray[k] + 1 /\ stray[k] \in Nat
      BY <2>2, <3>1 DEF Strays
    <3> QED BY <3>2
  <2> QED BY <2>1, <2>2, StepKinds, OtherRefines
<1> HIDE DEF Inv, Step
<1>5. ImplementsReceipt <=> Receipt!ReceiptInit /\ [][Step]_vars
  BY DEF ImplementsReceipt, Step
<1> QED BY <1>1, <1>2, <1>3, <1>4, <1>5, PTL DEF Spec
=============================================================================
