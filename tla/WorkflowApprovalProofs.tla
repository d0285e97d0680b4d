----------------------- MODULE WorkflowApprovalProofs -----------------------
(***************************************************************************)
(* Proofs about WorkflowApproval, for any finite set of tasks, any number  *)
(* of requests, workers and deadlines, every mode and every number of      *)
(* attempts, tries, errors and faults.                                     *)
(***************************************************************************)
EXTENDS WorkflowApproval, FiniteSetTheorems, WellFoundedInduction, TLAPS

USE DEF processVars, voteVars, actionVars, requestVars, otherVars, historyVars

-----------------------------------------------------------------------------
(* Types of requests and of what they have read.                           *)

Wishes == [task : Tasks \cup {0}, decision : {"none", "approved", "rejected"},
           who : {"none", "assignee", "deputy"}, tries : Nat]
Snaps == [rev : Nat, task : [Tasks -> TaskStatuses \cup {"none"}],
          holder : [Tasks -> {"none", "assignee", "deputy"}]]

\* A request that is not idle has a wish and a snapshot of an earlier revision.
RequestType ==
  /\ want \in [Requests -> Wishes] /\ snap \in [Requests -> Snaps]
  /\ \A r \in Requests : stage[r] # "idle" =>
       /\ want[r].task \in Tasks /\ want[r].decision \in {"approved", "rejected"}
       /\ snap[r].task \in [Tasks -> TaskStatuses]
       /\ snap[r].holder \in [Tasks -> {"assignee", "deputy"}]
       /\ snap[r].rev <= rev

Stages == Continuing \cup {"idle", "decide", "claim"}

\* What moving on and leaving do to the notes of the requests and workers.
LEMMA Going ==
  ASSUME TypeOK, NEW a \in Actors, NEW s \in Stages, Goto(a, s)
  PROVE  /\ stage' \in [Actors -> Stages] /\ stage'[a] = s
         /\ \A b \in Actors \ {a} : stage'[b] = stage[b]
BY DEF TypeOK, Goto, Stages

LEMMA Leaving ==
  ASSUME TypeOK, RequestType, NEW a \in Actors, Leave(a)
  PROVE  /\ stage' \in [Actors -> Stages] /\ stage'[a] = "idle"
         /\ key' \in [Actors -> Nat] /\ got' \in [Workers -> Rows]
         /\ want' \in [Requests -> Wishes] /\ snap' \in [Requests -> Snaps]
         /\ \A b \in Actors \ {a} : stage'[b] = stage[b] /\ key'[b] = key[b]
         /\ \A r \in Requests \ {a} : want'[r] = want[r] /\ snap'[r] = snap[r]
         /\ \A w \in Workers \ {a} : got'[w] = got[w]
<1>1. stage' \in [Actors -> Stages] /\ stage'[a] = "idle"
  BY Going DEF Leave, Stages
<1>2. NoWish \in Wishes /\ NoSnap \in Snaps /\ NoRow \in Rows
  BY DEF NoWish, NoSnap, NoRow, Wishes, Snaps, Rows
<1>3. key' \in [Actors -> Nat] /\ got' \in [Workers -> Rows]
  BY <1>2 DEF Leave, TypeOK
<1>4. want' \in [Requests -> Wishes] /\ snap' \in [Requests -> Snaps]
  BY <1>2 DEF Leave, RequestType
<1>5. \A b \in Actors \ {a} : stage'[b] = stage[b] /\ key'[b] = key[b]
  BY DEF Leave, Goto, TypeOK
<1>6. \A r \in Requests \ {a} : want'[r] = want[r] /\ snap'[r] = snap[r]
  BY DEF Leave, RequestType
<1>7. \A w \in Workers \ {a} : got'[w] = got[w]
  BY DEF Leave, TypeOK
<1> QED BY <1>1, <1>3, <1>4, <1>5, <1>6, <1>7

\* Requests keep their notes while the revision grows.
LEMMA NotesKept ==
  ASSUME TypeOK, RequestType, rev' \in Nat, rev <= rev',
         want' \in [Requests -> Wishes], snap' \in [Requests -> Snaps],
         \A r \in Requests : stage'[r] # "idle" =>
           stage[r] # "idle" /\ want'[r] = want[r] /\ snap'[r] = snap[r]
  PROVE  RequestType'
<1> SUFFICES ASSUME NEW r \in Requests, stage'[r] # "idle"
             PROVE  /\ want'[r].task \in Tasks /\ want'[r].decision \in {"approved", "rejected"}
                    /\ snap'[r].task \in [Tasks -> TaskStatuses]
                    /\ snap'[r].holder \in [Tasks -> {"assignee", "deputy"}]
                    /\ snap'[r].rev <= rev'
  BY DEF RequestType
<1>1. snap[r].rev \in Nat /\ rev \in Nat /\ snap[r].rev <= rev
  BY DEF RequestType, Snaps, TypeOK
<1> QED BY <1>1 DEF RequestType

LEMMA InitTypes == Init => TypeOK /\ RequestType
<1> SUFFICES ASSUME Init PROVE TypeOK /\ RequestType
  OBVIOUS
<1>1. NoWish \in Wishes /\ NoSnap \in Snaps /\ NoRow \in Rows
  BY DEF NoWish, NoSnap, NoRow, Wishes, Snaps, Rows
<1>2. exec \in Rows
  BY DEF Init, NoRow, Rows
<1>3. TypeOK
  BY <1>1, <1>2 DEF Init, TypeOK, TaskStatuses
<1>4. RequestType
  BY <1>1 DEF Init, RequestType, Actors
<1> QED BY <1>3, <1>4

\* Types of the variables that hold no notes.
RowType ==
  /\ mode \in Modes /\ rev \in Nat
  /\ doneNodes \in Nat /\ failedNodes \in Nat /\ effects \subseteq Nat
  /\ pstatus \in {"waiting", "running", "completed", "rejected", "configuration_error",
                  "cancelled"}
  /\ node \in {"waiting", "approved", "rejected", "cancelled"}
  /\ task \in [Tasks -> TaskStatuses] /\ holder \in [Tasks -> {"assignee", "deputy"}]
  /\ exec \in Rows
  /\ deadline \in [Tasks -> {"set", "read", "done"}] /\ withdrawal \in Nat
  /\ failures \in Nat /\ faults \in Nat /\ forgotten \in Nat /\ reopened \subseteq Tasks

NoteType ==
  stage \in [Actors -> Stages] /\ got \in [Workers -> Rows] /\ key \in [Actors -> Nat]

LEMMA TypeParts == TypeOK <=> RowType /\ NoteType
BY DEF TypeOK, RowType, NoteType, Stages

\* A step that leaves the notes, or moves on to s, given the types of the rows.
LEMMA LeavesTyped ==
  ASSUME TypeOK, RequestType, NEW a \in Actors, Leave(a), RowType', rev <= rev'
  PROVE  TypeOK' /\ RequestType'
<1>1. NoteType'
  BY Leaving DEF NoteType
<1>2. TypeOK'
  BY <1>1, TypeParts DEF TypeOK, RowType, NoteType, Stages
<1>3. RequestType'
  BY Leaving, NotesKept DEF Actors, RowType
<1> QED BY <1>2, <1>3

LEMMA GoesTyped ==
  ASSUME TypeOK, RequestType, NEW a \in Actors, NEW s \in Stages, Goto(a, s),
         a \in Requests => stage[a] # "idle",
         UNCHANGED <<want, snap>>, got' \in [Workers -> Rows], key' \in [Actors -> Nat],
         RowType', rev <= rev'
  PROVE  TypeOK' /\ RequestType'
<1>1. NoteType'
  BY Going DEF NoteType
<1>2. TypeOK'
  BY <1>1 DEF TypeOK, RowType, NoteType, Stages
<1>3. want' \in [Requests -> Wishes] /\ snap' \in [Requests -> Snaps]
  BY DEF RequestType
<1>4. RequestType'
  BY <1>3, Going, NotesKept DEF Actors, RowType
<1> QED BY <1>2, <1>4

\* The steps of a request that has not decided yet.
LEMMA ReadTyped ==
  ASSUME TypeOK, RequestType, NEW r \in Requests, NEW wish \in Wishes, Read(r, wish),
         wish.task \in Tasks, wish.decision \in {"approved", "rejected"},
         UNCHANGED <<processVars, voteVars, exec, actionVars, got, key, otherVars, failures,
                     faults, historyVars>>
  PROVE  TypeOK' /\ RequestType'
<1>1. stage' \in [Actors -> Stages] /\ \A b \in Actors \ {r} : stage'[b] = stage[b]
  BY Going DEF Read, Actors, Stages
<1>2. TypeOK'
  BY <1>1 DEF TypeOK, Stages
<1> DEFINE now == [rev |-> rev, task |-> task, holder |-> holder]
<1>3. /\ now \in Snaps /\ now.rev = rev /\ now.task = task /\ now.holder = holder
  BY DEF TypeOK, Snaps
<1> HIDE DEF now
<1>4. want' = [want EXCEPT ![r] = wish] /\ snap' = [snap EXCEPT ![r] = now]
  BY DEF Read, now
<1>5. want' \in [Requests -> Wishes] /\ snap' \in [Requests -> Snaps]
  BY <1>3, <1>4 DEF RequestType
<1>6. ASSUME NEW q \in Requests, stage'[q] # "idle"
      PROVE  /\ want'[q].task \in Tasks /\ want'[q].decision \in {"approved", "rejected"}
             /\ snap'[q].task \in [Tasks -> TaskStatuses]
             /\ snap'[q].holder \in [Tasks -> {"assignee", "deputy"}]
             /\ snap'[q].rev <= rev'
  <2>1. CASE q = r
    BY <1>3, <1>4, <2>1 DEF RequestType, TypeOK
  <2>2. CASE q # r
    BY <1>1, <1>4, <1>6, <2>2 DEF RequestType, Actors
  <2> QED BY <2>1, <2>2
<1>7. RequestType'
  BY <1>5, <1>6 DEF RequestType
<1> QED BY <1>2, <1>7

LEMMA RequestTypes ==
  ASSUME TypeOK, RequestType, NEW r \in Requests,
         \/ \E t \in Tasks, d \in {"approved", "rejected"} : BeginDecision(r, t, d)
         \/ RetryDecision(r) \/ RefuseDecision(r) \/ PartialVote(r) \/ ApprovingVote(r)
         \/ RejectingVote(r) \/ ClaimInline(r) \/ SettleInline(r) \/ RecoverDecision(r)
         \/ AbortRequest(r)
  PROVE  TypeOK' /\ RequestType'
<1> USE DEF Actors
<1>0. RowType /\ rev \in Nat /\ rev <= rev /\ rev <= rev + 1 /\ rev + 1 \in Nat
  BY TypeParts DEF TypeOK
<1>1. ASSUME NEW t \in Tasks, NEW d \in {"approved", "rejected"}, BeginDecision(r, t, d)
      PROVE  TypeOK' /\ RequestType'
  <2> DEFINE wish == [task |-> t, decision |-> d, who |-> holder[t], tries |-> Tries]
  <2>1. wish \in Wishes /\ wish.task = t /\ wish.decision = d
    BY ApprovalNumbers DEF Wishes, TypeOK
  <2> HIDE DEF wish
  <2>2. Read(r, wish)
    BY <1>1 DEF BeginDecision, wish
  <2> QED BY <1>1, <2>1, <2>2, ReadTyped DEF BeginDecision
<1>2. CASE RetryDecision(r)
  <2>1. CASE Leave(r)
    BY <1>0, <1>2, <2>1, LeavesTyped DEF RetryDecision, RowType
  <2>2. CASE want[r].tries > 1 /\ Read(r, [want[r] EXCEPT !.tries = @ - 1])
    <3> DEFINE wish == [want[r] EXCEPT !.tries = @ - 1]
    <3>1. stage[r] = "decide"
      BY <1>2 DEF RetryDecision
    <3>2. want[r] \in Wishes /\ want[r].tries \in Nat
      BY DEF RequestType, Wishes
    <3>3. wish \in Wishes /\ wish.task = want[r].task /\ wish.decision = want[r].decision
      BY <2>2, <3>2 DEF Wishes
    <3>4. want[r].task \in Tasks /\ want[r].decision \in {"approved", "rejected"}
      BY <3>1 DEF RequestType
    <3>5. Read(r, wish)
      BY <2>2
    <3> HIDE DEF wish
    <3>6. UNCHANGED <<got, key>>
      BY <1>2, <3>5 DEF RetryDecision, Leave, Read, Goto, TypeOK
    <3> QED BY <1>2, <3>3, <3>4, <3>5, <3>6, ReadTyped DEF RetryDecision
  <2> QED BY <1>2, <2>1, <2>2 DEF RetryDecision
<1>3. CASE RefuseDecision(r)
  BY <1>0, <1>3, LeavesTyped DEF RefuseDecision, RowType
<1>4. CASE PartialVote(r)
  <2>1. task' \in [Tasks -> TaskStatuses]
    BY <1>4 DEF PartialVote, TypeOK, TaskStatuses
  <2> QED BY <1>0, <1>4, <2>1, LeavesTyped DEF PartialVote, RowType
<1>5. ASSUME Commits(r) PROVE Decided(r) \in [Tasks -> TaskStatuses]
  <2>1. want[r].decision \in TaskStatuses
    BY <1>5 DEF Commits, RequestType, TaskStatuses
  <2> QED BY <2>1 DEF Decided, TypeOK, TaskStatuses
<1>6. CASE ApprovingVote(r)
  <2>1. task' \in [Tasks -> TaskStatuses] /\ stage[r] = "decide"
    BY <1>5, <1>6 DEF ApprovingVote, Commits
  <2>2. exec' \in Rows
    BY <1>0, <1>6 DEF ApprovingVote, TypeOK, Rows
  <2>3. RowType'
    BY <1>0, <1>6, <2>1, <2>2 DEF ApprovingVote, RowType
  <2> QED BY <1>0, <1>6, <2>1, <2>3, GoesTyped DEF ApprovingVote, Stages, TypeOK
<1>7. CASE RejectingVote(r)
  <2>1. task' \in [Tasks -> TaskStatuses]
    BY <1>5, <1>7 DEF RejectingVote
  <2>2. exec' \in Rows
    BY <1>7 DEF RejectingVote, TypeOK, Rows
  <2>3. RowType'
    BY <1>0, <1>7, <2>1, <2>2 DEF RejectingVote, RowType
  <2> QED BY <1>0, <1>7, <2>3, LeavesTyped DEF RejectingVote
<1>8. CASE ClaimInline(r)
  <2>1. exec' \in Rows
    BY <1>8 DEF ClaimInline, TypeOK, Rows
  <2>2. RowType'
    BY <1>0, <1>8, <2>1 DEF ClaimInline, RowType
  <2>3. CASE Leave(r)
    BY <1>0, <1>8, <2>2, <2>3, LeavesTyped DEF ClaimInline
  <2>4. CASE Goto(r, "prepare") /\ UNCHANGED <<requestVars, got, key>>
    BY <1>0, <1>8, <2>2, <2>4, GoesTyped DEF ClaimInline, Stages, Continuing, TypeOK
  <2> QED BY <1>8, <2>3, <2>4 DEF ClaimInline
<1>9. CASE SettleInline(r)
  <2>1. exec' \in Rows
    <3>0. exec \in Rows /\ exec.attempt + 1 \in Nat
      BY DEF TypeOK, Rows
    <3>1. [exec EXCEPT !.status = "completed", !.attempt = @ + 1] \in Rows
      BY <3>0 DEF Rows
    <3> QED BY <1>9, <3>1 DEF SettleInline, TypeOK
  <2>2. RowType'
    BY <1>0, <1>9, <2>1 DEF SettleInline, RowType
  <2> QED BY <1>0, <1>9, <2>2, LeavesTyped DEF SettleInline
<1>10. CASE RecoverDecision(r)
  <2>1. exec' \in Rows
    <3>1. [exec EXCEPT !.status = "waiting", !.attempt = 0] \in Rows
      BY DEF TypeOK, Rows
    <3> QED BY <1>10, <3>1 DEF RecoverDecision, TypeOK
  <2>2. task' \in [Tasks -> TaskStatuses] /\ holder' \in [Tasks -> {"assignee", "deputy"}]
    BY <1>10 DEF RecoverDecision, Restored, RequestType, TypeOK
  <2>3. /\ rev' \in {rev, rev + 1}
        /\ pstatus' \in {pstatus, "waiting"} /\ node' \in {node, "waiting"}
    BY <1>10 DEF RecoverDecision
  <2>4. RowType'
    BY <1>0, <1>10, <2>1, <2>2, <2>3 DEF RecoverDecision, RowType
  <2> QED BY <1>0, <1>10, <2>3, <2>4, LeavesTyped DEF RecoverDecision
<1>11. CASE AbortRequest(r)
  <2>1. faults' \in Nat /\ forgotten' \in Nat
    BY <1>11 DEF AbortRequest, Fault, TypeOK
  <2> QED BY <1>0, <1>11, <2>1, LeavesTyped DEF AbortRequest, RowType
<1> QED BY <1>1, <1>2, <1>3, <1>4, <1>6, <1>7, <1>8, <1>9, <1>10, <1>11

\* A continuation goes on, or is cancelled.
Runs(a) == Continue(a) \/ (a \in Workers /\ CancelWork(a))

\* The steps of a continuation write only the process, the action and its nodes.
LEMMA ContinueTypes ==
  ASSUME TypeOK, RequestType, NEW a \in Actors, Runs(a)
  PROVE  TypeOK' /\ RequestType'
<1>0. RowType /\ rev \in Nat /\ rev <= rev /\ rev <= rev + 1 /\ rev + 1 \in Nat
  BY TypeParts DEF TypeOK
<1>1. ASSUME NEW s \in Stages, Goto(a, s), stage[a] \in Continuing, RowType', rev <= rev',
             UNCHANGED <<want, snap, got>>, key' \in [Actors -> Nat]
      PROVE  TypeOK' /\ RequestType'
  <2>1. stage[a] # "idle"
    BY <1>1 DEF Continuing
  <2> QED BY <1>1, <2>1, GoesTyped DEF TypeOK
<1>2. Continuing \subseteq Stages /\ Failure(a) \in Stages /\ key \in [Actors -> Nat]
  BY DEF Stages, Failure, Continuing, TypeOK
<1>3. ASSUME NEW listed \in BOOLEAN, PrepareAction(a, listed)
      PROVE  TypeOK' /\ RequestType'
  <2>1. "act" \in Stages /\ stage[a] \in Continuing
    BY <1>3 DEF PrepareAction, Stages, Continuing
  <2>2. faults' \in Nat /\ forgotten' \in Nat
    BY <1>3 DEF PrepareAction, Fault, TypeOK
  <2>3. key' \in [Actors -> Nat]
    <3>1. NextNodeIteration(listed) \in Nat
      BY DEF NextNodeIteration, Instances, TypeOK
    <3> QED BY <1>2, <1>3, <3>1 DEF PrepareAction
  <2>4. RowType'
    BY <1>0, <1>3, <2>2 DEF PrepareAction, RowType
  <2> QED BY <1>0, <1>1, <1>3, <2>1, <2>3, <2>4 DEF PrepareAction
<1>4. ASSUME NEW result \in {"done", "failed", "lost"}, InvokeAction(a, result)
      PROVE  TypeOK' /\ RequestType'
  <2>1. faults' \in Nat /\ failures' \in Nat
    BY <1>4 DEF InvokeAction, Fault, TypeOK
  <2>2. effects' \subseteq Nat
    <3>1. key[a] \in Nat /\ effects \subseteq Nat
      BY DEF TypeOK
    <3>2. effects' = effects \/ effects' = effects \cup {key[a]}
      BY <1>4 DEF InvokeAction
    <3> QED BY <3>1, <3>2
  <2>3. RowType'
    BY <1>0, <1>4, <2>1, <2>2 DEF InvokeAction, RowType
  <2>4. (IF result = "done" THEN "note" ELSE "note_failure") \in Stages
        /\ stage[a] \in Continuing
    BY <1>4 DEF InvokeAction, Stages, Continuing
  <2> QED BY <1>0, <1>1, <1>2, <1>4, <2>3, <2>4 DEF InvokeAction
<1>5. ASSUME NEW written \in BOOLEAN, RecordCompletedNode(a, written)
      PROVE  TypeOK' /\ RequestType'
  <2>1. faults' \in Nat
    BY <1>5 DEF RecordCompletedNode, Fault, TypeOK
  <2>2. doneNodes' \in Nat
    BY <1>5 DEF RecordCompletedNode, TypeOK
  <2>3. RowType'
    BY <1>0, <1>5, <2>1, <2>2 DEF RecordCompletedNode, RowType
  <2>4. (IF written THEN "complete" ELSE "fail") \in Stages /\ stage[a] \in Continuing
    BY <1>5 DEF RecordCompletedNode, Stages, Continuing
  <2> QED BY <1>0, <1>1, <1>2, <1>5, <2>3, <2>4 DEF RecordCompletedNode
<1>6. ASSUME NEW written \in BOOLEAN, RecordFailedNode(a, written)
      PROVE  TypeOK' /\ RequestType'
  <2>1. "fail" \in Stages /\ stage[a] \in Continuing
    BY <1>6 DEF RecordFailedNode, Stages, Continuing
  <2>2. failedNodes' \in Nat /\ forgotten' \in Nat
    BY <1>6 DEF RecordFailedNode, TypeOK
  <2>3. faults' \in Nat
    BY <1>6 DEF RecordFailedNode, Fault, TypeOK
  <2>4. RowType'
    BY <1>0, <1>6, <2>2, <2>3 DEF RecordFailedNode, RowType
  <2> QED BY <1>0, <1>1, <1>2, <1>6, <2>1, <2>4 DEF RecordFailedNode
<1>7. ASSUME NEW written \in BOOLEAN, FailProcess(a, written)
      PROVE  TypeOK' /\ RequestType'
  <2>0. faults' \in Nat
    BY <1>7 DEF FailProcess, Fault, TypeOK
  <2>1. rev' \in {rev, rev + 1} /\ pstatus' \in {pstatus, "configuration_error"}
    BY <1>7 DEF FailProcess
  <2>2. RowType'
    BY <1>0, <1>7, <2>0, <2>1 DEF FailProcess, RowType
  <2>3. stage[a] \in Continuing
    BY <1>7 DEF FailProcess, Continuing
  <2> QED BY <1>0, <1>1, <1>2, <1>7, <2>1, <2>2, <2>3 DEF FailProcess
<1>8. ASSUME NEW written \in BOOLEAN, CompleteProcess(a, written)
      PROVE  TypeOK' /\ RequestType'
  <2>1. rev' \in {rev, rev + 1} /\ pstatus' \in {pstatus, "completed"}
    BY <1>8 DEF CompleteProcess
  <2>2. faults' \in Nat /\ forgotten' \in Nat
    BY <1>8 DEF CompleteProcess, Fault, TypeOK
  <2>3. RowType'
    BY <1>0, <1>8, <2>1, <2>2 DEF CompleteProcess, RowType
  <2>4. stage[a] \in Continuing /\ "settle" \in Stages
    BY <1>8 DEF CompleteProcess, Stages, Continuing
  <2>5. Goto(a, "settle") \/ Goto(a, Failure(a))
    BY <1>8 DEF CompleteProcess
  <2> QED BY <1>0, <1>1, <1>2, <1>8, <2>1, <2>3, <2>4, <2>5 DEF CompleteProcess
<1>9. CASE CancelWork(a)
  <2>1. "mark" \in Stages /\ stage[a] \in Continuing
    BY <1>9 DEF CancelWork, Stages, Continuing, Running
  <2>2. faults' \in Nat /\ forgotten' \in Nat
    BY <1>9 DEF CancelWork, Fault, TypeOK
  <2>3. RowType'
    BY <1>0, <1>9, <2>2 DEF CancelWork, RowType
  <2> QED BY <1>0, <1>1, <1>2, <1>9, <2>1, <2>3 DEF CancelWork
<1> QED BY <1>3, <1>4, <1>5, <1>6, <1>7, <1>8, <1>9 DEF Runs, Continue

LEMMA WorkerTypes ==
  ASSUME TypeOK, RequestType, NEW w \in Workers,
         ReadExecution(w) \/ ClaimExecution(w) \/ CommitClaimed(w) \/ StopWorker(w)
  PROVE  TypeOK' /\ RequestType'
<1> USE DEF Actors
<1>0. RowType /\ rev \in Nat /\ rev <= rev /\ w \notin Requests
  BY TypeParts, ApprovalShape DEF TypeOK
<1>1. CASE ReadExecution(w)
  <2>1. got' \in [Workers -> Rows] /\ key' \in [Actors -> Nat]
    BY <1>1 DEF ReadExecution, TypeOK
  <2> QED BY <1>0, <1>1, <2>1, GoesTyped DEF ReadExecution, RowType, Stages
<1>2. CASE ClaimExecution(w)
  <2>1. exec' \in Rows
    <3>0. exec \in Rows /\ exec.token + 1 \in Nat
      BY DEF TypeOK, Rows
    <3>1. [exec EXCEPT !.status = "running", !.owner = w, !.lease = "live", !.token = @ + 1]
            \in Rows
      BY <3>0 DEF Rows
    <3> QED BY <1>2, <3>1 DEF ClaimExecution, TypeOK
  <2>2. RowType'
    BY <1>0, <1>2, <2>1 DEF ClaimExecution, RowType
  <2>3. CASE Leave(w)
    BY <1>0, <1>2, <2>2, <2>3, LeavesTyped DEF ClaimExecution
  <2>4. CASE Goto(w, "prepare") /\ UNCHANGED <<requestVars, got, key>>
    BY <1>0, <1>2, <2>2, <2>4, GoesTyped DEF ClaimExecution, Stages, Continuing, TypeOK
  <2> QED BY <1>2, <2>3, <2>4 DEF ClaimExecution
<1>3. CASE CommitClaimed(w)
  <2> DEFINE attempt == got[w].attempt + 1
             result == IF stage[w] = "settle" THEN "completed" ELSE Marked(attempt)
  <2>1. attempt \in Nat /\ result \in {"completed", "failed", "dead_letter"}
    BY DEF Marked, TypeOK, Rows
  <2>2. [exec EXCEPT !.status = result, !.owner = NoOwner, !.lease = "none",
                     !.attempt = attempt] \in Rows
    BY <2>1 DEF TypeOK, Rows
  <2>3. exec' \in Rows
    BY <1>3, <2>2 DEF CommitClaimed, TypeOK
  <2>4. RowType'
    BY <1>0, <1>3, <2>3 DEF CommitClaimed, RowType
  <2> QED BY <1>0, <1>3, <2>4, LeavesTyped DEF CommitClaimed
<1>4. CASE StopWorker(w)
  <2>1. faults' \in Nat /\ forgotten' \in Nat
    BY <1>4 DEF StopWorker, Fault, TypeOK
  <2> QED BY <1>0, <1>4, <2>1, LeavesTyped DEF StopWorker, RowType
<1> QED BY <1>1, <1>2, <1>3, <1>4

LEMMA AroundTypes ==
  ASSUME TypeOK, RequestType,
         \/ LeaseExpires \/ PrepareWithdrawal \/ Withdraw \/ UNCHANGED vars
         \/ \E t \in Tasks : ReadDeadline(t) \/ Escalate(t)
  PROVE  TypeOK' /\ RequestType'
<1>1. ASSUME UNCHANGED <<stage, want, snap, got, key>>, RowType', rev <= rev'
      PROVE  TypeOK' /\ RequestType'
  <2>1. NoteType'
    BY <1>1 DEF TypeOK, NoteType, Stages
  <2>2. TypeOK'
    BY <1>1, <2>1 DEF TypeOK, RowType, NoteType, Stages
  <2>3. want' \in [Requests -> Wishes] /\ snap' \in [Requests -> Snaps] /\ rev' \in Nat
    BY <1>1 DEF RequestType, RowType
  <2>4. RequestType'
    BY <1>1, <2>3, NotesKept
  <2> QED BY <2>2, <2>4
<1>0. RowType /\ rev \in Nat /\ rev <= rev /\ rev <= rev + 1 /\ rev + 1 \in Nat
  BY TypeParts DEF TypeOK
<1>2. CASE LeaseExpires
  <2>1. exec' \in Rows
    BY <1>2 DEF LeaseExpires, TypeOK, Rows
  <2>2. faults' \in Nat
    BY <1>2 DEF LeaseExpires, Fault, TypeOK
  <2> QED BY <1>0, <1>1, <1>2, <2>1, <2>2 DEF LeaseExpires, RowType
<1>3. CASE PrepareWithdrawal
  BY <1>0, <1>1, <1>3 DEF PrepareWithdrawal, RowType
<1>4. CASE Withdraw
  <2>1. exec' \in Rows
    <3>1. [exec EXCEPT !.status = "cancelled", !.owner = NoOwner, !.lease = "none"] \in Rows
      BY DEF TypeOK, Rows
    <3> QED BY <1>4, <3>1 DEF Withdraw, TypeOK
  <2>2. task' \in [Tasks -> TaskStatuses]
    BY <1>4 DEF Withdraw, TypeOK, TaskStatuses
  <2>3. /\ rev' \in {rev, rev + 1} /\ pstatus' \in {pstatus, "cancelled"}
        /\ node' \in {node, "cancelled"} /\ withdrawal' = 0
    BY <1>4 DEF Withdraw
  <2>4. RowType'
    BY <1>0, <1>4, <2>1, <2>2, <2>3 DEF Withdraw, RowType
  <2> QED BY <1>0, <1>1, <1>4, <2>3, <2>4 DEF Withdraw
<1>5. CASE UNCHANGED vars
  BY <1>0, <1>1, <1>5 DEF vars, RowType
<1>6. ASSUME NEW t \in Tasks, ReadDeadline(t) PROVE TypeOK' /\ RequestType'
  <2>1. deadline' \in [Tasks -> {"set", "read", "done"}]
    BY <1>6 DEF ReadDeadline, TypeOK
  <2> QED BY <1>0, <1>1, <1>6, <2>1 DEF ReadDeadline, RowType
<1>7. ASSUME NEW t \in Tasks, Escalate(t) PROVE TypeOK' /\ RequestType'
  <2>1. deadline' \in [Tasks -> {"set", "read", "done"}]
    BY <1>7 DEF Escalate, TypeOK
  <2>2. task' \in [Tasks -> TaskStatuses] /\ holder' \in [Tasks -> {"assignee", "deputy"}]
    BY <1>7 DEF Escalate, TypeOK, TaskStatuses
  <2>3. reopened' \subseteq Tasks
    BY <1>7 DEF Escalate, TypeOK
  <2> QED BY <1>0, <1>1, <1>7, <2>1, <2>2, <2>3 DEF Escalate, RowType
<1> QED BY <1>2, <1>3, <1>4, <1>5, <1>6, <1>7

LEMMA StepTypes == TypeOK /\ RequestType /\ [Next]_vars => TypeOK' /\ RequestType'
BY RequestTypes, ContinueTypes, WorkerTypes, AroundTypes DEF Next, Serve, Work, Actors, Runs

-----------------------------------------------------------------------------
(* Who runs a continuation.                                                *)

Busy == {a \in Actors : stage[a] \in Continuing}

Underway == {"running", "completed", "configuration_error"}

\* The first four conjuncts of RowsAgree, and the node of a waiting process.
RowsInv ==
  /\ exec.status = "waiting" <=> pstatus = "waiting"
  /\ exec.status = "cancelled" <=> pstatus = "cancelled"
  /\ exec.status = "rejected" <=> pstatus = "rejected"
  /\ pstatus \in Underway => node = "approved"
  /\ pstatus = "waiting" => node = "waiting"

\* A request that continues is alone, on an execution without an owner; nobody
\* continues before a claim; what a worker has read to claim is not overtaken
\* unnoticed.
ClaimInv ==
  /\ exec.status # "running" => exec.owner = NoOwner
  /\ exec.owner = NoOwner <=> exec.lease = "none"
  /\ Busy # {} => pstatus \in Underway /\ exec.status # "pending"
  /\ \A r \in Requests \cap Busy :
       Busy = {r} /\ exec.status = "running" /\ exec.owner = NoOwner
  /\ \A w \in Workers : stage[w] = "claim" =>
       /\ got[w].token <= exec.token
       /\ \/ got[w].status \in {"pending", "failed"}
          \/ got[w].status = "running" /\ got[w].owner # NoOwner
       /\ got[w].status = "running" /\ exec.token = got[w].token => exec.lease # "live"

\* As long as no worker outlives its lease there is one continuation at a time.
LeaseInv ==
  ~overran =>
    /\ \A a, b \in Busy : a = b
    /\ \A w \in Workers \cap Busy :
         exec.status = "running" /\ exec.owner = w /\ exec.token = got[w].token + 1
         /\ exec.lease = "live"

OutcomeInv ==
  ~overran =>
    /\ exec.status = "completed" => pstatus = "completed"
    /\ \A a \in Actors : stage[a] = "settle" => pstatus = "completed"
    /\ ~silent =>
         /\ exec.status = "dead_letter" => pstatus = "configuration_error"
         /\ \A a \in Actors :
              stage[a] \in {"mark", "recover"} => pstatus = "configuration_error"

-----------------------------------------------------------------------------
(* The shapes of the steps, as far as continuations are concerned.         *)

\* Only a moves.
Others(a) ==
  /\ \A b \in Actors \ {a} : stage'[b] = stage[b] /\ key'[b] = key[b]
  /\ \A w \in Workers \ {a} : got'[w] = got[w]

\* Nothing that matters to a continuation changes; a worker may read the row.
Aside(a) ==
  /\ Others(a)
  /\ stage[a] \notin Continuing /\ stage'[a] \notin Continuing
  /\ a \in Workers /\ stage'[a] = "claim" => Due /\ got'[a] = exec
  /\ UNCHANGED <<pstatus, node, exec, doneNodes, failedNodes, effects, forgotten, silent,
                 overran>>

Around ==
  UNCHANGED <<stage, key, got, pstatus, node, exec, doneNodes, failedNodes, effects,
              forgotten, silent, overran>>

\* A vote decides a waiting process.
Decides(r) ==
  /\ Others(r) /\ stage[r] = "decide" /\ stage'[r] \in {"idle", "claim"}
  /\ pstatus = "waiting"
  /\ \/ pstatus' = "running" /\ node' = "approved" /\ exec'.status = "pending"
     \/ pstatus' = "rejected" /\ exec'.status = "rejected"
  /\ exec'.owner = exec.owner /\ exec'.lease = exec.lease /\ exec'.token = exec.token
  /\ UNCHANGED <<doneNodes, failedNodes, effects, forgotten, silent, overran>>

\* A waiting process is withdrawn.
Withdraws ==
  /\ pstatus = "waiting" /\ pstatus' = "cancelled"
  /\ exec.status = "waiting" => exec'.status = "cancelled" /\ exec'.owner = NoOwner
                                /\ exec'.lease = "none" /\ exec'.token = exec.token
  /\ UNCHANGED <<stage, key, got, doneNodes, failedNodes, effects, forgotten, silent,
                 overran>>

\* A continuation begins.
Claims(a) ==
  /\ Others(a) /\ stage[a] = "claim" /\ stage'[a] = "prepare"
  /\ exec'.status = "running"
  /\ a \in Requests => /\ exec.status = "pending" /\ exec'.owner = exec.owner
                       /\ exec'.lease = exec.lease /\ exec'.token = exec.token
  /\ a \in Workers => /\ Unchanged(a) /\ got'[a] = got[a] /\ exec'.owner = a
                      /\ exec'.lease = "live" /\ exec'.token = exec.token + 1
  /\ UNCHANGED <<pstatus, node, doneNodes, failedNodes, effects, forgotten, silent, overran>>

\* It goes on.
Proceeds(a) ==
  /\ Others(a) /\ stage[a] \in Continuing /\ stage'[a] \in Continuing
  /\ UNCHANGED <<got, node, exec, overran>>
  /\ pstatus' \in {pstatus, "completed", "configuration_error"}

\* It ends, with a result or without one, or the decision is put back.
Ends(a) ==
  /\ Others(a) /\ stage[a] \in Continuing /\ stage'[a] = "idle"
  /\ UNCHANGED <<doneNodes, failedNodes, effects, silent, overran>>
  /\ forgotten' \in {forgotten, forgotten + 1}
  /\ \/ /\ UNCHANGED <<exec, pstatus, node>>
        /\ stage[a] = "complete" => forgotten' = forgotten + 1
        /\ a \in Workers /\ stage[a] = "settle" /\ Holds(a) => forgotten' = forgotten + 1
     \/ /\ stage[a] \in {"settle", "mark"} /\ UNCHANGED <<pstatus, node>>
        /\ stage[a] = "settle" => exec'.status = "completed"
        /\ stage[a] = "mark" => exec'.status \in {"failed", "dead_letter"}
        /\ exec'.token = exec.token
        /\ a \in Requests => exec'.owner = exec.owner /\ exec'.lease = exec.lease
        /\ a \in Workers => Holds(a) /\ exec'.owner = NoOwner /\ exec'.lease = "none"
     \/ /\ a \in Requests /\ stage[a] = "recover"
        /\ pstatus' = "waiting" /\ node' = "waiting" /\ exec'.status = "waiting"
        /\ exec'.owner = exec.owner /\ exec'.lease = exec.lease /\ exec'.token = exec.token

\* A lease runs out.
Expires ==
  /\ exec.status = "running" /\ exec.lease = "live"
  /\ exec'.status = exec.status /\ exec'.owner = exec.owner /\ exec'.token = exec.token
  /\ exec'.lease = "expired"
  /\ ~overran' => ~Working /\ ~overran
  /\ UNCHANGED <<stage, key, got, pstatus, node, doneNodes, failedNodes, effects, forgotten,
                 silent>>

LEMMA BusyAfter ==
  ASSUME NEW a \in Actors, Others(a)
  PROVE  /\ stage'[a] \in Continuing => Busy' = Busy \cup {a}
         /\ stage'[a] \notin Continuing => Busy' = Busy \ {a}
BY DEF Others, Busy

LEMMA LeavingOthers ==
  ASSUME TypeOK, RequestType, NEW a \in Actors, Leave(a)
  PROVE  Others(a) /\ stage'[a] = "idle"
BY Leaving DEF Others

LEMMA GoingOthers ==
  ASSUME TypeOK, NEW a \in Actors, NEW s \in Stages, Goto(a, s), UNCHANGED <<got, key>>
  PROVE  Others(a) /\ stage'[a] = s
BY Going DEF Others

LEMMA RequestShapes ==
  ASSUME TypeOK, RequestType, NEW r \in Requests,
         \/ \E t \in Tasks, d \in {"approved", "rejected"} : BeginDecision(r, t, d)
         \/ RetryDecision(r) \/ RefuseDecision(r) \/ PartialVote(r) \/ ApprovingVote(r)
         \/ RejectingVote(r) \/ ClaimInline(r) \/ SettleInline(r) \/ RecoverDecision(r)
         \/ AbortRequest(r)
  PROVE  Aside(r) \/ Decides(r) \/ Claims(r) \/ Ends(r)
<1> USE DEF Actors
<1>0. r \notin Workers /\ "idle" \notin Continuing /\ "decide" \notin Continuing
      /\ "claim" \notin Continuing /\ {"decide", "claim", "prepare"} \subseteq Stages
  BY ApprovalShape DEF Continuing, Stages
<1>1. ASSUME NEW t \in Tasks, NEW d \in {"approved", "rejected"}, BeginDecision(r, t, d)
      PROVE  Aside(r)
  BY <1>0, <1>1, GoingOthers DEF BeginDecision, Read, Aside
<1>2. CASE RetryDecision(r)
  <2>1. CASE Leave(r)
    BY <1>0, <1>2, <2>1, LeavingOthers DEF RetryDecision, Aside
  <2>2. CASE ~Leave(r)
    <3>1. Goto(r, "decide") /\ UNCHANGED <<got, key>>
      BY <1>2, <2>2 DEF RetryDecision, Read
    <3> QED BY <1>0, <1>2, <3>1, GoingOthers DEF RetryDecision, Aside
  <2> QED BY <2>1, <2>2
<1>3. CASE RefuseDecision(r)
  BY <1>0, <1>3, LeavingOthers DEF RefuseDecision, Aside
<1>4. CASE PartialVote(r)
  BY <1>0, <1>4, LeavingOthers DEF PartialVote, Commits, Aside
<1>5. CASE ApprovingVote(r)
  <2>1. /\ exec'.status = "pending" /\ exec'.owner = exec.owner
        /\ exec'.lease = exec.lease /\ exec'.token = exec.token
    BY <1>5 DEF ApprovingVote, TypeOK, Rows
  <2> QED BY <1>0, <1>5, <2>1, GoingOthers DEF ApprovingVote, Commits, Current, Decides
<1>6. CASE RejectingVote(r)
  <2>1. /\ exec'.status = "rejected" /\ exec'.owner = exec.owner
        /\ exec'.lease = exec.lease /\ exec'.token = exec.token
    BY <1>6 DEF RejectingVote, TypeOK, Rows
  <2> QED BY <1>0, <1>6, <2>1, LeavingOthers DEF RejectingVote, Commits, Current, Decides
<1>7. CASE ClaimInline(r)
  <2>1. CASE Leave(r) /\ UNCHANGED exec
    BY <1>0, <1>7, <2>1, LeavingOthers DEF ClaimInline, Aside
  <2>2. CASE /\ exec.status = "pending" /\ exec' = [exec EXCEPT !.status = "running"]
             /\ Goto(r, "prepare") /\ UNCHANGED <<requestVars, got, key>>
    <3>1. /\ exec'.status = "running" /\ exec'.owner = exec.owner
          /\ exec'.lease = exec.lease /\ exec'.token = exec.token
      BY <2>2 DEF TypeOK, Rows
    <3> QED BY <1>0, <1>7, <2>2, <3>1, GoingOthers DEF ClaimInline, Claims
  <2> QED BY <1>7, <2>1, <2>2 DEF ClaimInline
<1>8. CASE SettleInline(r)
  <2>0. stage[r] = "settle" /\ stage[r] \in Continuing
    BY <1>8 DEF SettleInline, Continuing
  <2>1. CASE exec' = exec
    BY <1>0, <1>8, <2>0, <2>1, LeavingOthers DEF SettleInline, Ends
  <2>2. CASE exec' = [exec EXCEPT !.status = "completed", !.attempt = @ + 1]
    <3>1. /\ exec'.status = "completed" /\ exec'.owner = exec.owner
          /\ exec'.lease = exec.lease /\ exec'.token = exec.token
      BY <2>2 DEF TypeOK, Rows
    <3> QED BY <1>0, <1>8, <2>0, <3>1, LeavingOthers DEF SettleInline, Ends
  <2> QED BY <1>8, <2>1, <2>2 DEF SettleInline
<1>9. CASE RecoverDecision(r)
  <2>0. stage[r] = "recover" /\ stage[r] \in Continuing
    BY <1>9 DEF RecoverDecision, Continuing
  <2>1. CASE UNCHANGED <<processVars, voteVars, exec>>
    BY <1>9, <2>0, <2>1, LeavingOthers DEF RecoverDecision, Ends
  <2>2. CASE Restorable(r)
    <3>1. /\ exec'.status = "waiting" /\ exec'.owner = exec.owner
          /\ exec'.lease = exec.lease /\ exec'.token = exec.token
      BY <1>9, <2>2 DEF RecoverDecision, TypeOK, Rows
    <3> QED BY <1>9, <2>0, <2>2, <3>1, LeavingOthers DEF RecoverDecision, Ends
  <2> QED BY <1>9, <2>1, <2>2 DEF RecoverDecision
<1>10. CASE AbortRequest(r)
  <2>1. CASE stage[r] \in Continuing
    <3>1. /\ forgotten' \in {forgotten, forgotten + 1}
          /\ stage[r] = "complete" => forgotten' = forgotten + 1
      BY <1>10 DEF AbortRequest
    <3> QED BY <1>0, <1>10, <2>1, <3>1, LeavingOthers DEF AbortRequest, Ends
  <2>2. CASE stage[r] = "claim"
    <3>1. forgotten' = forgotten
      BY <1>10, <2>2 DEF AbortRequest
    <3> QED BY <1>0, <1>10, <2>2, <3>1, LeavingOthers DEF AbortRequest, Aside
  <2> QED BY <1>10, <2>1, <2>2 DEF AbortRequest
<1> QED BY <1>1, <1>2, <1>3, <1>4, <1>5, <1>6, <1>7, <1>8, <1>9, <1>10

LEMMA ContinueShapes ==
  ASSUME TypeOK, NEW a \in Actors, Runs(a)
  PROVE  Proceeds(a)
<1>0. /\ Continuing \subseteq Stages /\ Failure(a) \in Continuing
      /\ {"act", "note", "note_failure", "complete", "fail", "settle"} \subseteq Continuing
  BY DEF Stages, Failure, Continuing
<1>1. ASSUME NEW listed \in BOOLEAN, PrepareAction(a, listed)
      PROVE  Proceeds(a)
  BY <1>1, Going, <1>0 DEF PrepareAction, Proceeds, Others, Continuing, TypeOK
<1>2. ASSUME NEW result \in {"done", "failed", "lost"}, InvokeAction(a, result)
      PROVE  Proceeds(a)
  <2>1. stage[a] \in Continuing /\ (Goto(a, "note") \/ Goto(a, "note_failure"))
    BY <1>2 DEF InvokeAction, Continuing
  <2> QED BY <1>0, <1>2, <2>1, GoingOthers DEF InvokeAction, Proceeds
<1>3. ASSUME NEW written \in BOOLEAN, RecordCompletedNode(a, written)
      PROVE  Proceeds(a)
  <2>1. stage[a] \in Continuing /\ (Goto(a, "complete") \/ Goto(a, "fail"))
    BY <1>3 DEF RecordCompletedNode, Continuing
  <2> QED BY <1>0, <1>3, <2>1, GoingOthers DEF RecordCompletedNode, Proceeds
<1>4. ASSUME NEW written \in BOOLEAN, RecordFailedNode(a, written)
      PROVE  Proceeds(a)
  <2>1. stage[a] \in Continuing
    BY <1>4 DEF RecordFailedNode, Continuing
  <2> QED BY <1>0, <1>4, <2>1, GoingOthers DEF RecordFailedNode, Proceeds
<1>5. ASSUME NEW written \in BOOLEAN, FailProcess(a, written)
      PROVE  Proceeds(a)
  <2>1. stage[a] \in Continuing
    BY <1>5 DEF FailProcess, Continuing
  <2> QED BY <1>0, <1>5, <2>1, GoingOthers DEF FailProcess, Proceeds
<1>6. ASSUME NEW written \in BOOLEAN, CompleteProcess(a, written)
      PROVE  Proceeds(a)
  <2>1. stage[a] \in Continuing /\ (Goto(a, "settle") \/ Goto(a, Failure(a)))
    BY <1>6 DEF CompleteProcess, Continuing
  <2> QED BY <1>0, <1>6, <2>1, GoingOthers DEF CompleteProcess, Proceeds
<1>7. CASE CancelWork(a)
  <2>1. stage[a] \in Continuing /\ "mark" \in Continuing
    BY <1>7 DEF CancelWork, Continuing, Running
  <2> QED BY <1>0, <1>7, <2>1, GoingOthers DEF CancelWork, Proceeds
<1> QED BY <1>1, <1>2, <1>3, <1>4, <1>5, <1>6, <1>7 DEF Runs, Continue

LEMMA WorkerShapes ==
  ASSUME TypeOK, RequestType, NEW w \in Workers,
         ReadExecution(w) \/ ClaimExecution(w) \/ CommitClaimed(w) \/ StopWorker(w)
  PROVE  Aside(w) \/ Claims(w) \/ Ends(w)
<1> USE DEF Actors
<1>0. /\ w \notin Requests /\ "idle" \notin Continuing /\ "claim" \notin Continuing
      /\ {"claim", "prepare"} \subseteq Stages
  BY ApprovalShape DEF Continuing, Stages
<1>1. CASE ReadExecution(w)
  <2>1. stage[w] = "idle" /\ Due /\ got' = [got EXCEPT ![w] = exec] /\ Goto(w, "claim")
        /\ UNCHANGED key
    BY <1>1 DEF ReadExecution
  <2>2. stage'[w] = "claim" /\ \A b \in Actors \ {w} : stage'[b] = stage[b]
    BY <1>0, <2>1, Going
  <2>3. got'[w] = exec /\ \A x \in Workers \ {w} : got'[x] = got[x]
    BY <2>1 DEF TypeOK
  <2>4. Others(w)
    BY <2>1, <2>2, <2>3 DEF Others
  <2> QED BY <1>0, <1>1, <2>1, <2>2, <2>3, <2>4 DEF ReadExecution, Aside
<1>2. CASE ClaimExecution(w)
  <2>1. CASE Leave(w) /\ UNCHANGED exec
    BY <1>0, <1>2, <2>1, LeavingOthers DEF ClaimExecution, Aside
  <2>2. CASE /\ Unchanged(w)
             /\ exec' = [exec EXCEPT !.status = "running", !.owner = w, !.lease = "live",
                                     !.token = @ + 1]
             /\ Goto(w, "prepare") /\ UNCHANGED <<requestVars, got, key>>
    <3>1. /\ exec'.status = "running" /\ exec'.owner = w /\ exec'.lease = "live"
          /\ exec'.token = exec.token + 1
      BY <2>2 DEF TypeOK, Rows
    <3> QED BY <1>0, <1>2, <2>2, <3>1, GoingOthers DEF ClaimExecution, Claims
  <2> QED BY <1>2, <2>1, <2>2 DEF ClaimExecution
<1>3. CASE CommitClaimed(w)
  <2> DEFINE attempt == got[w].attempt + 1
             result == IF stage[w] = "settle" THEN "completed" ELSE Marked(attempt)
  <2>0. stage[w] \in {"settle", "mark"} /\ stage[w] \in Continuing /\ Leave(w)
        /\ UNCHANGED <<pstatus, node, doneNodes, failedNodes, effects, forgotten, silent,
                       overran>>
    BY <1>3 DEF CommitClaimed, Continuing
  <2>1. CASE ~Holds(w)
    <3>1. exec' = exec
      BY <1>3, <2>1 DEF CommitClaimed
    <3> QED BY <2>0, <2>1, <3>1, LeavingOthers DEF Ends
  <2>2. CASE Holds(w)
    <3>1. exec' = [exec EXCEPT !.status = result, !.owner = NoOwner, !.lease = "none",
                               !.attempt = attempt]
      BY <1>3, <2>2 DEF CommitClaimed
    <3>2. /\ stage[w] = "settle" => result = "completed"
          /\ stage[w] = "mark" => result \in {"failed", "dead_letter"}
      BY DEF Marked
    <3> HIDE DEF result, attempt
    <3>3. /\ exec'.status = result /\ exec'.owner = NoOwner /\ exec'.lease = "none"
          /\ exec'.token = exec.token
      BY <3>1 DEF TypeOK, Rows
    <3> QED BY <1>0, <2>0, <2>2, <3>2, <3>3, LeavingOthers DEF Ends
  <2> QED BY <2>1, <2>2
<1>4. CASE StopWorker(w)
  <2>1. /\ forgotten' \in {forgotten, forgotten + 1}
        /\ stage[w] \in {"complete", "settle"} => forgotten' = forgotten + 1
    BY <1>4 DEF StopWorker
  <2> QED BY <1>4, <2>1, LeavingOthers DEF StopWorker, Ends
<1> QED BY <1>1, <1>2, <1>3, <1>4

LEMMA AroundShapes ==
  ASSUME TypeOK,
         \/ LeaseExpires \/ PrepareWithdrawal \/ Withdraw \/ UNCHANGED vars
         \/ \E t \in Tasks : ReadDeadline(t) \/ Escalate(t)
  PROVE  Around \/ Withdraws \/ Expires
<1>1. CASE LeaseExpires
  <2>1. /\ exec'.status = exec.status /\ exec'.owner = exec.owner
        /\ exec'.token = exec.token /\ exec'.lease = "expired"
    BY <1>1 DEF LeaseExpires, TypeOK, Rows
  <2>2. ~overran' => ~Working /\ ~overran
    BY <1>1 DEF LeaseExpires
  <2> QED BY <1>1, <2>1, <2>2 DEF LeaseExpires, Expires
<1>2. CASE Withdraw
  <2>1. CASE ~Withdrawable
    BY <1>2, <2>1 DEF Withdraw, Around
  <2>2. CASE Withdrawable
    <3>1. exec.status = "waiting" => exec'.status = "cancelled" /\ exec'.owner = NoOwner
                                     /\ exec'.lease = "none" /\ exec'.token = exec.token
      BY <1>2, <2>2 DEF Withdraw, TypeOK, Rows
    <3> QED BY <1>2, <2>2, <3>1 DEF Withdraw, Withdrawable, Withdraws
  <2> QED BY <2>1, <2>2
<1>3. CASE PrepareWithdrawal \/ UNCHANGED vars \/ \E t \in Tasks : ReadDeadline(t) \/ Escalate(t)
  BY <1>3 DEF PrepareWithdrawal, vars, ReadDeadline, Escalate, Around
<1> QED BY <1>1, <1>2, <1>3

LEMMA Shapes ==
  ASSUME TypeOK, RequestType, [Next]_vars
  PROVE  \/ Around \/ Withdraws \/ Expires
         \/ \E a \in Actors :
              Aside(a) \/ Claims(a) \/ (Proceeds(a) /\ Runs(a)) \/ Ends(a)
         \/ \E r \in Requests : Decides(r)
BY RequestShapes, ContinueShapes, WorkerShapes, AroundShapes
   DEF Next, Serve, Work, Actors, Runs

LEMMA InitClaims == Init => RowsInv /\ ClaimInv /\ LeaseInv /\ OutcomeInv
<1> SUFFICES ASSUME Init PROVE RowsInv /\ ClaimInv /\ LeaseInv /\ OutcomeInv
  OBVIOUS
<1>1. exec.status = "waiting" /\ exec.owner = NoOwner /\ exec.lease = "none"
  BY DEF Init, NoRow
<1>2. Busy = {} /\ \A a \in Actors : stage[a] = "idle"
  BY DEF Init, Busy, Continuing
<1> QED BY <1>1, <1>2 DEF Init, RowsInv, ClaimInv, LeaseInv, OutcomeInv, Underway, Actors

\* The rows tell the same story after every step.
LEMMA StepRows ==
  ASSUME TypeOK, RequestType, RowsInv, ClaimInv, [Next]_vars
  PROVE  RowsInv'
<1> USE DEF RowsInv, Underway
<1>1. CASE Around \/ \E a \in Actors : Aside(a)
  BY <1>1 DEF Around, Aside
<1>2. CASE Withdraws
  BY <1>2 DEF Withdraws
<1>3. CASE Expires
  BY <1>3 DEF Expires
<1>4. ASSUME NEW r \in Requests, Decides(r) PROVE RowsInv'
  BY <1>4 DEF Decides
<1>5. ASSUME NEW a \in Actors, Claims(a) PROVE RowsInv'
  <2>1. exec.status \in {"pending", "failed", "running"} /\ exec'.status = "running"
    BY <1>5 DEF Claims, Unchanged, ClaimInv, Actors
  <2> QED BY <1>5, <2>1 DEF Claims
<1>6. ASSUME NEW a \in Actors, Proceeds(a) PROVE RowsInv'
  <2>1. pstatus \in Underway
    BY <1>6 DEF Proceeds, ClaimInv, Busy
  <2> QED BY <1>6, <2>1 DEF Proceeds
<1>7. ASSUME NEW a \in Actors, Ends(a) PROVE RowsInv'
  <2>1. a \in Busy /\ pstatus \in Underway
    BY <1>7 DEF Ends, ClaimInv, Busy
  <2>2. CASE UNCHANGED <<exec, pstatus, node>>
    BY <2>2
  <2>3. CASE /\ stage[a] \in {"settle", "mark"} /\ UNCHANGED <<pstatus, node>>
             /\ exec'.status \in {"completed", "failed", "dead_letter"}
    BY <2>1, <2>3
  <2>4. CASE pstatus' = "waiting" /\ node' = "waiting" /\ exec'.status = "waiting"
    BY <2>4
  <2> QED BY <1>7, <2>2, <2>3, <2>4 DEF Ends
<1> QED BY <1>1, <1>2, <1>3, <1>4, <1>5, <1>6, <1>7, Shapes

LEMMA StepClaims ==
  ASSUME TypeOK, RequestType, RowsInv, ClaimInv, [Next]_vars
  PROVE  ClaimInv'
<1> USE DEF Underway
<1>0. /\ Requests \cap Workers = {} /\ NoOwner \notin Workers
      /\ "idle" \notin Continuing /\ "claim" \notin Continuing /\ "decide" \notin Continuing
      /\ "prepare" \in Continuing
  BY ApprovalShape DEF Continuing
<1>00. exec.token \in Nat /\ \A w \in Workers : got[w].token \in Nat
  BY DEF TypeOK, Rows
<1>1. CASE Around
  <2>1. Busy' = Busy
    BY <1>1 DEF Around, Busy
  <2> QED BY <1>1, <2>1 DEF Around, ClaimInv
<1>2. ASSUME NEW a \in Actors, Aside(a) PROVE ClaimInv'
  <2>1. Busy' = Busy
    BY <1>2, BusyAfter DEF Aside, Busy
  <2>2. UNCHANGED <<exec, pstatus>>
    BY <1>2 DEF Aside
  <2>3. ASSUME NEW w \in Workers, stage'[w] = "claim"
        PROVE  \/ stage[w] = "claim" /\ got'[w] = got[w]
               \/ Due /\ got'[w] = exec
    BY <1>2, <2>3 DEF Aside, Others, Actors
  <2>4. Due => \/ exec.status \in {"pending", "failed"}
               \/ exec.status = "running" /\ exec.lease = "expired"
    BY DEF Due
  <2> QED BY <1>00, <2>1, <2>2, <2>3, <2>4 DEF ClaimInv
<1>3. CASE Withdraws
  <2>1. exec.status = "waiting" /\ Busy = {}
    BY <1>3 DEF Withdraws, RowsInv, ClaimInv
  <2>2. Busy' = {}
    BY <1>3, <2>1 DEF Withdraws, Busy
  <2> QED BY <1>3, <2>1, <2>2 DEF Withdraws, ClaimInv
<1>4. CASE Expires
  <2>1. Busy' = Busy
    BY <1>4 DEF Expires, Busy
  <2> QED BY <1>4, <2>1 DEF Expires, ClaimInv
<1>5. ASSUME NEW r \in Requests, Decides(r) PROVE ClaimInv'
  <2>1. exec.status = "waiting" /\ Busy = {}
    BY <1>5 DEF Decides, RowsInv, ClaimInv
  <2>2. Busy' = {}
    BY <1>0, <1>5, <2>1, BusyAfter DEF Decides, Actors
  <2>3. \A w \in Workers : stage'[w] = stage[w] /\ got'[w] = got[w]
    BY <1>0, <1>5 DEF Decides, Others, Actors
  <2> QED BY <1>5, <2>1, <2>2, <2>3 DEF Decides, ClaimInv
<1>6. ASSUME NEW a \in Actors, Claims(a) PROVE ClaimInv'
  <2>1. Busy' = Busy \cup {a} /\ a \notin Busy
    BY <1>0, <1>6, BusyAfter DEF Claims, Busy
  <2>2. \A w \in Workers : stage'[w] = "claim" => stage[w] = "claim" /\ got'[w] = got[w]
    BY <1>6 DEF Claims, Others, Actors
  <2>3. exec.status \in {"pending", "failed", "running"} /\ exec'.status = "running"
    BY <1>6 DEF Claims, Unchanged, ClaimInv, Actors
  <2>4. pstatus' \in Underway
    BY <1>6, <2>3 DEF Claims, RowsInv, TypeOK
  <2>5. CASE a \in Requests
    <3>1. Busy = {}
      BY <1>6, <2>5 DEF Claims, ClaimInv
    <3>2. exec.status = "pending" /\ exec.owner = NoOwner /\ exec.lease = "none"
      BY <1>6, <2>5 DEF Claims, ClaimInv
    <3> QED BY <1>6, <2>1, <2>2, <2>3, <2>4, <2>5, <3>1, <3>2 DEF Claims, ClaimInv
  <2>6. CASE a \in Workers
    <3>1. Requests \cap Busy = {}
      <4>1. exec.status = "running" => exec.owner # NoOwner
        BY <1>6, <2>6 DEF Claims, Unchanged, ClaimInv
      <4> QED BY <4>1 DEF ClaimInv
    <3>2. Requests \cap Busy' = {}
      BY <1>0, <2>1, <2>6, <3>1
    <3>3. exec'.owner = a /\ exec'.lease = "live" /\ exec'.token = exec.token + 1
      BY <1>6, <2>6 DEF Claims
    <3>4. \A w \in Workers : stage'[w] = "claim" =>
            got'[w].token <= exec'.token /\ got'[w].token # exec'.token
      BY <1>00, <2>2, <3>3 DEF ClaimInv
    <3> QED BY <1>0, <2>2, <2>3, <2>4, <2>6, <3>2, <3>3, <3>4 DEF ClaimInv
  <2> QED BY <2>5, <2>6 DEF Actors
<1>7. ASSUME NEW a \in Actors, Proceeds(a) PROVE ClaimInv'
  <2>1. Busy' = Busy /\ a \in Busy
    BY <1>7, BusyAfter DEF Proceeds, Busy
  <2>2. \A w \in Workers : stage'[w] = "claim" => stage[w] = "claim" /\ got'[w] = got[w]
    BY <1>0, <1>7 DEF Proceeds, Others, Actors
  <2> QED BY <1>7, <2>1, <2>2 DEF Proceeds, ClaimInv
<1>8. ASSUME NEW a \in Actors, Ends(a) PROVE ClaimInv'
  <2>1. Busy' = Busy \ {a} /\ a \in Busy
    BY <1>0, <1>8, BusyAfter DEF Ends, Busy
  <2>2. \A w \in Workers : stage'[w] = "claim" => stage[w] = "claim" /\ got'[w] = got[w]
    BY <1>8 DEF Ends, Others, Actors
  <2>3. CASE UNCHANGED <<exec, pstatus, node>>
    BY <2>1, <2>2, <2>3 DEF ClaimInv
  <2>4. CASE /\ UNCHANGED <<pstatus, node>>
             /\ exec'.status \in {"completed", "failed", "dead_letter"}
             /\ exec'.token = exec.token
             /\ a \in Requests => exec'.owner = exec.owner /\ exec'.lease = exec.lease
             /\ a \in Workers => Holds(a) /\ exec'.owner = NoOwner /\ exec'.lease = "none"
    <3>1. exec'.owner = NoOwner /\ exec'.lease = "none"
      BY <2>1, <2>4 DEF ClaimInv, Actors
    <3>2. Requests \cap Busy' = {}
      <4>1. CASE a \in Requests
        BY <2>1, <4>1 DEF ClaimInv
      <4>2. CASE a \in Workers
        BY <1>0, <2>1, <2>4, <4>2 DEF ClaimInv, Holds
      <4> QED BY <4>1, <4>2 DEF Actors
    <3> QED BY <2>1, <2>2, <2>4, <3>1, <3>2 DEF ClaimInv
  <2>5. CASE /\ a \in Requests /\ exec'.status = "waiting"
             /\ exec'.owner = exec.owner /\ exec'.lease = exec.lease
             /\ exec'.token = exec.token
    <3>1. Busy' = {} /\ exec.owner = NoOwner
      BY <2>1, <2>5 DEF ClaimInv
    <3> QED BY <2>2, <2>5, <3>1 DEF ClaimInv
  <2> QED BY <1>8, <2>3, <2>4, <2>5 DEF Ends
<1> QED BY <1>1, <1>2, <1>3, <1>4, <1>5, <1>6, <1>7, <1>8, Shapes

\* Without an overrun the lease keeps continuations apart.
LEMMA StepLease ==
  ASSUME TypeOK, RequestType, RowsInv, ClaimInv, LeaseInv, [Next]_vars
  PROVE  LeaseInv'
<1>0. /\ Requests \cap Workers = {} /\ NoOwner \notin Workers
      /\ "idle" \notin Continuing /\ "claim" \notin Continuing /\ "decide" \notin Continuing
      /\ "prepare" \in Continuing
  BY ApprovalShape DEF Continuing
<1>1. CASE Around
  <2>1. Busy' = Busy
    BY <1>1 DEF Around, Busy
  <2> QED BY <1>1, <2>1 DEF Around, LeaseInv
<1>2. ASSUME NEW a \in Actors, Aside(a) PROVE LeaseInv'
  <2>1. Busy' = Busy /\ a \notin Busy
    BY <1>2, BusyAfter DEF Aside, Busy
  <2>2. UNCHANGED <<exec, overran>> /\ \A w \in Workers \cap Busy : got'[w] = got[w]
    BY <1>2, <2>1 DEF Aside, Others
  <2> QED BY <2>1, <2>2 DEF LeaseInv
<1>3. CASE Withdraws
  <2>1. Busy = {}
    BY <1>3 DEF Withdraws, ClaimInv, Underway
  <2>2. Busy' = {}
    BY <1>3, <2>1 DEF Withdraws, Busy
  <2> QED BY <2>2 DEF LeaseInv
<1>4. CASE Expires
  <2>1. Busy' = Busy
    BY <1>4 DEF Expires, Busy
  <2>2. ~overran' => Busy = {}
    <3> SUFFICES ASSUME ~overran', NEW a \in Busy PROVE FALSE
      OBVIOUS
    <3>1. ~overran /\ ~Working
      BY <1>4 DEF Expires
    <3>2. a \notin Requests
      BY <1>0, <1>4 DEF Expires, ClaimInv
    <3>3. a \in Workers /\ stage[a] \in Continuing
      BY <3>2 DEF Busy, Actors
    <3>4. Holds(a)
      BY <3>1, <3>3 DEF LeaseInv, Holds
    <3> QED BY <3>1, <3>3, <3>4 DEF Working
  <2> QED BY <2>1, <2>2 DEF LeaseInv
<1>5. ASSUME NEW r \in Requests, Decides(r) PROVE LeaseInv'
  <2>1. Busy = {}
    BY <1>5 DEF Decides, ClaimInv, Underway
  <2>2. Busy' = {}
    BY <1>0, <1>5, <2>1, BusyAfter DEF Decides, Actors
  <2> QED BY <2>2 DEF LeaseInv
<1>6. ASSUME NEW a \in Actors, Claims(a), ~overran PROVE LeaseInv'
  <2>1. Busy' = Busy \cup {a} /\ a \notin Busy
    BY <1>0, <1>6, BusyAfter DEF Claims, Busy
  <2>2. Busy = {}
    <3>1. CASE a \in Requests
      BY <1>6, <3>1 DEF Claims, ClaimInv
    <3>2. CASE a \in Workers
      <4>1. /\ exec.status \in {"pending", "failed", "running"}
            /\ exec.status = "running" => exec.owner # NoOwner /\ exec.lease # "live"
        BY <1>6, <3>2 DEF Claims, Unchanged, ClaimInv
      <4>2. Busy \cap Requests = {}
        BY <4>1 DEF ClaimInv
      <4>3. Busy \cap Workers = {}
        BY <1>6, <4>1 DEF LeaseInv
      <4> QED BY <4>2, <4>3 DEF Busy, Actors
    <3> QED BY <3>1, <3>2 DEF Actors
  <2>3. a \in Workers => /\ exec'.status = "running" /\ exec'.owner = a
                         /\ exec'.token = got'[a].token + 1 /\ exec'.lease = "live"
    BY <1>6 DEF Claims, Unchanged
  <2> QED BY <2>1, <2>2, <2>3 DEF LeaseInv
<1>7. ASSUME NEW a \in Actors, Proceeds(a) PROVE LeaseInv'
  <2>1. Busy' = Busy
    BY <1>7, BusyAfter DEF Proceeds, Busy
  <2> QED BY <1>7, <2>1 DEF Proceeds, LeaseInv
<1>8. ASSUME NEW a \in Actors, Ends(a) PROVE LeaseInv'
  <2>1. Busy' = Busy \ {a} /\ a \in Busy
    BY <1>0, <1>8, BusyAfter DEF Ends, Busy
  <2>2. ~overran' => Busy' = {}
    BY <1>8, <2>1 DEF Ends, LeaseInv
  <2> QED BY <2>2 DEF LeaseInv
<1>9. ASSUME NEW a \in Actors, Claims(a), overran PROVE LeaseInv'
  BY <1>9 DEF Claims, LeaseInv
<1> QED BY <1>1, <1>2, <1>3, <1>4, <1>5, <1>6, <1>7, <1>8, <1>9, Shapes

\* What the steps of a continuation do to effects, keys and nodes.
LEMMA ActionSteps ==
  ASSUME TypeOK, RequestType, NEW a \in Actors, Runs(a), pstatus \in Underway
  PROVE  /\ Instances \in Nat /\ effects \subseteq effects'
         /\ forgotten \in Nat /\ forgotten' \in {forgotten, forgotten + 1}
         /\ \/ /\ stage[a] = "prepare" /\ stage'[a] = "act"
               /\ UNCHANGED <<effects, pstatus>> /\ Instances' = Instances
               /\ key'[a] = Instances + 1 \/ forgotten' = forgotten + 1
            \/ /\ stage[a] = "act" /\ UNCHANGED <<key, pstatus>> /\ Instances' = Instances
               /\ \/ stage'[a] = "note" /\ effects' = effects \cup {key[a]}
                  \/ stage'[a] = "note_failure" /\ effects' \subseteq effects \cup {key[a]}
            \/ /\ stage[a] = "note" /\ UNCHANGED <<effects, pstatus, key>>
               /\ \/ stage'[a] = "complete"
                  \/ stage'[a] = "fail" /\ Instances' = Instances
            \/ /\ stage[a] = "note_failure" /\ stage'[a] = "fail"
               /\ UNCHANGED <<effects, pstatus, key>>
               /\ \/ Instances' = Instances
                  \/ Instances + 1 \notin effects \/ forgotten' = forgotten + 1
            \/ /\ stage[a] = "fail" /\ stage'[a] \in {"mark", "recover"}
               /\ UNCHANGED <<effects, key>> /\ Instances' = Instances
               /\ pstatus' = "configuration_error" \/ (silent' /\ pstatus' = pstatus)
            \/ /\ stage[a] = "complete" /\ UNCHANGED <<effects, key>> /\ Instances' = Instances
               /\ \/ stage'[a] = "settle" /\ pstatus' = "completed"
                  \/ /\ stage'[a] \in {"mark", "recover"} /\ silent' /\ pstatus' = pstatus
                     /\ forgotten' = forgotten + 1
            \/ /\ stage[a] \in Running \ {"complete"} /\ stage'[a] = "mark"
               /\ UNCHANGED <<effects, key, pstatus>> /\ Instances' = Instances /\ silent'
<1>0. /\ Failure(a) \in {"mark", "recover"} /\ Failure(a) \in Stages
      /\ {"act", "note", "note_failure", "complete", "fail", "settle", "mark"} \subseteq Stages
      /\ Overwritable(pstatus)
  BY DEF Failure, Stages, Continuing, Overwritable, Underway
<1>00. doneNodes \in Nat /\ failedNodes \in Nat /\ Instances \in Nat /\ forgotten \in Nat
  BY DEF TypeOK, Instances
<1>1. ASSUME NEW listed \in BOOLEAN, PrepareAction(a, listed)
      PROVE  /\ stage[a] = "prepare" /\ stage'[a] = "act"
             /\ UNCHANGED <<effects, pstatus>> /\ Instances' = Instances
             /\ forgotten' \in {forgotten, forgotten + 1}
             /\ key'[a] = Instances + 1 \/ forgotten' = forgotten + 1
  <2>1. key'[a] = NextNodeIteration(listed)
    BY <1>1 DEF PrepareAction, TypeOK
  <2>2. /\ forgotten' \in {forgotten, forgotten + 1}
        /\ NextNodeIteration(listed) = Instances + 1 \/ forgotten' = forgotten + 1
    BY <1>1, <1>00 DEF PrepareAction, NextNodeIteration
  <2> QED BY <1>0, <1>1, <2>1, <2>2, Going DEF PrepareAction, Instances
<1>2. ASSUME NEW result \in {"done", "failed", "lost"}, InvokeAction(a, result)
      PROVE  /\ stage[a] = "act" /\ UNCHANGED <<key, pstatus, forgotten>>
             /\ Instances' = Instances /\ effects \subseteq effects'
             /\ \/ stage'[a] = "note" /\ effects' = effects \cup {key[a]}
                \/ stage'[a] = "note_failure" /\ effects' \subseteq effects \cup {key[a]}
  <2>1. CASE result = "done"
    BY <1>0, <1>2, <2>1, Going DEF InvokeAction, Instances
  <2>2. CASE result # "done"
    BY <1>0, <1>2, <2>2, Going DEF InvokeAction, Instances
  <2> QED BY <2>1, <2>2
<1>3. ASSUME NEW written \in BOOLEAN, RecordCompletedNode(a, written)
      PROVE  /\ stage[a] = "note" /\ UNCHANGED <<effects, pstatus, key, forgotten>>
             /\ \/ stage'[a] = "complete"
                \/ stage'[a] = "fail" /\ Instances' = Instances
  <2>1. CASE written
    BY <1>0, <1>3, <2>1, Going DEF RecordCompletedNode
  <2>2. CASE ~written
    BY <1>0, <1>3, <2>2, Going DEF RecordCompletedNode, Instances
  <2> QED BY <2>1, <2>2
<1>4. ASSUME NEW written \in BOOLEAN, RecordFailedNode(a, written)
      PROVE  /\ stage[a] = "note_failure" /\ stage'[a] = "fail"
             /\ UNCHANGED <<effects, pstatus, key>>
             /\ forgotten' \in {forgotten, forgotten + 1}
             /\ \/ Instances' = Instances
                \/ Instances + 1 \notin effects \/ forgotten' = forgotten + 1
  <2>1. /\ forgotten' \in {forgotten, forgotten + 1}
        /\ \/ Instances' = Instances
           \/ Instances + 1 \notin effects \/ forgotten' = forgotten + 1
    BY <1>4 DEF RecordFailedNode, Instances
  <2> QED BY <1>0, <1>4, <2>1, Going DEF RecordFailedNode
<1>5. ASSUME NEW written \in BOOLEAN, FailProcess(a, written)
      PROVE  /\ stage[a] = "fail" /\ stage'[a] \in {"mark", "recover"}
             /\ UNCHANGED <<effects, key, forgotten>> /\ Instances' = Instances
             /\ pstatus' = "configuration_error" \/ (silent' /\ pstatus' = pstatus)
  <2>1. CASE written
    BY <1>0, <1>5, <2>1, Going DEF FailProcess, Instances
  <2>2. CASE ~written
    BY <1>0, <1>5, <2>2, Going DEF FailProcess, Instances
  <2> QED BY <2>1, <2>2
<1>6. ASSUME NEW written \in BOOLEAN, CompleteProcess(a, written)
      PROVE  /\ stage[a] = "complete" /\ UNCHANGED <<effects, key>> /\ Instances' = Instances
             /\ forgotten' \in {forgotten, forgotten + 1}
             /\ \/ stage'[a] = "settle" /\ pstatus' = "completed"
                \/ /\ stage'[a] \in {"mark", "recover"} /\ silent' /\ pstatus' = pstatus
                   /\ forgotten' = forgotten + 1
  <2>1. CASE written
    BY <1>0, <1>6, <2>1, Going DEF CompleteProcess, Instances
  <2>2. CASE ~written
    <3>1. silent' /\ forgotten' = forgotten + 1 /\ pstatus' = pstatus /\ Goto(a, Failure(a))
      BY <1>6, <2>2 DEF CompleteProcess
    <3> QED BY <1>0, <1>6, <3>1, Going DEF CompleteProcess, Instances
  <2> QED BY <2>1, <2>2
<1>7. CASE CancelWork(a)
  <2>1. /\ stage'[a] = "mark" /\ UNCHANGED <<effects, key, pstatus>> /\ silent'
        /\ Instances' = Instances /\ stage[a] \in Running
    BY <1>0, <1>7, Going DEF CancelWork, Instances
  <2>2. /\ forgotten' \in {forgotten, forgotten + 1}
        /\ stage[a] = "complete" => forgotten' = forgotten + 1
    BY <1>7 DEF CancelWork
  <2> QED BY <1>00, <2>1, <2>2
<1> QED BY <1>00, <1>1, <1>2, <1>3, <1>4, <1>5, <1>6, <1>7 DEF Runs, Continue

\* An ended execution goes with the status of the process.
LEMMA StepOutcome ==
  ASSUME TypeOK, RequestType, RowsInv, ClaimInv, LeaseInv, OutcomeInv, [Next]_vars
  PROVE  OutcomeInv'
<1>0. /\ Requests \cap Workers = {} /\ NoOwner \notin Workers
      /\ "idle" \notin Continuing /\ "claim" \notin Continuing /\ "decide" \notin Continuing
      /\ "prepare" \in Continuing /\ {"settle", "mark", "recover"} \subseteq Continuing
  BY ApprovalShape DEF Continuing
<1>00. \A a \in Actors : stage[a] \in {"settle", "mark", "recover"} => a \in Busy
  BY <1>0 DEF Busy
<1>1. CASE Around
  BY <1>1 DEF Around, OutcomeInv
<1>2. ASSUME NEW a \in Actors, Aside(a) PROVE OutcomeInv'
  <2>1. \A b \in Actors : stage'[b] \in {"settle", "mark", "recover"} => stage'[b] = stage[b]
    BY <1>0, <1>2 DEF Aside, Others
  <2>2. UNCHANGED <<pstatus, exec, silent, overran>>
    BY <1>2 DEF Aside
  <2> QED BY <2>1, <2>2 DEF OutcomeInv
<1>3. CASE Withdraws
  <2>1. Busy = {} /\ exec'.status = "cancelled"
    BY <1>3 DEF Withdraws, RowsInv, ClaimInv, Underway
  <2> QED BY <1>00, <1>3, <2>1 DEF Withdraws, OutcomeInv
<1>4. CASE Expires
  BY <1>4 DEF Expires, OutcomeInv
<1>5. ASSUME NEW r \in Requests, Decides(r) PROVE OutcomeInv'
  <2>1. Busy = {} /\ exec'.status \in {"pending", "rejected"}
    BY <1>5 DEF Decides, ClaimInv, Underway
  <2>2. \A b \in Actors : stage'[b] \notin {"settle", "mark", "recover"}
    BY <1>00, <1>5, <2>1 DEF Decides, Others
  <2> QED BY <2>1, <2>2 DEF OutcomeInv
<1>6. ASSUME NEW a \in Actors, Claims(a) PROVE OutcomeInv'
  <2>1. \A b \in Actors : stage'[b] \in {"settle", "mark", "recover"} => stage'[b] = stage[b]
    BY <1>6 DEF Claims, Others
  <2> QED BY <1>6, <2>1 DEF Claims, OutcomeInv
<1>7. ASSUME NEW a \in Actors, Proceeds(a), Runs(a) PROVE OutcomeInv'
  <2>1. a \in Busy /\ pstatus \in Underway
    BY <1>7 DEF Proceeds, Busy, ClaimInv
  <2>2. ~overran => exec.status = "running" /\ Busy = {a}
    BY <2>1 DEF LeaseInv, ClaimInv, Busy, Actors
  <2>3. ~overran => \A b \in Actors \ {a} : stage'[b] \notin {"settle", "mark", "recover"}
    BY <1>00, <1>7, <2>2 DEF Proceeds, Others
  <2>4. exec' = exec /\ overran' = overran
    BY <1>7 DEF Proceeds
  <2> QED BY <1>7, <2>1, <2>2, <2>3, <2>4, ActionSteps DEF OutcomeInv
<1>8. ASSUME NEW a \in Actors, Ends(a) PROVE OutcomeInv'
  <2>1. a \in Busy
    BY <1>8 DEF Ends, Busy
  <2>2. ~overran => exec.status = "running" /\ Busy = {a}
    BY <2>1 DEF LeaseInv, ClaimInv, Busy, Actors
  <2>3. ~overran => \A b \in Actors : stage'[b] \notin {"settle", "mark", "recover"}
    BY <1>00, <1>8, <2>2 DEF Ends, Others
  <2>4. overran' = overran /\ silent' = silent
    BY <1>8 DEF Ends
  <2>5. CASE exec' = exec
    BY <2>2, <2>3, <2>4, <2>5 DEF OutcomeInv
  <2>6. CASE /\ stage[a] \in {"settle", "mark"} /\ pstatus' = pstatus
             /\ stage[a] = "settle" => exec'.status = "completed"
             /\ stage[a] = "mark" => exec'.status \in {"failed", "dead_letter"}
    BY <2>3, <2>4, <2>6 DEF OutcomeInv
  <2>7. CASE exec'.status = "waiting"
    BY <2>3, <2>4, <2>7 DEF OutcomeInv
  <2> QED BY <1>8, <2>5, <2>6, <2>7 DEF Ends
<1> QED BY <1>1, <1>2, <1>3, <1>4, <1>5, <1>6, <1>7, <1>8, Shapes

-----------------------------------------------------------------------------
(* Effects of the action.                                                  *)

\* The action has run and will not run again.
Over ==
  \/ exec.status = "completed"
  \/ /\ exec.status = "running"
     /\ \A a \in Busy : stage[a] \in {"complete", "settle"}
     /\ exec.owner = NoOwner \/ Busy # {}

\* The keys under which the action has taken effect or is about to.
Tried == effects \cup {key[a] : a \in {b \in Actors : stage[b] = "act"}}

\* All of them but one may be forgotten.  That one is the key of the next
\* attempt, if there can be one.
EffectInv ==
  /\ pstatus = "completed" => effects # {}
  /\ \A a \in Actors : stage[a] \in {"note", "complete", "settle"} => effects # {}
  /\ ~overran =>
       \E k \in Nat : /\ k = Instances + 1 \/ Over
                      /\ IsFiniteSet(Tried \ {k}) /\ Cardinality(Tried \ {k}) <= forgotten

LEMMA NoneForgotten ==
  ASSUME NEW S, NEW m \in Nat, IsFiniteSet(S), Cardinality(S) <= m,
         NEW T, NEW n \in Nat, T \subseteq S, m <= n
  PROVE  IsFiniteSet(T) /\ Cardinality(T) <= n
<1>1. IsFiniteSet(T) /\ Cardinality(T) <= Cardinality(S)
  BY FS_Subset
<1>2. Cardinality(S) \in Nat /\ Cardinality(T) \in Nat
  BY <1>1, FS_CardinalityType
<1> QED BY <1>1, <1>2

LEMMA OneForgotten ==
  ASSUME NEW S, NEW m \in Nat, IsFiniteSet(S), Cardinality(S) <= m,
         NEW T, NEW x, T \subseteq S \cup {x}
  PROVE  IsFiniteSet(T) /\ Cardinality(T) <= m + 1
<1>1. IsFiniteSet(S \cup {x}) /\ Cardinality(S \cup {x}) <= m + 1
  <2>1. Cardinality(S) \in Nat
    BY FS_CardinalityType
  <2>2. CASE x \in S
    <3>1. S \cup {x} = S
      BY <2>2
    <3>2. IsFiniteSet(S \cup {x}) /\ Cardinality(S \cup {x}) = Cardinality(S)
      BY <3>1
    <3> QED BY <2>1, <3>2
  <2>3. CASE x \notin S
    <3>1. /\ IsFiniteSet(S \cup {x})
          /\ Cardinality(S \cup {x}) = Cardinality(S) + 1
      BY <2>3, FS_AddElement
    <3> QED BY <2>1, <3>1
  <2> QED BY <2>2, <2>3
<1>2. m + 1 \in Nat
  OBVIOUS
<1> QED BY <1>1, <1>2, NoneForgotten

LEMMA InitEffects == Init => EffectInv
<1> SUFFICES ASSUME Init PROVE EffectInv
  OBVIOUS
<1>1. \A a \in Actors : stage[a] = "idle"
  BY DEF Init
<1>2. Tried \ {1} = {} /\ forgotten = 0 /\ Instances + 1 = 1
  BY <1>1 DEF Init, Tried, Instances
<1>3. IsFiniteSet(Tried \ {1}) /\ Cardinality(Tried \ {1}) <= forgotten
  BY <1>2, FS_EmptySet
<1> QED BY <1>1, <1>2, <1>3 DEF Init, EffectInv

\* The next iteration of a node is a number (nextNodeIteration).
LEMMA SumOfNodes ==
  ASSUME NEW m \in Nat, NEW n \in Nat
  PROVE  m + n + 1 \in Nat
OBVIOUS

\* The action takes effect under one key, unless an effect was forgotten or a worker
\* outlived its lease.
LEMMA StepEffects ==
  ASSUME TypeOK, TypeOK', RequestType, RowsInv, ClaimInv, LeaseInv, EffectInv, [Next]_vars
  PROVE  EffectInv'
<1> DEFINE Ran == {"note", "complete", "settle"}
           Same == effects' = effects /\ Instances' = Instances
           Counted == ~overran' =>
             \E k \in Nat : /\ k = Instances' + 1 \/ Over'
                            /\ IsFiniteSet(Tried' \ {k})
                            /\ Cardinality(Tried' \ {k}) <= forgotten'
<1>0. /\ Requests \cap Workers = {} /\ NoOwner \notin Workers
      /\ "idle" \notin Continuing /\ "claim" \notin Continuing /\ "decide" \notin Continuing
      /\ "prepare" \in Continuing /\ Ran \subseteq Continuing /\ "act" \in Continuing
      /\ forgotten \in Nat /\ forgotten' \in Nat /\ Instances \in Nat /\ Instances' + 1 \in Nat
  <2>1. /\ Requests \cap Workers = {} /\ NoOwner \notin Workers
        /\ "idle" \notin Continuing /\ "claim" \notin Continuing /\ "decide" \notin Continuing
        /\ "prepare" \in Continuing /\ Ran \subseteq Continuing /\ "act" \in Continuing
    BY ApprovalShape DEF Continuing
  <2>2. forgotten \in Nat /\ forgotten' \in Nat
    BY DEF TypeOK
  <2>3. doneNodes \in Nat /\ failedNodes \in Nat /\ doneNodes' \in Nat /\ failedNodes' \in Nat
    BY DEF TypeOK
  <2>4. Instances \in Nat
    BY <2>3 DEF Instances
  <2>5. Instances' = doneNodes' + failedNodes'
    BY DEF Instances
  <2>6. Instances' + 1 \in Nat
    <3>1. doneNodes' + failedNodes' + 1 \in Nat
      BY <2>3, SumOfNodes
    <3> QED BY <2>5, <3>1
  <2> QED BY <2>1, <2>2, <2>4, <2>6
<1>00. \A a \in Actors : stage[a] \in Continuing => a \in Busy
  BY DEF Busy
<1>1. ASSUME Same, forgotten <= forgotten', overran => overran',
             pstatus' = "completed" => pstatus = "completed",
             \A b \in Actors : stage'[b] \in Ran \cup {"act"} =>
               stage'[b] = stage[b] /\ key'[b] = key[b],
             ~overran' /\ Over => Over' \/ forgotten' = forgotten + 1
      PROVE  EffectInv'
  <2>1. Tried' \subseteq Tried
    BY <1>1 DEF Tried
  <2>2. Counted
    <3> SUFFICES ASSUME ~overran'
                 PROVE  \E k \in Nat : /\ k = Instances' + 1 \/ Over'
                                       /\ IsFiniteSet(Tried' \ {k})
                                       /\ Cardinality(Tried' \ {k}) <= forgotten'
      OBVIOUS
    <3>1. PICK k \in Nat : /\ k = Instances + 1 \/ Over
                           /\ IsFiniteSet(Tried \ {k})
                           /\ Cardinality(Tried \ {k}) <= forgotten
      BY <1>1 DEF EffectInv
    <3>2. CASE k = Instances' + 1 \/ Over'
      <4>1. Tried' \ {k} \subseteq Tried \ {k}
        BY <2>1
      <4>2. IsFiniteSet(Tried' \ {k}) /\ Cardinality(Tried' \ {k}) <= forgotten'
        BY <1>0, <1>1, <3>1, <4>1, NoneForgotten
      <4> QED BY <3>2, <4>2
    <3>3. CASE forgotten' = forgotten + 1
      <4>1. Tried' \ {Instances' + 1} \subseteq (Tried \ {k}) \cup {k}
        BY <2>1
      <4>2. /\ IsFiniteSet(Tried' \ {Instances' + 1})
            /\ Cardinality(Tried' \ {Instances' + 1}) <= forgotten + 1
        BY <1>0, <3>1, <4>1, OneForgotten
      <4>3. Instances' + 1 \in Nat
        BY <1>0
      <4> QED BY <3>3, <4>2, <4>3
    <3> QED BY <1>1, <3>1, <3>2, <3>3
  <2> HIDE DEF Counted
  <2>3. /\ pstatus' = "completed" => effects' # {}
        /\ \A b \in Actors : stage'[b] \in Ran => effects' # {}
    BY <1>1 DEF EffectInv
  <2> QED BY <2>2, <2>3 DEF EffectInv, Counted
<1>2. CASE Around
  <2>1. Busy' = Busy
    BY <1>2 DEF Around, Busy
  <2>2. Over' <=> Over
    BY <1>2, <2>1 DEF Around, Over
  <2> QED BY <1>0, <1>1, <1>2, <2>2 DEF Around, Instances
<1>3. ASSUME NEW a \in Actors, Aside(a) PROVE EffectInv'
  <2>1. Busy' = Busy /\ a \notin Busy
    BY <1>3, BusyAfter DEF Aside, Busy
  <2>2. \A b \in Busy : stage'[b] = stage[b]
    BY <1>3, <2>1 DEF Aside, Others, Busy
  <2>3. Over' <=> Over
    BY <1>3, <2>1, <2>2 DEF Aside, Over
  <2>4. \A b \in Actors : stage'[b] \in Ran \cup {"act"} =>
          stage'[b] = stage[b] /\ key'[b] = key[b]
    BY <1>0, <1>3 DEF Aside, Others
  <2>5. Same
    BY <1>3 DEF Aside, Instances
  <2> QED BY <1>0, <1>1, <1>3, <2>3, <2>4, <2>5 DEF Aside
<1>4. CASE Withdraws
  <2>1. ~Over
    BY <1>4 DEF Withdraws, RowsInv, Over
  <2> QED BY <1>0, <1>1, <1>4, <2>1 DEF Withdraws, Instances
<1>5. CASE Expires
  <2>1. Busy' = Busy
    BY <1>5 DEF Expires, Busy
  <2>2. ~overran' => Busy = {}
    <3> SUFFICES ASSUME ~overran', NEW a \in Busy PROVE FALSE
      OBVIOUS
    <3>1. ~overran /\ ~Working
      BY <1>5 DEF Expires
    <3>2. a \in Workers /\ stage[a] \in Continuing
      BY <1>0, <1>5 DEF Expires, ClaimInv, Busy, Actors
    <3> QED BY <3>1, <3>2 DEF LeaseInv, Holds, Working, Busy
  <2>3. ~overran' => ~Over
    BY <1>5, <2>2 DEF Expires, Over, ClaimInv
  <2>4. overran => overran'
    BY <1>5 DEF Expires
  <2> QED BY <1>0, <1>1, <1>5, <2>3, <2>4 DEF Expires, Instances
<1>6. ASSUME NEW r \in Requests, Decides(r) PROVE EffectInv'
  <2>1. ~Over
    BY <1>6 DEF Decides, RowsInv, Over
  <2>2. \A b \in Actors : stage'[b] \in Ran \cup {"act"} =>
          stage'[b] = stage[b] /\ key'[b] = key[b]
    BY <1>0, <1>6 DEF Decides, Others, Actors
  <2> QED BY <1>0, <1>1, <1>6, <2>1, <2>2 DEF Decides, Instances
<1>7. ASSUME NEW a \in Actors, Claims(a) PROVE EffectInv'
  <2>1. \A b \in Actors : stage'[b] \in Ran \cup {"act"} =>
          stage'[b] = stage[b] /\ key'[b] = key[b]
    BY <1>7 DEF Claims, Others
  <2>2. ~overran => ~Over
    <3>1. CASE a \in Requests
      BY <1>7, <3>1 DEF Claims, Over
    <3>2. CASE a \in Workers
      <4>1. /\ exec.status \in {"pending", "failed", "running"}
            /\ exec.status = "running" => exec.owner # NoOwner /\ exec.lease # "live"
        BY <1>7, <3>2 DEF Claims, Unchanged, ClaimInv
      <4>2. Busy \cap Requests = {}
        BY <4>1 DEF ClaimInv
      <4>3. ~overran => Busy \cap Workers = {}
        BY <4>1 DEF LeaseInv
      <4>4. ~overran => Busy = {}
        BY <4>2, <4>3 DEF Busy, Actors
      <4> QED BY <4>1, <4>4 DEF Over
    <3> QED BY <3>1, <3>2 DEF Actors
  <2> QED BY <1>0, <1>1, <1>7, <2>1, <2>2 DEF Claims, Instances
<1>8. ASSUME NEW a \in Actors, Ends(a) PROVE EffectInv'
  <2>1. a \in Busy /\ Busy' = Busy \ {a}
    BY <1>0, <1>8, BusyAfter DEF Ends, Busy
  <2>2. \A b \in Actors : stage'[b] \in Ran \cup {"act"} =>
          stage'[b] = stage[b] /\ key'[b] = key[b]
    BY <1>8 DEF Ends, Others
  <2>3. ~overran => /\ exec.status = "running" /\ Busy = {a}
                    /\ a \in Requests => exec.owner = NoOwner
                    /\ a \in Workers => Holds(a)
    BY <2>1 DEF LeaseInv, ClaimInv, Busy, Actors, Holds
  <2>4. ~overran /\ Over => Over' \/ forgotten' = forgotten + 1
    <3> SUFFICES ASSUME ~overran, forgotten' # forgotten + 1, Over PROVE Over'
      OBVIOUS
    <3>1. stage[a] \in {"complete", "settle"}
      BY <2>1, <2>3 DEF Over
    <3>2. Busy' = {}
      BY <2>1, <2>3
    <3>3. CASE /\ UNCHANGED <<exec, pstatus, node>> /\ stage[a] # "complete"
               /\ ~(a \in Workers /\ stage[a] = "settle" /\ Holds(a))
      BY <2>3, <3>1, <3>2, <3>3 DEF Over, Actors
    <3>4. CASE stage[a] = "settle" /\ exec'.status = "completed"
      BY <3>4 DEF Over
    <3> QED BY <1>8, <3>1, <3>3, <3>4 DEF Ends
  <2>5. (pstatus' = "completed" => pstatus = "completed") /\ Same
    BY <1>8 DEF Ends, Instances
  <2>6. forgotten <= forgotten'
    BY <1>0, <1>8 DEF Ends
  <2> QED BY <1>1, <1>8, <2>2, <2>4, <2>5, <2>6 DEF Ends
<1>9. ASSUME NEW a \in Actors, Proceeds(a), Runs(a) PROVE EffectInv'
  <2>1. a \in Busy /\ pstatus \in Underway
    BY <1>9 DEF Proceeds, Busy, ClaimInv
  <2>2. \A b \in Actors \ {a} : stage'[b] = stage[b] /\ key'[b] = key[b]
    BY <1>9 DEF Proceeds, Others
  <2>3. exec' = exec /\ overran' = overran
    BY <1>9 DEF Proceeds
  <2>4. effects \subseteq effects' /\ forgotten <= forgotten'
    BY <1>0, <1>9, <2>1, ActionSteps
  <2>5. pstatus' = "completed" => effects' # {}
    BY <1>9, <2>1, <2>4, ActionSteps DEF EffectInv
  <2>6. \A b \in Actors : stage'[b] \in Ran => effects' # {}
    <3>1. stage'[a] \in Ran => effects' # {}
      BY <1>9, <2>1, <2>4, ActionSteps DEF EffectInv
    <3> QED BY <2>2, <2>4, <3>1 DEF EffectInv
  <2> SUFFICES ASSUME ~overran'
               PROVE  \E k \in Nat : /\ k = Instances' + 1 \/ Over'
                                     /\ IsFiniteSet(Tried' \ {k})
                                     /\ Cardinality(Tried' \ {k}) <= forgotten'
    BY <2>5, <2>6 DEF EffectInv
  <2>7. ~overran /\ exec.status = "running" /\ Busy = {a}
    BY <2>1, <2>3 DEF LeaseInv, ClaimInv, Busy, Actors
  <2>8. stage[a] \notin {"complete", "settle"} => ~Over
    BY <2>1, <2>7 DEF Over
  <2>9. Busy' = {a}
    BY <1>9, <2>7, BusyAfter DEF Proceeds
  <2>10. PICK k \in Nat : /\ k = Instances + 1 \/ Over
                          /\ IsFiniteSet(Tried \ {k}) /\ Cardinality(Tried \ {k}) <= forgotten
    BY <2>7 DEF EffectInv
  <2>11. /\ Tried = effects \cup (IF stage[a] = "act" THEN {key[a]} ELSE {})
         /\ Tried' = effects' \cup (IF stage'[a] = "act" THEN {key'[a]} ELSE {})
    <3>1. \A b \in Actors : stage[b] = "act" => b = a
      BY <1>0, <1>00, <2>7
    <3>2. \A b \in Actors : stage'[b] = "act" => b = a
      BY <2>2, <3>1
    <3> QED BY <3>1, <3>2 DEF Tried
  <2>12. ASSUME NEW l \in Nat, l = Instances' + 1 \/ Over',
                Tried' \ {l} \subseteq Tried \ {k}
         PROVE  \E m \in Nat : /\ m = Instances' + 1 \/ Over'
                               /\ IsFiniteSet(Tried' \ {m})
                               /\ Cardinality(Tried' \ {m}) <= forgotten'
    <3>1. IsFiniteSet(Tried' \ {l}) /\ Cardinality(Tried' \ {l}) <= forgotten'
      BY <1>0, <2>4, <2>10, <2>12, NoneForgotten
    <3> QED BY <2>12, <3>1
  <2>13. ASSUME NEW x, Tried' \ {Instances' + 1} \subseteq (Tried \ {k}) \cup {x},
                forgotten' = forgotten + 1
         PROVE  \E m \in Nat : /\ m = Instances' + 1 \/ Over'
                               /\ IsFiniteSet(Tried' \ {m})
                               /\ Cardinality(Tried' \ {m}) <= forgotten'
    <3>1. /\ IsFiniteSet(Tried' \ {Instances' + 1})
          /\ Cardinality(Tried' \ {Instances' + 1}) <= forgotten'
      BY <1>0, <2>10, <2>13, OneForgotten
    <3>2. Instances' + 1 \in Nat
      BY <1>0
    <3> QED BY <3>1, <3>2
  <2>14. CASE /\ stage[a] = "prepare" /\ stage'[a] = "act" /\ effects' = effects
              /\ Instances' = Instances
              /\ key'[a] = Instances + 1 \/ forgotten' = forgotten + 1
    <3>1. k = Instances' + 1
      BY <2>8, <2>10, <2>14
    <3>2. CASE key'[a] = Instances + 1
      <4>1. Tried' \ {k} \subseteq Tried \ {k}
        BY <2>11, <2>14, <3>1, <3>2
      <4> QED BY <2>12, <3>1, <4>1
    <3>3. CASE forgotten' = forgotten + 1
      <4>1. Tried' \ {Instances' + 1} \subseteq (Tried \ {k}) \cup {key'[a]}
        BY <2>11, <2>14, <3>1
      <4> QED BY <2>13, <3>3, <4>1
    <3> QED BY <2>14, <3>2, <3>3
  <2>15. CASE /\ stage[a] = "act" /\ UNCHANGED key /\ Instances' = Instances
              /\ stage'[a] # "act" /\ effects' \subseteq effects \cup {key[a]}
    <3>1. k = Instances' + 1
      BY <2>8, <2>10, <2>15
    <3>2. Tried' \ {k} \subseteq Tried \ {k}
      BY <2>11, <2>15
    <3> QED BY <2>12, <3>1, <3>2
  <2>16. CASE /\ stage[a] \in {"note", "complete"} /\ stage'[a] \in {"complete", "settle"}
              /\ effects' = effects
    <3>1. Over'
      BY <2>3, <2>7, <2>9, <2>16 DEF Over
    <3>2. Tried' \ {k} \subseteq Tried \ {k}
      BY <2>11, <2>16
    <3> QED BY <2>12, <3>1, <3>2
  <2>17. CASE /\ stage[a] \notin {"complete", "settle"} /\ stage'[a] # "act"
              /\ effects' = effects /\ Instances' = Instances
    <3>1. k = Instances' + 1
      BY <2>8, <2>10, <2>17
    <3>2. Tried' \ {k} \subseteq Tried \ {k}
      BY <2>11, <2>17
    <3> QED BY <2>12, <3>1, <3>2
  <2>18. CASE /\ stage[a] = "note_failure" /\ stage'[a] = "fail" /\ effects' = effects
              /\ Instances + 1 \notin effects \/ forgotten' = forgotten + 1
    <3>1. k = Instances + 1
      BY <2>8, <2>10, <2>18
    <3>2. CASE Instances + 1 \notin effects
      <4>1. Tried' \ {Instances' + 1} \subseteq Tried \ {k}
        BY <2>11, <2>18, <3>1, <3>2
      <4>2. Instances' + 1 \in Nat
        BY <1>0
      <4> QED BY <2>12, <4>1, <4>2
    <3>3. CASE forgotten' = forgotten + 1
      <4>1. Tried' \ {Instances' + 1} \subseteq (Tried \ {k}) \cup {k}
        BY <2>11, <2>18
      <4> QED BY <2>13, <3>3, <4>1
    <3> QED BY <2>18, <3>2, <3>3
  <2>19. CASE /\ stage[a] = "complete" /\ stage'[a] \in {"mark", "recover"}
              /\ effects' = effects /\ forgotten' = forgotten + 1
    <3>1. Tried' \ {Instances' + 1} \subseteq (Tried \ {k}) \cup {k}
      BY <2>11, <2>19
    <3> QED BY <2>13, <2>19, <3>1
  <2> QED BY <1>9, <2>1, <2>14, <2>15, <2>16, <2>17, <2>18, <2>19, ActionSteps DEF Running
<1> QED BY <1>2, <1>3, <1>4, <1>5, <1>6, <1>7, <1>8, <1>9, Shapes

-----------------------------------------------------------------------------
(* Votes.                                                                  *)

\* No task is rejected or cancelled, and only a sequence has pending ones.
Undecided(votes) ==
  \A t \in Tasks : \/ votes[t] \in {"open", "approved"}
                   \/ votes[t] = "pending" /\ mode = "sequential"

\* A snapshot of the current revision differs from the tasks only where an
\* escalation took a decision back.
SnapOf(r) ==
  /\ stage[r] # "idle" => snap[r].task[want[r].task] = "open"
  /\ stage[r] \in Continuing \cup {"claim"} => Undecided(snap[r].task)
  /\ stage[r] = "decide" /\ pstatus = "waiting" /\ rev = snap[r].rev =>
       /\ Undecided(snap[r].task)
       /\ \A t \in Tasks :
            task[t] = snap[r].task[t] \/ (task[t] = "open" /\ t \in reopened)

SnapInv == \A r \in Requests : SnapOf(r)

WaitInv ==
  pstatus = "waiting" => Undecided(task) /\ \E t \in Tasks : task[t] = "open"

\* A set of task numbers that is not empty has a first one.
LEMMA FirstExists ==
  ASSUME NEW S, S \subseteq Nat, S # {}
  PROVE  FirstOf(S) \in S
<1> DEFINE R == OpToRel(<, Nat)
<1>1. IsWellFoundedOn(R, Nat)
  BY NatLessThanWellFounded
<1>2. \A a, b \in Nat : a < b => <<a, b>> \in R
  BY DEF OpToRel
<1> HIDE DEF R
<1>3. PICK x \in S : \A y \in S : ~ (<<y, x>> \in R)
  BY <1>1, WFMin
<1>4. \A y \in S : x <= y
  <2> TAKE y \in S
  <2>1. x \in Nat /\ y \in Nat
    OBVIOUS
  <2>2. ~(y < x)
    BY <1>2, <1>3, <2>1
  <2> QED BY <2>1, <2>2
<1> QED BY <1>4 DEF FirstOf

LEMMA InitVotes == Init => SnapInv /\ WaitInv /\ VotesCount
<1> SUFFICES ASSUME Init PROVE SnapInv /\ WaitInv /\ VotesCount
  OBVIOUS
<1>1. SnapInv
  BY DEF Init, SnapInv, SnapOf, Actors, Continuing
<1>2. FirstOf(Tasks) \in Tasks
  BY FirstExists, ApprovalShape
<1>3. WaitInv
  BY <1>2 DEF Init, WaitInv, Undecided
<1>4. VotesCount
  BY DEF Init, VotesCount
<1> QED BY <1>1, <1>3, <1>4

\* Request r goes on with the notes it has, or leaves.
Kept(r) ==
  stage'[r] # "idle" =>
    /\ stage[r] # "idle" /\ want'[r] = want[r] /\ snap'[r] = snap[r]
    /\ stage'[r] = "decide" <=> stage[r] = "decide"

LEMMA SnapKept ==
  ASSUME TypeOK, RequestType, TypeOK', NEW r \in Requests, SnapOf(r), Kept(r), mode' = mode,
         \/ UNCHANGED <<pstatus, rev, task, reopened>>
         \/ rev' > rev
         \/ pstatus' # "waiting"
  PROVE  SnapOf(r)'
<1> SUFFICES ASSUME stage'[r] # "idle" PROVE SnapOf(r)'
  BY DEF SnapOf, Continuing
<1>1. /\ stage[r] # "idle" /\ want'[r] = want[r] /\ snap'[r] = snap[r]
      /\ stage'[r] = "decide" <=> stage[r] = "decide"
  BY DEF Kept
<1>2. stage'[r] \in Continuing \cup {"claim"} => stage[r] \in Continuing \cup {"claim"}
  BY <1>1 DEF TypeOK, Actors, Continuing
<1>3. snap[r].rev <= rev /\ rev \in Nat /\ rev' \in Nat /\ snap[r].rev \in Nat
  BY <1>1 DEF RequestType, TypeOK, Snaps
<1>4. rev' > rev => rev' # snap'[r].rev
  BY <1>1, <1>3
<1>5. Undecided(snap[r].task) => Undecided(snap[r].task)'
  BY <1>1 DEF Undecided
<1>6. /\ stage'[r] # "idle" => snap'[r].task[want'[r].task] = "open"
      /\ stage'[r] \in Continuing \cup {"claim"} => Undecided(snap[r].task)'
  BY <1>1, <1>2, <1>5 DEF SnapOf
<1>7. CASE UNCHANGED <<pstatus, rev, task, reopened>>
  BY <1>1, <1>5, <1>6, <1>7 DEF SnapOf
<1>8. CASE rev' > rev \/ pstatus' # "waiting"
  BY <1>4, <1>6, <1>8 DEF SnapOf
<1> QED BY <1>7, <1>8

LEMMA KeptLeaving ==
  ASSUME TypeOK, RequestType, NEW a \in Actors, Leave(a), NEW r \in Requests
  PROVE  Kept(r)
BY Leaving DEF Kept, Actors

LEMMA KeptGoing ==
  ASSUME TypeOK, NEW a \in Actors, NEW s \in Stages, Goto(a, s), UNCHANGED <<want, snap>>,
         a \in Requests => stage[a] \notin {"idle", "decide"} /\ s # "decide",
         NEW r \in Requests
  PROVE  Kept(r)
BY Going DEF Kept, Actors

\* A step that touches neither the process nor the votes.
Quiet ==
  /\ \A r \in Requests : Kept(r)
  /\ UNCHANGED <<mode, pstatus, rev, node, task, reopened>>

LEMMA QuietVotes ==
  ASSUME TypeOK, RequestType, TypeOK', SnapInv, WaitInv, VotesCount, Quiet
  PROVE  SnapInv' /\ WaitInv' /\ VotesCount'
<1>1. SnapInv'
  BY SnapKept DEF SnapInv, Quiet
<1>2. WaitInv'
  BY DEF WaitInv, Undecided, Quiet
<1>3. VotesCount'
  BY DEF VotesCount, Quiet
<1> QED BY <1>1, <1>2, <1>3

\* A request reads the tasks as they are.
LEMMA ReadVotes ==
  ASSUME TypeOK, RequestType, TypeOK', SnapInv, WaitInv, VotesCount,
         NEW r \in Requests, NEW wish \in Wishes, Read(r, wish), task[wish.task] = "open",
         UNCHANGED <<mode, pstatus, rev, node, task, reopened>>
  PROVE  SnapInv' /\ WaitInv' /\ VotesCount'
<1> DEFINE now == [rev |-> rev, task |-> task, holder |-> holder]
<1>1. now.rev = rev /\ now.task = task
  OBVIOUS
<1> HIDE DEF now
<1>2. want' = [want EXCEPT ![r] = wish] /\ snap' = [snap EXCEPT ![r] = now]
      /\ Goto(r, "decide")
  BY DEF Read, now
<1>3. /\ want'[r] = wish /\ snap'[r] = now
      /\ \A q \in Requests \ {r} : want'[q] = want[q] /\ snap'[q] = snap[q]
  BY <1>2 DEF RequestType
<1>4. stage'[r] = "decide" /\ \A q \in Requests \ {r} : stage'[q] = stage[q]
  BY <1>2, Going DEF Actors, Stages
<1>5. WaitInv'
  BY DEF WaitInv, Undecided
<1>6. VotesCount'
  BY DEF VotesCount
<1>7. SnapOf(r)'
  <2>1. snap'[r].task = task /\ snap'[r].rev = rev /\ want'[r] = wish
    BY <1>1, <1>3
  <2>2. pstatus = "waiting" => Undecided(snap[r].task)'
    BY <2>1 DEF WaitInv, Undecided
  <2>3. stage'[r] \notin Continuing \cup {"claim"}
    BY <1>4 DEF Continuing
  <2> QED BY <1>4, <2>1, <2>2, <2>3 DEF SnapOf
<1>8. ASSUME NEW q \in Requests, q # r PROVE SnapOf(q)'
  BY <1>3, <1>4, <1>8, SnapKept DEF SnapInv, Kept
<1>9. SnapInv'
  BY <1>7, <1>8 DEF SnapInv
<1> QED BY <1>5, <1>6, <1>9

\* The approvals in what r commits are those it has counted.
Approvals(votes) == {t \in Tasks : votes[t] = "approved"}

LEMMA Counted ==
  ASSUME TypeOK, RequestType, NEW r \in Requests, SnapOf(r), Commits(r),
         want[r].decision = "approved", reopened = {}
  PROVE  Approvals(Decided(r)) = Approvals(Votes(r))
<1>1. /\ stage[r] = "decide" /\ pstatus = "waiting" /\ rev = snap[r].rev
      /\ snap[r].task \in [Tasks -> TaskStatuses] /\ want[r].task \in Tasks
  BY DEF Commits, Current, RequestType
<1>2. \A t \in Tasks : task[t] = snap[r].task[t]
  BY <1>1 DEF SnapOf
<1>3. \A t \in Tasks : Decided(r)[t] = "approved" <=> Votes(r)[t] = "approved"
  <2> TAKE t \in Tasks
  <2>1. CASE t = want[r].task
    BY <1>1, <2>1 DEF Decided, Votes
  <2>2. CASE t # want[r].task
    BY <1>1, <1>2, <2>2 DEF Decided, Votes
  <2> QED BY <2>1, <2>2
<1> QED BY <1>3 DEF Approvals

\* What the modes ask for, as a set.
LEMMA Enough ==
  ASSUME NEW votes, mode \in Modes, Approved(votes)
  PROVE  /\ Approvals(votes) # {}
         /\ mode = "quorum" => Cardinality(Approvals(votes)) >= Required
         /\ mode \in {"all", "sequential"} => Approvals(votes) = Tasks
<1> DEFINE A == Approvals(votes)
<1>1. IsFiniteSet(Tasks) /\ A \subseteq Tasks /\ Tasks # {}
  BY ApprovalShape DEF Approvals
<1>2. IsFiniteSet(A) /\ Cardinality(A) \in Nat /\ Cardinality(Tasks) \in Nat
  BY <1>1, FS_Subset, FS_CardinalityType
<1>3. Cardinality(A) = 0 <=> A = {}
  BY <1>2, FS_EmptySet
<1>4. Cardinality(Tasks) # 0
  BY <1>1, FS_EmptySet
<1>5. Cardinality(A) = Cardinality(Tasks) => A = Tasks
  BY <1>1, FS_Subset
<1>6. Required \in Nat /\ Required >= 1
  BY <1>2, ApprovalNumbers
<1>7. mode \in {"any", "quorum", "all", "sequential"}
  BY ApprovalShape
<1>8. CASE mode = "any"
  BY <1>2, <1>3, <1>8 DEF Approved, Approvals
<1>9. CASE mode = "quorum"
  BY <1>2, <1>3, <1>6, <1>9 DEF Approved, Approvals
<1>10. CASE mode \in {"all", "sequential"}
  BY <1>2, <1>3, <1>4, <1>5, <1>10 DEF Approved, Approvals
<1> QED BY <1>7, <1>8, <1>9, <1>10

\* Fewer than that leave a task without an approval.
LEMMA NotEnough ==
  ASSUME NEW votes, mode \in Modes, ~Approved(votes)
  PROVE  Approvals(votes) # Tasks
<1> SUFFICES ASSUME Approvals(votes) = Tasks PROVE FALSE
  OBVIOUS
<1>1. Cardinality(Tasks) \in Nat /\ Cardinality(Tasks) # 0
  BY ApprovalShape, FS_CardinalityType, FS_EmptySet
<1>2. Required \in Nat /\ Required <= Cardinality(Tasks)
  BY <1>1, ApprovalNumbers
<1> QED BY <1>1, <1>2 DEF Approved, Approvals

\* A vote that decides nothing leaves, or opens, a task for the next one.
LEMMA PartialVotes ==
  ASSUME TypeOK, RequestType, TypeOK', RowsInv, SnapInv, WaitInv,
         NEW r \in Requests, PartialVote(r)
  PROVE  SnapInv' /\ WaitInv' /\ VotesCount'
<1> DEFINE t == want[r].task
           pending == {u \in Tasks : snap[r].task[u] = "pending"}
           opened == IF mode = "sequential" /\ pending # {} THEN {FirstOf(pending)} ELSE {}
<1>1. /\ stage[r] = "decide" /\ pstatus = "waiting" /\ rev = snap[r].rev
      /\ want[r].decision = "approved" /\ ~Approved(Votes(r))
      /\ task' = [u \in Tasks |-> IF u = t THEN "approved"
                                  ELSE IF u \in opened THEN "open" ELSE task[u]]
      /\ rev' = rev + 1 /\ Leave(r) /\ UNCHANGED <<pstatus, node, mode, reopened>>
  BY DEF PartialVote, Commits, Current
<1>2. /\ t \in Tasks /\ snap[r].task \in [Tasks -> TaskStatuses]
      /\ Votes(r) = [snap[r].task EXCEPT ![t] = "approved"]
  BY <1>1 DEF RequestType, Votes
<1>3. /\ snap[r].task[t] = "open" /\ Undecided(snap[r].task)
      /\ \A u \in Tasks : task[u] = snap[r].task[u] \/ task[u] = "open"
  BY <1>1 DEF SnapInv, SnapOf
<1>4. PICK u \in Tasks : Votes(r)[u] # "approved"
  BY <1>1, NotEnough DEF Approvals, TypeOK
<1>5. u # t /\ snap[r].task[u] # "approved"
  BY <1>2, <1>4
<1>6. \E v \in Tasks : task'[v] = "open"
  <2>1. CASE snap[r].task[u] = "open"
    <3>1. task[u] = "open"
      BY <1>3, <2>1
    <3>2. task'[u] = IF u \in opened THEN "open" ELSE task[u]
      BY <1>1, <1>5
    <3> QED BY <3>1, <3>2
  <2>2. CASE snap[r].task[u] = "pending" /\ mode = "sequential"
    <3>1. pending # {} /\ pending \subseteq Nat
      BY <2>2, ApprovalShape
    <3>2. FirstOf(pending) \in pending
      BY <3>1, FirstExists
    <3>3. FirstOf(pending) \in Tasks /\ FirstOf(pending) \in opened
      BY <2>2, <3>1, <3>2
    <3>4. FirstOf(pending) # t
      BY <1>3, <3>2
    <3>5. task'[FirstOf(pending)] = "open"
      BY <1>1, <3>3, <3>4
    <3> QED BY <3>3, <3>5
  <2> QED BY <1>3, <1>5, <2>1, <2>2 DEF Undecided
<1>7. Undecided(task)'
  <2>1. Undecided(task)
    BY <1>1 DEF WaitInv
  <2>2. \A v \in Tasks : task'[v] \in {"approved", "open", task[v]}
    BY <1>1
  <2> QED BY <1>1, <2>1, <2>2 DEF Undecided
<1>8. WaitInv'
  BY <1>6, <1>7 DEF WaitInv
<1>9. SnapInv'
  <2>1. rev' > rev
    BY <1>1 DEF TypeOK
  <2> QED BY <1>1, <2>1, SnapKept, KeptLeaving DEF SnapInv, Actors
<1>10. VotesCount'
  BY <1>1 DEF VotesCount, RowsInv
<1> QED BY <1>8, <1>9, <1>10

\* The vote that approves the node.
LEMMA ApprovingVotes ==
  ASSUME TypeOK, RequestType, TypeOK', SnapInv, NEW r \in Requests, ApprovingVote(r)
  PROVE  SnapInv' /\ WaitInv' /\ VotesCount'
<1>1. /\ Commits(r) /\ stage[r] = "decide" /\ pstatus = "waiting" /\ rev = snap[r].rev
      /\ want[r].decision = "approved" /\ Approved(Votes(r)) /\ task' = Decided(r)
      /\ pstatus' = "running" /\ Goto(r, "claim")
      /\ UNCHANGED <<mode, reopened, want, snap>>
  BY DEF ApprovingVote, Commits, Current
<1>2. VotesCount'
  <2> SUFFICES ASSUME reopened = {}
               PROVE  LET approved == {t \in Tasks : task'[t] = "approved"}
                      IN /\ approved # {}
                         /\ mode = "quorum" => Cardinality(approved) >= Required
                         /\ mode \in {"all", "sequential"} => approved = Tasks
    BY <1>1 DEF VotesCount
  <2>1. {t \in Tasks : task'[t] = "approved"} = Approvals(Votes(r))
    BY <1>1, Counted DEF Approvals, SnapInv
  <2> QED BY <1>1, <2>1, Enough DEF TypeOK
<1>3. WaitInv'
  BY <1>1 DEF WaitInv
<1>4. stage'[r] = "claim" /\ \A q \in Requests \ {r} : stage'[q] = stage[q]
  BY <1>1, Going DEF Actors, Stages
<1>5. SnapOf(r)'
  <2>1. Undecided(snap[r].task) /\ snap[r].task[want[r].task] = "open"
    BY <1>1 DEF SnapInv, SnapOf
  <2>2. Undecided(snap[r].task)'
    BY <1>1, <2>1 DEF Undecided
  <2> QED BY <1>1, <1>4, <2>1, <2>2 DEF SnapOf
<1>6. ASSUME NEW q \in Requests, q # r PROVE SnapOf(q)'
  BY <1>1, <1>4, <1>6, SnapKept DEF SnapInv, Kept
<1>7. SnapInv'
  BY <1>5, <1>6 DEF SnapInv
<1> QED BY <1>2, <1>3, <1>7

LEMMA RejectingVotes ==
  ASSUME TypeOK, RequestType, TypeOK', SnapInv, NEW r \in Requests, RejectingVote(r)
  PROVE  SnapInv' /\ WaitInv' /\ VotesCount'
<1>1. SnapInv'
  BY SnapKept, KeptLeaving DEF RejectingVote, SnapInv, Actors
<1> QED BY <1>1 DEF RejectingVote, WaitInv, VotesCount

\* Putting a decision back restores tasks that were undecided, one of them open.
LEMMA RecoveredVotes ==
  ASSUME TypeOK, RequestType, TypeOK', SnapInv, WaitInv, VotesCount,
         NEW r \in Requests, RecoverDecision(r)
  PROVE  SnapInv' /\ WaitInv' /\ VotesCount'
<1>1. stage[r] = "recover" /\ Leave(r) /\ UNCHANGED <<mode, reopened>>
  BY DEF RecoverDecision
<1>2. \A q \in Requests : Kept(q)
  BY <1>1, KeptLeaving DEF Actors
<1>3. CASE Restorable(r)
  <2>1. /\ pstatus' = "waiting" /\ rev' = rev + 1 /\ node' = "waiting"
        /\ task' = snap[r].task
    BY <1>3 DEF RecoverDecision, Restored
  <2>2. rev' > rev
    BY <2>1 DEF TypeOK
  <2>3. SnapInv'
    BY <1>1, <1>2, <2>2, SnapKept DEF SnapInv
  <2>4. Undecided(snap[r].task) /\ snap[r].task[want[r].task] = "open"
        /\ want[r].task \in Tasks
    BY <1>1 DEF SnapInv, SnapOf, Continuing, RequestType
  <2>5. WaitInv'
    BY <1>1, <2>1, <2>4 DEF WaitInv, Undecided
  <2>6. VotesCount'
    BY <2>1 DEF VotesCount
  <2> QED BY <2>3, <2>5, <2>6
<1>4. CASE ~Restorable(r)
  <2>1. Quiet
    BY <1>1, <1>2, <1>4 DEF RecoverDecision, Quiet
  <2> QED BY <2>1, QuietVotes
<1> QED BY <1>3, <1>4

LEMMA WithdrawnVotes ==
  ASSUME TypeOK, RequestType, TypeOK', RowsInv, SnapInv, WaitInv, VotesCount, Withdraw
  PROVE  SnapInv' /\ WaitInv' /\ VotesCount'
<1>1. UNCHANGED <<stage, want, snap, mode, reopened>>
  BY DEF Withdraw
<1>2. \A r \in Requests : Kept(r)
  BY <1>1 DEF Kept
<1>3. CASE Withdrawable
  <2>1. pstatus' = "cancelled" /\ node' # "approved"
    BY <1>3 DEF Withdraw, Withdrawable, RowsInv
  <2>2. SnapInv'
    BY <1>1, <1>2, <2>1, SnapKept DEF SnapInv
  <2> QED BY <2>1, <2>2 DEF WaitInv, VotesCount
<1>4. CASE ~Withdrawable
  <2>1. Quiet
    BY <1>1, <1>2, <1>4 DEF Withdraw, Quiet
  <2> QED BY <2>1, QuietVotes
<1> QED BY <1>3, <1>4

\* An escalation opens a task; if that takes a decision back, it is noted.
LEMMA EscalatedVotes ==
  ASSUME TypeOK, RequestType, TypeOK', SnapInv, WaitInv, VotesCount,
         NEW t \in Tasks, Escalate(t)
  PROVE  SnapInv' /\ WaitInv' /\ VotesCount'
<1>1. UNCHANGED <<stage, want, snap, mode, pstatus, rev, node>>
  BY DEF Escalate
<1>2. \A r \in Requests : Kept(r)
  BY <1>1 DEF Kept
<1>3. CASE UNCHANGED <<task, reopened>>
  <2>1. Quiet
    BY <1>1, <1>2, <1>3 DEF Quiet
  <2> QED BY <2>1, QuietVotes
<1>4. CASE task' = [task EXCEPT ![t] = "open"] /\ task[t] # "open"
           /\ reopened' = reopened \cup {t}
  <2>1. task'[t] = "open" /\ \A u \in Tasks \ {t} : task'[u] = task[u]
    BY <1>4 DEF TypeOK
  <2>2. VotesCount'
    BY <1>4 DEF VotesCount
  <2>3. WaitInv'
    BY <1>1, <2>1 DEF WaitInv, Undecided
  <2>4. ASSUME NEW r \in Requests PROVE SnapOf(r)'
    <3>1. SnapOf(r)
      BY DEF SnapInv
    <3>2. Undecided(snap[r].task) => Undecided(snap[r].task)'
      BY <1>1 DEF Undecided
    <3>3. ASSUME NEW u \in Tasks, task[u] = snap[r].task[u] \/ (task[u] = "open" /\ u \in reopened)
          PROVE  task'[u] = snap[r].task[u] \/ (task'[u] = "open" /\ u \in reopened')
      BY <1>4, <2>1, <3>3
    <3> QED BY <1>1, <3>1, <3>2, <3>3 DEF SnapOf
  <2>5. SnapInv'
    BY <2>4 DEF SnapInv
  <2> QED BY <2>2, <2>3, <2>5
<1>5. CASE task' = [task EXCEPT ![t] = "open"] /\ task[t] = "open" /\ reopened' = reopened
  <2>1. task' = task
    BY <1>5 DEF TypeOK
  <2> QED BY <1>3, <1>5, <2>1
<1> QED BY <1>3, <1>4, <1>5 DEF Escalate

\* The steps of a continuation leave the tasks alone.
LEMMA ContinuedVotes ==
  ASSUME TypeOK, RequestType, TypeOK', ClaimInv, SnapInv, WaitInv, VotesCount,
         NEW a \in Actors, Runs(a)
  PROVE  SnapInv' /\ WaitInv' /\ VotesCount'
<1>1. stage[a] \in Continuing /\ stage'[a] \in Continuing /\ Others(a)
      /\ pstatus' \in {pstatus, "completed", "configuration_error"}
  BY ContinueShapes DEF Proceeds
<1>2. UNCHANGED <<want, snap, mode, node, task, reopened>>
  BY DEF Runs, Continue, PrepareAction, InvokeAction, RecordCompletedNode, RecordFailedNode,
         FailProcess, CompleteProcess, CancelWork
<1>3. pstatus' # "waiting"
  BY <1>1 DEF ClaimInv, Busy, Underway
<1>4. \A r \in Requests : Kept(r)
  BY <1>1, <1>2 DEF Kept, Others, Actors, Continuing
<1>5. SnapInv'
  BY <1>2, <1>3, <1>4, SnapKept DEF SnapInv
<1> QED BY <1>2, <1>3, <1>5 DEF WaitInv, VotesCount

LEMMA StepVotes ==
  ASSUME TypeOK, RequestType, TypeOK', RowsInv, ClaimInv, SnapInv, WaitInv, VotesCount,
         [Next]_vars
  PROVE  SnapInv' /\ WaitInv' /\ VotesCount'
<1> USE DEF Actors
<1>0. \A a \in Actors : Leave(a) => \A r \in Requests : Kept(r)
  BY KeptLeaving
<1>1. ASSUME NEW r \in Requests, NEW t \in Tasks, NEW d \in {"approved", "rejected"},
             BeginDecision(r, t, d)
      PROVE  SnapInv' /\ WaitInv' /\ VotesCount'
  <2> DEFINE wish == [task |-> t, decision |-> d, who |-> holder[t], tries |-> Tries]
  <2>1. wish \in Wishes /\ wish.task = t
    BY ApprovalNumbers DEF Wishes, TypeOK
  <2> HIDE DEF wish
  <2>2. Read(r, wish) /\ task[t] = "open"
    BY <1>1 DEF BeginDecision, wish
  <2> QED BY <1>1, <2>1, <2>2, ReadVotes DEF BeginDecision
<1>2. ASSUME NEW r \in Requests, RetryDecision(r)
      PROVE  SnapInv' /\ WaitInv' /\ VotesCount'
  <2>1. CASE Leave(r)
    <3>1. Quiet
      BY <1>0, <1>2, <2>1 DEF RetryDecision, Quiet
    <3> QED BY <3>1, QuietVotes
  <2>2. CASE want[r].tries > 1 /\ task[want[r].task] = "open"
             /\ Read(r, [want[r] EXCEPT !.tries = @ - 1])
    <3> DEFINE wish == [want[r] EXCEPT !.tries = @ - 1]
    <3>1. want[r] \in Wishes /\ want[r].tries \in Nat
      BY DEF RequestType, Wishes
    <3>2. wish \in Wishes /\ wish.task = want[r].task
      BY <2>2, <3>1 DEF Wishes
    <3>3. Read(r, wish)
      BY <2>2
    <3> HIDE DEF wish
    <3> QED BY <1>2, <2>2, <3>2, <3>3, ReadVotes DEF RetryDecision
  <2> QED BY <1>2, <2>1, <2>2 DEF RetryDecision
<1>3. ASSUME NEW r \in Requests, RefuseDecision(r) \/ SettleInline(r) \/ AbortRequest(r)
      PROVE  Quiet
  BY <1>0, <1>3 DEF RefuseDecision, SettleInline, AbortRequest, Quiet
<1>4. ASSUME NEW r \in Requests, ClaimInline(r)
      PROVE  Quiet
  <2>1. CASE Leave(r)
    BY <1>0, <1>4, <2>1 DEF ClaimInline, Quiet
  <2>2. CASE ~Leave(r)
    <3>1. stage[r] = "claim" /\ Goto(r, "prepare") /\ UNCHANGED <<want, snap>>
      BY <1>4, <2>2 DEF ClaimInline
    <3>2. \A q \in Requests : Kept(q)
      BY <3>1, KeptGoing DEF Stages, Continuing
    <3> QED BY <1>4, <3>2 DEF ClaimInline, Quiet
  <2> QED BY <2>1, <2>2
<1>5. ASSUME NEW w \in Workers, CommitClaimed(w) \/ StopWorker(w)
      PROVE  Quiet
  BY <1>0, <1>5 DEF CommitClaimed, StopWorker, Quiet
<1>6. ASSUME NEW w \in Workers, ReadExecution(w) \/ ClaimExecution(w)
      PROVE  Quiet
  <2>1. CASE Leave(w)
    BY <1>0, <1>6, <2>1 DEF ReadExecution, ClaimExecution, Quiet
  <2>2. CASE ~Leave(w)
    <3>1. (Goto(w, "claim") \/ Goto(w, "prepare")) /\ UNCHANGED <<want, snap>>
      BY <1>6, <2>2 DEF ReadExecution, ClaimExecution
    <3>2. \A q \in Requests : Kept(q)
      BY <3>1, KeptGoing, ApprovalShape DEF Stages, Continuing
    <3> QED BY <1>6, <3>2 DEF ReadExecution, ClaimExecution, Quiet
  <2> QED BY <2>1, <2>2
<1>7. CASE LeaseExpires \/ PrepareWithdrawal \/ UNCHANGED vars
           \/ \E t \in Tasks : ReadDeadline(t)
  <2>1. UNCHANGED <<stage, want, snap, mode, pstatus, rev, node, task, reopened>>
    BY <1>7 DEF LeaseExpires, PrepareWithdrawal, vars, ReadDeadline
  <2>2. Quiet
    BY <2>1 DEF Quiet, Kept
  <2> QED BY <2>2, QuietVotes
<1>8. CASE \E r \in Requests : RefuseDecision(r) \/ SettleInline(r) \/ AbortRequest(r)
                               \/ ClaimInline(r)
  BY <1>3, <1>4, <1>8, QuietVotes
<1>9. CASE \E w \in Workers : ReadExecution(w) \/ ClaimExecution(w) \/ CommitClaimed(w)
                              \/ StopWorker(w)
  BY <1>5, <1>6, <1>9, QuietVotes
<1>10. CASE \E a \in Actors : Runs(a)
  BY <1>10, ContinuedVotes
<1>11. CASE \E r \in Requests : PartialVote(r) \/ ApprovingVote(r) \/ RejectingVote(r)
                                \/ RecoverDecision(r)
  BY <1>11, PartialVotes, ApprovingVotes, RejectingVotes, RecoveredVotes
<1>12. CASE Withdraw \/ \E t \in Tasks : Escalate(t)
  BY <1>12, WithdrawnVotes, EscalatedVotes
<1> QED BY <1>1, <1>2, <1>7, <1>8, <1>9, <1>10, <1>11, <1>12 DEF Next, Serve, Work, Runs

-----------------------------------------------------------------------------
(* The theorems.                                                           *)

ApprovalInv ==
  /\ TypeOK /\ RequestType /\ RowsInv /\ ClaimInv /\ LeaseInv /\ OutcomeInv /\ EffectInv
  /\ SnapInv /\ WaitInv /\ VotesCount

LEMMA Invariance == Spec => []ApprovalInv
<1>1. Init => ApprovalInv
  BY InitTypes, InitClaims, InitEffects, InitVotes DEF ApprovalInv
<1>2. ApprovalInv /\ [Next]_vars => ApprovalInv'
  <2> SUFFICES ASSUME ApprovalInv, [Next]_vars PROVE ApprovalInv'
    OBVIOUS
  <2>1. TypeOK' /\ RequestType'
    BY StepTypes DEF ApprovalInv
  <2>2. RowsInv' /\ ClaimInv' /\ LeaseInv'
    BY StepRows, StepClaims, StepLease DEF ApprovalInv
  <2>3. OutcomeInv' /\ EffectInv'
    BY <2>1, StepOutcome, StepEffects DEF ApprovalInv
  <2>4. SnapInv' /\ WaitInv' /\ VotesCount'
    BY <2>1, StepVotes DEF ApprovalInv
  <2> QED BY <2>1, <2>2, <2>3, <2>4 DEF ApprovalInv
<1> QED BY <1>1, <1>2, PTL DEF Spec

\* Requests, workers, withdrawals and deadlines keep the types of all rows
\* and notes.
THEOREM TypeCorrect == Spec => []TypeOK
<1>1. ApprovalInv => TypeOK
  BY DEF ApprovalInv
<1> QED BY <1>1, Invariance, PTL

\* A node is approved only on approvals that are there together
\* (guardApprovalSnapshotTx, WorkflowTerminalApprovalOutcome).
THEOREM VotesCountCorrect == Spec => []VotesCount
<1>1. ApprovalInv => VotesCount
  BY DEF ApprovalInv
<1> QED BY <1>1, Invariance, PTL

\* A waiting process can be decided, whatever votes, recoveries and escalations
\* came before (DecideTerminalTask, recoverWorkflowDecision).
THEOREM WaitingIsDecidableCorrect == Spec => []WaitingIsDecidable
<1>1. ApprovalInv => WaitingIsDecidable
  <2> SUFFICES ASSUME ApprovalInv, pstatus = "waiting"
               PROVE  /\ node = "waiting" /\ exec.status = "waiting"
                      /\ \E t \in Tasks : task[t] = "open"
                      /\ \A a \in Actors : stage[a] \notin Continuing
    BY DEF WaitingIsDecidable
  <2>1. Busy = {}
    BY DEF ApprovalInv, ClaimInv, Underway
  <2> QED BY <2>1 DEF ApprovalInv, RowsInv, WaitInv, Busy
<1> QED BY <1>1, Invariance, PTL

\* The rows that different transactions write tell the same story, until a
\* worker outlives its lease, and but for a dead letter whose last attempt could
\* not write the process (CommitWorkflowState, commitClaimedWorkflowExecution,
\* failProcess, which drops the error of its update).
THEOREM RowsAgreeCorrect == Spec => []RowsAgree
<1>1. ApprovalInv => RowsAgree
  BY DEF ApprovalInv, RowsInv, OutcomeInv, RowsAgree, Underway
<1> QED BY <1>1, Invariance, PTL

\* The action takes effect before the process is complete, and at most once more
\* than an effect was forgotten, until a worker outlives its lease: a key is
\* given up only where the model counts it (executeActionNode,
\* nextNodeIteration, recordFailedNode).
THEOREM EffectOnceCorrect == Spec => []EffectOnce
<1>1. ApprovalInv => EffectOnce
  <2> SUFFICES ASSUME ApprovalInv PROVE EffectOnce
    OBVIOUS
  <2>1. pstatus = "completed" => effects # {}
    BY DEF ApprovalInv, EffectInv
  <2>2. ASSUME ~overran PROVE Cardinality(effects) <= 1 + forgotten
    <3>1. PICK k \in Nat : /\ IsFiniteSet(Tried \ {k})
                           /\ Cardinality(Tried \ {k}) <= forgotten
      BY <2>2 DEF ApprovalInv, EffectInv
    <3>2. effects \subseteq (Tried \ {k}) \cup {k} /\ forgotten \in Nat
      BY DEF Tried, ApprovalInv, TypeOK
    <3>3. Cardinality(effects) <= forgotten + 1
      BY <3>1, <3>2, OneForgotten
    <3> QED BY <3>2, <3>3
  <2> QED BY <2>1, <2>2 DEF EffectOnce
<1> QED BY <1>1, Invariance, PTL

\* A withdrawal does not race the action it withdraws
\* (prepareWorkflowWithdrawal, ApplyWorkflowWithdrawalTx).
THEOREM WithdrawnStaysCorrect == Spec => WithdrawnStays
<1>1. ApprovalInv /\ [Next]_vars =>
        (pstatus = "cancelled" =>
           pstatus' = "cancelled" /\ effects' = effects /\ exec' = exec)
  <2> SUFFICES ASSUME ApprovalInv, [Next]_vars, pstatus = "cancelled"
               PROVE  pstatus' = "cancelled" /\ effects' = effects /\ exec' = exec
    OBVIOUS
  <2>1. exec.status = "cancelled" /\ \A a \in Actors : stage[a] \notin Continuing
    BY DEF ApprovalInv, RowsInv, ClaimInv, Underway, Busy
  <2>2. ASSUME NEW a \in Actors, Claims(a) PROVE FALSE
    BY <2>1, <2>2 DEF Claims, Unchanged, ApprovalInv, ClaimInv, Actors
  <2> QED BY <2>1, <2>2, Shapes DEF ApprovalInv, Around, Withdraws, Expires, Aside, Proceeds,
                                   Ends, Decides
<1>2. ApprovalInv /\ [Next]_vars =>
        [pstatus = "cancelled" =>
           pstatus' = "cancelled" /\ effects' = effects /\ exec' = exec]_vars
  BY <1>1
<1> QED BY <1>2, Invariance, PTL DEF Spec, WithdrawnStays
=============================================================================
