---------------------------- MODULE RecordTimer ----------------------------
(***************************************************************************)
(* Record timers: one-shot work that is due at an instant.  Workers visit  *)
(* the workspaces that have due timers, claim a batch of timers under a    *)
(* lease that nobody renews, run their targets one after the other, and    *)
(* record each result under the fencing token of the claim.  Business      *)
(* mutations schedule, cancel and supersede timers, operators requeue or   *)
(* resolve failed ones.                                                    *)
(*                                                                         *)
(* Code: application/recordtimer, domain/recordtimer/policy, the workspace *)
(* query of infrastructure/persistence/database/record, and the worker     *)
(* loop in bootstrap/runtime.  Every write is one CommitRecordMutationBatch*)
(* (all of it or nothing), conditional on the columns read before.         *)
(*                                                                         *)
(* Time.  dueIn and leaseLeft count from the present instant (<= 0: past). *)
(* A pass reads the clock once and works with this reading until its end:  *)
(* age[w] is how old it is.  What is more than MaxPass ago is over for     *)
(* every pass.                                                             *)
(*                                                                         *)
(* A worker keeps its WorkerID when it restarts.  A pair (status, token)   *)
(* determines the other columns of a row, which is why a copy of the row   *)
(* read earlier is represented by these two.                               *)
(***************************************************************************)
EXTENDS Integers, FiniteSets

CONSTANTS
  Timers, Workers,
  Clients,     \* source mutations and operators
  Workspaces,  \* numbers, in the order of workspace_id
  WsOf,        \* the workspace of a timer
  Rank,        \* the position of a timer by priority, sequence, created_at, id
  Groups,      \* the sets of timers a cancellation can name (record, purpose)
  Limit,       \* BatchSize: claims per pass
  MaxAttempts, BaseDelay, CapDelay, \* the retry policy of the timers
  LeaseTTL,    \* RECORD_TIMER_LEASE_TTL
  PassTime,    \* the longest a prompt pass takes
  MaxPass,     \* bound: the longest any pass takes
  MaxDue,      \* bound: how far ahead timers are scheduled
  MaxFaults,   \* bound: crashes, stalls, failed commits and lost replies
  MaxInterventions, \* bound: cancellations, replacements, operator commands
  NoOwner

ASSUME TimerShape ==
  /\ Workspaces \subseteq Nat /\ IsFiniteSet(Workspaces)
  /\ WsOf \in [Timers -> Workspaces] /\ Rank \in [Timers -> Nat]
  /\ \A t, u \in Timers : Rank[t] = Rank[u] => t = u
  /\ NoOwner \notin Workers /\ Workers \cap Clients = {}
  /\ \A g \in Groups : g \subseteq Timers

ASSUME TimerNumbers ==
  /\ Limit \in Nat \ {0} /\ MaxAttempts \in Nat \ {0}
  /\ BaseDelay \in Nat \ {0} /\ CapDelay \in Nat /\ BaseDelay <= CapDelay
  /\ LeaseTTL \in Nat \ {0} /\ PassTime \in Nat /\ PassTime < LeaseTTL
  /\ MaxPass \in Nat /\ PassTime <= MaxPass /\ MaxDue \in Nat
  /\ MaxFaults \in Nat /\ MaxInterventions \in Nat

VARIABLES
  \* the record_timer rows
  status, dueIn, owner, leaseLeft, token, attempt,
  \* workers: what they do, the age of their clock reading, the workspace the
  \* pass began with, the share of each workspace, the workspaces still to
  \* visit, the rotation cursor, and the leases to work through
  stage, age, first, quota, todo, cursor, batch,
  \* workers and clients: the rows they have read and not yet written
  cand, seen,
  succeeded,  \* history: the claims (tokens) whose target ended without error
  faults, interventions

rowVars == <<status, dueIn, owner, leaseLeft, token, attempt>>
passVars == <<age, first, quota, todo, cursor>>
workVars == <<stage, batch, cand, seen>>
vars == <<rowVars, passVars, workVars, succeeded, faults, interventions>>

\* The columns that conditional updates compare.
Unread == [status |-> "none", token |-> 0]
Row(t) == [status |-> status[t], token |-> token[t]]

Init ==
  /\ status = [t \in Timers |-> "none"]
  /\ dueIn = [t \in Timers |-> 0]
  /\ owner = [t \in Timers |-> NoOwner]
  /\ leaseLeft = [t \in Timers |-> 0]
  /\ token = [t \in Timers |-> 0]
  /\ attempt = [t \in Timers |-> 0]
  /\ stage = [w \in Workers |-> "idle"]
  /\ age = [w \in Workers |-> 0]
  /\ first = [w \in Workers |-> 0]
  /\ quota = [w \in Workers |-> [x \in Workspaces |-> 0]]
  /\ todo = [w \in Workers |-> {}]
  /\ cursor = [w \in Workers |-> 0]
  /\ batch = [w \in Workers |-> {}]
  /\ cand = [a \in Workers \cup Clients |-> {}]
  /\ seen = [a \in Workers \cup Clients |-> [t \in Timers |-> Unread]]
  /\ succeeded = [t \in Timers |-> {}]
  /\ faults = 0 /\ interventions = 0

\* A step that only happens when something goes wrong uses up a fault.
Fault(b) ==
  \/ b /\ faults < MaxFaults /\ faults' = faults + 1
  \/ ~b /\ UNCHANGED faults

-----------------------------------------------------------------------------
(* Reading and conditional writing.                                        *)

Read(a, set) ==
  /\ cand' = [cand EXCEPT ![a] = set]
  /\ seen' = [seen EXCEPT ![a] = [t \in Timers |-> IF t \in set THEN Row(t) ELSE Unread]]

\* The conditions of an update: the row is still the one that was read.
Unchanged(a, t) == Row(t) = seen[a][t]

\* A pass is over for these timers: what was read of them is forgotten.
Forget(a, set) == seen' = [seen EXCEPT ![a] = [t \in Timers |-> IF t \in set THEN Unread ELSE @[t]]]

-----------------------------------------------------------------------------
(* Source mutations: BuildRecordTimerMutation and its relatives.           *)

\* A new timer; the deterministic ID makes a repeated request find the first.
Create(t, due) ==
  /\ status[t] = "none"
  /\ dueIn' = [dueIn EXCEPT ![t] = due]

Schedule(t, due) ==
  /\ Create(t, due)
  /\ status' = [status EXCEPT ![t] = "scheduled"]
  /\ UNCHANGED <<owner, leaseLeft, token, attempt, passVars, workVars, succeeded,
                 faults, interventions>>

Intervene ==
  interventions < MaxInterventions /\ interventions' = interventions + 1

\* CancelRecordTimers lists the scheduled timers of a record ...
ListScheduled(c, group) ==
  /\ cand[c] = {}
  /\ Intervene
  /\ \E t \in group : status[t] = "scheduled"
  /\ Read(c, {t \in group : status[t] = "scheduled"})
  /\ UNCHANGED <<rowVars, passVars, stage, batch, succeeded, faults>>

\* ... and a caller of BuildRecordTimerSupersedeMutations or of the recovery
\* commands reads one timer.
ReadTimer(c, t) ==
  /\ cand[c] = {}
  /\ Intervene
  /\ status[t] \in {"scheduled", "failed"}
  /\ Read(c, {t})
  /\ UNCHANGED <<rowVars, passVars, stage, batch, succeeded, faults>>

\* The client's turn ends with its commit, whatever comes of it.
EndTurn(c) ==
  /\ cand' = [cand EXCEPT ![c] = {}]
  /\ Forget(c, Timers)
  /\ UNCHANGED <<passVars, stage, batch, succeeded, faults, interventions>>

ReadAs(c, s) == cand[c] # {} /\ \A t \in cand[c] : seen[c][t].status = s

\* One conditional batch: all timers that were read, or none.
CancelRecordTimers(c) ==
  /\ ReadAs(c, "scheduled")
  /\ IF \A t \in cand[c] : Unchanged(c, t)
     THEN status' = [t \in Timers |-> IF t \in cand[c] THEN "cancelled" ELSE status[t]]
     ELSE UNCHANGED status
  /\ EndTurn(c)
  /\ UNCHANGED <<dueIn, owner, leaseLeft, token, attempt>>

\* The old timer ends and its replacement begins in the same batch.
SupersedeTimer(c, t, u, due) ==
  /\ ReadAs(c, "scheduled") /\ cand[c] = {t}
  /\ IF Unchanged(c, t) /\ status[u] = "none"
     THEN /\ Create(u, due)
          /\ status' = [status EXCEPT ![t] = "superseded", ![u] = "scheduled"]
     ELSE UNCHANGED <<status, dueIn>>
  /\ EndTurn(c)
  /\ UNCHANGED <<owner, leaseLeft, token, attempt>>

\* transitionRecordTimerFailure: a requeued timer gets a new attempt budget
\* and is due at once, a resolved one is cancelled.
RetryFailure(c, t) ==
  /\ ReadAs(c, "failed") /\ cand[c] = {t}
  /\ IF Unchanged(c, t)
     THEN /\ status' = [status EXCEPT ![t] = "scheduled"]
          /\ attempt' = [attempt EXCEPT ![t] = 0]
          /\ dueIn' = [dueIn EXCEPT ![t] = 0]
     ELSE UNCHANGED <<status, attempt, dueIn>>
  /\ EndTurn(c)
  /\ UNCHANGED <<owner, leaseLeft, token>>

ResolveFailure(c, t) ==
  /\ ReadAs(c, "failed") /\ cand[c] = {t}
  /\ status' = IF Unchanged(c, t) THEN [status EXCEPT ![t] = "cancelled"] ELSE status
  /\ EndTurn(c)
  /\ UNCHANGED <<dueIn, owner, leaseLeft, token, attempt>>

-----------------------------------------------------------------------------
(* A worker's pass: ProcessDueForAllWorkspaces.                            *)

Due(t, a) == status[t] = "scheduled" /\ dueIn[t] <= -a
MutExpired(t, a) == FALSE
Expired(t, a) == status[t] = "leased" /\ dueIn[t] <= -a /\ leaseLeft[t] <= -a

\* ListDueRecordTimerWorkspaces
DueWorkspaces(a) == {WsOf[t] : t \in {u \in Timers : Due(u, a) \/ Expired(u, a)}}

\* The element of a set of workspaces with i smaller ones.
Nth(set, i) == CHOOSE x \in set : Cardinality({y \in set : y < x}) = i

\* x is visited before y by a pass that begins with workspace f.
Before(f, x, y) == (x >= f /\ y < f) \/ (((x >= f) <=> (y >= f)) /\ x < y)

\* The share of workspace x in a pass over the set due.
Quota(due, f, x) ==
  LET n == Cardinality(due)
      index == Cardinality({y \in due : Before(f, y, x)})
  IN Limit \div n + (IF index < Limit % n THEN 1 ELSE 0)

BeginPass(w) ==
  LET due == DueWorkspaces(0)
      f == Nth(due, cursor[w] % Cardinality(due))
      share == [x \in Workspaces |-> IF x \in due THEN Quota(due, f, x) ELSE 0]
  IN
  /\ stage[w] = "idle" /\ due # {}
  /\ stage' = [stage EXCEPT ![w] = "visit"]
  /\ age' = [age EXCEPT ![w] = 0]
  /\ first' = [first EXCEPT ![w] = f]
  /\ quota' = [quota EXCEPT ![w] = share]
  /\ todo' = [todo EXCEPT ![w] = {x \in due : share[x] > 0}]
  /\ cursor' = [cursor EXCEPT ![w] = (@ + 1) % Cardinality(due)]
  /\ UNCHANGED <<rowVars, batch, cand, seen, succeeded, faults, interventions>>

EndPass(w) ==
  /\ stage[w] = "visit" /\ todo[w] = {}
  /\ stage' = [stage EXCEPT ![w] = "idle"]
  /\ age' = [age EXCEPT ![w] = 0]
  /\ first' = [first EXCEPT ![w] = 0]
  /\ quota' = [quota EXCEPT ![w] = [x \in Workspaces |-> 0]]
  /\ UNCHANGED <<rowVars, todo, cursor, batch, cand, seen, succeeded, faults,
                 interventions>>

-----------------------------------------------------------------------------
(* ClaimDueRecordTimers.                                                   *)

\* The first n timers of a set, in the order of the query.
Page(set, n) == {t \in set : Cardinality({u \in set : Rank[u] < Rank[t]}) < n}

\* Due timers come first; expired leases get what room is left.
Candidates(x, a, n) ==
  LET due == Page({t \in Timers : WsOf[t] = x /\ Due(t, a)}, n)
  IN due \cup Page({t \in Timers : WsOf[t] = x /\ Expired(t, a)}, n - Cardinality(due))

\* The workspace whose turn it is.
IsNext(w, x) == x \in todo[w] /\ \A y \in todo[w] \ {x} : Before(first[w], x, y)

\* The two queries; failed: one of them returns an error, and the worker goes
\* on with the next workspace.
ListCandidates(w, x, failed) ==
  LET found == Candidates(x, age[w], quota[w][x])
  IN
  /\ stage[w] = "visit" /\ IsNext(w, x)
  /\ Fault(failed)
  /\ todo' = [todo EXCEPT ![w] = @ \ {x}]
  /\ IF failed \/ found = {}
     THEN UNCHANGED <<stage, cand, seen>>
     ELSE Read(w, found) /\ stage' = [stage EXCEPT ![w] = "claim"]
  /\ UNCHANGED <<rowVars, age, first, quota, cursor, batch, succeeded, interventions>>

\* PrepareClaim for the timers of a set.  The lease counts from the clock
\* reading of the pass.
Claim(w, set) ==
  /\ status' = [t \in Timers |-> IF t \in set THEN "leased" ELSE status[t]]
  /\ owner' = [t \in Timers |-> IF t \in set THEN w ELSE owner[t]]
  /\ leaseLeft' = [t \in Timers |-> IF t \in set THEN LeaseTTL - age[w] ELSE leaseLeft[t]]
  /\ token' = [t \in Timers |-> IF t \in set THEN token[t] + 1 ELSE token[t]]
  /\ attempt' = [t \in Timers |-> IF t \in set THEN attempt[t] + 1 ELSE attempt[t]]
  /\ UNCHANGED dueIn

\* What can become of a commit: done, refused or failed without effect
\* ("undone"), or done without the writer knowing ("unheard").
Commits == {"done", "undone", "unheard"}

MutConditions(a, t) == TRUE
\* The conditions of a claim.
ClaimConditions(w, t) == Unchanged(w, t)

\* All candidates in one batch; if that fails, one by one.
ClaimBatch(w, result) ==
  LET match == \A t \in cand[w] : ClaimConditions(w, t)
  IN
  /\ stage[w] = "claim"
  /\ result # "undone" => match
  /\ Fault(result = "unheard" \/ (match /\ result = "undone"))
  /\ IF result = "undone" THEN UNCHANGED rowVars ELSE Claim(w, cand[w])
  /\ IF result = "done"
     THEN /\ batch' = [batch EXCEPT ![w] = cand[w]]
          /\ cand' = [cand EXCEPT ![w] = {}]
          /\ stage' = [stage EXCEPT ![w] = "run"]
     ELSE /\ stage' = [stage EXCEPT ![w] = "singly"]
          /\ UNCHANGED <<batch, cand>>
  /\ UNCHANGED <<passVars, seen, succeeded, interventions>>

\* The order of a list: due timers, then expired leases, each by rank.
Precedes(a, t, u) ==
  \/ seen[a][t].status = "scheduled" /\ seen[a][u].status = "leased"
  \/ seen[a][t].status = seen[a][u].status /\ Rank[t] < Rank[u]
IsFirst(a, t, set) == t \in set /\ \A u \in set \ {t} : Precedes(a, t, u)

ClaimSingly(w, t, result) ==
  LET held == IF result = "done" THEN batch[w] \cup {t} ELSE batch[w]
  IN
  /\ stage[w] = "singly" /\ IsFirst(w, t, cand[w])
  /\ result # "undone" => ClaimConditions(w, t)
  /\ Fault(result = "unheard" \/ (ClaimConditions(w, t) /\ result = "undone"))
  /\ IF result = "undone" THEN UNCHANGED rowVars ELSE Claim(w, {t})
  /\ batch' = [batch EXCEPT ![w] = held]
  /\ cand' = [cand EXCEPT ![w] = @ \ {t}]
  /\ IF result = "done" THEN UNCHANGED seen ELSE Forget(w, {t})
  /\ stage' = [stage EXCEPT ![w] = IF cand[w] # {t} THEN "singly"
                                   ELSE IF held = {} THEN "visit" ELSE "run"]
  /\ UNCHANGED <<passVars, succeeded, interventions>>

-----------------------------------------------------------------------------
(* processDueRecordTimers: run the target, record the result.              *)

\* The token of the claim under which w works on t.
Held(w, t) == seen[w][t].token + 1

\* The worker has this timer's target in hand.
Running(w, t) == stage[w] = "run" /\ IsFirst(w, t, batch[w])

\* The target ends, with or without an error.
Returns(w, t, ok) ==
  /\ Running(w, t)
  /\ stage' = [stage EXCEPT ![w] = IF ok THEN "finish" ELSE "fail"]
  /\ succeeded' = IF ok THEN [succeeded EXCEPT ![t] = @ \cup {Held(w, t)}] ELSE succeeded
  /\ UNCHANGED <<rowVars, passVars, batch, cand, seen, interventions>>

\* An error: the target's own, or a payload that cannot be decoded.
ExecuteRecordTimer(w, t, ok) == Returns(w, t, ok) /\ UNCHANGED faults

MutLeaseConditions(w, t) == TRUE
\* The conditions of every result: status, owner and token, not the expiry.
LeaseConditions(w, t) ==
  status[t] = "leased" /\ owner[t] = w /\ token[t] = Held(w, t)

MutReleased(t) ==
  /\ owner' = [owner EXCEPT ![t] = "nobody"]
  /\ leaseLeft' = [leaseLeft EXCEPT ![t] = 0]
\* The lease columns are cleared with every result.
Released(t) ==
  /\ owner' = [owner EXCEPT ![t] = NoOwner]
  /\ leaseLeft' = [leaseLeft EXCEPT ![t] = 0]

\* The worker drops the leases of a set and goes on with those that are left.
Drop(w, set) ==
  /\ batch' = [batch EXCEPT ![w] = @ \ set]
  /\ Forget(w, set)
  /\ stage' = [stage EXCEPT ![w] = IF batch[w] \subseteq set THEN "visit" ELSE "run"]

\* An error is noted and the batch goes on.
FinishRecordTimer(w, t, result) ==
  /\ stage[w] = "finish" /\ IsFirst(w, t, batch[w])
  /\ result # "undone" => LeaseConditions(w, t)
  /\ Fault(LeaseConditions(w, t) /\ result = "undone")
  /\ IF result = "undone" THEN UNCHANGED rowVars
     ELSE /\ status' = [status EXCEPT ![t] = "fired"]
          /\ Released(t)
          /\ UNCHANGED <<dueIn, token, attempt>>
  /\ Drop(w, {t})
  /\ UNCHANGED <<passVars, cand, succeeded, interventions>>

\* BaseDelay doubled for every attempt but the first, at most CapDelay.
RetryDelay(n) ==
  LET delay == BaseDelay * 2 ^ (n - 1) IN IF delay \in 0..CapDelay THEN delay ELSE CapDelay

MutExhausted(t) == attempt[t] >= MaxAttempts - 1
Exhausted(t) == attempt[t] >= MaxAttempts

\* An error makes the worker give up the rest of the batch, still leased.
FailRecordTimer(w, t, result) ==
  /\ stage[w] = "fail" /\ IsFirst(w, t, batch[w])
  /\ result # "undone" => LeaseConditions(w, t)
  /\ Fault(result = "unheard" \/ (LeaseConditions(w, t) /\ result = "undone"))
  /\ IF result = "undone" THEN UNCHANGED rowVars
     ELSE /\ IF Exhausted(t)
             THEN status' = [status EXCEPT ![t] = "failed"] /\ UNCHANGED dueIn
             ELSE /\ status' = [status EXCEPT ![t] = "scheduled"]
                  /\ dueIn' = [dueIn EXCEPT ![t] = RetryDelay(attempt[t]) - age[w]]
          /\ Released(t)
          /\ UNCHANGED <<token, attempt>>
  /\ Drop(w, IF result = "done" THEN {t} ELSE batch[w])
  /\ UNCHANGED <<passVars, cand, succeeded, interventions>>

\* The process dies, or is shut down in the middle of a pass.
Crash(w) ==
  /\ stage[w] # "idle"
  /\ Fault(TRUE)
  /\ stage' = [stage EXCEPT ![w] = "idle"]
  /\ age' = [age EXCEPT ![w] = 0]
  /\ first' = [first EXCEPT ![w] = 0]
  /\ quota' = [quota EXCEPT ![w] = [x \in Workspaces |-> 0]]
  /\ todo' = [todo EXCEPT ![w] = {}]
  /\ cursor' = [cursor EXCEPT ![w] = 0]
  /\ batch' = [batch EXCEPT ![w] = {}]
  /\ cand' = [cand EXCEPT ![w] = {}]
  /\ Forget(w, Timers)
  /\ UNCHANGED <<rowVars, succeeded, interventions>>

-----------------------------------------------------------------------------
(* Time.                                                                   *)

Past(n) == IF n > -MaxPass THEN n - 1 ELSE n

Elapse ==
  /\ \E t \in Timers : dueIn[t] > -MaxPass \/ leaseLeft[t] > -MaxPass
  /\ dueIn' = [t \in Timers |-> Past(dueIn[t])]
  /\ leaseLeft' = [t \in Timers |-> Past(leaseLeft[t])]
  /\ age' = [w \in Workers |-> IF stage[w] = "idle" THEN 0 ELSE age[w] + 1]
  /\ UNCHANGED <<status, owner, token, attempt, first, quota, todo, cursor, workVars,
                 succeeded, interventions>>

\* Time passes while every pass is prompt ...
Tick ==
  /\ \A w \in Workers : stage[w] # "idle" => age[w] < PassTime
  /\ Elapse
  /\ UNCHANGED faults

\* ... or one takes longer than planned, possibly longer than its leases.
Stall ==
  /\ \E w \in Workers : stage[w] # "idle" /\ age[w] >= PassTime
  /\ \A w \in Workers : age[w] < MaxPass
  /\ Elapse
  /\ Fault(TRUE)

-----------------------------------------------------------------------------
\* A worker's steps apart from the target's.
Handle(w) ==
  \/ BeginPass(w) \/ EndPass(w)
  \/ \E x \in Workspaces : ListCandidates(w, x, FALSE)
  \/ \E result \in Commits :
       \/ ClaimBatch(w, result)
       \/ \E t \in Timers :
            \/ ClaimSingly(w, t, result)
            \/ FinishRecordTimer(w, t, result)
            \/ FailRecordTimer(w, t, result)

Work(w) == Handle(w) \/ \E t \in Timers, ok \in BOOLEAN : ExecuteRecordTimer(w, t, ok)

Act(c) ==
  \/ \E g \in Groups : ListScheduled(c, g)
  \/ CancelRecordTimers(c)
  \/ \E t \in Timers :
       \/ ReadTimer(c, t) \/ RetryFailure(c, t) \/ ResolveFailure(c, t)
       \/ \E u \in Timers, due \in 0..MaxDue : SupersedeTimer(c, t, u, due)

Environment ==
  \/ \E t \in Timers, due \in 0..MaxDue : Schedule(t, due)
  \/ \E c \in Clients : Act(c)
  \/ \E w \in Workers, x \in Workspaces : ListCandidates(w, x, TRUE)
  \/ Tick \/ Stall

Next == Environment \/ \E w \in Workers : Work(w) \/ Crash(w)

Spec == Init /\ [][Next]_vars

\* The polling loop keeps running passes, statements and targets return, and
\* time passes.
FairSpec == Spec /\ (\A w \in Workers : WF_vars(Work(w))) /\ WF_vars(Tick)

-----------------------------------------------------------------------------
(* Properties.                                                             *)

Statuses == {"none", "scheduled", "leased", "fired", "failed", "cancelled", "superseded"}
Stages == {"idle", "visit", "claim", "singly", "run", "finish", "fail"}
Ended == {"fired", "failed", "cancelled", "superseded"}

\* Rows, workers and clients keep their types.
TypeOK ==
  /\ status \in [Timers -> Statuses]
  /\ dueIn \in [Timers -> Int] /\ leaseLeft \in [Timers -> Int]
  /\ owner \in [Timers -> Workers \cup {NoOwner}]
  /\ token \in [Timers -> Nat] /\ attempt \in [Timers -> Nat]
  /\ stage \in [Workers -> Stages] /\ age \in [Workers -> Nat]
  /\ todo \in [Workers -> SUBSET Workspaces] /\ batch \in [Workers -> SUBSET Timers]
  /\ cand \in [Workers \cup Clients -> SUBSET Timers]
  /\ seen \in [Workers \cup Clients -> [Timers -> [status : Statuses, token : Nat]]]
  /\ succeeded \in [Timers -> SUBSET Nat]
  /\ faults \in Nat /\ interventions \in Nat

\* Two workers never work on a timer under the same claim, although both may
\* be at it after a lease ran out: the token tells them apart (PrepareClaim).
OneHolder ==
  \A v, w \in Workers : \A t \in batch[v] \cap batch[w] : v # w => Held(v, t) # Held(w, t)

\* A timer has fired only if its target ended without error under the very
\* claim that recorded it; a worker that lost its lease, or whose claim was
\* repeated by another, records nothing (FinishRecordTimer).
FiredWasExecuted == \A t \in Timers : status[t] = "fired" => token[t] \in succeeded[t]

\* A timer fails only when its attempts are used up, and one that waits for a
\* retry has attempts left, through requeues and lost replies (FailRecordTimer).
FailedExhausted ==
  \A t \in Timers : /\ status[t] = "failed" => attempt[t] >= MaxAttempts
                    /\ status[t] = "scheduled" => attempt[t] < MaxAttempts

\* Nobody revives a timer that fired or was cancelled or superseded, and a
\* failed one only an operator moves: workers and clients that read the row
\* earlier are refused (conditions of all updates).
EndedStays ==
  [][\A t \in Timers :
       /\ status[t] \in {"fired", "cancelled", "superseded"} => status'[t] = status[t]
       /\ status[t] = "failed" => status'[t] \in {"failed", "scheduled", "cancelled"}]_vars

\* Every timer comes to an end, whoever crashed, stalled or gave its batch up
\* ("expired-lease reclaim").
TimersSettle == \A t \in Timers : status[t] # "none" ~> status[t] \in Ended
=============================================================================
