---------------------------- MODULE DatabaseCopy ----------------------------
(***************************************************************************)
(* Moving a database to another engine: runs of a Copier read the source   *)
(* table by table in key order, upsert one batch per target transaction    *)
(* and save a checkpoint file after it; after writes to the source have    *)
(* stopped a final delta copies everything again, and Finalize adds the    *)
(* deferred indexes and foreign keys once source and target digests agree. *)
(*                                                                         *)
(* Code: infrastructure/persistence/database/datamigration.                *)
(*                                                                         *)
(* A row is a version number, 0 when it is absent.  A plan is the number   *)
(* of rows each table had when it was made: BuildPlan puts that into the   *)
(* fingerprint.  Sequences, indexes and references between rows are left   *)
(* out; the foreign keys of a table are one constraint.  Every run takes   *)
(* the lease: the branch of run for a Copier that has none is not modelled *)
(* (two such runs would write the same file with nothing between them).    *)
(***************************************************************************)
EXTENDS Integers, FiniteSets, FiniteSetsExt

CONSTANTS
  NTables,    \* tables, in the order of the plan
  MaxKey,     \* primary keys 1..MaxKey
  Decoded,    \* what a table's key is after its trip through JSON and float64
  Source0,    \* the source when the migration begins
  Writable,   \* what clients of the source write to a row: versions, 0 to delete
  Unconvertible, \* versions convertRow or the workspace check refuses
  Copiers,    \* processes that run a Copier
  Deltas,     \* the copiers that run final deltas; the others only run
  BatchSize, MaxBatches, \* their CopyOptions; no maximum of batches when 0
  MaxWrites,  \* bound: writes to the source
  MaxEvents,  \* bound: runs that are not final deltas, and faults, together
  NoCopier    \* null value: the lease is free

Tables == 1..NTables
Keys == 1..MaxKey
NoPlan == <<>>

ASSUME NumberAssumption ==
  /\ NTables \in Nat \ {0} /\ MaxKey \in Nat \ {0} /\ BatchSize \in Nat \ {0}
  /\ MaxBatches \in [Copiers -> Nat]
  /\ MaxWrites \in Nat /\ MaxEvents \in Nat

ASSUME RowAssumption ==
  /\ Writable \in [Tables -> [Keys -> SUBSET Nat]]
  /\ Source0 \in [Tables -> [Keys -> Nat]]
  /\ Unconvertible \subseteq Nat \ {0}
  /\ Decoded \in [Tables -> [Keys -> 0..MaxKey]]
  /\ IsFiniteSet(Copiers) /\ Copiers # {}
  /\ Deltas \subseteq Copiers /\ NoCopier \notin Copiers

VARIABLES
  source, stopped, \* the source database; has it stopped taking writes?
  target,          \* the target database
  constraint,      \* a table's deferred foreign key: "none", "added", "valid"
  planned,         \* the plan the operator made last
  file,            \* the checkpoint file
  lease,           \* holder of the lock on the lease file
  stage, plan, mem, \* copiers: stage, plan, checkpoint in memory
  batch,           \* rows read and not committed yet
  check,           \* Finalize: stage, table, source digest, verdict so far
  finalized,       \* Finalize has returned without an error
  touched,         \* history: rows written since the copy last wrote them
  final,           \* history: the copiers whose run is a final delta
  delta,           \* history: a final delta has completed
  interfered,      \* history: a final delta reset the file of a live run
  writes, events

dataVars == <<source, stopped, target>>
copyVars == <<file, lease, stage, plan, mem, batch, final, delta,
              interfered>>
finalVars == <<constraint, check, finalized>>
vars == <<dataVars, copyVars, finalVars, planned, touched, writes, events>>

Versions ==
  {0} \cup UNION {Writable[t][k] \cup {Source0[t][k]} : t \in Tables, k \in Keys}
Rows == [Keys -> Versions]
Fresh == [plan |-> NoPlan, state |-> "", last |-> [t \in Tables |-> 0],
          done |-> [t \in Tables |-> FALSE], batches |-> 0]
NoRows == [k \in Keys |-> 0]
NoCheck == [stage |-> "idle", table |-> 1, rows |-> NoRows, current |-> TRUE,
            quiet |-> FALSE]

PlanOf(rows) == [t \in Tables |-> Cardinality({k \in Keys : rows[t][k] # 0})]

Init ==
  /\ source = Source0 /\ stopped = FALSE
  /\ target = [t \in Tables |-> NoRows]
  /\ constraint = [t \in Tables |-> "none"]
  /\ planned = PlanOf(Source0)
  /\ file = Fresh /\ lease = NoCopier
  /\ stage = [c \in Copiers |-> "idle"]
  /\ plan = [c \in Copiers |-> NoPlan]
  /\ mem = [c \in Copiers |-> Fresh]
  /\ batch = [c \in Copiers |-> NoRows]
  /\ check = NoCheck /\ finalized = FALSE
  /\ touched = {} /\ final = {} /\ delta = FALSE /\ interfered = FALSE
  /\ writes = 0 /\ events = 0

Event == events < MaxEvents /\ events' = events + 1

\* The number of batches is only compared with a maximum.
Most == Max({MaxBatches[c] : c \in Copiers})

-----------------------------------------------------------------------------
(* The system that still runs on the source, and its operator.             *)

\* A client inserts, updates or deletes a row.
Write(t, k, v) ==
  /\ ~stopped /\ writes < MaxWrites /\ source[t][k] # v
  /\ source' = [source EXCEPT ![t][k] = v]
  /\ touched' = touched \cup {<<t, k>>}
  /\ writes' = writes + 1
  /\ UNCHANGED <<stopped, target, copyVars, finalVars, planned, events>>

\* The cutover: writes stop, workers are drained, the evidence is recorded.
StopWrites ==
  /\ ~stopped
  /\ stopped' = TRUE
  /\ UNCHANGED <<source, target, copyVars, finalVars, planned, touched, writes,
                 events>>

-----------------------------------------------------------------------------
(* Copier.Run and Copier.RunFinalDelta.                                    *)

Goto(c, s) == stage' = [stage EXCEPT ![c] = s]

MutReturn(c) ==
  /\ Goto(c, "idle")
  /\ final' = final \ {c}
  /\ plan' = [plan EXCEPT ![c] = NoPlan]
  /\ mem' = [mem EXCEPT ![c] = Fresh]
  /\ batch' = [batch EXCEPT ![c] = NoRows]
  /\ UNCHANGED lease
\* The run returns: it releases its lease and forgets what it held.
Return(c) ==
  /\ Goto(c, "idle")
  /\ final' = final \ {c}
  /\ lease' = IF lease = c THEN NoCopier ELSE lease
  /\ plan' = [plan EXCEPT ![c] = NoPlan]
  /\ mem' = [mem EXCEPT ![c] = Fresh]
  /\ batch' = [batch EXCEPT ![c] = NoRows]

\* The operator runs with the plan there is, or calls BuildPlan again.  Nobody
\* starts a run once the migration is finalized.
WithPlan(c, again) ==
  LET p == IF again THEN PlanOf(source) ELSE planned IN
  /\ again => planned # p
  /\ planned' = p
  /\ plan' = [plan EXCEPT ![c] = p]

StartRun(c, again) ==
  /\ stage[c] = "idle" /\ c \notin Deltas /\ ~finalized
  /\ WithPlan(c, again)
  /\ Event
  /\ Goto(c, "run")
  /\ UNCHANGED <<dataVars, file, lease, mem, batch, final, delta, interfered,
                 finalVars, touched, writes>>

\* RunFinalDelta: the evidence is valid, the checkpoint is loaded.
StartFinalDelta(c, again) ==
  /\ stage[c] = "idle" /\ c \in Deltas /\ stopped /\ ~finalized
  /\ WithPlan(c, again)
  /\ Goto(c, "reset")
  /\ final' = final \cup {c}
  /\ mem' = [mem EXCEPT ![c] = file]
  /\ UNCHANGED <<dataVars, file, lease, batch, delta, interfered, finalVars,
                 touched, writes, events>>

MutCleared(checkpoint) == [checkpoint EXCEPT !.plan = NoPlan]
\* What the final delta keeps of the checkpoint: state and number of batches.
Cleared(checkpoint) ==
  [checkpoint EXCEPT !.plan = NoPlan, !.last = Fresh.last, !.done = Fresh.done]

\* It saves the cleared checkpoint before Run takes the lease.
SaveReset(c) ==
  /\ stage[c] = "reset"
  /\ file' = Cleared(mem[c])
  /\ interfered' = (interfered \/ lease # NoCopier)
  /\ Goto(c, "run")
  /\ UNCHANGED <<dataVars, lease, plan, mem, batch, final, delta, finalVars,
                 planned, touched, writes, events>>

\* Run begins: take the lease or fail, load the checkpoint, refuse another plan.
BeginRun(c) ==
  /\ stage[c] = "run"
  /\ IF lease # NoCopier \/ file.plan \notin {NoPlan, plan[c]}
     THEN Return(c)
     ELSE /\ lease' = c
          /\ mem' = [mem EXCEPT ![c] =
               [file EXCEPT !.plan = plan[c], !.state = "running"]]
          /\ Goto(c, "copy")
          /\ UNCHANGED <<plan, batch, final>>
  /\ UNCHANGED <<dataVars, file, delta, interfered, finalVars, planned,
                 touched, events, writes>>

\* The table being copied: the first one the checkpoint does not call done.
Pending(c) == {t \in Tables : ~mem[c].done[t]}
TableOf(c) == Min(Pending(c))

MutAfter(c) ==
  LET last == mem[c].last[TableOf(c)] IN IF last = 0 THEN 1 ELSE last
\* The first key the query may return: > the key decoded from the checkpoint.
After(c) ==
  LET last == mem[c].last[TableOf(c)] IN
  IF last = 0 THEN 1 ELSE Decoded[TableOf(c)][last] + 1

\* WHERE key > last ORDER BY key LIMIT BatchSize.
Selected(c) ==
  LET found == {k \in Keys : k >= After(c) /\ source[TableOf(c)][k] # 0} IN
  {k \in found : Cardinality({j \in found : j < k}) < BatchSize}

\* copyBatch up to its commit: one row that cannot be converted, or has no
\* workspace, ends the run and rolls the batch back.
ReadBatch(c) ==
  LET rows == [k \in Keys |->
                 IF k \in Selected(c) THEN source[TableOf(c)][k] ELSE 0]
  IN
  /\ stage[c] = "copy" /\ Pending(c) # {}
  /\ IF \E k \in Keys : rows[k] \in Unconvertible
     THEN Return(c)
     ELSE /\ batch' = [batch EXCEPT ![c] = rows]
          /\ Goto(c, "read")
          /\ UNCHANGED <<lease, plan, mem, final>>
  /\ UNCHANGED <<dataVars, file, delta, interfered, finalVars, planned,
                 touched, events, writes>>

MutLastBatch(n) == n <= BatchSize
\* A table is done when a batch comes back short.
LastBatch(n) == n < BatchSize

\* The checkpoint after a batch.
Advanced(c, keys) ==
  LET t == TableOf(c) IN
  [mem[c] EXCEPT !.last[t] = IF keys = {} THEN @ ELSE Max(keys),
                 !.done[t] = LastBatch(Cardinality(keys)),
                 !.batches = IF @ < Most THEN @ + 1 ELSE @]

\* The upserts commit.  A row is no longer touched when the batch holds what
\* the source holds.
CommitBatch(c) ==
  LET t == TableOf(c)
      keys == {k \in Keys : batch[c][k] # 0}
  IN
  /\ stage[c] = "read"
  /\ target' = [target EXCEPT ![t] =
       [k \in Keys |-> IF k \in keys THEN batch[c][k] ELSE @[k]]]
  /\ touched' = touched \ {<<t, k>> : k \in
                             {j \in keys : source[t][j] = batch[c][j]}}
  /\ mem' = [mem EXCEPT ![c] = Advanced(c, keys)]
  /\ batch' = [batch EXCEPT ![c] = NoRows]
  /\ Goto(c, IF LastBatch(Cardinality(keys)) THEN "save" ELSE "pause")
  /\ UNCHANGED <<source, stopped, file, lease, plan, final, delta, interfered,
                 finalVars, planned, writes, events>>

\* Save, and on to the next batch or the next table; "pause" is the save of a
\* table that is not done, where the run stops if it has had its batches.
SaveCheckpoint(c) ==
  /\ stage[c] = "save" \/ stage[c] = "pause"
  /\ file' = mem[c]
  /\ Goto(c, IF /\ stage[c] = "pause"
                /\ MaxBatches[c] > 0 /\ mem[c].batches >= MaxBatches[c]
             THEN "stop" ELSE "copy")
  /\ UNCHANGED <<dataVars, lease, plan, mem, batch, final, delta, interfered,
                 finalVars, planned, touched, writes, events>>

\* The second save of a run that stops, with the state "paused".
SavePaused(c) ==
  /\ stage[c] = "stop"
  /\ file' = [mem[c] EXCEPT !.state = "paused"]
  /\ Return(c)
  /\ UNCHANGED <<dataVars, delta, interfered, finalVars, planned, touched,
                 events, writes>>

\* Every table is done: save the state "completed" and return.
FinishRun(c) ==
  /\ stage[c] = "copy" /\ Pending(c) = {}
  /\ file' = [mem[c] EXCEPT !.state = "completed"]
  /\ delta' = (delta \/ c \in final)
  /\ Return(c)
  /\ UNCHANGED <<dataVars, interfered, finalVars, planned, touched, writes,
                 events>>

\* A crash, a failed statement or a cancelled context, anywhere in a run.  The
\* operating system releases the lock of a process that dies.
AbortRun(c) ==
  /\ stage[c] # "idle"
  /\ Event
  /\ Return(c)
  /\ UNCHANGED <<dataVars, file, delta, interfered, finalVars, planned,
                 touched, writes>>

-----------------------------------------------------------------------------
(* Copier.Finalize, which begins with Verify.                              *)

\* The operator finalizes after the cutover: the digests of a source that is
\* still written show nothing.  quiet: no batch is on its way to the target.
BeginFinalize ==
  /\ check.stage = "idle" /\ stopped /\ ~finalized
  /\ check' = [NoCheck EXCEPT !.stage = "source",
                              !.quiet = \A c \in Copiers : batch[c] = NoRows]
  /\ UNCHANGED <<dataVars, copyVars, constraint, finalized, planned, touched,
                 events, writes>>

\* digestTable over the source: converting may fail, and Verify with it.
DigestSource ==
  LET rows == source[check.table] IN
  /\ check.stage = "source"
  /\ check' = IF \E k \in Keys : rows[k] \in Unconvertible THEN NoCheck
              ELSE [check EXCEPT !.stage = "target", !.rows = rows]
  /\ UNCHANGED <<dataVars, copyVars, constraint, finalized, planned, touched,
                 events, writes>>

MutSameDigest(rows, others) ==
  \A k \in Keys : rows[k] = 0 <=> others[k] = 0
\* Row counts, keys and rolled digests are equal.
SameDigest(rows, others) == rows = others

\* digestTable over the target and the comparison; the next table, or on to
\* the constraints when every table agrees.
DigestTarget ==
  LET current == check.current /\ SameDigest(check.rows, target[check.table]) IN
  /\ check.stage = "target"
  /\ check' = IF check.table < NTables
              THEN [check EXCEPT !.stage = "source", !.table = @ + 1,
                                 !.rows = NoRows, !.current = current]
              ELSE IF current
              THEN [check EXCEPT !.stage = "add", !.table = 1, !.rows = NoRows]
              ELSE NoCheck
  /\ UNCHANGED <<dataVars, copyVars, constraint, finalized, planned, touched,
                 events, writes>>

NextTable ==
  IF check.table < NTables
  THEN check' = [check EXCEPT !.stage = "add", !.table = @ + 1]
       /\ UNCHANGED finalized
  ELSE check' = [NoCheck EXCEPT !.quiet = check.quiet] /\ finalized' = TRUE

\* ADD CONSTRAINT ... NOT VALID, unless a constraint of that name exists.
AddConstraint ==
  LET t == check.table IN
  /\ check.stage = "add"
  /\ IF constraint[t] = "none"
     THEN /\ constraint' = [constraint EXCEPT ![t] = "added"]
          /\ check' = [check EXCEPT !.stage = "validate"]
          /\ UNCHANGED finalized
     ELSE NextTable /\ UNCHANGED constraint
  /\ UNCHANGED <<dataVars, copyVars, planned, touched, writes, events>>

ValidateConstraint ==
  /\ check.stage = "validate"
  /\ constraint' = [constraint EXCEPT ![check.table] = "valid"]
  /\ NextTable
  /\ UNCHANGED <<dataVars, copyVars, planned, touched, writes, events>>

AbortFinalize ==
  /\ check.stage # "idle"
  /\ Event
  /\ check' = NoCheck
  /\ UNCHANGED <<dataVars, copyVars, constraint, finalized, planned, touched,
                 writes>>

-----------------------------------------------------------------------------
Step(c) ==
  \/ SaveReset(c) \/ BeginRun(c) \/ ReadBatch(c) \/ CommitBatch(c)
  \/ SaveCheckpoint(c) \/ SavePaused(c) \/ FinishRun(c)

FinalizeStep ==
  DigestSource \/ DigestTarget \/ AddConstraint \/ ValidateConstraint

Next ==
  \/ \E t \in Tables, k \in Keys : \E v \in Writable[t][k] : Write(t, k, v)
  \/ StopWrites
  \/ \E c \in Copiers, again \in BOOLEAN :
       StartRun(c, again) \/ StartFinalDelta(c, again)
  \/ \E c \in Copiers : Step(c) \/ AbortRun(c)
  \/ BeginFinalize \/ FinalizeStep \/ AbortFinalize

Spec == Init /\ [][Next]_vars

\* A run that was started goes on; after the cutover the operator keeps running
\* final deltas and Finalize until one returns without an error.
Fairness ==
  /\ \A c \in Copiers : WF_vars(Step(c))
  /\ WF_vars(\E c \in Copiers, again \in BOOLEAN : StartFinalDelta(c, again))
  /\ WF_vars(FinalizeStep) /\ WF_vars(BeginFinalize)

FairSpec == Spec /\ Fairness

-----------------------------------------------------------------------------
(* Properties.                                                             *)

Checkpoints ==
  [plan: {NoPlan} \cup [Tables -> 0..MaxKey],
   state: {"", "running", "paused", "completed"}, last: [Tables -> 0..MaxKey],
   done: [Tables -> BOOLEAN], batches: 0..Most]

\* Types; the lease is held by exactly the run that is copying, so two runs
\* never write the target or continue one checkpoint at the same time.
TypeOK ==
  /\ source \in [Tables -> Rows] /\ target \in [Tables -> Rows]
  /\ stopped \in BOOLEAN /\ finalized \in BOOLEAN
  /\ constraint \in [Tables -> {"none", "added", "valid"}]
  /\ planned \in [Tables -> 0..MaxKey]
  /\ file \in Checkpoints /\ mem \in [Copiers -> Checkpoints]
  /\ batch \in [Copiers -> Rows]
  /\ final \subseteq Copiers /\ delta \in BOOLEAN /\ interfered \in BOOLEAN
  /\ touched \subseteq Tables \X Keys
  /\ writes \in 0..MaxWrites /\ events \in 0..MaxEvents
  /\ \A c \in Copiers :
       lease = c <=> stage[c] \notin {"idle", "reset", "run"}

\* A key above 2^53 that a smaller key rounds up to: if that one ends a batch,
\* the next query starts after both.
Skipped(t, k) == \E j \in Keys : j < k /\ k <= Decoded[t][j]

\* A source row that the checkpoint file has passed, and that was not written
\* since, is in the target: no crash, pause or rival run between the commit of
\* a batch and the save of its checkpoint loses a row (Run, copyBatch).
CheckpointCovers ==
  \A t \in Tables, k \in Keys :
    /\ file.done[t] \/ k <= file.last[t]
    /\ source[t][k] # 0 /\ <<t, k>> \notin touched /\ ~Skipped(t, k)
    => target[t][k] = source[t][k]

\* After a final delta that completed, and that reset no live run's checkpoint,
\* the target has every row of the stopped source (RunFinalDelta).
DeltaIsComplete ==
  delta /\ ~interfered =>
    \A t \in Tables, k \in Keys :
      source[t][k] # 0 /\ ~Skipped(t, k) => target[t][k] = source[t][k]

\* Once Finalize has succeeded on a stopped source the two databases are equal
\* and no foreign key is missing, although Verify reads one table after the
\* other and runs may go on beside it (Finalize, Verify).  Excepted: when the
\* Finalize began some copier had read a batch that it had not committed yet
\* (~quiet); it may commit old rows over a table that is already compared.
FinalizedIsExact ==
  finalized /\ check.quiet =>
    target = source /\ \A t \in Tables : constraint[t] # "none"

\* What stands in the way of Finalize for good: rows deleted from the source
\* after they were copied, rows that cannot be converted, keys beyond float64.
Blocked ==
  \E t \in Tables, k \in Keys :
    \/ source[t][k] = 0 /\ target[t][k] # 0
    \/ source[t][k] \in Unconvertible
    \/ source[t][k] # 0 /\ Skipped(t, k)

\* After the cutover the migration is finalized unless a row blocks it, provided
\* final deltas run without a maximum of batches: the count of batches survives
\* the reset, so with one they can stop after a batch each time (Run,
\* RunFinalDelta, Finalize).
CopyConverges ==
  (\A c \in Deltas : MaxBatches[c] = 0) => (stopped ~> (finalized \/ Blocked))
=============================================================================
