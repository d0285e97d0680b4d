------------------------- MODULE DatabaseRetirement -------------------------
(***************************************************************************)
(* Retiring a table in stages.  Operators advance the retirement record    *)
(* one state at a time, each step with its evidence; some steps change the *)
(* table first (write protection, rename into quarantine and back), and    *)
(* the drop itself is a call of its own.  The record and the table are     *)
(* changed in separate transactions, and the record's update is only       *)
(* conditional on the state that was read.                                 *)
(*                                                                         *)
(* Code: application/operations/database_retirement_application_service.go,*)
(* domain/operations/policy/operations_database_retirement_policy.go and   *)
(* the store and executor under infrastructure/persistence/database.       *)
(*                                                                         *)
(* One table on an engine with transactional DDL.  Of the evidence, what   *)
(* the later steps compare is kept: the end of the quarantine (0: none),   *)
(* the date of backup and restore drill, and the accesses counted.         *)
(***************************************************************************)
EXTENDS Integers, Sequences

CONSTANTS
  Operators,   \* callers of the operations API
  Submitted,   \* the evidence they submit for a state: any evidence at all
  MaxAge,      \* MaximumRetirementEvidenceAge
  Horizon,     \* bound: the clock stops here
  MaxAccesses, \* bound: accesses counted
  MaxRestores, \* bound: restores from quarantine
  MaxFaults    \* bound: crashes and lost connections

ASSUME NumberAssumption ==
  /\ MaxAge \in Nat /\ Horizon \in Nat \ {0} /\ MaxAccesses \in Nat
  /\ MaxRestores \in Nat /\ MaxFaults \in Nat

VARIABLES
  row,         \* the retirement record: state and evidence
  table,       \* where the table is: under its name, in quarantine, or gone
  protected,   \* do triggers refuse writes to it?
  dependents,  \* does a view or a foreign key refer to it?
  now,
  stage, old, new, \* operators: stage, record read, record to be written
  restores, faults,
  early,       \* history: the table was dropped before the quarantine ended
  crossed      \* history: the table was renamed or dropped by a call that had
               \* read a state the record was no longer in

callVars == <<stage, old, new>>
vars == <<row, table, protected, dependents, now, callVars, restores, faults,
          early, crossed>>

\* databaseRetirementOrder
Order ==
  <<"discovered", "replacement_ready", "backfilled", "reads_switched",
    "writes_disabled", "observation_complete", "quarantined", "dropped",
    "code_removed">>
States == {Order[i] : i \in DOMAIN Order}
Index == [s \in States |-> CHOOSE i \in DOMAIN Order : Order[i] = s]
From(s) == {Order[i] : i \in Index[s]..Len(Order)}

EvidenceType ==
  [until: 0..Horizon, backup: 0..Horizon, accesses: 0..MaxAccesses]
ASSUME SubmittedAssumption == Submitted \in [States -> SUBSET EvidenceType]

NoEvidence == [until |-> 0, backup |-> 0, accesses |-> 0]
NoRow == [state |-> "none", evidence |-> NoEvidence]

Init ==
  /\ row = NoRow
  /\ table = "original" /\ protected = FALSE /\ dependents = FALSE
  /\ now = 1
  /\ stage = [p \in Operators |-> "idle"]
  /\ old = [p \in Operators |-> NoRow] /\ new = [p \in Operators |-> NoRow]
  /\ restores = 0 /\ faults = 0 /\ early = FALSE /\ crossed = FALSE

-----------------------------------------------------------------------------
(* OperationsValidateDatabaseRetirementTransition.                         *)

Restores(current, s) ==
  current.state = "quarantined" /\ s = "observation_complete"

\* The next state in the order, or back from quarantine.  A blocked record is
\* not in the order and has no successor.
Follows(current, s) ==
  /\ current.state \in States
  /\ Index[s] = Index[current.state] + 1 \/ Restores(current, s)

\* Of the evidence for a drop: backup and drill are recent, nothing accessed it.
Droppable(evidence) ==
  /\ evidence.backup \in 1..now /\ now - evidence.backup <= MaxAge
  /\ evidence.accesses = 0

MutAccepted(s, evidence) == s = "dropped" => Droppable(evidence)
Accepted(s, evidence) ==
  /\ s = "observation_complete" => evidence.accesses = 0
  /\ s = "quarantined" => evidence.until > now
  /\ s = "dropped" =>
       Droppable(evidence) /\ evidence.until # 0 /\ now >= evidence.until

-----------------------------------------------------------------------------
(* Discover and Advance.                                                   *)

Discover ==
  /\ row.state = "none"
  /\ row' = [row EXCEPT !.state = "discovered"]
  /\ UNCHANGED <<table, protected, dependents, now, callVars, restores, faults,
                 early, crossed>>

Call(p, s, next) ==
  /\ stage[p] = "idle"
  /\ stage' = [stage EXCEPT ![p] = s]
  /\ old' = [old EXCEPT ![p] = row]
  /\ new' = [new EXCEPT ![p] = next]

Goto(p, s) == stage' = [stage EXCEPT ![p] = s] /\ UNCHANGED <<old, new>>

Return(p) ==
  /\ stage' = [stage EXCEPT ![p] = "idle"]
  /\ old' = [old EXCEPT ![p] = NoRow]
  /\ new' = [new EXCEPT ![p] = NoRow]

\* Advance reads the record and validates the transition.  The evidence it is
\* given replaces that of the record, whatever it says.
BeginAdvance(p, s, evidence) ==
  /\ s # row.state /\ Follows(row, s) /\ Accepted(s, evidence)
  /\ Restores(row, s) => restores < MaxRestores
  /\ Call(p, "effect", [state |-> s, evidence |-> evidence])
  /\ UNCHANGED <<row, table, protected, dependents, now, restores, faults,
                 early, crossed>>

\* The table a step renames, and its place afterwards.
Source(p) == IF Restores(old[p], new[p].state) THEN "quarantine" ELSE "original"
MutPlace(p) == "quarantine"
Place(p) == IF Restores(old[p], new[p].state) THEN "original" ELSE "quarantine"

Renames(p) ==
  new[p].state = "quarantined" \/ Restores(old[p], new[p].state)

\* ApplyDatabaseRetirementTransition, one transaction: triggers, a rename, or
\* nothing.  A rename fails when the table is not where it is expected, and so
\* do triggers on it.  "dropped" is one of the states without an effect.
ApplyTransition(p) ==
  /\ stage[p] = "effect"
  /\ \/ /\ Renames(p) /\ table = Source(p)
        /\ table' = Place(p)
        /\ crossed' = (crossed \/ row.state # old[p].state)
        /\ restores' =
             IF Restores(old[p], new[p].state) THEN restores + 1 ELSE restores
        /\ Goto(p, "record")
        /\ UNCHANGED protected
     \/ /\ new[p].state = "writes_disabled" /\ table = "original"
        /\ protected' = TRUE
        /\ Goto(p, "record")
        /\ UNCHANGED <<table, restores, crossed>>
     \/ /\ \/ Renames(p) /\ table # Source(p)
           \/ new[p].state = "writes_disabled" /\ table # "original"
        /\ Return(p)
        /\ UNCHANGED <<table, protected, restores, crossed>>
     \/ /\ ~Renames(p) /\ new[p].state # "writes_disabled"
        /\ Goto(p, "record")
        /\ UNCHANGED <<table, protected, restores, crossed>>
  /\ UNCHANGED <<row, dependents, now, faults, early>>

MutHolds(p) == row.state # "none"
\* The WHERE clause of TransitionDatabaseRetirement.
Holds(p) == row.state = old[p].state

\* TransitionDatabaseRetirement at the end of Advance and of Execute: the whole
\* record is written over if its state is the one that was read.
RecordTransition(p) ==
  /\ stage[p] = "record"
  /\ row' = IF Holds(p) THEN new[p] ELSE row
  /\ Return(p)
  /\ UNCHANGED <<table, protected, dependents, now, restores, faults, early,
                 crossed>>

-----------------------------------------------------------------------------
(* Execute: the drop.                                                      *)

BeginExecute(p) ==
  /\ row.state = "quarantined" /\ Accepted("dropped", row.evidence)
  /\ Call(p, "preview", [row EXCEPT !.state = "dropped"])
  /\ UNCHANGED <<row, table, protected, dependents, now, restores, faults,
                 early, crossed>>

\* PreviewDatabaseRetirement: the table is in quarantine and nothing refers to
\* it, or the call fails.
Preview(p) ==
  /\ stage[p] = "preview"
  /\ IF table = "quarantine" /\ ~dependents THEN Goto(p, "drop") ELSE Return(p)
  /\ UNCHANGED <<row, table, protected, dependents, now, restores, faults,
                 early, crossed>>

\* ExecuteDatabaseRetirement checks the evidence again, but not the quarantine,
\* and drops the table.  The drop may fail where it could succeed (a lock, a
\* view on an engine that minds), and its commit may succeed untold.  When it
\* is not told to have succeeded the record is to be blocked.
DropTable(p, done, told) ==
  /\ stage[p] = "drop"
  /\ told => done
  /\ done => Droppable(old[p].evidence) /\ table = "quarantine"
  /\ stage' = [stage EXCEPT ![p] = "record"]
  /\ IF done
     THEN /\ table' = "gone"
          /\ early' =
               (early \/ (row.state = "quarantined" /\ now < row.evidence.until))
          /\ crossed' = (crossed \/ row.state # old[p].state)
     ELSE UNCHANGED <<table, early, crossed>>
  /\ new' = IF told THEN new
            ELSE [new EXCEPT ![p] = [old[p] EXCEPT !.state = "blocked"]]
  /\ UNCHANGED <<row, protected, dependents, now, old, restores, faults>>

\* The caller's process dies, or the connection to the database is lost.
Crash(p) ==
  /\ stage[p] # "idle" /\ faults < MaxFaults
  /\ faults' = faults + 1
  /\ Return(p)
  /\ UNCHANGED <<row, table, protected, dependents, now, restores, early,
                 crossed>>

-----------------------------------------------------------------------------
(* What goes on around the retirement.                                     *)

\* RecordDatabaseRetirementAccess, a serializable transaction.
RecordAccess ==
  /\ row.state # "none" /\ row.evidence.accesses < MaxAccesses
  /\ row' = [row EXCEPT !.evidence.accesses = @ + 1]
  /\ UNCHANGED <<table, protected, dependents, now, callVars, restores, faults,
                 early, crossed>>

\* Somebody creates or drops a view over the table.
ChangeDependents ==
  /\ dependents \/ table # "gone"
  /\ dependents' = ~dependents
  /\ UNCHANGED <<row, table, protected, now, callVars, restores, faults, early,
                 crossed>>

Tick ==
  /\ now < Horizon
  /\ now' = now + 1
  /\ UNCHANGED <<row, table, protected, dependents, callVars, restores, faults,
                 early, crossed>>

Next ==
  \/ Discover \/ RecordAccess \/ ChangeDependents \/ Tick
  \/ \E p \in Operators :
       \/ \E s \in States : \E evidence \in Submitted[s] :
            BeginAdvance(p, s, evidence)
       \/ ApplyTransition(p) \/ RecordTransition(p)
       \/ BeginExecute(p) \/ Preview(p) \/ Crash(p)
       \/ \E done, told \in BOOLEAN : DropTable(p, done, told)

Spec == Init /\ [][Next]_vars

-----------------------------------------------------------------------------
(* Properties.                                                             *)

RowType == [state: States \cup {"none", "blocked"}, evidence: EvidenceType]

\* Types; a record in quarantine, or dropped, has the end of its quarantine
\* (one whose code is removed need not).
TypeOK ==
  /\ row \in RowType
  /\ row.state \in {"quarantined", "dropped"} => row.evidence.until # 0
  /\ table \in {"original", "quarantine", "gone"}
  /\ protected \in BOOLEAN /\ dependents \in BOOLEAN /\ early \in BOOLEAN
  /\ crossed \in BOOLEAN
  /\ now \in 1..Horizon /\ restores \in Nat /\ faults \in 0..MaxFaults
  /\ stage \in [Operators -> {"idle", "effect", "record", "preview", "drop"}]
  /\ old \in [Operators -> RowType] /\ new \in [Operators -> RowType]

Idle == \A p \in Operators : stage[p] = "idle"

\* The record tells where the table is and whether it is write-protected,
\* however the calls of several operators were interleaved.  Whatever dies and
\* whatever was read: writes are refused from "writes_disabled" on, and the table
\* is under its name until observation is complete.  Beyond that, between calls,
\* the record and the table agree unless a call died or changed the table on a
\* state the record was no longer in; only a record that says "dropped" or
\* "blocked" leaves the place open.  (Advance changes the table first and the
\* record afterwards.)
RecordTellsPlace ==
  /\ row.state \in From("writes_disabled") => protected
  /\ row.state \notin From("observation_complete") \cup {"blocked"} =>
       table = "original"
  /\ Idle /\ faults = 0 /\ ~crossed =>
       /\ row.state = "quarantined" => table = "quarantine"
       /\ row.state = "observation_complete" => table = "original"

\* The record only goes forward through the order one state at a time, back
\* from quarantine, or from quarantine to "blocked", which it never leaves,
\* although every step was validated on an older reading of it.
StepByStep ==
  [][row'.state # row.state =>
       \/ row.state = "none" /\ row'.state = "discovered"
       \/ row.state = "quarantined" /\ row'.state = "blocked"
       \/ row'.state \in States /\ Follows(row, row'.state)]_vars

\* A table that was never restored from quarantine is not dropped before its
\* quarantine has ended, whenever the drop was asked for (Execute).
DroppedAfterQuarantine == early => restores > 0
=============================================================================
