---------------------- MODULE DatabaseRetirementProofs ----------------------
(***************************************************************************)
(* Proofs about DatabaseRetirement, for any number of operators, accesses, *)
(* restores and crashes, and any horizon and age of the evidence.          *)
(***************************************************************************)
EXTENDS DatabaseRetirement, TLAPS

USE DEF callVars

-----------------------------------------------------------------------------
(* The order of the states.                                                *)

LEMMA OrderIndex ==
  /\ DOMAIN Order = 1..9
  /\ \A i \in 1..9 : Order[i] \in States /\ Index[Order[i]] = i
<1>1. DOMAIN Order = 1..9
  BY DEF Order
<1>2. \A i, j \in 1..9 : Order[i] = Order[j] => i = j
  BY DEF Order
<1>3. ASSUME NEW i \in 1..9 PROVE Order[i] \in States /\ Index[Order[i]] = i
  <2>1. Order[i] \in States
    BY <1>1 DEF States
  <2>2. Index[Order[i]] = CHOOSE j \in 1..9 : Order[j] = Order[i]
    BY <1>1, <2>1 DEF Index
  <2>3. (CHOOSE j \in 1..9 : Order[j] = Order[i]) = i
    BY <1>2
  <2> QED BY <2>1, <2>2, <2>3
<1> QED BY <1>1, <1>3

LEMMA StateIndex ==
  /\ States = {"discovered", "replacement_ready", "backfilled", "reads_switched",
               "writes_disabled", "observation_complete", "quarantined", "dropped",
               "code_removed"}
  /\ Index["discovered"] = 1 /\ Index["replacement_ready"] = 2
  /\ Index["backfilled"] = 3 /\ Index["reads_switched"] = 4
  /\ Index["writes_disabled"] = 5 /\ Index["observation_complete"] = 6
  /\ Index["quarantined"] = 7 /\ Index["dropped"] = 8 /\ Index["code_removed"] = 9
<1>1. /\ Order[1] = "discovered" /\ Order[2] = "replacement_ready"
      /\ Order[3] = "backfilled" /\ Order[4] = "reads_switched"
      /\ Order[5] = "writes_disabled" /\ Order[6] = "observation_complete"
      /\ Order[7] = "quarantined" /\ Order[8] = "dropped" /\ Order[9] = "code_removed"
  BY DEF Order
<1>2. 1..9 = {1, 2, 3, 4, 5, 6, 7, 8, 9}
  OBVIOUS
<1>3. States = {Order[i] : i \in {1, 2, 3, 4, 5, 6, 7, 8, 9}}
  BY <1>2, OrderIndex DEF States
<1>4. States = {"discovered", "replacement_ready", "backfilled", "reads_switched",
                "writes_disabled", "observation_complete", "quarantined", "dropped",
                "code_removed"}
  BY <1>1, <1>3
<1> QED BY <1>1, <1>4, OrderIndex

LEMMA Beyond ==
  /\ From("observation_complete") =
       {"observation_complete", "quarantined", "dropped", "code_removed"}
  /\ From("writes_disabled") =
       {"writes_disabled", "observation_complete", "quarantined", "dropped", "code_removed"}
  /\ From("dropped") = {"dropped", "code_removed"}
<1>1. Len(Order) = 9
  BY DEF Order
<1>2. /\ Order[5] = "writes_disabled" /\ Order[6] = "observation_complete"
      /\ Order[7] = "quarantined" /\ Order[8] = "dropped" /\ Order[9] = "code_removed"
  BY DEF Order
<1>3. 5..9 = {5, 6, 7, 8, 9} /\ 6..9 = {6, 7, 8, 9} /\ 8..9 = {8, 9}
  OBVIOUS
<1>4. From("observation_complete") = {Order[i] : i \in {6, 7, 8, 9}}
  BY <1>1, <1>3, StateIndex DEF From
<1>5. From("writes_disabled") = {Order[i] : i \in {5, 6, 7, 8, 9}}
  BY <1>1, <1>3, StateIndex DEF From
<1>6. From("dropped") = {Order[i] : i \in {8, 9}}
  BY <1>1, <1>3, StateIndex DEF From
<1> QED BY <1>2, <1>4, <1>5, <1>6

\* The steps a validated call can ask for.
Moves ==
  {<<"discovered", "replacement_ready">>, <<"replacement_ready", "backfilled">>,
   <<"backfilled", "reads_switched">>, <<"reads_switched", "writes_disabled">>,
   <<"writes_disabled", "observation_complete">>,
   <<"observation_complete", "quarantined">>, <<"quarantined", "dropped">>,
   <<"dropped", "code_removed">>, <<"quarantined", "observation_complete">>}

\* Follows is the relation Moves.
LEMMA Successors ==
  ASSUME NEW current, NEW s \in States
  PROVE  Follows(current, s) <=> <<current.state, s>> \in Moves
<1>1. CASE current.state \in States
  BY <1>1, StateIndex DEF Follows, Restores, Moves
<1>2. CASE current.state \notin States
  <2>1. ~Follows(current, s)
    BY <1>2 DEF Follows
  <2>2. <<current.state, s>> \notin Moves
    BY <1>2, StateIndex DEF Moves
  <2> QED BY <2>1, <2>2
<1> QED BY <1>1, <1>2

-----------------------------------------------------------------------------
(* Types, and what a call carries from its validation to its record.       *)

\* A call under way was validated: its record is a successor of the one it read,
\* or blocks it; a drop is only asked for when the quarantine read has ended.
Validated ==
  \A p \in Operators :
    /\ stage[p] # "idle" =>
         \/ <<old[p].state, new[p].state>> \in Moves
         \/ old[p].state = "quarantined" /\ new[p].state = "blocked"
    /\ stage[p] \in {"preview", "drop"} =>
         /\ old[p].state = "quarantined" /\ new[p].state = "dropped"
         /\ old[p].evidence.until <= now
    /\ new[p].state \in {"quarantined", "dropped"} => new[p].evidence.until # 0
    /\ old[p].state \in {"quarantined", "dropped"} => old[p].evidence.until # 0

LEMMA InitType == Init => TypeOK /\ Validated
<1> SUFFICES ASSUME Init PROVE TypeOK /\ Validated
  OBVIOUS
<1>1. NoRow \in RowType /\ NoRow.state = "none"
  BY NumberAssumption DEF NoRow, NoEvidence, RowType, EvidenceType
<1>2. TypeOK
  <2>1. now \in 1..Horizon /\ restores \in Nat /\ faults \in 0..MaxFaults
    BY NumberAssumption DEF Init
  <2>2. old \in [Operators -> RowType] /\ new \in [Operators -> RowType]
    BY <1>1 DEF Init
  <2>3. row \in RowType /\ row.state \notin {"quarantined", "dropped"}
    BY <1>1 DEF Init
  <2> QED BY <2>1, <2>2, <2>3 DEF Init, TypeOK
<1>3. Validated
  BY <1>1, Beyond DEF Init, Validated
<1> QED BY <1>2, <1>3

LEMMA StepType ==
  TypeOK /\ Validated /\ [Next]_vars => TypeOK' /\ Validated'
<1> SUFFICES ASSUME TypeOK, Validated, [Next]_vars PROVE TypeOK' /\ Validated'
  OBVIOUS
<1> USE NumberAssumption, Beyond
<1>0. NoRow \in RowType /\ NoRow.state = "none"
  BY DEF NoRow, NoEvidence, RowType, EvidenceType
<1>1. CASE UNCHANGED vars
  BY <1>1 DEF vars, TypeOK, Validated
<1>2. CASE Discover
  <2>1. row' \in RowType /\ row'.state = "discovered"
    BY <1>2, StateIndex DEF Discover, TypeOK, RowType
  <2> QED BY <1>2, <2>1 DEF Discover, TypeOK, Validated
<1>3. CASE RecordAccess
  <2>1. /\ row' \in RowType /\ row'.state = row.state
        /\ row'.evidence.until = row.evidence.until
    BY <1>3 DEF RecordAccess, TypeOK, RowType, EvidenceType
  <2> QED BY <1>3, <2>1 DEF RecordAccess, TypeOK, Validated
<1>4. CASE ChangeDependents
  BY <1>4 DEF ChangeDependents, TypeOK, Validated
<1>5. CASE Tick
  <2>1. now' \in 1..Horizon /\ now' = now + 1
    BY <1>5 DEF Tick, TypeOK
  <2>2. \A p \in Operators : old[p].evidence.until \in Nat
    BY DEF TypeOK, RowType, EvidenceType
  <2>3. TypeOK'
    BY <1>5, <2>1 DEF Tick, TypeOK
  <2>4. Validated'
    BY <1>5, <2>1, <2>2 DEF Tick, TypeOK, Validated
  <2> QED BY <2>3, <2>4
<1>6. ASSUME NEW p \in Operators, NEW s \in States, NEW e \in Submitted[s],
             BeginAdvance(p, s, e)
      PROVE  TypeOK' /\ Validated'
  <2> DEFINE next == [state |-> s, evidence |-> e]
  <2>1. e \in EvidenceType
    BY SubmittedAssumption
  <2>2. <<row.state, s>> \in Moves
    BY <1>6, Successors DEF BeginAdvance
  <2>3. next \in RowType /\ next.state = s /\ next.evidence = e
    BY <2>1 DEF RowType
  <2>4. s \in {"quarantined", "dropped"} => e.until # 0
    BY <1>6, <2>1 DEF BeginAdvance, Accepted, TypeOK, EvidenceType
  <2> HIDE DEF next
  <2>5. /\ stage' = [stage EXCEPT ![p] = "effect"] /\ old' = [old EXCEPT ![p] = row]
        /\ new' = [new EXCEPT ![p] = next]
        /\ UNCHANGED <<row, table, protected, dependents, now, restores, faults, early, crossed>>
    BY <1>6 DEF BeginAdvance, Call, next
  <2>6. TypeOK'
    BY <2>3, <2>5 DEF TypeOK
  <2>7. Validated'
    BY <2>2, <2>3, <2>4, <2>5 DEF TypeOK, Validated
  <2> QED BY <2>6, <2>7
<1>7. ASSUME NEW p \in Operators, ApplyTransition(p) PROVE TypeOK' /\ Validated'
  <2>1. /\ stage[p] = "effect"
        /\ \/ Goto(p, "record")
           \/ Return(p)
        /\ UNCHANGED <<row, dependents, now, faults, early>>
    BY <1>7 DEF ApplyTransition
  <2>4. crossed' \in BOOLEAN
    BY <1>7 DEF ApplyTransition, TypeOK
  <2>5. protected' \in BOOLEAN
    BY <1>7 DEF ApplyTransition, TypeOK
  <2>6. table' \in {"original", "quarantine", "gone"}
    BY <1>7 DEF ApplyTransition, TypeOK, Place
  <2>7. restores' \in Nat
    BY <1>7 DEF ApplyTransition, TypeOK
  <2>2. TypeOK'
    BY <1>0, <2>1, <2>4, <2>5, <2>6, <2>7 DEF TypeOK, Goto, Return
  <2>3. Validated'
    BY <1>0, <2>1 DEF TypeOK, Validated, Goto, Return
  <2> QED BY <2>2, <2>3
<1>8. ASSUME NEW p \in Operators, RecordTransition(p) PROVE TypeOK' /\ Validated'
  <2>1. row' = row \/ row' = new[p]
    BY <1>8 DEF RecordTransition
  <2>2. row' \in RowType /\ (row'.state \in {"quarantined", "dropped"} => row'.evidence.until # 0)
    <3>1. CASE row' = row
      BY <3>1 DEF TypeOK
    <3>2. CASE row' = new[p]
      BY <3>2 DEF TypeOK, Validated
    <3> QED BY <2>1, <3>1, <3>2
  <2>3. /\ Return(p)
        /\ UNCHANGED <<table, protected, dependents, now, restores, faults, early, crossed>>
    BY <1>8 DEF RecordTransition
  <2>4. TypeOK'
    BY <1>0, <2>2, <2>3 DEF TypeOK, Return
  <2>5. Validated'
    BY <1>0, <2>3 DEF TypeOK, Validated, Return
  <2> QED BY <2>4, <2>5
<1>9. ASSUME NEW p \in Operators, BeginExecute(p) PROVE TypeOK' /\ Validated'
  <2> DEFINE next == [row EXCEPT !.state = "dropped"]
  <2>1. next \in RowType /\ next.state = "dropped" /\ next.evidence = row.evidence
    BY StateIndex DEF RowType, TypeOK
  <2>2. row.state = "quarantined" /\ row.evidence.until <= now /\ row.evidence.until # 0
    BY <1>9 DEF BeginExecute, Accepted, TypeOK, RowType, EvidenceType
  <2> HIDE DEF next
  <2>3. /\ stage' = [stage EXCEPT ![p] = "preview"] /\ old' = [old EXCEPT ![p] = row]
        /\ new' = [new EXCEPT ![p] = next]
        /\ UNCHANGED <<row, table, protected, dependents, now, restores, faults, early, crossed>>
    BY <1>9 DEF BeginExecute, Call, next
  <2>4. TypeOK'
    BY <2>1, <2>3 DEF TypeOK
  <2>5. Validated'
    BY <2>1, <2>2, <2>3 DEF TypeOK, Validated, Moves
  <2> QED BY <2>4, <2>5
<1>10. ASSUME NEW p \in Operators, Preview(p) PROVE TypeOK' /\ Validated'
  <2>1. /\ stage[p] = "preview"
        /\ Goto(p, "drop") \/ Return(p)
        /\ UNCHANGED <<row, table, protected, dependents, now, restores, faults, early, crossed>>
    BY <1>10 DEF Preview
  <2>2. TypeOK'
    BY <1>0, <2>1 DEF TypeOK, Goto, Return
  <2>3. Validated'
    BY <1>0, <2>1 DEF TypeOK, Validated, Goto, Return
  <2> QED BY <2>2, <2>3
<1>11. ASSUME NEW p \in Operators, NEW done \in BOOLEAN, NEW told \in BOOLEAN,
             DropTable(p, done, told) PROVE TypeOK' /\ Validated'
  <2> DEFINE next == [old[p] EXCEPT !.state = "blocked"]
  <2>1. next \in RowType /\ next.state = "blocked" /\ next.evidence = old[p].evidence
    BY DEF RowType, TypeOK
  <2>2. /\ stage[p] = "drop" /\ stage' = [stage EXCEPT ![p] = "record"]
        /\ UNCHANGED <<row, protected, dependents, now, old, restores, faults>>
        /\ new' = new \/ new' = [new EXCEPT ![p] = next]
        /\ table' \in {"original", "quarantine", "gone"}
        /\ early' \in BOOLEAN /\ crossed' \in BOOLEAN
    BY <1>11 DEF DropTable, TypeOK
  <2> HIDE DEF next
  <2>3. TypeOK'
    BY <2>1, <2>2 DEF TypeOK
  <2>4. Validated'
    BY <2>1, <2>2 DEF TypeOK, Validated
  <2> QED BY <2>3, <2>4
<1>12. ASSUME NEW p \in Operators, Crash(p) PROVE TypeOK' /\ Validated'
  <2>1. /\ Return(p) /\ faults' \in 0..MaxFaults
        /\ UNCHANGED <<row, table, protected, dependents, now, restores, early, crossed>>
    BY <1>12 DEF Crash, TypeOK
  <2>2. TypeOK'
    BY <1>0, <2>1 DEF TypeOK, Return
  <2>3. Validated'
    BY <1>0, <2>1 DEF TypeOK, Validated, Return
  <2> QED BY <2>2, <2>3
<1>13. CASE Next
  BY <1>13, <1>2, <1>3, <1>4, <1>5, <1>6, <1>7, <1>8, <1>9, <1>10, <1>11, <1>12 DEF Next
<1> QED BY <1>1, <1>13

-----------------------------------------------------------------------------
(* Write protection.                                                       *)

\* The states of a record whose observation was once complete.
Past == From("observation_complete") \cup {"blocked"}

\* Whoever read or is about to record a state from "writes_disabled" on, did so
\* after the triggers were in place; whoever renamed the table had read a record
\* whose observation was complete, which it has been ever since.
Guarded ==
  /\ table # "original" => row.state \in Past
  /\ \A p \in Operators : old[p].state \in Past => row.state \in Past
  /\ row.state \in From("writes_disabled") => protected
  /\ \A p \in Operators :
       /\ old[p].state \in From("writes_disabled") => protected
       /\ stage[p] = "record" /\ new[p].state \in From("writes_disabled") => protected

LEMMA InitGuarded == Init => Guarded
BY Beyond DEF Init, Guarded, NoRow, Past

LEMMA StepGuarded ==
  TypeOK /\ Validated /\ Guarded /\ [Next]_vars => Guarded'
<1> SUFFICES ASSUME TypeOK, Validated, Guarded, [Next]_vars PROVE Guarded'
  OBVIOUS
<1> USE Beyond DEF Past
<1>0. NoRow.state = "none"
  BY DEF NoRow
<1>1. CASE UNCHANGED vars
  BY <1>1 DEF vars, Guarded
<1>2. CASE Discover \/ RecordAccess \/ ChangeDependents \/ Tick
  <2>1. /\ row'.state = row.state \/ (row.state = "none" /\ row'.state = "discovered")
        /\ UNCHANGED <<table, protected, stage, old, new>>
    BY <1>2 DEF Discover, RecordAccess, ChangeDependents, Tick, TypeOK, RowType
  <2> QED BY <2>1 DEF Guarded
<1>3. ASSUME NEW p \in Operators, NEW s \in States, NEW e \in Submitted[s],
             BeginAdvance(p, s, e)
      PROVE  Guarded'
  BY <1>3 DEF BeginAdvance, Call, Guarded, TypeOK
<1>4. ASSUME NEW p \in Operators, ApplyTransition(p) PROVE Guarded'
  <2>1. /\ stage[p] = "effect" /\ row' = row
        /\ protected => protected'
        /\ Goto(p, "record") \/ Return(p)
        /\ Goto(p, "record") /\ new[p].state = "writes_disabled" => protected'
    BY <1>4 DEF ApplyTransition, Renames, Restores, Goto, Return, TypeOK
  <2>2. old[p].state \in From("writes_disabled") \/ new[p].state = "writes_disabled"
        \/ new[p].state \notin From("writes_disabled")
    BY <2>1 DEF Validated, Moves
  <2>5. table' = table \/ old[p].state \in Past
    BY <1>4, <2>1 DEF ApplyTransition, Renames, Restores, Validated, Moves
  <2>3. CASE Goto(p, "record")
    BY <2>1, <2>2, <2>3, <2>5 DEF Guarded, Goto, TypeOK
  <2>4. CASE Return(p)
    BY <1>0, <2>1, <2>4, <2>5 DEF Guarded, Return, TypeOK
  <2> QED BY <2>1, <2>3, <2>4
<1>5. ASSUME NEW p \in Operators, RecordTransition(p) PROVE Guarded'
  <2>1. stage[p] = "record" /\ Return(p) /\ UNCHANGED <<table, protected>>
        /\ (row' = row \/ (row.state = old[p].state /\ row' = new[p]))
    BY <1>5 DEF RecordTransition, Holds
  <2>3. row.state \in Past => row'.state \in Past
    BY <2>1 DEF Validated, Moves
  <2>2. row'.state \in From("writes_disabled") => protected
    BY <2>1 DEF Guarded
  <2> QED BY <1>0, <2>1, <2>2, <2>3 DEF Guarded, Return, TypeOK
<1>6. ASSUME NEW p \in Operators, BeginExecute(p) PROVE Guarded'
  BY <1>6 DEF BeginExecute, Call, Guarded, TypeOK
<1>7. ASSUME NEW p \in Operators, Preview(p) PROVE Guarded'
  BY <1>0, <1>7 DEF Preview, Goto, Return, Guarded, TypeOK
<1>8. ASSUME NEW p \in Operators, NEW done \in BOOLEAN, NEW told \in BOOLEAN,
             DropTable(p, done, told) PROVE Guarded'
  <2>1. /\ stage[p] = "drop" /\ stage' = [stage EXCEPT ![p] = "record"]
        /\ UNCHANGED <<row, protected, old>>
        /\ \A q \in Operators : q # p => new'[q] = new[q]
    BY <1>8 DEF DropTable, TypeOK
  <2>2. old[p].state = "quarantined"
    BY <2>1 DEF Validated
  <2> QED BY <2>1, <2>2 DEF Guarded, TypeOK
<1>9. ASSUME NEW p \in Operators, Crash(p) PROVE Guarded'
  BY <1>0, <1>9 DEF Crash, Return, Guarded, TypeOK
<1>10. CASE Next
  BY <1>10, <1>2, <1>3, <1>4, <1>5, <1>6, <1>7, <1>8, <1>9 DEF Next
<1> QED BY <1>1, <1>10

-----------------------------------------------------------------------------
(* Where the table is.                                                     *)

\* Calls that changed the table and have not recorded it: into quarantine, back
\* from it, dropped (or blocked in trying).
Hiding == {p \in Operators : stage[p] = "record" /\ new[p].state = "quarantined"}
Restoring == {p \in Operators : stage[p] = "record" /\ Restores(old[p], new[p].state)}
Dropping ==
  {p \in Operators : /\ stage[p] = "record"
                     /\ old[p].state = "quarantined" /\ new[p].state \in {"dropped", "blocked"}}

Lone(set) == \A p, q \in set : p = q

Ended == {"quarantined", "blocked", "dropped", "code_removed"}

\* The record and the table agree but for what one call has yet to record.
Accounted ==
  /\ Restoring # {} =>
       /\ row.state \in Ended
       /\ row.state = "quarantined" => table = "original" /\ Lone(Restoring)
  /\ Hiding # {} =>
       row.state = "observation_complete" /\ table = "quarantine" /\ Lone(Hiding)
  /\ row.state = "quarantined" =>
       \/ table = "quarantine"
       \/ table = "original" /\ Restoring # {}
       \/ table = "gone" /\ Dropping # {}
  /\ row.state \notin Ended =>
       \/ table = "original"
       \/ table = "quarantine" /\ Hiding # {}

PlaceInv == faults = 0 /\ ~crossed => Accounted

\* Without a restore the table enters quarantine once, and every call that read
\* the quarantine read its end.
Once ==
  /\ Restoring = {}
  /\ Hiding # {} => row.state \notin Ended /\ table # "original" /\ Lone(Hiding)
  /\ row.state \in Ended => table # "original"
  /\ \A p \in Operators : old[p].state = "quarantined" =>
       /\ row.state \in Ended
       /\ row.state = "quarantined" => old[p].evidence.until = row.evidence.until

QuarantineInv == (restores = 0 => Once) /\ DroppedAfterQuarantine

LEMMA InitPlace == Init => PlaceInv /\ QuarantineInv
<1> SUFFICES ASSUME Init PROVE PlaceInv /\ QuarantineInv
  OBVIOUS
<1>0. NoRow.state = "none"
  BY DEF NoRow
<1>1. Restoring = {} /\ Hiding = {}
  BY DEF Init, Restoring, Hiding
<1>2. PlaceInv
  BY <1>0, <1>1 DEF Init, PlaceInv, Accounted, Ended
<1>3. QuarantineInv
  BY <1>0, <1>1 DEF Init, QuarantineInv, Once, Ended, DroppedAfterQuarantine
<1> QED BY <1>2, <1>3

\* What the steps of a call do to these sets.
LEMMA UnrecordedSame ==
  ASSUME NEW p \in Operators, stage[p] # "record", stage'[p] # "record",
         \A q \in Operators \ {p} :
           stage'[q] = stage[q] /\ old'[q] = old[q] /\ new'[q] = new[q]
  PROVE  Hiding' = Hiding /\ Restoring' = Restoring /\ Dropping' = Dropping
BY DEF Hiding, Restoring, Dropping

LEMMA UnrecordedMore ==
  ASSUME TypeOK, NEW p \in Operators, stage[p] # "record", Goto(p, "record")
  PROVE  /\ Hiding' = IF new[p].state = "quarantined" THEN Hiding \cup {p} ELSE Hiding
         /\ Restoring' = IF Restores(old[p], new[p].state) THEN Restoring \cup {p}
                         ELSE Restoring
         /\ Dropping \subseteq Dropping'
BY DEF Hiding, Restoring, Dropping, Goto, TypeOK

LEMMA UnrecordedLess ==
  ASSUME TypeOK, NEW p \in Operators, Return(p)
  PROVE  /\ Hiding' = Hiding \ {p} /\ Restoring' = Restoring \ {p}
         /\ Dropping' = Dropping \ {p}
BY DEF Hiding, Restoring, Dropping, Return, TypeOK

\* What a drop does: the table goes or stays, and the call is to record it.
LEMMA DropSteps ==
  ASSUME TypeOK, Validated, NEW p \in Operators, NEW done \in BOOLEAN, NEW told \in BOOLEAN,
         DropTable(p, done, told)
  PROVE  /\ old[p].state = "quarantined" /\ old[p].evidence.until <= now
         /\ UNCHANGED <<row, old, faults, restores, now>>
         /\ Hiding' = Hiding /\ Restoring' = Restoring /\ Dropping \subseteq Dropping'
         /\ \/ /\ table = "quarantine" /\ table' = "gone" /\ p \in Dropping'
               /\ ~crossed' => row.state = "quarantined"
               /\ early' = (early \/ (row.state = "quarantined" /\ now < row.evidence.until))
            \/ UNCHANGED <<table, early>>
<1>1. /\ stage[p] = "drop" /\ stage' = [stage EXCEPT ![p] = "record"]
      /\ UNCHANGED <<row, old, faults, restores, now>>
  BY DEF DropTable
<1>2. old[p].state = "quarantined" /\ old[p].evidence.until <= now /\ new[p].state = "dropped"
  BY <1>1 DEF Validated
<1>3. /\ new'[p].state \in {"dropped", "blocked"}
      /\ \A q \in Operators \ {p} : new'[q] = new[q]
  BY <1>2 DEF DropTable, TypeOK, RowType
<1>4. Hiding' = Hiding /\ Restoring' = Restoring /\ Dropping' = Dropping \cup {p}
  BY <1>1, <1>2, <1>3 DEF Hiding, Restoring, Dropping, Restores, TypeOK
<1>5. CASE done
  <2>1. /\ table = "quarantine" /\ table' = "gone"
        /\ crossed' = (crossed \/ row.state # old[p].state)
        /\ early' = (early \/ (row.state = "quarantined" /\ now < row.evidence.until))
    BY <1>5 DEF DropTable
  <2>2. ~crossed' => row.state = "quarantined"
    BY <1>2, <2>1
  <2> QED BY <1>1, <1>2, <1>4, <2>1, <2>2
<1>6. CASE ~done
  BY <1>1, <1>2, <1>4, <1>6 DEF DropTable
<1> QED BY <1>5, <1>6

\* What applying a transition does to the table.
LEMMA ApplySteps ==
  ASSUME TypeOK, Validated, NEW p \in Operators, ApplyTransition(p)
  PROVE  /\ stage[p] = "effect" /\ row' = row /\ faults' = faults /\ early' = early
         /\ \/ Return(p) /\ UNCHANGED <<table, crossed, restores>>
            \/ /\ Restores(old[p], new[p].state) /\ Goto(p, "record")
               /\ table = "quarantine" /\ table' = "original"
               /\ ~crossed' => row.state = "quarantined"
               /\ restores' = restores + 1
            \/ /\ new[p].state = "quarantined" /\ Goto(p, "record")
               /\ old[p].state = "observation_complete"
               /\ table = "original" /\ table' = "quarantine"
               /\ ~crossed' => row.state = "observation_complete"
               /\ restores' = restores
            \/ /\ ~Restores(old[p], new[p].state) /\ new[p].state # "quarantined"
               /\ Goto(p, "record") /\ UNCHANGED <<table, crossed, restores>>
<1>1. stage[p] = "effect" /\ row' = row /\ faults' = faults /\ early' = early
  BY DEF ApplyTransition
<1>2. new[p].state = "quarantined" =>
        old[p].state = "observation_complete" /\ ~Restores(old[p], new[p].state)
  BY <1>1 DEF Validated, Moves, Restores
<1>3. CASE /\ Renames(p) /\ table = Source(p) /\ table' = Place(p)
           /\ crossed' = (crossed \/ row.state # old[p].state)
           /\ restores' =
                IF Restores(old[p], new[p].state) THEN restores + 1 ELSE restores
           /\ Goto(p, "record")
  <2>1. ~crossed' => row.state = old[p].state
    BY <1>3
  <2>2. CASE Restores(old[p], new[p].state)
    BY <1>1, <1>3, <2>1, <2>2 DEF Source, Place, Restores
  <2>3. CASE ~Restores(old[p], new[p].state)
    BY <1>1, <1>2, <1>3, <2>1, <2>3 DEF Source, Place, Renames
  <2> QED BY <2>2, <2>3
<1>4. CASE /\ new[p].state = "writes_disabled" /\ Goto(p, "record")
           /\ UNCHANGED <<table, restores, crossed>>
  BY <1>1, <1>4 DEF Restores
<1>5. CASE Return(p) /\ UNCHANGED <<table, protected, restores, crossed>>
  BY <1>1, <1>5
<1>6. CASE ~Renames(p) /\ Goto(p, "record") /\ UNCHANGED <<table, protected, restores, crossed>>
  BY <1>1, <1>6 DEF Renames
<1> QED BY <1>3, <1>4, <1>5, <1>6 DEF ApplyTransition

\* What recording a transition does to the record.
LEMMA RecordSteps ==
  ASSUME TypeOK, Validated, NEW p \in Operators, RecordTransition(p)
  PROVE  /\ UNCHANGED <<table, faults, crossed, restores, early>> /\ Return(p)
         /\ \/ row.state # old[p].state /\ row' = row
            \/ row.state = old[p].state /\ row' = new[p]
         /\ \/ <<old[p].state, new[p].state>> \in Moves
            \/ old[p].state = "quarantined" /\ new[p].state = "blocked"
         /\ p \in Hiding <=> new[p].state = "quarantined"
         /\ p \in Restoring <=> /\ old[p].state = "quarantined"
                                /\ new[p].state = "observation_complete"
         /\ p \in Dropping <=>
              old[p].state = "quarantined" /\ new[p].state \in {"dropped", "blocked"}
<1>1. stage[p] = "record"
  BY DEF RecordTransition
<1>2. /\ UNCHANGED <<table, faults, crossed, restores, early>> /\ Return(p)
      /\ \/ row.state # old[p].state /\ row' = row
         \/ row.state = old[p].state /\ row' = new[p]
  BY DEF RecordTransition, Holds
<1>3. \/ <<old[p].state, new[p].state>> \in Moves
      \/ old[p].state = "quarantined" /\ new[p].state = "blocked"
  BY <1>1 DEF Validated
<1> QED BY <1>1, <1>2, <1>3 DEF Hiding, Restoring, Dropping, Restores

\* The other steps of an operator leave table and record alone.
LEMMA QuietSteps ==
  ASSUME TypeOK, NEW p \in Operators,
         \/ \E s \in States : \E e \in Submitted[s] : BeginAdvance(p, s, e)
         \/ BeginExecute(p) \/ Preview(p)
  PROVE  /\ UNCHANGED <<row, table, restores, faults, early, crossed>>
         /\ Hiding' = Hiding /\ Restoring' = Restoring /\ Dropping' = Dropping
         /\ old'[p] \in {old[p], row, NoRow}
         /\ \A q \in Operators \ {p} : old'[q] = old[q]
<1>1. /\ UNCHANGED <<row, table, restores, faults, early, crossed>>
      /\ stage[p] # "record" /\ stage'[p] # "record"
      /\ old'[p] \in {old[p], row, NoRow}
      /\ \A q \in Operators \ {p} :
           stage'[q] = stage[q] /\ old'[q] = old[q] /\ new'[q] = new[q]
  BY DEF BeginAdvance, BeginExecute, Preview, Call, Goto, Return, TypeOK
<1> QED BY <1>1, UnrecordedSame

LEMMA AroundSteps ==
  ASSUME TypeOK, Discover \/ RecordAccess \/ ChangeDependents \/ Tick \/ UNCHANGED vars
  PROVE  /\ UNCHANGED <<table, old, restores, faults, early, crossed>>
         /\ Hiding' = Hiding /\ Restoring' = Restoring /\ Dropping' = Dropping
         /\ row'.state = row.state \/ (row.state = "none" /\ row'.state = "discovered")
         /\ row'.evidence.until = row.evidence.until
<1>1. UNCHANGED <<table, stage, old, new, restores, faults, early, crossed>>
  BY DEF Discover, RecordAccess, ChangeDependents, Tick, vars
<1>2. Hiding' = Hiding /\ Restoring' = Restoring /\ Dropping' = Dropping
  BY <1>1 DEF Hiding, Restoring, Dropping, Restores
<1>3. /\ row'.state = row.state \/ (row.state = "none" /\ row'.state = "discovered")
      /\ row'.evidence.until = row.evidence.until
  <2>1. CASE Discover
    BY <2>1 DEF Discover, TypeOK, RowType
  <2>2. CASE RecordAccess
    BY <2>2 DEF RecordAccess, TypeOK, RowType, EvidenceType
  <2>3. CASE UNCHANGED row
    BY <2>3
  <2> QED BY <2>1, <2>2, <2>3 DEF ChangeDependents, Tick, vars
<1> QED BY <1>1, <1>2, <1>3

LEMMA StepPlace ==
  TypeOK /\ Validated /\ PlaceInv /\ [Next]_vars => PlaceInv'
<1> SUFFICES ASSUME TypeOK, Validated, PlaceInv, [Next]_vars PROVE PlaceInv'
  OBVIOUS
<1>1. CASE Discover \/ RecordAccess \/ ChangeDependents \/ Tick \/ UNCHANGED vars
  BY <1>1, AroundSteps DEF PlaceInv, Accounted, Ended
<1>2. ASSUME NEW p \in Operators,
             \/ \E s \in States : \E e \in Submitted[s] : BeginAdvance(p, s, e)
             \/ BeginExecute(p) \/ Preview(p)
      PROVE  PlaceInv'
  <2>1. /\ UNCHANGED <<row, table, faults, crossed>>
        /\ Hiding' = Hiding /\ Restoring' = Restoring /\ Dropping' = Dropping
    BY <1>2, QuietSteps
  <2> QED BY <2>1 DEF PlaceInv, Accounted
<1>3. ASSUME NEW p \in Operators, ApplyTransition(p) PROVE PlaceInv'
  <2>0. stage[p] = "effect" /\ row' = row /\ faults' = faults
    BY <1>3, ApplySteps
  <2>00. (crossed => crossed') /\ p \notin Hiding /\ p \notin Restoring /\ p \notin Dropping
    <3>1. crossed => crossed'
      BY <1>3 DEF ApplyTransition
    <3>2. p \notin Hiding /\ p \notin Restoring /\ p \notin Dropping
      BY <2>0 DEF Hiding, Restoring, Dropping
    <3> QED BY <3>1, <3>2
  <2>1. CASE Return(p) /\ UNCHANGED <<table, crossed, restores>>
    <3>1. Hiding' = Hiding /\ Restoring' = Restoring /\ Dropping' = Dropping
      BY <2>00, <2>1, UnrecordedLess
    <3> QED BY <2>0, <2>1, <3>1 DEF PlaceInv, Accounted
  <2>2. CASE /\ Restores(old[p], new[p].state) /\ Goto(p, "record")
             /\ table = "quarantine" /\ table' = "original"
             /\ ~crossed' => row.state = "quarantined"
    <3>1. Hiding' = Hiding /\ Restoring' = Restoring \cup {p}
      BY <2>0, <2>2, UnrecordedMore DEF Restores
    <3>2. faults = 0 /\ ~crossed' => Restoring = {} /\ Hiding = {}
      BY <2>00, <2>2 DEF PlaceInv, Accounted
    <3> QED BY <2>0, <2>00, <2>2, <3>1, <3>2 DEF PlaceInv, Accounted, Ended, Lone
  <2>3. CASE /\ new[p].state = "quarantined" /\ Goto(p, "record")
             /\ table = "original" /\ table' = "quarantine"
             /\ ~crossed' => row.state = "observation_complete"
    <3>1. Hiding' = Hiding \cup {p} /\ Restoring' = Restoring
      BY <2>0, <2>3, UnrecordedMore DEF Restores
    <3>2. faults = 0 /\ ~crossed' => Restoring = {} /\ Hiding = {}
      BY <2>00, <2>3 DEF PlaceInv, Accounted, Ended
    <3> QED BY <2>0, <2>00, <2>3, <3>1, <3>2 DEF PlaceInv, Accounted, Ended, Lone
  <2>4. CASE /\ ~Restores(old[p], new[p].state) /\ new[p].state # "quarantined"
             /\ Goto(p, "record") /\ UNCHANGED <<table, crossed, restores>>
    <3>1. Hiding' = Hiding /\ Restoring' = Restoring /\ Dropping \subseteq Dropping'
      BY <2>0, <2>4, UnrecordedMore
    <3> QED BY <2>0, <2>4, <3>1 DEF PlaceInv, Accounted
  <2> QED BY <1>3, <2>1, <2>2, <2>3, <2>4, ApplySteps
<1>4. ASSUME NEW p \in Operators, RecordTransition(p) PROVE PlaceInv'
  <2>0. /\ UNCHANGED <<table, faults, crossed>>
        /\ Hiding' = Hiding \ {p} /\ Restoring' = Restoring \ {p}
        /\ Dropping' = Dropping \ {p}
    BY <1>4, RecordSteps, UnrecordedLess
  <2>1. /\ \/ row.state # old[p].state /\ row' = row
           \/ row.state = old[p].state /\ row' = new[p]
        /\ \/ <<old[p].state, new[p].state>> \in Moves
           \/ old[p].state = "quarantined" /\ new[p].state = "blocked"
    BY <1>4, RecordSteps
  <2>2. /\ p \in Hiding <=> new[p].state = "quarantined"
        /\ p \in Restoring <=> /\ old[p].state = "quarantined"
                               /\ new[p].state = "observation_complete"
        /\ p \in Dropping <=>
             old[p].state = "quarantined" /\ new[p].state \in {"dropped", "blocked"}
    BY <1>4, RecordSteps
  <2> SUFFICES ASSUME Accounted PROVE Accounted'
    BY <2>0 DEF PlaceInv
  <2>3. CASE row.state # old[p].state
    <3>0. row' = row
      BY <2>1, <2>3
    <3>1. p \notin Hiding
      BY <2>1, <2>2, <2>3 DEF Accounted, Moves
    <3>2. row.state = "quarantined" => p \notin Restoring /\ p \notin Dropping
      BY <2>2, <2>3
    <3> QED BY <2>0, <3>0, <3>1, <3>2 DEF Accounted, Lone
  <2>4. CASE row.state = old[p].state /\ p \in Restoring
    <3>1. /\ row.state = "quarantined" /\ row'.state = "observation_complete"
          /\ table = "original" /\ Lone(Restoring) /\ Hiding = {}
      BY <2>1, <2>2, <2>4 DEF Accounted
    <3>2. Restoring' = {} /\ Hiding' = {}
      BY <2>0, <2>4, <3>1 DEF Lone
    <3> QED BY <2>0, <3>1, <3>2 DEF Accounted, Ended
  <2>5. CASE row.state = old[p].state /\ p \in Hiding
    <3>1. /\ row.state = "observation_complete" /\ row'.state = "quarantined"
          /\ table = "quarantine" /\ Lone(Hiding) /\ Restoring = {}
      BY <2>1, <2>2, <2>5 DEF Accounted, Ended
    <3>2. Restoring' = {} /\ Hiding' = {}
      BY <2>0, <2>5, <3>1 DEF Lone
    <3> QED BY <2>0, <3>1, <3>2 DEF Accounted, Ended
  <2>6. CASE row.state = old[p].state /\ p \notin Restoring /\ p \notin Hiding
    <3>0. Hiding' = Hiding /\ Restoring' = Restoring
      BY <2>0, <2>6
    <3>1. row'.state # "quarantined" /\ (row'.state \in Ended <=> row.state \in Ended)
      BY <2>1, <2>2, <2>6 DEF Moves, Ended
    <3>2. row.state # "observation_complete"
      BY <2>1, <2>2, <2>6 DEF Moves
    <3> QED BY <2>0, <3>0, <3>1, <3>2 DEF Accounted
  <2> QED BY <2>3, <2>4, <2>5, <2>6
<1>5. ASSUME NEW p \in Operators, NEW done \in BOOLEAN, NEW told \in BOOLEAN,
             DropTable(p, done, told) PROVE PlaceInv'
  <2>0. (crossed => crossed') /\ UNCHANGED <<row, faults>>
        /\ Hiding' = Hiding /\ Restoring' = Restoring
    BY <1>5, DropSteps DEF DropTable
  <2>1. CASE /\ table = "quarantine" /\ table' = "gone" /\ p \in Dropping'
             /\ ~crossed' => row.state = "quarantined"
    BY <2>0, <2>1 DEF PlaceInv, Accounted, Ended
  <2>2. CASE table' = table /\ Dropping \subseteq Dropping'
    BY <2>0, <2>2 DEF PlaceInv, Accounted
  <2> QED BY <1>5, <2>1, <2>2, DropSteps
<1>6. ASSUME NEW p \in Operators, Crash(p) PROVE PlaceInv'
  BY <1>6 DEF Crash, TypeOK, PlaceInv
<1>7. CASE Next
  BY <1>7, <1>1, <1>2, <1>3, <1>4, <1>5, <1>6 DEF Next
<1> QED BY <1>1, <1>7

LEMMA StepQuarantine ==
  TypeOK /\ Validated /\ QuarantineInv /\ [Next]_vars => QuarantineInv'
<1> SUFFICES ASSUME TypeOK, Validated, QuarantineInv, [Next]_vars PROVE QuarantineInv'
  OBVIOUS
<1>0. NoRow.state = "none"
  BY DEF NoRow
<1>00. restores \in Nat
  BY DEF TypeOK
<1>1. CASE Discover \/ RecordAccess \/ ChangeDependents \/ Tick \/ UNCHANGED vars
  BY <1>1, AroundSteps DEF QuarantineInv, Once, Ended, DroppedAfterQuarantine
<1>2. ASSUME NEW p \in Operators,
             \/ \E s \in States : \E e \in Submitted[s] : BeginAdvance(p, s, e)
             \/ BeginExecute(p) \/ Preview(p)
      PROVE  QuarantineInv'
  <2>1. /\ UNCHANGED <<row, table, restores, early>>
        /\ Hiding' = Hiding /\ Restoring' = Restoring
        /\ old'[p] \in {old[p], row, NoRow} /\ \A q \in Operators \ {p} : old'[q] = old[q]
    BY <1>2, QuietSteps
  <2> QED BY <1>0, <2>1 DEF QuarantineInv, Once, Ended, DroppedAfterQuarantine
<1>3. ASSUME NEW p \in Operators, Return(p), UNCHANGED <<row, table, restores, early>>
      PROVE  QuarantineInv'
  <2>1. Hiding' = Hiding \ {p} /\ Restoring' = Restoring \ {p}
    BY <1>3, UnrecordedLess
  <2>2. old'[p] = NoRow /\ \A q \in Operators \ {p} : old'[q] = old[q]
    BY <1>3 DEF Return, TypeOK
  <2> QED BY <1>0, <1>3, <2>1, <2>2 DEF QuarantineInv, Once, Lone, DroppedAfterQuarantine
<1>4. ASSUME NEW p \in Operators, ApplyTransition(p) PROVE QuarantineInv'
  <2>0. stage[p] = "effect" /\ row' = row /\ early' = early
    BY <1>4, ApplySteps
  <2>1. CASE Return(p) /\ UNCHANGED <<table, crossed, restores>>
    BY <1>3, <2>0, <2>1
  <2>2. CASE restores' = restores + 1
    BY <1>00, <2>2 DEF QuarantineInv, DroppedAfterQuarantine
  <2>3. CASE /\ new[p].state = "quarantined" /\ Goto(p, "record") /\ restores' = restores
             /\ old[p].state = "observation_complete"
             /\ table = "original" /\ table' = "quarantine"
    <3>1. Hiding' = Hiding \cup {p} /\ Restoring' = Restoring /\ old' = old
      BY <2>0, <2>3, UnrecordedMore DEF Restores, Goto
    <3>2. restores = 0 => Hiding = {} /\ row.state \notin Ended
      BY <2>3 DEF QuarantineInv, Once
    <3> QED BY <2>0, <2>3, <3>1, <3>2 DEF QuarantineInv, Once, Lone, DroppedAfterQuarantine
  <2>4. CASE /\ ~Restores(old[p], new[p].state) /\ new[p].state # "quarantined"
             /\ Goto(p, "record") /\ UNCHANGED <<table, crossed, restores>>
    <3>1. Hiding' = Hiding /\ Restoring' = Restoring /\ old' = old
      BY <2>0, <2>4, UnrecordedMore DEF Goto
    <3> QED BY <2>0, <2>4, <3>1 DEF QuarantineInv, Once, DroppedAfterQuarantine
  <2> QED BY <1>4, <2>1, <2>2, <2>3, <2>4, ApplySteps
<1>5. ASSUME NEW p \in Operators, RecordTransition(p) PROVE QuarantineInv'
  <2>0. /\ UNCHANGED <<table, restores, early>>
        /\ Hiding' = Hiding \ {p} /\ Restoring' = Restoring \ {p}
    BY <1>5, RecordSteps, UnrecordedLess
  <2>1. /\ \/ row' = row
           \/ row.state = old[p].state /\ row' = new[p]
        /\ \/ <<old[p].state, new[p].state>> \in Moves
           \/ old[p].state = "quarantined" /\ new[p].state = "blocked"
        /\ p \in Hiding <=> new[p].state = "quarantined"
        /\ p \in Restoring <=> /\ old[p].state = "quarantined"
                               /\ new[p].state = "observation_complete"
    BY <1>5, RecordSteps
  <2>2. old'[p] = NoRow /\ \A q \in Operators \ {p} : old'[q] = old[q]
    BY <1>5 DEF RecordTransition, Return, TypeOK
  <2> SUFFICES ASSUME Once PROVE Once'
    BY <2>0 DEF QuarantineInv, DroppedAfterQuarantine
  <2>3. CASE row' = row
    BY <1>0, <2>0, <2>2, <2>3 DEF Once, Lone
  <2>4. CASE row.state = old[p].state /\ row' = new[p] /\ p \in Hiding
    <3>1. row.state \notin Ended /\ table # "original" /\ Lone(Hiding)
      BY <2>4 DEF Once
    <3>2. Hiding' = {} /\ Restoring' = {}
      BY <2>0, <2>4, <3>1 DEF Once, Lone
    <3>3. \A q \in Operators : old'[q].state # "quarantined"
      BY <1>0, <2>2, <3>1 DEF Once
    <3> QED BY <2>0, <3>1, <3>2, <3>3 DEF Once
  <2>5. CASE row.state = old[p].state /\ row' = new[p] /\ p \notin Hiding
    <3>1. row'.state # "quarantined" /\ (row'.state \in Ended <=> row.state \in Ended)
      BY <2>1, <2>5 DEF Once, Moves, Ended
    <3> QED BY <1>0, <2>0, <2>2, <3>1 DEF Once, Lone
  <2> QED BY <2>1, <2>3, <2>4, <2>5
<1>6. ASSUME NEW p \in Operators, NEW done \in BOOLEAN, NEW told \in BOOLEAN,
             DropTable(p, done, told) PROVE QuarantineInv'
  <2>0. /\ UNCHANGED <<row, old, restores>> /\ Hiding' = Hiding /\ Restoring' = Restoring
        /\ old[p].state = "quarantined" /\ old[p].evidence.until <= now
    BY <1>6, DropSteps
  <2>1. CASE /\ table' = "gone"
             /\ early' = (early \/ (row.state = "quarantined" /\ now < row.evidence.until))
    <3>1. restores = 0 => Once'
      BY <2>0, <2>1 DEF QuarantineInv, Once
    <3>2. restores = 0 => ~(row.state = "quarantined" /\ now < row.evidence.until)
      BY <2>0 DEF QuarantineInv, Once, TypeOK, RowType, EvidenceType
    <3>3. early' => restores > 0
      <4>1. CASE early
        BY <4>1 DEF QuarantineInv, DroppedAfterQuarantine
      <4>2. CASE row.state = "quarantined" /\ now < row.evidence.until
        BY <1>00, <3>2, <4>2
      <4> QED BY <2>1, <4>1, <4>2
    <3> QED BY <2>0, <3>1, <3>3 DEF QuarantineInv, DroppedAfterQuarantine
  <2>2. CASE UNCHANGED <<table, early>>
    BY <2>0, <2>2 DEF QuarantineInv, Once, DroppedAfterQuarantine
  <2> QED BY <1>6, <2>1, <2>2, DropSteps
<1>7. ASSUME NEW p \in Operators, Crash(p) PROVE QuarantineInv'
  BY <1>3, <1>7 DEF Crash
<1>8. CASE Next
  BY <1>8, <1>1, <1>2, <1>4, <1>5, <1>6, <1>7 DEF Next
<1> QED BY <1>1, <1>8

-----------------------------------------------------------------------------
(* The theorems.                                                           *)

RetirementInv == TypeOK /\ Validated /\ Guarded /\ PlaceInv /\ QuarantineInv

LEMMA Inductive == Spec => []RetirementInv
<1>1. Init => RetirementInv
  BY InitType, InitGuarded, InitPlace DEF RetirementInv
<1>2. RetirementInv /\ [Next]_vars => RetirementInv'
  BY StepType, StepGuarded, StepPlace, StepQuarantine DEF RetirementInv
<1> QED BY <1>1, <1>2, PTL DEF Spec

\* Types hold, and a record in quarantine, or dropped, has the end of its
\* quarantine, whatever evidence operators submit (Advance).
THEOREM TypeCorrect == Spec => []TypeOK
<1>1. RetirementInv => TypeOK
  BY DEF RetirementInv
<1> QED BY <1>1, Inductive, PTL

\* The record tells that writes are refused and that the table is under its name
\* until observation is complete, and between calls that did not die or cross
\* where it is, for any number of operators and any evidence (Advance, Execute).
THEOREM RecordTellsPlaceCorrect == Spec => []RecordTellsPlace
<1>1. RetirementInv => RecordTellsPlace
  <2>1. ASSUME RetirementInv, Idle, faults = 0, ~crossed
        PROVE  /\ row.state = "quarantined" => table = "quarantine"
               /\ row.state = "observation_complete" => table = "original"
    <3>1. Hiding = {} /\ Restoring = {} /\ Dropping = {}
      BY <2>1 DEF Idle, Hiding, Restoring, Dropping
    <3> QED BY <2>1, <3>1 DEF RetirementInv, PlaceInv, Accounted, Ended
  <2>2. ASSUME RetirementInv
        PROVE  /\ row.state \in From("writes_disabled") => protected
               /\ row.state \notin From("observation_complete") \cup {"blocked"} =>
                    table = "original"
    BY <2>2 DEF RetirementInv, Guarded, Past
  <2> QED BY <2>1, <2>2 DEF RecordTellsPlace
<1> QED BY <1>1, Inductive, PTL

\* A table that was never restored is not dropped before its quarantine has ended,
\* however long ago the drop was asked for (Execute, ExecuteDatabaseRetirement).
THEOREM DroppedAfterQuarantineCorrect == Spec => []DroppedAfterQuarantine
<1>1. RetirementInv => DroppedAfterQuarantine
  BY DEF RetirementInv, QuarantineInv
<1> QED BY <1>1, Inductive, PTL

\* The record goes through the order one state at a time, back from quarantine, or
\* is blocked for good (TransitionDatabaseRetirement).
THEOREM StepByStepCorrect == Spec => StepByStep
<1> DEFINE Ordered ==
      row'.state # row.state =>
        \/ row.state = "none" /\ row'.state = "discovered"
        \/ row.state = "quarantined" /\ row'.state = "blocked"
        \/ row'.state \in States /\ Follows(row, row'.state)
<1>1. RetirementInv /\ [Next]_vars => [Ordered]_vars
  <2> SUFFICES ASSUME RetirementInv, Next, row'.state # row.state PROVE Ordered
    OBVIOUS
  <2>0. TypeOK /\ Validated
    BY DEF RetirementInv
  <2>1. CASE Discover \/ RecordAccess \/ ChangeDependents \/ Tick
    BY <2>0, <2>1, AroundSteps
  <2>2. CASE \E p \in Operators : RecordTransition(p)
    <3>1. PICK p \in Operators : RecordTransition(p)
      BY <2>2
    <3>2. /\ row.state = old[p].state /\ row' = new[p]
          /\ \/ <<old[p].state, new[p].state>> \in Moves
             \/ old[p].state = "quarantined" /\ new[p].state = "blocked"
      BY <2>0, <3>1, RecordSteps
    <3>3. CASE <<old[p].state, new[p].state>> \in Moves
      <4>1. new[p].state \in States
        BY <3>3, StateIndex DEF Moves
      <4> QED BY <3>2, <3>3, <4>1, Successors
    <3> QED BY <3>2, <3>3
  <2>3. CASE ~(\E p \in Operators : RecordTransition(p)) /\
             ~(Discover \/ RecordAccess \/ ChangeDependents \/ Tick)
    <3>1. row' = row
      BY <2>3 DEF Next, BeginAdvance, ApplyTransition, BeginExecute, Preview, DropTable, Crash
    <3> QED BY <3>1
  <2> QED BY <2>1, <2>2, <2>3
<1> QED BY <1>1, Inductive, PTL DEF Spec, StepByStep
=============================================================================
