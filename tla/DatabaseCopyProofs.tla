------------------------- MODULE DatabaseCopyProofs -------------------------
(***************************************************************************)
(* Proofs about DatabaseCopy, for any number of tables, keys, rows and     *)
(* copiers, every rounding of keys, all batch sizes and maxima of batches, *)
(* and every number of writes, runs and faults.                            *)
(***************************************************************************)
EXTENDS DatabaseCopy, FiniteSetTheorems, WellFoundedInduction, TLAPS

USE DEF dataVars, copyVars, finalVars

-----------------------------------------------------------------------------
(* Least and greatest elements, and counting.                              *)

LEMMA LeastExists ==
  ASSUME NEW S, S \subseteq Nat, S # {}
  PROVE  \E x \in S : \A y \in S : x <= y
<1> DEFINE R == OpToRel(<, Nat)
<1>1. IsWellFoundedOn(R, Nat)
  BY NatLessThanWellFounded
<1>2. \A a, b \in Nat : a < b => <<a, b>> \in R
  BY DEF OpToRel
<1> HIDE DEF R
<1>3. PICK x \in S : \A y \in S : ~ (<<y, x>> \in R)
  BY <1>1, WFMin
<1>4. \A y \in S : x <= y
  <2> TAKE y \in S
  <2>1. x \in Nat /\ y \in Nat
    OBVIOUS
  <2>2. ~(y < x)
    BY <1>2, <1>3, <2>1
  <2> QED BY <2>1, <2>2
<1> QED BY <1>4

LEMMA MinIsLeast ==
  ASSUME NEW S, S \subseteq Nat, S # {}
  PROVE  Min(S) \in S /\ \A y \in S : Min(S) <= y
BY LeastExists DEF Min

LEMMA MaxIsGreatest ==
  ASSUME NEW S, S \subseteq Nat, S # {}, NEW b \in Nat, \A y \in S : y <= b
  PROVE  Max(S) \in S /\ \A y \in S : y <= Max(S)
<1> DEFINE U == {m \in Nat : \A y \in S : y <= m}
<1>1. PICK m \in U : \A n \in U : m <= n
  <2>1. U # {} /\ U \subseteq Nat
    OBVIOUS
  <2> HIDE DEF U
  <2> QED BY <2>1, LeastExists
<1>2. m \in Nat /\ \A y \in S : y <= m /\ y \in Nat
  OBVIOUS
<1>3. m \in S
  <2> SUFFICES ASSUME m \notin S PROVE FALSE
    OBVIOUS
  <2>1. \A y \in S : y <= m - 1
    BY <1>2
  <2>2. m - 1 \in Nat
    <3>1. PICK y \in S : TRUE
      OBVIOUS
    <3> QED BY <1>2, <2>1, <3>1
  <2>3. m - 1 \in U
    BY <2>1, <2>2
  <2> QED BY <1>1, <1>2, <2>3
<1>4. \E x \in S : \A y \in S : x >= y
  BY <1>2, <1>3
<1>5. Max(S) \in S /\ \A y \in S : Max(S) >= y
  BY <1>4 DEF Max
<1> QED BY <1>2, <1>5

\* The maxima of finitely many copiers are bounded: a smallest set of copiers
\* without a bound would have one after all.
LEMMA MostType == Most \in Nat
<1> DEFINE Bounded(T) == \E b \in Nat : \A c \in T : MaxBatches[c] <= b
           D == {n \in Nat : \E T \in SUBSET Copiers : Cardinality(T) = n /\ ~Bounded(T)}
<1>0. IsFiniteSet(Copiers) /\ Copiers # {} /\ \A c \in Copiers : MaxBatches[c] \in Nat
  BY NumberAssumption, RowAssumption
<1>1. Bounded(Copiers)
  <2> SUFFICES ASSUME ~Bounded(Copiers) PROVE FALSE
    OBVIOUS
  <2>1. Cardinality(Copiers) \in D
    BY <1>0, FS_CardinalityType
  <2>2. PICK n \in D : \A m \in D : n <= m
    <3>1. D \subseteq Nat /\ D # {}
      BY <2>1
    <3> HIDE DEF D
    <3> QED BY <3>1, LeastExists
  <2>3. PICK T \in SUBSET Copiers : Cardinality(T) = n /\ ~Bounded(T)
    OBVIOUS
  <2>4. IsFiniteSet(T)
    BY <1>0, FS_Subset
  <2>5. PICK x \in T : TRUE
    <3>1. CASE T = {}
      BY <2>3, <3>1
    <3> QED BY <3>1
  <2>6. Cardinality(T \ {x}) = n - 1 /\ n - 1 \in Nat
    <3>1. IsFiniteSet(T \ {x}) /\ Cardinality(T \ {x}) = Cardinality(T) - 1
      BY <2>4, <2>5, FS_RemoveElement
    <3>2. Cardinality(T \ {x}) \in Nat
      BY <3>1, FS_CardinalityType
    <3> QED BY <2>3, <3>1, <3>2
  <2>7. Bounded(T \ {x})
    <3>1. ~(n <= n - 1)
      BY <2>6
    <3>2. n - 1 \notin D
      BY <2>2, <3>1
    <3> QED BY <2>6, <3>2
  <2>8. PICK b \in Nat : \A c \in T \ {x} : MaxBatches[c] <= b
    BY <2>7
  <2>9. \A c \in T : MaxBatches[c] <= b + MaxBatches[x]
    <3> TAKE c \in T
    <3>1. MaxBatches[c] \in Nat /\ MaxBatches[x] \in Nat
      BY <1>0, <2>5
    <3> QED BY <2>8, <3>1
  <2>10. b + MaxBatches[x] \in Nat
    BY <1>0, <2>5
  <2> QED BY <2>3, <2>9, <2>10
<1>2. PICK b \in Nat : \A c \in Copiers : MaxBatches[c] <= b
  BY <1>1
<1> DEFINE S == {MaxBatches[c] : c \in Copiers}
<1>3. S \subseteq Nat /\ S # {} /\ \A y \in S : y <= b
  BY <1>0, <1>2
<1> HIDE DEF S
<1>4. Max(S) \in Nat
  BY <1>3, MaxIsGreatest
<1> QED BY <1>4 DEF Most, S

LEMMA KeySets ==
  ASSUME NEW S, S \subseteq Keys
  PROVE  /\ IsFiniteSet(S) /\ Cardinality(S) \in 0..MaxKey
         /\ \A T \in SUBSET S : Cardinality(T) <= Cardinality(S)
         /\ S # {} => Max(S) \in S /\ \A k \in S : k <= Max(S)
<1>1. MaxKey \in Nat /\ Keys = 1..MaxKey /\ Keys \subseteq Nat
  BY NumberAssumption DEF Keys
<1>2. IsFiniteSet(Keys) /\ Cardinality(Keys) = MaxKey
  BY <1>1, NumberAssumption, FS_Interval
<1>3. IsFiniteSet(S) /\ Cardinality(S) <= MaxKey
  BY <1>2, FS_Subset
<1>4. Cardinality(S) \in Nat
  BY <1>3, FS_CardinalityType
<1>5. \A T \in SUBSET S : Cardinality(T) <= Cardinality(S)
  BY <1>3, FS_Subset
<1>6. \A k \in S : k <= MaxKey
  BY <1>1
<1>7. S # {} => Max(S) \in S /\ \A k \in S : k <= Max(S)
  BY <1>1, <1>6, MaxIsGreatest
<1> QED BY <1>1, <1>3, <1>4, <1>5, <1>7

\* LIMIT: the first n keys of a set.  A key beyond them comes after all of
\* them, and then they are at least n.
FirstKeys(found, n) == {k \in found : Cardinality({j \in found : j < k}) < n}

LEMMA Limit ==
  ASSUME NEW found, found \subseteq Keys, NEW n \in Nat,
         NEW k \in found, k \notin FirstKeys(found, n)
  PROVE  /\ \A j \in FirstKeys(found, n) : j < k
         /\ Cardinality(FirstKeys(found, n)) >= n
<1> DEFINE Before(x) == {j \in found : j < x}
           first == FirstKeys(found, n)
           Beyond == {x \in found : Cardinality(Before(x)) >= n}
<1>0. Keys \subseteq Nat
  BY NumberAssumption DEF Keys
<1>1. found \subseteq Nat /\ first \subseteq found /\ first \subseteq Keys
  BY <1>0 DEF FirstKeys
<1>2. \A x : Before(x) \subseteq Keys
  OBVIOUS
<1>3. \A x : Cardinality(Before(x)) \in Nat
  <2> TAKE x
  <2> DEFINE B == Before(x)
  <2>1. B \subseteq Keys
    BY <1>2
  <2> HIDE DEF B
  <2>2. Cardinality(B) \in 0..MaxKey
    BY <2>1, KeySets
  <2> QED BY <2>2 DEF B
<1>4. first = {x \in found : Cardinality(Before(x)) < n}
  BY DEF FirstKeys
<1>5. k \in Beyond
  BY <1>3, <1>4
<1>6. \A j \in first : j < k
  <2> SUFFICES ASSUME NEW j \in first, ~(j < k) PROVE FALSE
    OBVIOUS
  <2> DEFINE Bk == Before(k)
             Bj == Before(j)
  <2>1. j \in found /\ k \in Nat /\ j \in Nat
    BY <1>1
  <2>2. Bk \subseteq Bj /\ Bj \subseteq Keys
    <3> SUFFICES ASSUME NEW i \in Bk PROVE i \in Bj
      BY <1>2
    <3>1. i \in found /\ i < k /\ i \in Nat
      BY <1>1
    <3> QED BY <2>1, <3>1
  <2>3. Cardinality(Bk) >= n /\ Cardinality(Bj) < n
    BY <1>4, <1>5
  <2>4. Cardinality(Bk) \in Nat /\ Cardinality(Bj) \in Nat
    BY <1>3
  <2> HIDE DEF Bk, Bj
  <2>5. Cardinality(Bk) <= Cardinality(Bj)
    BY <2>2, KeySets
  <2> QED BY <2>3, <2>4, <2>5
<1>7. Cardinality(first) >= n
  <2>1. PICK x \in Beyond : \A y \in Beyond : x <= y
    <3>1. Beyond \subseteq Nat /\ Beyond # {}
      BY <1>1, <1>5
    <3> HIDE DEF Beyond
    <3> QED BY <3>1, LeastExists
  <2> DEFINE B == Before(x)
  <2>2. x \in Nat /\ Cardinality(B) >= n /\ Cardinality(B) \in Nat
    BY <1>1, <1>3, <2>1
  <2>3. B \subseteq first
    <3> SUFFICES ASSUME NEW j \in B, j \notin first PROVE FALSE
      OBVIOUS
    <3>1. j \in found /\ j < x /\ j \in Nat
      BY <1>1
    <3>2. j \in Beyond
      BY <1>3, <1>4, <3>1
    <3> QED BY <2>1, <2>2, <3>1, <3>2
  <2> HIDE DEF B
  <2>4. Cardinality(B) <= Cardinality(first) /\ Cardinality(first) \in 0..MaxKey
    BY <1>1, <2>3, KeySets DEF FirstKeys
  <2> QED BY <2>2, <2>4, NumberAssumption
<1> QED BY <1>6, <1>7

-----------------------------------------------------------------------------
(* Types and the lease.                                                    *)

Copying == {"copy", "read", "save", "pause", "stop"}
Plans == {NoPlan} \cup [Tables -> 0..MaxKey]
Checks == [stage : {"idle", "source", "target", "add", "validate"}, table : Tables,
           rows : Rows, current : BOOLEAN, quiet : BOOLEAN]

\* What TypeOK does not say: stages, plans, the lease and the check; a run
\* between reading and committing a batch has a table to copy.
RunType ==
  /\ stage \in [Copiers -> {"idle", "reset", "run"} \cup Copying]
  /\ plan \in [Copiers -> Plans] /\ lease \in Copiers \cup {NoCopier}
  /\ check \in Checks
  /\ \A c \in Copiers : stage[c] = "read" => Pending(c) # {}
  /\ \A c \in Copiers : stage[c] = "idle" => c \notin final
  /\ \A c \in Copiers : stage[c] = "reset" => stopped

Stages == {"idle", "reset", "run"} \cup Copying

\* The two type predicates, sorted by what they are about.
DataType ==
  /\ source \in [Tables -> Rows] /\ target \in [Tables -> Rows]
  /\ stopped \in BOOLEAN /\ finalized \in BOOLEAN
  /\ constraint \in [Tables -> {"none", "added", "valid"}]
  /\ planned \in [Tables -> 0..MaxKey] /\ file \in Checkpoints
  /\ delta \in BOOLEAN /\ interfered \in BOOLEAN
  /\ touched \subseteq Tables \X Keys
  /\ writes \in 0..MaxWrites /\ events \in 0..MaxEvents /\ check \in Checks

CopierType ==
  /\ mem \in [Copiers -> Checkpoints] /\ batch \in [Copiers -> Rows]
  /\ stage \in [Copiers -> Stages] /\ plan \in [Copiers -> Plans]
  /\ final \subseteq Copiers /\ lease \in Copiers \cup {NoCopier}

LeaseOf(c) == lease = c <=> stage[c] \in Copying

RunOf(c) ==
  /\ stage[c] = "read" => Pending(c) # {}
  /\ stage[c] = "idle" => c \notin final
  /\ stage[c] = "reset" => stopped

CopierInv == \A c \in Copiers : LeaseOf(c) /\ RunOf(c)

LEMMA TypeParts == TypeOK /\ RunType <=> DataType /\ CopierType /\ CopierInv
<1>1. ASSUME stage \in [Copiers -> Stages], NEW c \in Copiers
      PROVE  stage[c] \notin {"idle", "reset", "run"} <=> stage[c] \in Copying
  BY <1>1 DEF Stages, Copying
<1> QED BY <1>1 DEF TypeOK, RunType, DataType, CopierType, CopierInv, LeaseOf, RunOf, Stages

LEMMA PartsNext ==
  ASSUME DataType', CopierType', CopierInv'
  PROVE  TypeOK' /\ RunType'
BY TypeParts, PTL

LEMMA Kinds ==
  /\ NoRows \in Rows /\ Fresh \in Checkpoints /\ NoCheck \in Checks
  /\ Source0 \in [Tables -> Rows] /\ 1 \in Tables
  /\ \A t \in Tables, k \in Keys : Writable[t][k] \subseteq Versions
<1>1. 0 \in Versions /\ 1 \in Tables
  BY NumberAssumption DEF Versions, Tables
<1>2. ASSUME NEW t \in Tables, NEW k \in Keys
      PROVE  Writable[t][k] \subseteq Versions /\ Source0[t][k] \in Versions
  <2> DEFINE all == {Writable[u][j] \cup {Source0[u][j]} : u \in Tables, j \in Keys}
             some == Writable[t][k] \cup {Source0[t][k]}
  <2>1. some \in all
    OBVIOUS
  <2>2. Versions = {0} \cup UNION all
    BY DEF Versions
  <2>3. Writable[t][k] \subseteq some /\ Source0[t][k] \in some
    OBVIOUS
  <2> HIDE DEF all, some
  <2> QED BY <2>1, <2>2, <2>3
<1>3. NoRows \in Rows
  BY <1>1 DEF NoRows, Rows
<1>4. Source0 \in [Tables -> Rows]
  BY <1>2, RowAssumption DEF Rows
<1>5. Fresh \in Checkpoints
  BY MostType, NumberAssumption DEF Fresh, Checkpoints
<1>6. NoCheck \in Checks
  BY <1>1, <1>3 DEF NoCheck, Checks
<1> QED BY <1>1, <1>2, <1>3, <1>4, <1>5, <1>6

LEMMA PlanType == ASSUME NEW rows PROVE PlanOf(rows) \in [Tables -> 0..MaxKey]
<1>1. \A t \in Tables : Cardinality({k \in Keys : rows[t][k] # 0}) \in 0..MaxKey
  <2> TAKE t \in Tables
  <2> DEFINE S == {k \in Keys : rows[t][k] # 0}
  <2>1. S \subseteq Keys
    OBVIOUS
  <2> HIDE DEF S
  <2>2. Cardinality(S) \in 0..MaxKey
    BY <2>1, KeySets
  <2> QED BY <2>2 DEF S
<1> QED BY <1>1 DEF PlanOf

LEMMA InitTypes == Init => TypeOK /\ RunType
<1> SUFFICES ASSUME Init PROVE DataType /\ CopierType /\ CopierInv
  BY TypeParts
<1>1. DataType
  <2>1. target \in [Tables -> Rows] /\ planned \in [Tables -> 0..MaxKey]
    BY Kinds, PlanType DEF Init
  <2>2. writes \in 0..MaxWrites /\ events \in 0..MaxEvents
    BY NumberAssumption DEF Init
  <2> QED BY <2>1, <2>2, Kinds DEF Init, DataType
<1>2. CopierType
  BY Kinds DEF Init, CopierType, Stages, Plans
<1>3. CopierInv
  BY RowAssumption DEF Init, CopierInv, LeaseOf, RunOf, Copying
<1> QED BY <1>1, <1>2, <1>3

\* Only copier c moves.
Only(c) ==
  \A d \in Copiers \ {c} :
    /\ stage'[d] = stage[d] /\ mem'[d] = mem[d] /\ batch'[d] = batch[d]
    /\ d \in final' <=> d \in final

LEMMA Returning ==
  ASSUME TypeOK, RunType, NEW c \in Copiers, Return(c)
  PROVE  /\ Only(c) /\ CopierType' /\ stage'[c] = "idle" /\ c \notin final'
         /\ lease' = IF lease = c THEN NoCopier ELSE lease
<1>1. CopierType
  BY TypeParts
<1>2. /\ stage' = [stage EXCEPT ![c] = "idle"] /\ final' = final \ {c}
      /\ lease' = IF lease = c THEN NoCopier ELSE lease
      /\ plan' = [plan EXCEPT ![c] = NoPlan] /\ mem' = [mem EXCEPT ![c] = Fresh]
      /\ batch' = [batch EXCEPT ![c] = NoRows]
  BY DEF Return, Goto
<1>3. Only(c)
  BY <1>1, <1>2 DEF Only, CopierType
<1>4. CopierType'
  <2>1. mem' \in [Copiers -> Checkpoints] /\ batch' \in [Copiers -> Rows]
    BY <1>1, <1>2, Kinds DEF CopierType
  <2>2. stage' \in [Copiers -> Stages] /\ plan' \in [Copiers -> Plans]
    BY <1>1, <1>2 DEF CopierType, Stages, Plans
  <2>3. final' \subseteq Copiers /\ lease' \in Copiers \cup {NoCopier}
    BY <1>1, <1>2 DEF CopierType
  <2> QED BY <2>1, <2>2, <2>3 DEF CopierType
<1>5. stage'[c] = "idle" /\ c \notin final'
  BY <1>1, <1>2 DEF CopierType
<1> QED BY <1>2, <1>3, <1>4, <1>5

LEMMA ReturnTyped ==
  ASSUME TypeOK, RunType, NEW c \in Copiers, Return(c), DataType', stopped' = stopped
  PROVE  TypeOK' /\ RunType'
<1>1. CopierInv /\ lease \in Copiers \cup {NoCopier} /\ NoCopier \notin Copiers
  BY TypeParts, RowAssumption DEF CopierType
<1>2. ASSUME NEW d \in Copiers PROVE LeaseOf(d)' /\ RunOf(d)'
  <2>1. CASE d = c
    BY <1>1, <2>1, Returning DEF LeaseOf, RunOf, Copying
  <2>2. CASE d # c
    <3>1. LeaseOf(d)'
      BY <1>1, <2>2, Returning DEF LeaseOf, CopierInv, Only
    <3>2. RunOf(d)'
      BY <1>1, <2>2, Returning DEF RunOf, CopierInv, Only, Pending
    <3> QED BY <3>1, <3>2
  <2> QED BY <2>1, <2>2
<1>3. CopierInv'
  BY <1>2 DEF CopierInv
<1>4. CopierType'
  BY Returning
<1> QED BY <1>3, <1>4, PartsNext

\* A copier moves on within its run.
LEMMA Moving ==
  ASSUME TypeOK, RunType, NEW c \in Copiers, NEW s \in Stages, Goto(c, s),
         UNCHANGED <<mem, batch, final>>
  PROVE  stage' = [stage EXCEPT ![c] = s] /\ stage'[c] = s /\ Only(c)
BY TypeParts DEF Goto, CopierType, Only

LEMMA MoveTyped ==
  ASSUME TypeOK, RunType, NEW c \in Copiers, DataType', CopierType', Only(c),
         LeaseOf(c)', RunOf(c)', stopped' = stopped,
         \A d \in Copiers \ {c} : lease' = d <=> lease = d
  PROVE  TypeOK' /\ RunType'
<1>1. CopierInv
  BY TypeParts
<1>2. ASSUME NEW d \in Copiers, d # c PROVE LeaseOf(d)' /\ RunOf(d)'
  <2>1. LeaseOf(d)'
    BY <1>1, <1>2 DEF LeaseOf, CopierInv, Only
  <2>2. RunOf(d)'
    BY <1>1, <1>2 DEF RunOf, CopierInv, Only, Pending
  <2> QED BY <2>1, <2>2
<1>3. CopierInv'
  BY <1>2 DEF CopierInv
<1> QED BY <1>3, PartsNext

LEMMA TableType ==
  ASSUME CopierType, NEW c \in Copiers, Pending(c) # {}
  PROVE  TableOf(c) \in Tables /\ TableOf(c) \in Pending(c)
<1>1. Pending(c) \subseteq Tables /\ Pending(c) \subseteq Nat
  BY NumberAssumption DEF Pending, Tables
<1>2. Min(Pending(c)) \in Pending(c)
  BY <1>1, MinIsLeast
<1> QED BY <1>1, <1>2 DEF TableOf

LEMMA Advances ==
  ASSUME CopierType, NEW c \in Copiers, Pending(c) # {}, NEW keys, keys \subseteq Keys
  PROVE  LET t == TableOf(c)
             new == Advanced(c, keys)
         IN  /\ new \in Checkpoints
             /\ new.last[t] = IF keys = {} THEN mem[c].last[t] ELSE Max(keys)
             /\ new.done[t] = LastBatch(Cardinality(keys))
             /\ \A u \in Tables \ {t} :
                  new.last[u] = mem[c].last[u] /\ new.done[u] = mem[c].done[u]
<1> DEFINE t == TableOf(c)
           old == mem[c]
           last == IF keys = {} THEN old.last[t] ELSE Max(keys)
           done == LastBatch(Cardinality(keys))
           batches == IF old.batches < Most THEN old.batches + 1 ELSE old.batches
<1>1. t \in Tables
  BY TableType
<1>2. old \in Checkpoints
  BY DEF CopierType
<1>3. last \in 0..MaxKey
  <2>1. old.last[t] \in 0..MaxKey
    BY <1>1, <1>2 DEF Checkpoints
  <2>2. keys # {} => Max(keys) \in Keys
    BY KeySets
  <2> QED BY <2>1, <2>2, NumberAssumption DEF Keys
<1>4. done \in BOOLEAN
  BY DEF LastBatch
<1>5. batches \in 0..Most
  <2>1. old.batches \in 0..Most
    BY <1>2 DEF Checkpoints
  <2> HIDE DEF old
  <2> QED BY <2>1, MostType
<1>6. Advanced(c, keys) = [old EXCEPT !.last[t] = last, !.done[t] = done, !.batches = batches]
  BY DEF Advanced
<1> HIDE DEF t, old, last, done, batches
<1>7. Advanced(c, keys) = [old EXCEPT !.last = [old.last EXCEPT ![t] = last],
                                      !.done = [old.done EXCEPT ![t] = done],
                                      !.batches = batches]
  BY <1>2, <1>6 DEF Checkpoints
<1>8. /\ [old.last EXCEPT ![t] = last] \in [Tables -> 0..MaxKey]
      /\ [old.done EXCEPT ![t] = done] \in [Tables -> BOOLEAN]
  BY <1>1, <1>2, <1>3, <1>4 DEF Checkpoints
<1>9. Advanced(c, keys) \in Checkpoints
  BY <1>2, <1>5, <1>7, <1>8 DEF Checkpoints
<1>10. /\ Advanced(c, keys).last = [old.last EXCEPT ![t] = last]
       /\ Advanced(c, keys).done = [old.done EXCEPT ![t] = done]
  BY <1>2, <1>7 DEF Checkpoints
<1>11. /\ Advanced(c, keys).last[t] = last /\ Advanced(c, keys).done[t] = done
       /\ \A u \in Tables \ {t} : Advanced(c, keys).last[u] = old.last[u]
                                  /\ Advanced(c, keys).done[u] = old.done[u]
  BY <1>1, <1>2, <1>10 DEF Checkpoints
<1> QED BY <1>9, <1>11 DEF t, old, last, done

LEMMA ClearedFields ==
  ASSUME NEW checkpoint \in Checkpoints
  PROVE  /\ Cleared(checkpoint) \in Checkpoints
         /\ \A t \in Tables : Cleared(checkpoint).last[t] = 0 /\ ~Cleared(checkpoint).done[t]
<1>1. /\ Fresh.last \in [Tables -> 0..MaxKey] /\ Fresh.done \in [Tables -> BOOLEAN]
      /\ \A t \in Tables : Fresh.last[t] = 0 /\ Fresh.done[t] = FALSE
  BY NumberAssumption DEF Fresh
<1>2. /\ Cleared(checkpoint).last = Fresh.last /\ Cleared(checkpoint).done = Fresh.done
      /\ Cleared(checkpoint) \in Checkpoints
  BY <1>1 DEF Cleared, Checkpoints
<1> QED BY <1>1, <1>2

\* A run is started, with an old or a new plan.
LEMMA StartTypes ==
  ASSUME TypeOK, RunType, NEW c \in Copiers, NEW again \in BOOLEAN,
         StartRun(c, again) \/ StartFinalDelta(c, again)
  PROVE  TypeOK' /\ RunType'
<1>0. DataType /\ CopierType /\ CopierInv
  BY TypeParts
<1>1. planned' \in [Tables -> 0..MaxKey] /\ plan' = [plan EXCEPT ![c] = planned']
  BY <1>0, PlanType DEF StartRun, StartFinalDelta, WithPlan, DataType
<1>2. plan' \in [Copiers -> Plans]
  BY <1>0, <1>1 DEF CopierType, Plans
<1>3. events' \in 0..MaxEvents
  BY <1>0, NumberAssumption DEF StartRun, StartFinalDelta, Event, DataType
<1>4. DataType'
  BY <1>0, <1>1, <1>3 DEF StartRun, StartFinalDelta, DataType
<1>5. stage[c] = "idle" /\ c \notin final
  BY <1>0 DEF StartRun, StartFinalDelta, CopierInv, RunOf
<1>6. CASE StartRun(c, again)
  <2>1. CopierType'
    BY <1>0, <1>2, <1>6 DEF StartRun, CopierType, Goto, Stages
  <2>2. stage'[c] = "run" /\ Only(c)
    BY <1>6, Moving DEF StartRun, Stages
  <2>3. LeaseOf(c)' /\ RunOf(c)'
    BY <1>0, <1>5, <1>6, <2>2 DEF StartRun, LeaseOf, CopierInv, RunOf, Copying
  <2> QED BY <1>4, <1>6, <2>1, <2>2, <2>3, MoveTyped DEF StartRun
<1>7. CASE StartFinalDelta(c, again)
  <2>1. /\ stage' = [stage EXCEPT ![c] = "reset"] /\ mem' = [mem EXCEPT ![c] = file]
        /\ final' = final \cup {c} /\ UNCHANGED <<lease, batch, stopped>> /\ stopped
    BY <1>7 DEF StartFinalDelta, Goto
  <2>2. CopierType'
    BY <1>0, <1>2, <2>1 DEF CopierType, DataType, Stages
  <2>3. stage'[c] = "reset" /\ Only(c)
    BY <1>0, <2>1 DEF CopierType, Only
  <2>4. LeaseOf(c)' /\ RunOf(c)'
    BY <1>0, <1>5, <2>1, <2>3 DEF LeaseOf, CopierInv, RunOf, Copying
  <2> QED BY <1>4, <2>1, <2>2, <2>3, <2>4, MoveTyped
<1> QED BY <1>6, <1>7

LEMMA RunTypes ==
  ASSUME TypeOK, RunType, NEW c \in Copiers, Step(c) \/ AbortRun(c)
  PROVE  TypeOK' /\ RunType'
<1>0. DataType /\ CopierType /\ CopierInv
  BY TypeParts
<1>00. /\ lease \in Copiers \cup {NoCopier} /\ NoCopier \notin Copiers
       /\ mem[c] \in Checkpoints /\ file \in Checkpoints
  BY <1>0, RowAssumption DEF CopierType, DataType
<1>000. \A checkpoint \in Checkpoints, p \in Plans, s \in {"", "running", "paused", "completed"} :
          /\ [checkpoint EXCEPT !.state = s] \in Checkpoints
          /\ [checkpoint EXCEPT !.plan = p, !.state = s] \in Checkpoints
          /\ Cleared(checkpoint) \in Checkpoints
  BY ClearedFields DEF Checkpoints, Plans
<1>1. CASE SaveReset(c)
  <2>1. stage[c] = "reset" /\ file' \in Checkpoints /\ interfered' \in BOOLEAN /\ stopped
    BY <1>0, <1>00, <1>000, <1>1 DEF SaveReset, Plans, CopierInv, RunOf
  <2>2. DataType'
    BY <1>0, <1>1, <2>1 DEF SaveReset, DataType
  <2>3. stage' = [stage EXCEPT ![c] = "run"] /\ stage'[c] = "run" /\ Only(c)
    BY <1>1, Moving DEF SaveReset, Stages
  <2>4. CopierType'
    BY <1>0, <1>1, <2>3 DEF SaveReset, CopierType, Stages
  <2>5. LeaseOf(c)' /\ RunOf(c)'
    BY <1>0, <1>1, <2>1, <2>3 DEF SaveReset, LeaseOf, CopierInv, RunOf, Copying
  <2> QED BY <1>1, <2>2, <2>3, <2>4, <2>5, MoveTyped DEF SaveReset
<1>2. CASE BeginRun(c)
  <2>0. DataType' /\ stopped' = stopped /\ stage[c] = "run"
    BY <1>0, <1>2 DEF BeginRun, DataType
  <2>1. CASE Return(c)
    BY <2>0, <2>1, ReturnTyped
  <2>2. CASE /\ lease = NoCopier /\ lease' = c
             /\ mem' = [mem EXCEPT ![c] = [file EXCEPT !.plan = plan[c], !.state = "running"]]
             /\ Goto(c, "copy") /\ UNCHANGED <<plan, batch, final>>
    <3>1. mem' \in [Copiers -> Checkpoints]
      <4>1. [file EXCEPT !.plan = plan[c], !.state = "running"] \in Checkpoints
        BY <1>0, <1>00, <1>000 DEF CopierType
      <4> QED BY <1>0, <2>2, <4>1 DEF CopierType
    <3>2. stage' = [stage EXCEPT ![c] = "copy"]
      BY <2>2 DEF Goto
    <3>3. CopierType'
      BY <1>0, <2>2, <3>1, <3>2 DEF CopierType, Stages, Copying
    <3>4. stage'[c] = "copy" /\ Only(c)
      BY <1>0, <2>2, <3>2 DEF CopierType, Only
    <3>5. LeaseOf(c)' /\ RunOf(c)'
      BY <2>2, <3>4 DEF LeaseOf, RunOf, Copying
    <3> QED BY <1>00, <2>0, <2>2, <3>3, <3>4, <3>5, MoveTyped
  <2> QED BY <1>2, <2>1, <2>2 DEF BeginRun
<1>3. CASE ReadBatch(c)
  <2>0. DataType' /\ stopped' = stopped /\ stage[c] = "copy" /\ Pending(c) # {}
    BY <1>0, <1>3 DEF ReadBatch, DataType
  <2>1. CASE Return(c)
    BY <2>0, <2>1, ReturnTyped
  <2>2. CASE ~Return(c)
    <3> DEFINE rows == [k \in Keys |-> IF k \in Selected(c) THEN source[TableOf(c)][k] ELSE 0]
    <3>1. /\ batch' = [batch EXCEPT ![c] = rows] /\ stage' = [stage EXCEPT ![c] = "read"]
          /\ UNCHANGED <<lease, plan, mem, final>>
      BY <1>3, <2>2 DEF ReadBatch, Goto
    <3>2. rows \in Rows
      <4>1. source[TableOf(c)] \in Rows /\ 0 \in Versions
        BY <1>0, <2>0, TableType DEF DataType, Versions
      <4> QED BY <4>1 DEF Rows
    <3> HIDE DEF rows
    <3>3. CopierType'
      BY <1>0, <3>1, <3>2 DEF CopierType, Stages, Copying
    <3>4. stage'[c] = "read" /\ Only(c)
      BY <1>0, <3>1 DEF CopierType, Only
    <3>5. LeaseOf(c)' /\ RunOf(c)'
      BY <1>0, <2>0, <3>1, <3>4 DEF LeaseOf, RunOf, CopierInv, Copying, Pending
    <3> QED BY <2>0, <3>1, <3>3, <3>4, <3>5, MoveTyped
  <2> QED BY <2>1, <2>2
<1>4. CASE CommitBatch(c)
  <2> DEFINE t == TableOf(c)
             keys == {k \in Keys : batch[c][k] # 0}
             s == IF LastBatch(Cardinality(keys)) THEN "save" ELSE "pause"
  <2>1. /\ stage[c] = "read"
        /\ target' = [target EXCEPT ![t] =
             [k \in Keys |-> IF k \in keys THEN batch[c][k] ELSE target[t][k]]]
        /\ touched' \subseteq touched
        /\ mem' = [mem EXCEPT ![c] = Advanced(c, keys)]
        /\ batch' = [batch EXCEPT ![c] = NoRows]
        /\ stage' = [stage EXCEPT ![c] = s]
        /\ UNCHANGED <<source, stopped, file, lease, plan, final, delta, interfered,
                       finalVars, planned, writes, events>>
    <3>1. t \in Tables
      BY <1>0, <1>4, TableType DEF CommitBatch, CopierInv, RunOf
    <3> QED BY <1>0, <1>4, <3>1 DEF CommitBatch, Goto, DataType
  <2>2. t \in Tables /\ Pending(c) # {} /\ s \in {"save", "pause"}
    BY <1>0, <2>1, TableType DEF CopierInv, RunOf
  <2>3. target' \in [Tables -> Rows]
    <3>1. batch[c] \in Rows /\ target[t] \in Rows
      BY <1>0, <2>2 DEF CopierType, DataType
    <3>2. [k \in Keys |-> IF k \in keys THEN batch[c][k] ELSE target[t][k]] \in Rows
      BY <3>1 DEF Rows
    <3> QED BY <1>0, <2>1, <2>2, <3>2 DEF DataType
  <2>4. Advanced(c, keys) \in Checkpoints
    BY <1>0, <2>2, Advances
  <2> HIDE DEF t, keys, s
  <2>5. DataType'
    BY <1>0, <2>1, <2>3 DEF DataType
  <2>6. CopierType'
    <3>1. mem' \in [Copiers -> Checkpoints] /\ batch' \in [Copiers -> Rows]
      BY <1>0, <2>1, <2>4, Kinds DEF CopierType
    <3> QED BY <1>0, <2>1, <2>2, <3>1 DEF CopierType, Stages, Copying
  <2>7. stage'[c] = s /\ Only(c)
    BY <1>0, <2>1 DEF CopierType, Only
  <2>8. LeaseOf(c)' /\ RunOf(c)'
    BY <1>0, <2>1, <2>2, <2>7 DEF LeaseOf, RunOf, CopierInv, Copying
  <2> QED BY <2>1, <2>5, <2>6, <2>7, <2>8, MoveTyped
<1>5. CASE SaveCheckpoint(c)
  <2> DEFINE s == IF /\ stage[c] = "pause"
                     /\ MaxBatches[c] > 0 /\ mem[c].batches >= MaxBatches[c]
                  THEN "stop" ELSE "copy"
  <2>1. s \in {"stop", "copy"} /\ Goto(c, s) /\ stage[c] \in {"save", "pause"}
    BY <1>5 DEF SaveCheckpoint
  <2> HIDE DEF s
  <2>2. DataType'
    BY <1>0, <1>00, <1>5 DEF SaveCheckpoint, DataType
  <2>3. stage' = [stage EXCEPT ![c] = s] /\ stage'[c] = s /\ Only(c)
    BY <1>5, <2>1, Moving DEF SaveCheckpoint, Stages, Copying
  <2>4. CopierType'
    BY <1>0, <1>5, <2>1, <2>3 DEF SaveCheckpoint, CopierType, Stages, Copying
  <2>5. LeaseOf(c)' /\ RunOf(c)'
    BY <1>0, <1>5, <2>1, <2>3 DEF SaveCheckpoint, LeaseOf, CopierInv, RunOf, Copying
  <2> QED BY <1>5, <2>2, <2>3, <2>4, <2>5, MoveTyped DEF SaveCheckpoint
<1>6. CASE SavePaused(c) \/ FinishRun(c)
  <2>1. file' \in Checkpoints /\ delta' \in BOOLEAN
    BY <1>0, <1>00, <1>000, <1>6 DEF SavePaused, FinishRun, DataType, Plans
  <2>2. DataType' /\ Return(c) /\ stopped' = stopped
    BY <1>0, <1>6, <2>1 DEF SavePaused, FinishRun, DataType
  <2> QED BY <2>2, ReturnTyped
<1>7. CASE AbortRun(c)
  <2>1. events' \in 0..MaxEvents
    BY <1>0, <1>7, NumberAssumption DEF AbortRun, Event, DataType
  <2> QED BY <1>0, <1>7, <2>1, ReturnTyped DEF AbortRun, DataType
<1> QED BY <1>1, <1>2, <1>3, <1>4, <1>5, <1>6, <1>7 DEF Step

\* Steps that no copier takes.
LEMMA StillTyped ==
  ASSUME TypeOK, RunType, DataType', UNCHANGED <<lease, stage, plan, mem, batch, final>>,
         stopped => stopped'
  PROVE  TypeOK' /\ RunType'
<1>0. CopierType /\ CopierInv
  BY TypeParts
<1>1. CopierType'
  BY <1>0 DEF CopierType
<1>2. ASSUME NEW c \in Copiers PROVE LeaseOf(c)' /\ RunOf(c)'
  BY <1>0 DEF CopierInv, LeaseOf, RunOf, Pending
<1>3. CopierInv'
  BY <1>2 DEF CopierInv
<1> QED BY <1>1, <1>3, PartsNext

LEMMA CheckTypes ==
  ASSUME TypeOK, RunType, BeginFinalize \/ FinalizeStep \/ AbortFinalize
  PROVE  TypeOK' /\ RunType'
<1>0. DataType /\ check \in Checks /\ check.table \in Tables /\ NTables \in Nat /\ Tables = 1..NTables
  BY TypeParts, NumberAssumption DEF DataType, Checks, Tables
<1>1. ASSUME check' \in Checks, constraint' \in [Tables -> {"none", "added", "valid"}],
             finalized' \in BOOLEAN, events' \in 0..MaxEvents,
             UNCHANGED <<dataVars, copyVars, planned, touched, writes>>
      PROVE  TypeOK' /\ RunType'
  <2>1. DataType'
    BY <1>0, <1>1 DEF DataType
  <2> QED BY <1>1, <2>1, StillTyped
<1>2. ASSUME NEW s \in {"source", "target", "add", "validate"}, NEW rows \in Rows,
             NEW t \in Tables, NEW b \in BOOLEAN
      PROVE  /\ [check EXCEPT !.stage = s] \in Checks
             /\ [check EXCEPT !.stage = s, !.table = t] \in Checks
             /\ [check EXCEPT !.stage = s, !.rows = rows] \in Checks
             /\ [check EXCEPT !.stage = s, !.table = t, !.rows = rows] \in Checks
             /\ [check EXCEPT !.stage = s, !.table = t, !.rows = rows, !.current = b] \in Checks
  BY <1>0 DEF Checks
<1>21. ASSUME NEW q \in BOOLEAN
       PROVE  /\ [NoCheck EXCEPT !.stage = "source", !.quiet = q] \in Checks
              /\ [NoCheck EXCEPT !.quiet = q] \in Checks
  BY Kinds DEF Checks
<1>3. ASSUME NextTable PROVE check' \in Checks /\ finalized' \in BOOLEAN
  <2>1. CASE check.table < NTables
    <3>1. check.table + 1 \in Tables
      BY <1>0, <2>1
    <3> QED BY <1>0, <1>2, <1>3, <2>1, <3>1, Kinds DEF NextTable, DataType
  <2>2. CASE ~(check.table < NTables)
    <3>1. check.quiet \in BOOLEAN
      BY <1>0 DEF Checks
    <3> QED BY <1>21, <1>3, <2>2, <3>1 DEF NextTable
  <2> QED BY <2>1, <2>2
<1>4. CASE BeginFinalize
  <2> DEFINE q == \A c \in Copiers : batch[c] = NoRows
  <2>1. q \in BOOLEAN /\ check' = [NoCheck EXCEPT !.stage = "source", !.quiet = q]
    BY <1>4 DEF BeginFinalize
  <2> HIDE DEF q
  <2>2. check' \in Checks
    BY <1>21, <2>1
  <2> QED BY <1>0, <1>1, <1>4, <2>2 DEF BeginFinalize, DataType
<1>5. CASE DigestSource
  <2>1. source[check.table] \in Rows
    BY <1>0 DEF DataType
  <2>2. check' \in Checks
    BY <1>2, <1>5, <2>1, Kinds DEF DigestSource
  <2> QED BY <1>0, <1>1, <1>5, <2>2 DEF DigestSource, DataType
<1>6. CASE DigestTarget
  <2> DEFINE current == check.current /\ SameDigest(check.rows, target[check.table])
  <2>1. current \in BOOLEAN
    BY <1>0 DEF Checks, SameDigest
  <2>2. CASE check.table < NTables
    <3>1. check' = [check EXCEPT !.stage = "source", !.table = check.table + 1,
                                 !.rows = NoRows, !.current = current]
      BY <1>6, <2>2 DEF DigestTarget
    <3>2. check.table + 1 \in Tables
      BY <1>0, <2>2
    <3> HIDE DEF current
    <3>3. check' \in Checks
      BY <1>2, <2>1, <3>1, <3>2, Kinds
    <3> QED BY <1>0, <1>1, <1>6, <3>3 DEF DigestTarget, DataType
  <2>3. CASE ~(check.table < NTables)
    <3>1. \/ check' = [check EXCEPT !.stage = "add", !.table = 1, !.rows = NoRows]
          \/ check' = NoCheck
      BY <1>6, <2>3 DEF DigestTarget
    <3>2. [check EXCEPT !.stage = "add", !.table = 1, !.rows = NoRows] \in Checks
      BY <1>2, Kinds
    <3>3. check' \in Checks
      BY <3>1, <3>2, Kinds
    <3> QED BY <1>0, <1>1, <1>6, <3>3 DEF DigestTarget, DataType
  <2> QED BY <2>2, <2>3
<1>7. CASE AddConstraint
  <2>1. constraint' \in [Tables -> {"none", "added", "valid"}]
    BY <1>0, <1>7 DEF AddConstraint, DataType
  <2>2. check' \in Checks /\ finalized' \in BOOLEAN
    BY <1>0, <1>2, <1>3, <1>7, Kinds DEF AddConstraint, DataType
  <2> QED BY <1>0, <1>1, <1>7, <2>1, <2>2 DEF AddConstraint, DataType
<1>8. CASE ValidateConstraint
  <2>1. constraint' \in [Tables -> {"none", "added", "valid"}]
    BY <1>0, <1>8 DEF ValidateConstraint, DataType
  <2> QED BY <1>0, <1>1, <1>3, <1>8, <2>1 DEF ValidateConstraint, DataType
<1>9. CASE AbortFinalize
  <2>1. events' \in 0..MaxEvents
    BY <1>0, <1>9, NumberAssumption DEF AbortFinalize, Event, DataType
  <2> QED BY <1>0, <1>1, <1>9, <2>1, Kinds DEF AbortFinalize, DataType
<1> QED BY <1>4, <1>5, <1>6, <1>7, <1>8, <1>9 DEF FinalizeStep

LEMMA StepTypes == TypeOK /\ RunType /\ [Next]_vars => TypeOK' /\ RunType'
<1> SUFFICES ASSUME TypeOK, RunType, [Next]_vars PROVE TypeOK' /\ RunType'
  OBVIOUS
<1>0. DataType
  BY TypeParts
<1>1. ASSUME NEW t \in Tables, NEW k \in Keys, NEW v \in Writable[t][k], Write(t, k, v)
      PROVE  TypeOK' /\ RunType'
  <2>1. source' = [source EXCEPT ![t] = [source[t] EXCEPT ![k] = v]]
    BY <1>0, <1>1 DEF Write, DataType
  <2>2. [source[t] EXCEPT ![k] = v] \in Rows
    BY <1>0, Kinds DEF DataType, Rows
  <2>3. source' \in [Tables -> Rows]
    BY <1>0, <2>1, <2>2 DEF DataType
  <2>4. writes' \in 0..MaxWrites /\ touched' \subseteq Tables \X Keys
    BY <1>0, <1>1, NumberAssumption DEF Write, DataType
  <2>5. DataType'
    BY <1>0, <1>1, <2>3, <2>4 DEF Write, DataType
  <2> QED BY <1>1, <2>5, StillTyped DEF Write
<1>2. CASE StopWrites
  <2>1. DataType'
    BY <1>0, <1>2 DEF StopWrites, DataType
  <2> QED BY <1>2, <2>1, StillTyped DEF StopWrites
<1>3. CASE UNCHANGED vars
  <2>1. DataType'
    BY <1>0, <1>3 DEF vars, DataType
  <2> QED BY <1>3, <2>1, StillTyped DEF vars
<1> QED BY <1>1, <1>2, <1>3, StartTypes, RunTypes, CheckTypes DEF Next

-----------------------------------------------------------------------------
(* What is copied.                                                         *)

\* Row k of table t is in the target; a row that was written since it was
\* copied is excused unless it is in X.
Good(t, k, X) ==
  \/ source[t][k] = 0 \/ Skipped(t, k) \/ target[t][k] = source[t][k]
  \/ <<t, k>> \in touched \ X

Passed(checkpoint, t, k) == checkpoint.done[t] \/ k <= checkpoint.last[t]

Covers(checkpoint, X) ==
  \A t \in Tables, k \in Keys : Passed(checkpoint, t, k) => Good(t, k, X)

\* The keys in a batch, and those that it decides about: all up to its last,
\* or to the end when it is short.
Held(c) == {k \in Keys : batch[c][k] # 0}
Reach(c) ==
  {k \in Keys : /\ k >= After(c)
                /\ LastBatch(Cardinality(Held(c))) \/ \E j \in Held(c) : k <= j}

\* The batch holds what the source holds, but for later writes.
Faithful(c, X) ==
  /\ Held(c) \subseteq Reach(c)
  /\ \A k \in Reach(c) : \/ batch[c][k] = source[TableOf(c)][k]
                         \/ <<TableOf(c), k>> \in touched \ X

CopyInv(X) ==
  /\ Covers(file, X)
  /\ \A c \in Copiers : stage[c] \in Copying => Covers(mem[c], X)
  /\ \A c \in Copiers : stage[c] = "read" => Faithful(c, X)

\* A good row stays good, whatever is written to the source and copied.
LEMMA WrittenRows ==
  ASSUME TypeOK, RunType, NEW X, X # {} => stopped,
         NEW u \in Tables, NEW j \in Keys, NEW v \in Writable[u][j], Write(u, j, v),
         NEW t \in Tables, NEW k \in Keys
  PROVE  /\ source'[t][k] = source[t][k] \/ <<t, k>> \in touched' \ X
         /\ <<t, k>> \in touched \ X => <<t, k>> \in touched' \ X
         /\ Good(t, k, X) => Good(t, k, X)'
<1>1. X = {} /\ touched' = touched \cup {<<u, j>>} /\ target' = target
      /\ source' = [source EXCEPT ![u][j] = v]
  BY DEF Write
<1>2. source[u] \in [Keys -> Versions] /\ source \in [Tables -> Rows]
  BY DEF TypeOK, Rows
<1>3. source'[t][k] = source[t][k] \/ (t = u /\ k = j)
  BY <1>1, <1>2
<1>4. source'[t][k] = source[t][k] \/ <<t, k>> \in touched' \ X
  BY <1>1, <1>3
<1>5. <<t, k>> \in touched \ X => <<t, k>> \in touched' \ X
  BY <1>1
<1>6. Good(t, k, X) => Good(t, k, X)'
  BY <1>1, <1>4, <1>5 DEF Good, Skipped
<1> QED BY <1>4, <1>5, <1>6

\* Only the holder of the lease commits, and no other run is copying then.
LEMMA Alone ==
  ASSUME TypeOK, RunType, NEW c \in Copiers, NEW d \in Copiers,
         stage[c] \in Copying, stage[d] \in Copying
  PROVE  c = d
BY TypeParts DEF CopierInv, LeaseOf

\* What a commit does to the rows, and to the checkpoint in memory.
LEMMA Committed ==
  ASSUME TypeOK, RunType, NEW X, NEW c \in Copiers, Faithful(c, X), CommitBatch(c),
         NEW t, t = TableOf(c)
  PROVE  /\ \A u \in Tables, k \in Keys : Good(u, k, X) => Good(u, k, X)'
         /\ \A k \in Reach(c) : Good(t, k, X)'
<1> DEFINE keys == Held(c)
<1>0. DataType /\ CopierType /\ CopierInv
  BY TypeParts
<1>1. stage[c] = "read" /\ Pending(c) # {} /\ t \in Tables
  BY <1>0, TableType DEF CommitBatch, CopierInv, RunOf
<1>2. /\ target' = [target EXCEPT ![t] =
           [k \in Keys |-> IF k \in keys THEN batch[c][k] ELSE target[t][k]]]
      /\ touched' = touched \ {<<t, k>> : k \in {j \in keys : source[t][j] = batch[c][j]}}
      /\ source' = source
  BY <1>0, <1>1 DEF CommitBatch, Held, DataType
<1>3. /\ keys \subseteq Reach(c) /\ keys \subseteq Keys /\ Reach(c) \subseteq Keys
      /\ \A k \in Keys \ keys : batch[c][k] = 0
      /\ \A k \in Reach(c) : batch[c][k] = source[t][k] \/ <<t, k>> \in touched \ X
  BY DEF Faithful, Held, Reach
<1> HIDE DEF keys
<1>4. ASSUME NEW k \in keys PROVE Good(t, k, X)'
  <2>1. target'[t][k] = batch[c][k]
    BY <1>0, <1>1, <1>2, <1>3 DEF DataType, Rows
  <2>2. CASE batch[c][k] = source[t][k]
    BY <1>2, <2>1, <2>2 DEF Good
  <2>3. CASE batch[c][k] # source[t][k]
    <3>1. <<t, k>> \in touched \ X
      BY <1>3, <2>3
    <3>2. <<t, k>> \in touched' \ X
      BY <1>2, <2>3, <3>1
    <3> QED BY <3>2 DEF Good
  <2> QED BY <2>2, <2>3
<1>5. ASSUME NEW u \in Tables, NEW k \in Keys, u # t \/ k \notin keys
      PROVE  /\ target'[u][k] = target[u][k]
             /\ <<u, k>> \in touched \ X => <<u, k>> \in touched' \ X
  <2>1. target'[u][k] = target[u][k]
    BY <1>0, <1>1, <1>2, <1>5 DEF DataType, Rows
  <2>2. <<u, k>> \in touched \ X => <<u, k>> \in touched' \ X
    BY <1>2, <1>5
  <2> QED BY <2>1, <2>2
<1>6. ASSUME NEW u \in Tables, NEW k \in Keys, Good(u, k, X) PROVE Good(u, k, X)'
  <2>1. CASE u = t /\ k \in keys
    BY <1>4, <2>1
  <2>2. CASE u # t \/ k \notin keys
    BY <1>2, <1>5, <1>6, <2>2 DEF Good, Skipped
  <2> QED BY <2>1, <2>2
<1>7. ASSUME NEW k \in Reach(c) PROVE Good(t, k, X)'
  <2>1. CASE k \in keys
    BY <1>4, <2>1
  <2>2. CASE k \notin keys
    <3>1. source[t][k] = 0 \/ <<t, k>> \in touched \ X
      BY <1>3, <2>2
    <3> QED BY <1>1, <1>2, <1>3, <1>5, <2>2, <3>1 DEF Good
  <2> QED BY <2>1, <2>2
<1> QED BY <1>6, <1>7

\* The checkpoint after a batch has passed what it had passed before, what the
\* batch decides about, and keys that rounding makes the query skip.
LEMMA AdvancedPasses ==
  ASSUME TypeOK, RunType, NEW c \in Copiers, stage[c] = "read", Held(c) \subseteq Reach(c),
         NEW u \in Tables, NEW k \in Keys, Passed(Advanced(c, Held(c)), u, k)
  PROVE  \/ Passed(mem[c], u, k)
         \/ u = TableOf(c) /\ (k \in Reach(c) \/ Skipped(u, k))
<1> DEFINE t == TableOf(c)
           keys == Held(c)
           new == Advanced(c, keys)
           last == mem[c].last[t]
<1>0. CopierType /\ Pending(c) # {} /\ keys \subseteq Keys
  BY TypeParts DEF CopierInv, RunOf, Held
<1>1. /\ new.last[t] = IF keys = {} THEN last ELSE Max(keys)
      /\ new.done[t] = LastBatch(Cardinality(keys))
      /\ \A w \in Tables \ {t} :
           new.last[w] = mem[c].last[w] /\ new.done[w] = mem[c].done[w]
  BY <1>0, Advances
<1>2. t \in Tables /\ last \in 0..MaxKey /\ k \in Nat /\ k >= 1 /\ MaxKey \in Nat
  <2>1. t \in Tables
    BY <1>0, TableType
  <2>2. mem[c] \in Checkpoints
    BY <1>0 DEF CopierType
  <2>3. last \in 0..MaxKey
    BY <2>1, <2>2 DEF Checkpoints
  <2> QED BY <2>1, <2>3, NumberAssumption DEF Keys
<1>3. CASE u # t
  BY <1>1, <1>3 DEF Passed
<1>4. CASE u = t /\ k < After(c)
  <2>1. CASE last = 0
    BY <1>2, <1>4, <2>1 DEF After
  <2>2. CASE last # 0
    <3>1. last \in Keys /\ Decoded[t][last] \in 0..MaxKey
      <4> HIDE DEF t, last
      <4>1. last \in Keys
        BY <1>2, <2>2 DEF Keys
      <4> QED BY <1>2, <4>1, RowAssumption
    <3>2. k < Decoded[t][last] + 1
      BY <1>4, <2>2 DEF After
    <3>3. CASE k <= last
      BY <1>4, <3>3 DEF Passed
    <3>4. CASE last < k
      <4>1. k <= Decoded[t][last]
        BY <1>2, <3>1, <3>2
      <4> QED BY <1>4, <3>1, <3>4, <4>1 DEF Skipped
    <3> QED BY <1>2, <3>3, <3>4
  <2> QED BY <2>1, <2>2
<1>5. CASE u = t /\ ~(k < After(c))
  <2>1. k >= After(c)
    <3>1. After(c) \in Int
      <4>1. After(c) = IF last = 0 THEN 1 ELSE Decoded[t][last] + 1
        BY DEF After
      <4> HIDE DEF t, last
      <4>2. last # 0 => last \in Keys
        BY <1>2 DEF Keys
      <4>3. last # 0 => Decoded[t][last] \in 0..MaxKey
        BY <1>2, <4>2, RowAssumption
      <4> QED BY <1>2, <4>1, <4>3
    <3> QED BY <1>2, <1>5, <3>1
  <2>2. CASE LastBatch(Cardinality(keys))
    BY <1>5, <2>1, <2>2 DEF Reach
  <2>3. CASE keys # {} /\ k <= Max(keys)
    <3>1. Max(keys) \in Held(c)
      BY <1>0, <2>3, KeySets
    <3> QED BY <1>5, <2>1, <2>3, <3>1 DEF Reach
  <2>4. CASE k <= last
    BY <1>5, <2>4 DEF Passed
  <2> QED BY <1>1, <1>5, <2>2, <2>3, <2>4 DEF Passed
<1> QED BY <1>3, <1>4, <1>5

\* A batch that has just been read is the source, as far as it reaches.
LEMMA ReadFaithful ==
  ASSUME TypeOK, RunType, NEW X, NEW c \in Copiers, ReadBatch(c), ~Return(c)
  PROVE  Faithful(c, X)'
<1> DEFINE t == TableOf(c)
           found == {k \in Keys : k >= After(c) /\ source[t][k] # 0}
           rows == [k \in Keys |-> IF k \in Selected(c) THEN source[t][k] ELSE 0]
<1>0. CopierType /\ BatchSize \in Nat
  BY TypeParts, NumberAssumption
<1>1. batch' = [batch EXCEPT ![c] = rows] /\ UNCHANGED <<mem, source>>
  BY DEF ReadBatch
<1>2. batch'[c] = rows
  BY <1>0, <1>1 DEF CopierType
<1>3. TableOf(c)' = t /\ After(c)' = After(c)
  BY <1>1 DEF TableOf, Pending, After
<1>4. Selected(c) = FirstKeys(found, BatchSize) /\ found \subseteq Keys
  BY DEF Selected, FirstKeys
<1>5. Selected(c) \subseteq found
  BY <1>4 DEF FirstKeys
<1>6. Held(c)' = Selected(c)
  <2>1. Held(c)' = {k \in Keys : rows[k] # 0}
    BY <1>2 DEF Held
  <2> QED BY <1>5, <2>1
<1>7. Reach(c)' = {k \in Keys : /\ k >= After(c)
                                /\ \/ LastBatch(Cardinality(Selected(c)))
                                   \/ \E j \in Selected(c) : k <= j}
  BY <1>3, <1>6 DEF Reach, LastBatch
<1>8. Held(c)' \subseteq Reach(c)'
  <2> SUFFICES ASSUME NEW k \in Selected(c) PROVE k \in Reach(c)'
    BY <1>6
  <2>1. k \in Keys /\ k >= After(c) /\ k <= k
    BY <1>5, NumberAssumption DEF Keys
  <2> QED BY <1>7, <2>1
<1>9. ASSUME NEW k \in Reach(c)' PROVE rows[k] = source[t][k]
  <2>1. k \in Keys /\ k >= After(c)
    BY <1>7
  <2>2. CASE k \in Selected(c)
    BY <2>1, <2>2
  <2>3. CASE k \notin Selected(c)
    <3> SUFFICES ASSUME source[t][k] # 0 PROVE FALSE
      BY <2>1, <2>3
    <3>1. k \in found
      BY <2>1
    <3> HIDE DEF found
    <3>2. /\ \A j \in Selected(c) : j < k
          /\ Cardinality(Selected(c)) >= BatchSize
      BY <1>0, <1>4, <2>3, <3>1, Limit
    <3>3. ~LastBatch(Cardinality(Selected(c)))
      <4>1. Selected(c) \subseteq Keys
        BY <1>4, <1>5
      <4>2. Cardinality(Selected(c)) \in Nat
        BY <4>1, KeySets, NumberAssumption
      <4> QED BY <1>0, <3>2, <4>2 DEF LastBatch
    <3>4. PICK j \in Selected(c) : k <= j
      BY <1>7, <3>3
    <3>5. j \in Keys /\ k \in Keys
      BY <1>4, <1>5, <2>1
    <3>6. Keys \subseteq Nat
      BY NumberAssumption DEF Keys
    <3> QED BY <3>2, <3>4, <3>5, <3>6
  <2> QED BY <2>2, <2>3
<1> HIDE DEF rows
<1>10. \A k \in Reach(c)' : batch'[c][k] = source'[TableOf(c)'][k]
  BY <1>1, <1>2, <1>3, <1>9
<1> QED BY <1>8, <1>10 DEF Faithful

\* Steps that write no row and load no checkpoint or batch.
Calm ==
  /\ UNCHANGED <<source, target, touched>>
  /\ \A d \in Copiers : stage'[d] \in Copying =>
       /\ stage[d] \in Copying /\ mem'[d] = mem[d]
       /\ stage'[d] = "read" => stage[d] = "read" /\ batch'[d] = batch[d]

\* They save no checkpoint, the one of a run that is copying, or a cleared one.
Saved ==
  \A t \in Tables, k \in Keys : Passed(file, t, k)' =>
    \/ Passed(file, t, k)
    \/ \E d \in Copiers : stage[d] \in Copying /\ Passed(mem[d], t, k)

LEMMA GoodKept ==
  ASSUME NEW X, NEW t, NEW k, Good(t, k, X), UNCHANGED <<source, target, touched>>
  PROVE  Good(t, k, X)'
BY DEF Good, Skipped

LEMMA FaithfulKept ==
  ASSUME NEW X, NEW c \in Copiers, Faithful(c, X), mem'[c] = mem[c], batch'[c] = batch[c],
         UNCHANGED <<source, touched>>
  PROVE  Faithful(c, X)'
<1>1. TableOf(c)' = TableOf(c) /\ After(c)' = After(c) /\ Held(c)' = Held(c)
  BY DEF TableOf, Pending, After, Held
<1>2. Reach(c)' = Reach(c)
  BY <1>1 DEF Reach, LastBatch
<1> QED BY <1>1, <1>2 DEF Faithful

LEMMA CalmCopy ==
  ASSUME NEW X, CopyInv(X), Calm, Saved
  PROVE  CopyInv(X)'
<1>1. Covers(file, X)'
  <2> SUFFICES ASSUME NEW t \in Tables, NEW k \in Keys, Passed(file, t, k)'
               PROVE  Good(t, k, X)'
    BY DEF Covers
  <2>1. Good(t, k, X)
    BY DEF Saved, CopyInv, Covers
  <2> QED BY <2>1, GoodKept DEF Calm
<1>2. ASSUME NEW d \in Copiers, stage'[d] \in Copying PROVE Covers(mem[d], X)'
  <2> SUFFICES ASSUME NEW t \in Tables, NEW k \in Keys, Passed(mem[d], t, k)'
               PROVE  Good(t, k, X)'
    BY DEF Covers
  <2>1. Passed(mem[d], t, k)
    BY <1>2 DEF Calm, Passed
  <2>2. Good(t, k, X)
    BY <1>2, <2>1 DEF Calm, CopyInv, Covers
  <2> QED BY <2>2, GoodKept DEF Calm
<1>3. ASSUME NEW d \in Copiers, stage'[d] = "read" PROVE Faithful(d, X)'
  <2>1. stage[d] = "read" /\ mem'[d] = mem[d] /\ batch'[d] = batch[d]
    BY <1>3 DEF Calm, Copying
  <2> QED BY <2>1, FaithfulKept DEF Calm, CopyInv
<1> QED BY <1>1, <1>2, <1>3 DEF CopyInv

\* Which steps these are.
LEMMA CalmReturns ==
  ASSUME TypeOK, RunType, NEW c \in Copiers, Return(c), UNCHANGED <<source, target, touched>>
  PROVE  Calm
BY Returning DEF Calm, Only, Copying

LEMMA CalmMoves ==
  ASSUME TypeOK, RunType, NEW c \in Copiers, NEW s \in Stages, Goto(c, s),
         UNCHANGED <<mem, batch, final, source, target, touched>>,
         s \in Copying => stage[c] \in Copying /\ s # "read"
  PROVE  Calm
BY Moving DEF Calm, Only, Copying

LEMMA CalmSteps ==
  ASSUME TypeOK, RunType,
         \/ StopWrites \/ UNCHANGED vars \/ BeginFinalize \/ FinalizeStep \/ AbortFinalize
         \/ \E c \in Copiers, again \in BOOLEAN :
              StartRun(c, again) \/ StartFinalDelta(c, again)
         \/ \E c \in Copiers :
              \/ SaveReset(c) \/ SaveCheckpoint(c) \/ SavePaused(c) \/ FinishRun(c)
              \/ AbortRun(c) \/ (BeginRun(c) /\ Return(c)) \/ (ReadBatch(c) /\ Return(c))
  PROVE  Calm /\ Saved
<1>0. /\ file \in Checkpoints /\ \A c \in Copiers : mem[c] \in Checkpoints
      /\ \A c \in Copiers : c \in Copiers
  BY DEF TypeOK
<1>1. CASE StopWrites \/ UNCHANGED vars \/ BeginFinalize \/ FinalizeStep \/ AbortFinalize
  <2>1. UNCHANGED <<source, target, touched, file, stage, mem, batch>>
    BY <1>1 DEF StopWrites, vars, BeginFinalize, FinalizeStep, DigestSource, DigestTarget,
                AddConstraint, ValidateConstraint, AbortFinalize
  <2> QED BY <2>1 DEF Calm, Saved, Passed
<1>2. ASSUME NEW c \in Copiers, NEW again \in BOOLEAN, StartRun(c, again)
      PROVE  Calm /\ Saved
  <2>1. Calm
    BY <1>2, CalmMoves DEF StartRun, Stages, Copying
  <2> QED BY <1>2, <2>1 DEF StartRun, Saved, Passed
<1>3. ASSUME NEW c \in Copiers, NEW again \in BOOLEAN, StartFinalDelta(c, again)
      PROVE  Calm /\ Saved
  <2>1. /\ stage' = [stage EXCEPT ![c] = "reset"] /\ mem' = [mem EXCEPT ![c] = file]
        /\ UNCHANGED <<source, target, touched, batch, file>>
    BY <1>3 DEF StartFinalDelta, Goto
  <2>2. stage \in [Copiers -> Stages] /\ mem \in [Copiers -> Checkpoints]
    BY TypeParts DEF CopierType
  <2>3. Calm
    BY <2>1, <2>2 DEF Calm, Copying
  <2> QED BY <2>1, <2>3 DEF Saved, Passed
<1>4. ASSUME NEW c \in Copiers, SaveReset(c)
      PROVE  Calm /\ Saved
  <2>1. Calm
    BY <1>4, CalmMoves DEF SaveReset, Stages, Copying
  <2>2. \A t \in Tables : file'.last[t] = 0 /\ ~file'.done[t]
    BY <1>0, <1>4, ClearedFields DEF SaveReset
  <2>3. \A k \in Keys : ~(k <= 0)
    BY NumberAssumption DEF Keys
  <2> QED BY <2>1, <2>2, <2>3 DEF Saved, Passed
<1>5. ASSUME NEW c \in Copiers, SaveCheckpoint(c)
      PROVE  Calm /\ Saved
  <2>1. \E s \in {"stop", "copy"} : Goto(c, s)
    BY <1>5 DEF SaveCheckpoint
  <2>2. stage[c] \in Copying
    BY <1>5 DEF SaveCheckpoint, Copying
  <2>3. Calm
    BY <1>5, <2>1, <2>2, CalmMoves DEF SaveCheckpoint, Stages, Copying
  <2>4. Saved
    BY <1>5, <2>2 DEF SaveCheckpoint, Saved, Passed
  <2> QED BY <2>3, <2>4
<1>6. ASSUME NEW c \in Copiers, SavePaused(c) \/ FinishRun(c)
      PROVE  Calm /\ Saved
  <2>1. stage[c] \in Copying /\ Return(c) /\ UNCHANGED <<source, target, touched>>
    BY <1>6 DEF SavePaused, FinishRun, Copying
  <2>2. file'.last = mem[c].last /\ file'.done = mem[c].done
    BY <1>0, <1>6 DEF SavePaused, FinishRun, Checkpoints
  <2>3. Saved
    BY <2>1, <2>2 DEF Saved, Passed
  <2> QED BY <2>1, <2>3, CalmReturns
<1>7. ASSUME NEW c \in Copiers, Return(c), AbortRun(c) \/ BeginRun(c) \/ ReadBatch(c)
      PROVE  Calm /\ Saved
  <2>1. UNCHANGED <<source, target, touched, file>>
    BY <1>7 DEF AbortRun, BeginRun, ReadBatch
  <2> QED BY <1>7, <2>1, CalmReturns DEF Saved, Passed
<1>8. ASSUME NEW c \in Copiers, AbortRun(c) PROVE Return(c)
  BY <1>8 DEF AbortRun
<1> QED BY <1>1, <1>2, <1>3, <1>4, <1>5, <1>6, <1>7, <1>8

LEMMA StepCopy ==
  ASSUME TypeOK, RunType, NEW X, X # {} => stopped, CopyInv(X), [Next]_vars
  PROVE  CopyInv(X)'
<1>0. CopierType
  BY TypeParts
<1>1. ASSUME NEW u \in Tables, NEW j \in Keys, NEW v \in Writable[u][j], Write(u, j, v)
      PROVE  CopyInv(X)'
  <2>1. UNCHANGED <<file, stage, mem, batch>>
    BY <1>1 DEF Write
  <2>2. \A t \in Tables, k \in Keys : Good(t, k, X) => Good(t, k, X)'
    BY <1>1, WrittenRows
  <2>3. Covers(file, X)' /\ \A c \in Copiers : stage'[c] \in Copying => Covers(mem[c], X)'
    BY <2>1, <2>2 DEF CopyInv, Covers, Passed
  <2>4. ASSUME NEW c \in Copiers, stage'[c] = "read" PROVE Faithful(c, X)'
    <3>1. Faithful(c, X) /\ TableOf(c) \in Tables /\ stage[c] = "read"
      BY <1>0, <2>1, <2>4, TableType, TypeParts DEF CopyInv, CopierInv, RunOf
    <3>2. TableOf(c)' = TableOf(c) /\ After(c)' = After(c) /\ Held(c)' = Held(c)
      BY <2>1 DEF TableOf, Pending, After, Held
    <3>3. Reach(c)' = Reach(c) /\ Reach(c) \subseteq Keys
      BY <3>2 DEF Reach, LastBatch
    <3>4. ASSUME NEW k \in Reach(c)
          PROVE  \/ batch'[c][k] = source'[TableOf(c)][k]
                 \/ <<TableOf(c), k>> \in touched' \ X
      <4>1. /\ \/ source'[TableOf(c)][k] = source[TableOf(c)][k]
               \/ <<TableOf(c), k>> \in touched' \ X
            /\ <<TableOf(c), k>> \in touched \ X => <<TableOf(c), k>> \in touched' \ X
        BY <1>1, <3>1, <3>3, WrittenRows
      <4> QED BY <2>1, <3>1, <4>1 DEF Faithful
    <3> QED BY <3>1, <3>2, <3>3, <3>4 DEF Faithful
  <2> QED BY <2>3, <2>4 DEF CopyInv
<1>2. ASSUME NEW c \in Copiers, BeginRun(c), ~Return(c)
      PROVE  CopyInv(X)'
  <2>1. /\ mem' = [mem EXCEPT ![c] = [file EXCEPT !.plan = plan[c], !.state = "running"]]
        /\ stage' = [stage EXCEPT ![c] = "copy"]
        /\ UNCHANGED <<source, target, touched, file, batch>>
    BY <1>2 DEF BeginRun, Goto
  <2>2. mem'[c].last = file.last /\ mem'[c].done = file.done /\ stage'[c] = "copy"
    BY <1>0, <2>1 DEF CopierType, TypeOK, Checkpoints
  <2>3. \A d \in Copiers \ {c} : stage'[d] = stage[d] /\ mem'[d] = mem[d]
    BY <1>0, <2>1 DEF CopierType
  <2>4. \A t \in Tables, k \in Keys : Good(t, k, X) => Good(t, k, X)'
    BY <2>1, GoodKept
  <2>5. Covers(file, X)'
    BY <2>1, <2>4 DEF CopyInv, Covers, Passed
  <2>6. Covers(mem[c], X)'
    BY <2>2, <2>4 DEF CopyInv, Covers, Passed
  <2>7. ASSUME NEW d \in Copiers, d # c, stage'[d] \in Copying PROVE Covers(mem[d], X)'
    BY <2>3, <2>4, <2>7 DEF CopyInv, Covers, Passed
  <2>8. ASSUME NEW d \in Copiers, stage'[d] = "read" PROVE Faithful(d, X)'
    BY <2>1, <2>2, <2>3, <2>8, FaithfulKept DEF CopyInv
  <2> QED BY <2>5, <2>6, <2>7, <2>8 DEF CopyInv
<1>3. ASSUME NEW c \in Copiers, ReadBatch(c), ~Return(c)
      PROVE  CopyInv(X)'
  <2>1. /\ stage[c] = "copy" /\ stage' = [stage EXCEPT ![c] = "read"]
        /\ UNCHANGED <<source, target, touched, file, mem>>
        /\ \E rows : batch' = [batch EXCEPT ![c] = rows]
    BY <1>3 DEF ReadBatch, Goto
  <2>2. \A d \in Copiers \ {c} : stage'[d] = stage[d] /\ batch'[d] = batch[d]
    BY <1>0, <2>1 DEF CopierType
  <2>3. \A d \in Copiers : stage'[d] \in Copying => stage[d] \in Copying
    BY <2>1, <2>2 DEF Copying
  <2>4. \A t \in Tables, k \in Keys : Good(t, k, X) => Good(t, k, X)'
    BY <2>1, GoodKept
  <2>5. Covers(file, X)' /\ \A d \in Copiers : stage'[d] \in Copying => Covers(mem[d], X)'
    BY <2>1, <2>3, <2>4 DEF CopyInv, Covers, Passed
  <2>6. ASSUME NEW d \in Copiers, stage'[d] = "read" PROVE Faithful(d, X)'
    <3>1. CASE d = c
      BY <1>3, <3>1, ReadFaithful
    <3>2. CASE d # c
      BY <2>1, <2>2, <2>6, <3>2, FaithfulKept DEF CopyInv
    <3> QED BY <3>1, <3>2
  <2> QED BY <2>5, <2>6 DEF CopyInv
<1>4. ASSUME NEW c \in Copiers, CommitBatch(c)
      PROVE  CopyInv(X)'
  <2>0. PICK t : t = TableOf(c)
    OBVIOUS
  <2>1. stage[c] = "read" /\ stage[c] \in Copying /\ Faithful(c, X)
    BY <1>4 DEF CommitBatch, CopyInv, Copying
  <2>2. /\ mem' = [mem EXCEPT ![c] = Advanced(c, Held(c))] /\ file' = file
        /\ \E s \in {"save", "pause"} : stage' = [stage EXCEPT ![c] = s]
    BY <1>4 DEF CommitBatch, Goto, Held
  <2>3. /\ mem'[c] = Advanced(c, Held(c)) /\ stage'[c] # "read"
        /\ \A d \in Copiers \ {c} : stage'[d] = stage[d]
    BY <1>0, <2>2 DEF CopierType
  <2>4. \A d \in Copiers \ {c} : stage'[d] \notin Copying
    BY <2>1, <2>3, Alone
  <2>5. /\ \A u \in Tables, k \in Keys : Good(u, k, X) => Good(u, k, X)'
        /\ \A k \in Reach(c) : Good(t, k, X)'
    BY <1>4, <2>0, <2>1, Committed
  <2>6. Covers(file, X)'
    BY <2>2, <2>5 DEF CopyInv, Covers, Passed
  <2>7. Covers(mem[c], X)'
    <3> SUFFICES ASSUME NEW u \in Tables, NEW k \in Keys, Passed(mem[c], u, k)'
                 PROVE  Good(u, k, X)'
      BY DEF Covers
    <3>1. Passed(Advanced(c, Held(c)), u, k)
      BY <2>3 DEF Passed
    <3>2. \/ Passed(mem[c], u, k)
          \/ u = t /\ (k \in Reach(c) \/ Skipped(u, k))
      BY <2>0, <2>1, <3>1, AdvancedPasses DEF Faithful
    <3>3. CASE Passed(mem[c], u, k)
      BY <2>1, <2>5, <3>3 DEF CopyInv, Covers
    <3>4. CASE u = t /\ k \in Reach(c)
      BY <2>5, <3>4
    <3>5. CASE Skipped(u, k)
      BY <3>5 DEF Good, Skipped
    <3> QED BY <3>2, <3>3, <3>4, <3>5
  <2>8. \A d \in Copiers : stage'[d] \in Copying => d = c
    BY <2>4
  <2> QED BY <2>3, <2>6, <2>7, <2>8 DEF CopyInv, Copying
<1>5. CASE Calm /\ Saved
  BY <1>5, CalmCopy
<1> QED BY <1>1, <1>2, <1>3, <1>4, <1>5, CalmSteps DEF Next, Step

AllRows == Tables \X Keys

\* Once a final delta has reset the checkpoint and nobody was running then,
\* writes are no excuse any more.
Redone == {c \in final : stage[c] # "reset"}
DeltaInv ==
  ~interfered /\ (delta \/ Redone # {}) =>
    /\ stopped /\ CopyInv(AllRows)
    /\ delta => \A t \in Tables, k \in Keys : Good(t, k, AllRows)

LEMMA InitCopy == Init => CopyInv({}) /\ DeltaInv
<1> SUFFICES ASSUME Init PROVE CopyInv({}) /\ DeltaInv
  OBVIOUS
<1>1. \A t \in Tables : file.last[t] = 0 /\ ~file.done[t]
  BY DEF Init, Fresh
<1>2. \A k \in Keys : ~(k <= 0)
  BY NumberAssumption DEF Keys
<1>3. Covers(file, {})
  BY <1>1, <1>2 DEF Covers, Passed
<1>4. \A c \in Copiers : stage[c] \notin Copying /\ stage[c] # "read"
  BY DEF Init, Copying
<1>5. ~delta /\ Redone = {}
  BY DEF Init, Redone
<1> QED BY <1>3, <1>4, <1>5 DEF CopyInv, DeltaInv

LEMMA StepGood ==
  ASSUME TypeOK, RunType, NEW X, X # {} => stopped, CopyInv(X), [Next]_vars,
         NEW t \in Tables, NEW k \in Keys, Good(t, k, X)
  PROVE  Good(t, k, X)'
<1>1. ASSUME NEW u \in Tables, NEW j \in Keys, NEW v \in Writable[u][j], Write(u, j, v)
      PROVE  Good(t, k, X)'
  BY <1>1, WrittenRows
<1>2. ASSUME NEW c \in Copiers, CommitBatch(c) PROVE Good(t, k, X)'
  <2>1. Faithful(c, X)
    BY <1>2 DEF CommitBatch, CopyInv
  <2>2. PICK u : u = TableOf(c)
    OBVIOUS
  <2> QED BY <1>2, <2>1, <2>2, Committed
<1>3. CASE UNCHANGED <<source, target, touched>>
  BY <1>3, GoodKept
<1>4. ASSUME NEW c \in Copiers, BeginRun(c) \/ ReadBatch(c) PROVE Good(t, k, X)'
  BY <1>3, <1>4 DEF BeginRun, ReadBatch
<1> QED BY <1>1, <1>2, <1>3, <1>4, CalmSteps DEF Next, Step, Calm, AbortRun

\* When a delta has completed, and which runs have reset the checkpoint.
LEMMA DeltaSteps ==
  ASSUME TypeOK, RunType, [Next]_vars
  PROVE  /\ interfered => interfered'
         /\ stopped => stopped'
         /\ delta' => delta \/ \E c \in final : FinishRun(c)
         /\ \A c \in Redone' : c \in Redone \/ SaveReset(c)
<1>0. CopierType /\ final \subseteq Copiers
  BY TypeParts DEF CopierType
<1>1. ASSUME UNCHANGED <<final, delta>>, interfered => interfered', stopped => stopped',
             \A c \in final : stage'[c] # "reset" => stage[c] # "reset" \/ SaveReset(c)
      PROVE  /\ (interfered => interfered') /\ (stopped => stopped') /\ (delta' => delta)
             /\ \A c \in Redone' : c \in Redone \/ SaveReset(c)
  BY <1>1 DEF Redone
<1>2. ASSUME NEW c \in Copiers, Return(c)
      PROVE  \A d \in Redone' : d \in Redone
  BY <1>0, <1>2, Returning DEF Redone, Only, CopierType
<1>3. CASE \/ StopWrites \/ UNCHANGED vars \/ BeginFinalize \/ FinalizeStep \/ AbortFinalize
           \/ \E t \in Tables, k \in Keys : \E v \in Writable[t][k] : Write(t, k, v)
  <2>1. UNCHANGED <<final, delta, interfered, stage>> /\ (stopped => stopped')
    BY <1>3 DEF StopWrites, vars, BeginFinalize, FinalizeStep, DigestSource, DigestTarget,
                AddConstraint, ValidateConstraint, AbortFinalize, Write
  <2> QED BY <1>1, <2>1
<1>4. ASSUME NEW c \in Copiers, NEW again \in BOOLEAN, StartRun(c, again)
      PROVE  /\ UNCHANGED <<final, delta, interfered, stopped>>
             /\ \A d \in Redone' : d \in Redone
  <2>1. /\ UNCHANGED <<final, delta, interfered, stopped>> /\ stage[c] = "idle"
        /\ stage' = [stage EXCEPT ![c] = "run"]
    BY <1>4 DEF StartRun, Goto
  <2> QED BY <1>0, <2>1 DEF CopierType, Redone
<1>5. ASSUME NEW c \in Copiers, NEW again \in BOOLEAN, StartFinalDelta(c, again)
      PROVE  /\ UNCHANGED <<delta, interfered, stopped>>
             /\ \A d \in Redone' : d \in Redone
  <2>1. /\ UNCHANGED <<delta, interfered, stopped>> /\ final' = final \cup {c}
        /\ stage' = [stage EXCEPT ![c] = "reset"]
    BY <1>5 DEF StartFinalDelta, Goto
  <2> QED BY <1>0, <2>1 DEF CopierType, Redone
<1>6. ASSUME NEW c \in Copiers, SaveReset(c)
      PROVE  /\ UNCHANGED <<delta, stopped>> /\ (interfered => interfered')
             /\ \A d \in Redone' : d \in Redone \/ SaveReset(d)
  <2>1. /\ UNCHANGED <<final, delta, stopped>> /\ stage' = [stage EXCEPT ![c] = "run"]
    BY <1>6 DEF SaveReset, Goto
  <2>2. interfered => interfered'
    BY <1>6 DEF SaveReset
  <2> QED BY <1>0, <1>6, <2>1, <2>2 DEF CopierType, Redone
<1>7. ASSUME NEW c \in Copiers,
             \/ (BeginRun(c) /\ ~Return(c)) \/ (ReadBatch(c) /\ ~Return(c))
             \/ CommitBatch(c) \/ SaveCheckpoint(c)
      PROVE  /\ UNCHANGED <<delta, interfered, stopped>>
             /\ \A d \in Redone' : d \in Redone
  <2>1. UNCHANGED <<final, delta, interfered, stopped>> /\ stage[c] # "reset"
    BY <1>7 DEF BeginRun, ReadBatch, CommitBatch, SaveCheckpoint
  <2>2. \E s \in Stages : stage' = [stage EXCEPT ![c] = s]
    BY <1>7 DEF BeginRun, ReadBatch, CommitBatch, SaveCheckpoint, Goto, Stages, Copying
  <2> QED BY <1>0, <2>1, <2>2 DEF CopierType, Redone
<1>8. ASSUME NEW c \in Copiers, Return(c), BeginRun(c) \/ ReadBatch(c) \/ SavePaused(c) \/ AbortRun(c)
      PROVE  /\ UNCHANGED <<delta, interfered, stopped>>
             /\ \A d \in Redone' : d \in Redone
  BY <1>2, <1>8 DEF BeginRun, ReadBatch, SavePaused, AbortRun
<1>9. ASSUME NEW c \in Copiers, FinishRun(c)
      PROVE  /\ delta' => delta \/ c \in final
             /\ UNCHANGED <<interfered, stopped>>
             /\ \A d \in Redone' : d \in Redone
  <2>1. delta' => delta \/ c \in final
    BY <1>9 DEF FinishRun
  <2> QED BY <1>2, <1>9, <2>1 DEF FinishRun
<1>10. \A c \in Copiers : SavePaused(c) \/ AbortRun(c) => Return(c)
  BY DEF SavePaused, AbortRun
<1>11. CASE \E c \in Copiers, again \in BOOLEAN :
              StartRun(c, again) \/ StartFinalDelta(c, again)
  BY <1>4, <1>5, <1>11
<1>12. CASE \E c \in Copiers : Step(c) \/ AbortRun(c)
  BY <1>6, <1>7, <1>8, <1>9, <1>10, <1>12 DEF Step
<1> QED BY <1>3, <1>11, <1>12 DEF Next

LEMMA StepDelta ==
  ASSUME TypeOK, RunType, DeltaInv, [Next]_vars
  PROVE  DeltaInv'
<1> SUFFICES ASSUME ~interfered', delta' \/ Redone' # {}
             PROVE  /\ stopped' /\ CopyInv(AllRows)'
                    /\ delta' => \A t \in Tables, k \in Keys : Good(t, k, AllRows)'
  BY DEF DeltaInv
<1>0. ~interfered /\ final \subseteq Copiers
  BY DeltaSteps DEF TypeOK
<1>1. CASE delta \/ Redone # {}
  <2>1. stopped /\ CopyInv(AllRows)
    BY <1>0, <1>1 DEF DeltaInv
  <2>2. stopped' /\ CopyInv(AllRows)'
    BY <2>1, DeltaSteps, StepCopy
  <2>3. ASSUME delta, NEW t \in Tables, NEW k \in Keys PROVE Good(t, k, AllRows)'
    <3>1. Good(t, k, AllRows)
      BY <1>0, <2>3 DEF DeltaInv
    <3> QED BY <2>1, <3>1, StepGood
  <2>4. ASSUME NEW c \in final, FinishRun(c), NEW t \in Tables, NEW k \in Keys
        PROVE  Good(t, k, AllRows)'
    <3>1. c \in Copiers /\ stage[c] \in Copying /\ mem[c].done[t]
      BY <1>0, <2>4 DEF FinishRun, Copying, Pending
    <3>2. Good(t, k, AllRows)
      BY <2>1, <3>1 DEF CopyInv, Covers, Passed
    <3> QED BY <2>1, <3>2, StepGood
  <2> QED BY <2>2, <2>3, <2>4, DeltaSteps
<1>2. CASE ~(delta \/ Redone # {})
  <2>1. ~\E c \in final : FinishRun(c)
    BY <1>2 DEF FinishRun, Redone
  <2>2. ~delta' /\ Redone' # {}
    BY <1>2, <2>1, DeltaSteps
  <2>3. PICK c \in Redone' : SaveReset(c)
    BY <1>2, <2>2, DeltaSteps
  <2>4. c \in Copiers
    BY StepTypes DEF Redone, TypeOK
  <2>5. stopped' /\ lease = NoCopier
    <3>1. stopped /\ stopped' = stopped
      BY <2>3, <2>4 DEF SaveReset, RunType
    <3>2. lease # NoCopier => interfered'
      BY <2>3 DEF SaveReset
    <3> QED BY <3>1, <3>2
  <2>6. \A d \in Copiers : stage[d] \notin Copying
    BY <2>5, TypeParts, RowAssumption DEF CopierInv, LeaseOf
  <2>7. \A d \in Copiers : stage'[d] \notin Copying /\ stage'[d] # "read"
    <3>1. stage' = [stage EXCEPT ![c] = "run"] /\ stage \in [Copiers -> Stages]
      BY <2>3, TypeParts DEF SaveReset, Goto, CopierType
    <3> QED BY <2>6, <3>1 DEF Copying
  <2>8. \A t \in Tables : file'.last[t] = 0 /\ ~file'.done[t]
    <3>1. mem[c] \in Checkpoints /\ file' = Cleared(mem[c])
      BY <2>3, <2>4 DEF TypeOK, SaveReset
    <3> QED BY <3>1, ClearedFields
  <2>9. \A k \in Keys : ~(k <= 0)
    BY NumberAssumption DEF Keys
  <2>10. Covers(file, AllRows)'
    BY <2>8, <2>9 DEF Covers, Passed
  <2> QED BY <2>2, <2>5, <2>7, <2>10 DEF CopyInv
<1> QED BY <1>1, <1>2

-----------------------------------------------------------------------------
(* Finalize.                                                               *)

\* Every batch on its way to the target holds what the source holds.
Harmless ==
  \A c \in Copiers : stage[c] = "read" =>
    \A k \in Keys : batch[c][k] \in {0, source[TableOf(c)][k]}

Live == check.quiet /\ (finalized \/ check.stage # "idle")

\* A quiet check: harmless batches keep a table that has been found equal equal.
Verified ==
  /\ stopped /\ Harmless
  /\ check.stage = "target" => check.rows = source[check.table]
  /\ check.stage \in {"source", "target"} /\ check.current =>
       \A t \in Tables : t < check.table => target[t] = source[t]
  /\ check.stage \in {"add", "validate"} \/ finalized =>
       \A t \in Tables : target[t] = source[t]
  /\ check.stage \in {"add", "validate"} =>
       \A t \in Tables : t < check.table => constraint[t] # "none"
  /\ check.stage = "validate" => constraint[check.table] # "none"
  /\ finalized => \A t \in Tables : constraint[t] # "none"

FinalInv ==
  /\ check.stage # "idle" => ~finalized
  /\ Live => Verified

\* Once the source has stopped, copying only makes the databases more equal.
LEMMA StepHarmless ==
  ASSUME TypeOK, RunType, stopped, Harmless, [Next]_vars
  PROVE  /\ stopped' /\ Harmless' /\ source' = source
         /\ \A t \in Tables : target[t] = source[t] => target'[t] = source[t]
<1>0. CopierType /\ DataType /\ CopierInv
  BY TypeParts
<1>1. CASE Calm
  <2>1. ASSUME NEW c \in Copiers, stage'[c] = "read"
        PROVE  \A k \in Keys : batch'[c][k] \in {0, source[TableOf(c)'][k]}
    <3>1. stage[c] = "read" /\ mem'[c] = mem[c] /\ batch'[c] = batch[c]
      BY <1>1, <2>1 DEF Calm, Copying
    <3>2. TableOf(c)' = TableOf(c)
      BY <3>1 DEF TableOf, Pending
    <3> QED BY <3>1, <3>2 DEF Harmless
  <2> QED BY <1>1, <2>1, DeltaSteps DEF Calm, Harmless
<1>2. ASSUME NEW c \in Copiers, BeginRun(c), ~Return(c)
      PROVE  Harmless' /\ UNCHANGED <<source, target>>
  <2>1. /\ stage' = [stage EXCEPT ![c] = "copy"] /\ UNCHANGED <<source, target, batch>>
        /\ \E new : mem' = [mem EXCEPT ![c] = new]
    BY <1>2 DEF BeginRun, Goto
  <2>2. ASSUME NEW d \in Copiers, stage'[d] = "read"
        PROVE  \A k \in Keys : batch'[d][k] \in {0, source[TableOf(d)'][k]}
    <3>1. stage[d] = "read" /\ mem'[d] = mem[d]
      BY <1>0, <2>1, <2>2 DEF CopierType
    <3>2. TableOf(d)' = TableOf(d)
      BY <3>1 DEF TableOf, Pending
    <3> QED BY <2>1, <3>1, <3>2 DEF Harmless
  <2> QED BY <2>1, <2>2 DEF Harmless
<1>3. ASSUME NEW c \in Copiers, ReadBatch(c), ~Return(c)
      PROVE  Harmless' /\ UNCHANGED <<source, target>>
  <2> DEFINE rows == [k \in Keys |-> IF k \in Selected(c) THEN source[TableOf(c)][k] ELSE 0]
  <2>1. /\ stage' = [stage EXCEPT ![c] = "read"] /\ UNCHANGED <<source, target, mem>>
        /\ batch' = [batch EXCEPT ![c] = rows]
    BY <1>3 DEF ReadBatch, Goto
  <2>2. \A k \in Keys : rows[k] \in {0, source[TableOf(c)][k]}
    OBVIOUS
  <2> HIDE DEF rows
  <2>3. ASSUME NEW d \in Copiers, stage'[d] = "read"
        PROVE  \A k \in Keys : batch'[d][k] \in {0, source[TableOf(d)'][k]}
    <3>1. TableOf(d)' = TableOf(d)
      BY <2>1 DEF TableOf, Pending
    <3>2. CASE d = c
      BY <1>0, <2>1, <2>2, <3>1, <3>2 DEF CopierType
    <3>3. CASE d # c
      BY <1>0, <2>1, <2>3, <3>1, <3>3 DEF CopierType, Harmless
    <3> QED BY <3>2, <3>3
  <2> QED BY <2>1, <2>3 DEF Harmless
<1>4. ASSUME NEW c \in Copiers, CommitBatch(c)
      PROVE  /\ Harmless' /\ source' = source
             /\ \A t \in Tables : target[t] = source[t] => target'[t] = source[t]
  <2> DEFINE t == TableOf(c)
             keys == Held(c)
             new == [k \in Keys |-> IF k \in keys THEN batch[c][k] ELSE target[t][k]]
  <2>1. stage[c] = "read" /\ stage[c] \in Copying /\ t \in Tables
    BY <1>0, <1>4, TableType DEF CommitBatch, CopierInv, RunOf, Copying
  <2>2. /\ target' = [target EXCEPT ![t] = new] /\ source' = source
        /\ \E s \in {"save", "pause"} : stage' = [stage EXCEPT ![c] = s]
    BY <1>0, <1>4, <2>1 DEF CommitBatch, Held, DataType, Goto
  <2>3. target[t] = source[t] => new = source[t]
    <3> SUFFICES ASSUME target[t] = source[t] PROVE new = source[t]
      OBVIOUS
    <3>1. source[t] \in [Keys -> Versions]
      BY <1>0, <2>1 DEF DataType, Rows
    <3>2. \A k \in Keys : new[k] = source[t][k]
      BY <2>1 DEF Harmless, Held
    <3> QED BY <3>1, <3>2
  <2> HIDE DEF t, keys, new
  <2>4. \A u \in Tables : target[u] = source[u] => target'[u] = source[u]
    BY <1>0, <2>1, <2>2, <2>3 DEF DataType
  <2>5. \A d \in Copiers : stage'[d] # "read"
    <3>1. \A d \in Copiers \ {c} : stage[d] \notin Copying
      BY <2>1, Alone
    <3> QED BY <1>0, <2>2, <3>1 DEF CopierType, Copying
  <2> QED BY <2>2, <2>4, <2>5 DEF Harmless
<1>5. \A t \in Tables, k \in Keys : \A v \in Writable[t][k] : ~Write(t, k, v)
  BY DEF Write
<1> QED BY <1>1, <1>2, <1>3, <1>4, <1>5, CalmSteps, DeltaSteps DEF Next, Step

LEMMA InitFinal == Init => FinalInv
BY DEF Init, FinalInv, Live, NoCheck

\* Steps of clients and copiers.
LEMMA BesideFinalize ==
  ASSUME TypeOK, RunType, FinalInv, [Next]_vars, UNCHANGED <<check, constraint, finalized>>
  PROVE  FinalInv'
<1>1. check.stage # "idle" => ~finalized
  BY DEF FinalInv
<1>2. ASSUME Live PROVE Verified'
  <2>1. Verified
    BY <1>2 DEF FinalInv
  <2>2. /\ stopped' /\ Harmless' /\ source' = source
        /\ \A t \in Tables : target[t] = source[t] => target'[t] = source[t]
    BY <2>1, StepHarmless DEF Verified
  <2> QED BY <2>1, <2>2 DEF Verified
<1>3. Live' => Live
  BY DEF Live
<1> QED BY <1>1, <1>2, <1>3 DEF FinalInv

LEMMA StepFinal ==
  ASSUME TypeOK, RunType, FinalInv, [Next]_vars
  PROVE  FinalInv'
<1>0. check \in Checks /\ check.table \in Tables /\ NTables \in Nat /\ Tables = 1..NTables
  BY NumberAssumption DEF RunType, Checks, Tables
<1>1. ASSUME UNCHANGED <<dataVars, copyVars>>, Harmless PROVE Harmless'
  BY <1>1 DEF Harmless, TableOf, Pending
<1>2. NoCheck.stage = "idle" /\ ~NoCheck.quiet
  BY DEF NoCheck
<1>3. ASSUME check' = NoCheck PROVE FinalInv'
  BY <1>2, <1>3 DEF FinalInv, Live
<1>4. CASE BeginFinalize
  <2> DEFINE q == \A c \in Copiers : batch[c] = NoRows
  <2>1. /\ check' = [NoCheck EXCEPT !.stage = "source", !.quiet = q]
        /\ stopped /\ ~finalized /\ UNCHANGED <<dataVars, copyVars, finalized>>
    BY <1>4 DEF BeginFinalize
  <2>2. check'.stage = "source" /\ check'.quiet = q /\ check'.table = 1
    BY <2>1 DEF NoCheck
  <2>3. q => Harmless
    BY DEF Harmless, NoRows
  <2>4. \A t \in Tables : ~(t < 1)
    BY <1>0
  <2> HIDE DEF q
  <2>5. Live' => Verified'
    BY <1>1, <2>1, <2>2, <2>3, <2>4 DEF Live, Verified
  <2> QED BY <2>1, <2>5 DEF FinalInv
<1>5. CASE DigestSource
  <2>1. check.stage = "source" /\ UNCHANGED <<dataVars, copyVars, constraint, finalized>>
    BY <1>5 DEF DigestSource
  <2>2. CASE check' = [check EXCEPT !.stage = "target", !.rows = source[check.table]]
    <3>1. /\ check'.stage = "target" /\ check'.rows = source[check.table]
          /\ check'.table = check.table /\ check'.current = check.current
          /\ check'.quiet = check.quiet
      BY <1>0, <2>2 DEF Checks
    <3> QED BY <1>1, <2>1, <3>1 DEF FinalInv, Live, Verified
  <2> QED BY <1>3, <1>5, <2>2 DEF DigestSource
<1>6. CASE DigestTarget
  <2> DEFINE current == check.current /\ SameDigest(check.rows, target[check.table])
  <2>1. check.stage = "target" /\ UNCHANGED <<dataVars, copyVars, constraint, finalized>>
    BY <1>6 DEF DigestTarget
  <2>2. ASSUME Live, current, NEW t \in Tables, ~(check.table < t) PROVE target[t] = source[t]
    <3>1. CASE t = check.table
      BY <2>1, <2>2, <3>1 DEF FinalInv, Verified, SameDigest
    <3>2. CASE t # check.table
      <4>1. t < check.table
        BY <1>0, <2>2, <3>2
      <4> QED BY <2>1, <2>2, <4>1 DEF FinalInv, Verified
    <3> QED BY <3>1, <3>2
  <2>3. CASE check.table < NTables
    <3>1. check' = [check EXCEPT !.stage = "source", !.table = check.table + 1,
                                 !.rows = NoRows, !.current = current]
      BY <1>6, <2>3 DEF DigestTarget
    <3>2. /\ check'.stage = "source" /\ check'.table = check.table + 1
          /\ check'.current = current /\ check'.quiet = check.quiet
      BY <1>0, <3>1 DEF Checks
    <3>3. \A t \in Tables : t < check.table + 1 => ~(check.table < t)
      BY <1>0
    <3> HIDE DEF current
    <3> QED BY <1>1, <2>1, <2>2, <3>2, <3>3 DEF FinalInv, Live, Verified
  <2>4. CASE ~(check.table < NTables) /\ current
    <3>1. check' = [check EXCEPT !.stage = "add", !.table = 1, !.rows = NoRows]
      BY <1>6, <2>4 DEF DigestTarget
    <3>2. check'.stage = "add" /\ check'.table = 1 /\ check'.quiet = check.quiet
      BY <1>0, <3>1 DEF Checks
    <3>3. \A t \in Tables : ~(check.table < t) /\ ~(t < 1)
      BY <1>0, <2>4
    <3> QED BY <1>1, <2>1, <2>2, <2>4, <3>2, <3>3 DEF FinalInv, Live, Verified
  <2>5. CASE ~(check.table < NTables) /\ ~current
    <3>1. check' = NoCheck
      BY <1>6, <2>5 DEF DigestTarget
    <3> QED BY <1>3, <3>1
  <2> QED BY <2>3, <2>4, <2>5
<1>7. ASSUME NextTable, check.stage \in {"add", "validate"}, Live => constraint'[check.table] # "none",
             \A t \in Tables \ {check.table} : constraint'[t] = constraint[t],
             UNCHANGED <<dataVars, copyVars>>
      PROVE  FinalInv'
  <2>0. ~finalized
    BY <1>7 DEF FinalInv
  <2>1. ASSUME Live, NEW t \in Tables, ~(check.table < t) PROVE constraint'[t] # "none"
    <3>1. CASE t = check.table
      BY <1>7, <2>1, <3>1
    <3>2. CASE t # check.table
      <4>1. t < check.table
        BY <1>0, <2>1, <3>2
      <4> QED BY <1>7, <2>1, <3>2, <4>1 DEF FinalInv, Verified
    <3> QED BY <3>1, <3>2
  <2>2. CASE check.table < NTables
    <3>1. /\ check' = [check EXCEPT !.stage = "add", !.table = check.table + 1]
          /\ finalized' = finalized
      BY <1>7, <2>2 DEF NextTable
    <3>2. check'.stage = "add" /\ check'.table = check.table + 1 /\ check'.quiet = check.quiet
      BY <1>0, <3>1 DEF Checks
    <3>3. \A t \in Tables : t < check.table + 1 => ~(check.table < t)
      BY <1>0
    <3> QED BY <1>1, <1>7, <2>0, <2>1, <3>1, <3>2, <3>3 DEF FinalInv, Live, Verified
  <2>3. CASE ~(check.table < NTables)
    <3>1. check' = [NoCheck EXCEPT !.quiet = check.quiet] /\ finalized'
      BY <1>7, <2>3 DEF NextTable
    <3>2. check'.stage = "idle" /\ check'.quiet = check.quiet
      BY <3>1 DEF NoCheck
    <3>3. \A t \in Tables : ~(check.table < t)
      BY <1>0, <2>3
    <3> QED BY <1>1, <1>7, <2>0, <2>1, <3>1, <3>2, <3>3 DEF FinalInv, Live, Verified
  <2> QED BY <2>2, <2>3
<1>8. constraint \in [Tables -> {"none", "added", "valid"}]
  BY DEF TypeOK
<1>9. CASE AddConstraint
  <2>1. check.stage = "add" /\ UNCHANGED <<dataVars, copyVars>>
    BY <1>9 DEF AddConstraint
  <2>2. CASE constraint[check.table] = "none"
    <3>1. /\ constraint' = [constraint EXCEPT ![check.table] = "added"]
          /\ check' = [check EXCEPT !.stage = "validate"] /\ finalized' = finalized
      BY <1>9, <2>2 DEF AddConstraint
    <3>2. /\ check'.stage = "validate" /\ check'.table = check.table
          /\ check'.quiet = check.quiet
      BY <1>0, <3>1 DEF Checks
    <3>3. constraint'[check.table] # "none"
          /\ \A t \in Tables : constraint[t] # "none" => constraint'[t] # "none"
      BY <1>0, <1>8, <3>1
    <3> QED BY <1>1, <2>1, <3>1, <3>2, <3>3 DEF FinalInv, Live, Verified
  <2>3. CASE constraint[check.table] # "none"
    BY <1>7, <1>9, <2>1, <2>3 DEF AddConstraint
  <2> QED BY <2>2, <2>3
<1>10. CASE ValidateConstraint
  <2>1. /\ check.stage = "validate" /\ UNCHANGED <<dataVars, copyVars>> /\ NextTable
        /\ constraint' = [constraint EXCEPT ![check.table] = "valid"]
    BY <1>10 DEF ValidateConstraint
  <2> QED BY <1>0, <1>7, <1>8, <2>1
<1>11. CASE AbortFinalize
  BY <1>3, <1>11 DEF AbortFinalize
<1>12. CASE UNCHANGED <<check, constraint, finalized>>
  BY <1>12, BesideFinalize
<1>13. CASE \E c \in Copiers : Step(c) \/ AbortRun(c)
  BY <1>12, <1>13 DEF Step, SaveReset, BeginRun, ReadBatch, CommitBatch, SaveCheckpoint,
                      SavePaused, FinishRun, AbortRun
<1>14. CASE \/ StopWrites \/ UNCHANGED vars
            \/ \E c \in Copiers, again \in BOOLEAN :
                 StartRun(c, again) \/ StartFinalDelta(c, again)
            \/ \E t \in Tables, k \in Keys : \E v \in Writable[t][k] : Write(t, k, v)
  BY <1>12, <1>14 DEF StopWrites, vars, StartRun, StartFinalDelta, Write
<1> QED BY <1>4, <1>5, <1>6, <1>9, <1>10, <1>11, <1>13, <1>14 DEF Next, FinalizeStep

-----------------------------------------------------------------------------
(* The theorems.                                                           *)

MigrationInv == TypeOK /\ RunType /\ CopyInv({}) /\ DeltaInv /\ FinalInv

LEMMA Invariance == Spec => []MigrationInv
<1>1. Init => MigrationInv
  BY InitTypes, InitCopy, InitFinal DEF MigrationInv
<1>2. MigrationInv /\ [Next]_vars => MigrationInv'
  <2> SUFFICES ASSUME MigrationInv, [Next]_vars PROVE MigrationInv'
    OBVIOUS
  <2>1. TypeOK' /\ RunType'
    BY StepTypes DEF MigrationInv
  <2>2. CopyInv({})'
    BY StepCopy DEF MigrationInv
  <2>3. DeltaInv' /\ FinalInv'
    BY StepDelta, StepFinal DEF MigrationInv
  <2> QED BY <2>1, <2>2, <2>3 DEF MigrationInv
<1> QED BY <1>1, <1>2, PTL DEF Spec

\* The lease keeps runs apart: exactly the run that is copying holds it
\* (Run, FileCopyLease).
THEOREM TypeCorrect == Spec => []TypeOK
<1>1. MigrationInv => TypeOK
  BY DEF MigrationInv
<1> QED BY <1>1, Invariance, PTL

\* Whatever run saved the checkpoint file last, and wherever runs were cut off,
\* what it has passed is in the target (Run, copyBatch).
THEOREM CheckpointCoversCorrect == Spec => []CheckpointCovers
<1>1. MigrationInv => CheckpointCovers
  BY DEF MigrationInv, CopyInv, Covers, Passed, Good, CheckpointCovers
<1> QED BY <1>1, Invariance, PTL

\* A final delta that completed and reset nobody's checkpoint has copied
\* everything (RunFinalDelta).
THEOREM DeltaIsCompleteCorrect == Spec => []DeltaIsComplete
<1>1. MigrationInv => DeltaIsComplete
  <2> SUFFICES ASSUME MigrationInv, delta, ~interfered, NEW t \in Tables, NEW k \in Keys,
                      source[t][k] # 0, ~Skipped(t, k)
               PROVE  target[t][k] = source[t][k]
    BY DEF DeltaIsComplete
  <2>1. Good(t, k, AllRows)
    BY DEF MigrationInv, DeltaInv
  <2>2. <<t, k>> \notin touched \ AllRows
    BY DEF AllRows
  <2> QED BY <2>1, <2>2 DEF Good
<1> QED BY <1>1, Invariance, PTL

\* Finalize succeeds only on equal databases, although runs go on beside it
\* (Finalize, Verify).
THEOREM FinalizedIsExactCorrect == Spec => []FinalizedIsExact
<1>1. MigrationInv => FinalizedIsExact
  <2> SUFFICES ASSUME MigrationInv, finalized, check.quiet
               PROVE  target = source /\ \A t \in Tables : constraint[t] # "none"
    BY DEF FinalizedIsExact
  <2>1. Verified
    BY DEF MigrationInv, FinalInv, Live
  <2>2. target = source
    BY <2>1 DEF Verified, MigrationInv, TypeOK
  <2> QED BY <2>1, <2>2 DEF Verified
<1> QED BY <1>1, Invariance, PTL
=============================================================================
