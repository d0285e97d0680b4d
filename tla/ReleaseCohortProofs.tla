------------------------ MODULE ReleaseCohortProofs ------------------------
(***************************************************************************)
(* Proofs about ReleaseCohort, for any number of processes, instance IDs   *)
(* and releases and any lengths of lease, heartbeat interval and grace     *)
(* that satisfy ReleaseNumbers.                                            *)
(***************************************************************************)
EXTENDS ReleaseCohort, TLAPS

USE DEF cohortVars, leaseVars, beatVars

-----------------------------------------------------------------------------
(* Types.                                                                  *)

LEMMA InitTypeOK == Init => TypeOK
  BY ReleaseShape, ReleaseNumbers
  DEF Init, TypeOK, RowsTypeOK, ProcessesTypeOK, Phases

\* Each action of a process preserves the types of the rows.
LEMMA RunRowsTypeOK ==
  ASSUME TypeOK, NEW p \in Processes, Run(p)
  PROVE  RowsTypeOK'
<1> USE ReleaseShape, ReleaseNumbers
         DEF TypeOK, RowsTypeOK, ProcessesTypeOK
<1>1. CASE Claim(p)
  <2>1. generation' \in Nat /\ active' \in Identities \cup {NoIdentity}
    BY <1>1 DEF Claim, NextGeneration
  <2>2. leased' \subseteq Instances
    BY <1>1 DEF Claim, Kept, Live
  <2>3. Expiry(p) \in Nat
    BY DEF Expiry
  <2>4. /\ leaseGen' \in [Instances -> Nat] /\ leaseEnd' \in [Instances -> Nat]
        /\ leaseId' \in [Instances -> Identities \cup {NoIdentity}]
    BY <1>1, <2>1, <2>3 DEF Claim
  <2> QED BY <2>1, <2>2, <2>4
<1>2. CASE HeartbeatRuntimeRelease(p)
  <2>1. Expiry(p) \in Nat
    BY DEF Expiry
  <2> QED BY <1>2, <2>1 DEF HeartbeatRuntimeRelease
<1>3. CASE Leave(p)
  BY <1>3 DEF Leave
<1>4. CASE Join(p) \/ Refuse(p) \/ StopBootstrap(p) \/ Serve(p) \/ BeginHeartbeat(p)
  BY <1>4 DEF Join, Refuse, StopBootstrap, Serve, BeginHeartbeat
<1>5. CASE HeartbeatLost(p) \/ Close(p) \/ Crash(p)
  BY <1>5 DEF HeartbeatLost, Close, Crash
<1> QED BY <1>1, <1>2, <1>3, <1>4, <1>5 DEF Run

LEMMA RunProcessesTypeOK ==
  ASSUME TypeOK, NEW p \in Processes, Run(p)
  PROVE  ProcessesTypeOK'
<1> USE ReleaseShape, ReleaseNumbers
         DEF TypeOK, RowsTypeOK, ProcessesTypeOK, Phases, Enter
<1>1. CASE Claim(p)
  BY <1>1 DEF Claim, NextGeneration
<1>2. CASE HeartbeatRuntimeRelease(p) \/ BeginHeartbeat(p)
  BY <1>2 DEF HeartbeatRuntimeRelease, BeginHeartbeat
<1>3. CASE Join(p) \/ Refuse(p) \/ StopBootstrap(p) \/ Serve(p)
  BY <1>3 DEF Join, Refuse, StopBootstrap, Serve
<1>4. CASE HeartbeatLost(p)
  BY <1>4 DEF HeartbeatLost
<1>5. CASE Close(p) \/ Leave(p) \/ Crash(p)
  BY <1>5 DEF Close, Leave, Crash
<1> QED BY <1>1, <1>2, <1>3, <1>4, <1>5 DEF Run

\* The two bounds on times.
LEMMA RunTimes ==
  ASSUME TypeOK, NEW p \in Processes, Run(p)
  PROVE  /\ now' = now
         /\ \A q \in Processes : stamp'[q] <= now
         /\ \A i \in Instances : leaseEnd'[i] <= now + LeaseDuration
<1> USE ReleaseShape, ReleaseNumbers
         DEF TypeOK, RowsTypeOK, ProcessesTypeOK
<1>1. CASE Claim(p)
  <2>1. Expiry(p) <= now + LeaseDuration
    BY DEF Expiry
  <2> QED BY <1>1, <2>1 DEF Claim
<1>2. CASE HeartbeatRuntimeRelease(p)
  <2>1. Expiry(p) <= now + LeaseDuration
    BY DEF Expiry
  <2> QED BY <1>2, <2>1 DEF HeartbeatRuntimeRelease
<1>3. CASE Join(p) \/ BeginHeartbeat(p)
  BY <1>3 DEF Join, BeginHeartbeat
<1>4. CASE \/ Refuse(p) \/ StopBootstrap(p) \/ Serve(p) \/ HeartbeatLost(p)
           \/ Close(p) \/ Leave(p) \/ Crash(p)
  BY <1>4 DEF Refuse, StopBootstrap, Serve, HeartbeatLost, Close, Leave, Crash
<1> QED BY <1>1, <1>2, <1>3, <1>4 DEF Run

\* Time moves forward only.
LEMMA PassageTypeOK ==
  ASSUME TypeOK, Tick \/ Stall
  PROVE  TypeOK'
<1> USE ReleaseNumbers DEF TypeOK, RowsTypeOK, ProcessesTypeOK
<1>1. now' \in Nat /\ now' >= now
  BY DEF Tick, Stall
<1>2. UNCHANGED <<cohortVars, leaseVars, phase, beatVars, mine, faults>>
  BY DEF Tick, Stall
<1>3. stalls' \in 0 .. MaxStalls
  BY DEF Tick, Stall
<1> QED BY <1>1, <1>2, <1>3

LEMMA NextTypeOK == TypeOK /\ [Next]_vars => TypeOK'
<1> SUFFICES ASSUME TypeOK, [Next]_vars PROVE TypeOK'
  OBVIOUS
<1>1. CASE \E p \in Processes : Run(p)
  <2> PICK p \in Processes : Run(p)
    BY <1>1
  <2>1. RowsTypeOK' /\ ProcessesTypeOK'
    BY RunRowsTypeOK, RunProcessesTypeOK
  <2> QED BY <2>1, RunTimes DEF TypeOK
<1>2. CASE Tick \/ Stall
  BY <1>2, PassageTypeOK
<1>3. CASE UNCHANGED vars
  BY <1>3 DEF vars, TypeOK, RowsTypeOK, ProcessesTypeOK
<1> QED BY <1>1, <1>2, <1>3 DEF Next

\* The state keeps its types; in particular every time in it has come, and
\* a lease ends within its duration from now.
THEOREM TypeCorrect == Spec => []TypeOK
  BY InitTypeOK, NextTypeOK, PTL DEF Spec

-----------------------------------------------------------------------------
(* Leases and generations.                                                 *)

LEMMA NextLeasesAgree ==
  TypeOK /\ LeasesAgree /\ [Next]_vars => LeasesAgree'
<1> SUFFICES ASSUME TypeOK, LeasesAgree, [Next]_vars PROVE LeasesAgree'
  OBVIOUS
<1> USE ReleaseShape DEF TypeOK, RowsTypeOK, ProcessesTypeOK, LeasesAgree
<1>1. ASSUME NEW p \in Processes, Claim(p) PROVE LeasesAgree'
  <2>1. CASE Live(p) = {}
    BY <1>1, <2>1 DEF Claim, Kept
  <2>2. CASE Live(p) # {}
    <3>1. Live(p) \subseteq leased /\ active = IdOf[p] /\ UNCHANGED cohortVars
      BY <1>1, <2>2 DEF Claim, Live, Compatible
    <3> QED BY <1>1, <3>1 DEF Claim, Kept
  <2> QED BY <2>1, <2>2
<1>2. ASSUME NEW p \in Processes, Run(p), ~Claim(p) PROVE LeasesAgree'
  <2>1. leased' \subseteq leased /\ UNCHANGED <<cohortVars, leaseGen, leaseId>>
    BY <1>2 DEF Run, Join, Refuse, StopBootstrap, Serve, BeginHeartbeat, HeartbeatRuntimeRelease,
      HeartbeatLost, Close, Leave, Crash
  <2> QED BY <2>1
<1>3. CASE Tick \/ Stall \/ UNCHANGED vars
  BY <1>3 DEF Tick, Stall, vars
<1> QED BY <1>1, <1>2, <1>3 DEF Next

\* Every lease row, live or expired, stands for the active cohort, however
\* late processes are: a claim's check that live leases agree with the cohort
\* row never fails.
THEOREM LeasesAgreeCorrect == Spec => []LeasesAgree
<1>1. Init => LeasesAgree
  BY DEF Init, LeasesAgree
<1> QED BY <1>1, NextLeasesAgree, TypeCorrect, PTL DEF Spec

\* No process is ahead of the cohort, and the newest generation stands for
\* the active identity.
GenerationInv ==
  /\ GenerationIdentity
  /\ \A p \in Processes :
       /\ mine[p] <= generation
       /\ mine[p] = generation /\ mine[p] > 0 => IdOf[p] = active

LEMMA NextGenerationInv ==
  TypeOK /\ GenerationInv /\ [Next]_vars => GenerationInv'
<1> SUFFICES ASSUME TypeOK, GenerationInv, [Next]_vars PROVE GenerationInv'
  OBVIOUS
<1> USE ReleaseShape
         DEF TypeOK, RowsTypeOK, ProcessesTypeOK, GenerationInv, GenerationIdentity
<1>1. ASSUME NEW p \in Processes, Claim(p) PROVE GenerationInv'
  <2>1. /\ mine' = [mine EXCEPT ![p] = generation']
        /\ active' = IdOf[p]
    BY <1>1 DEF Claim, Compatible
  <2>2. CASE Live(p) = {}
    <3>1. generation' = generation + 1
      BY <1>1, <2>2 DEF Claim, NextGeneration
    <3> QED BY <2>1, <3>1
  <2>3. CASE Live(p) # {}
    <3>1. UNCHANGED cohortVars
      BY <1>1, <2>3 DEF Claim
    <3>2. \A q \in Processes : mine'[q] = IF q = p THEN generation ELSE mine[q]
      BY <2>1, <3>1
    <3>3. IdOf[p] = active
      BY <2>1, <3>1
    <3>4. \A q \in Processes :
            /\ mine'[q] \in Nat /\ mine'[q] <= generation
            /\ mine'[q] = generation /\ mine'[q] > 0 => IdOf[q] = active
      BY <3>2, <3>3
    <3>5. GenerationIdentity'
      BY <3>2, <3>3, <3>4
    <3> QED BY <3>1, <3>4, <3>5
  <2> QED BY <2>2, <2>3
<1>2. ASSUME NEW p \in Processes, Run(p), ~Claim(p) PROVE GenerationInv'
  <2>1. UNCHANGED <<cohortVars, mine>>
    BY <1>2 DEF Run, Join, Refuse, StopBootstrap, Serve, BeginHeartbeat, HeartbeatRuntimeRelease,
      HeartbeatLost, Close, Leave, Crash
  <2> QED BY <2>1
<1>3. CASE Tick \/ Stall \/ UNCHANGED vars
  BY <1>3 DEF Tick, Stall, vars
<1> QED BY <1>1, <1>2, <1>3 DEF Next

\* A generation is never given to two releases, so a heartbeat or a Leave
\* fenced by its generation never touches the lease of another release.
THEOREM GenerationCorrect == Spec => []GenerationIdentity
<1>1. Init => GenerationInv
  BY DEF Init, GenerationInv, GenerationIdentity
<1>2. GenerationInv => GenerationIdentity
  BY DEF GenerationInv
<1> QED BY <1>1, <1>2, NextGenerationInv, TypeCorrect, PTL DEF Spec

-----------------------------------------------------------------------------
(***************************************************************************)
(* One release at a time.  If nobody stalls and no instance ID is used by  *)
(* two processes at once, the lease of an active process never runs out:   *)
(* let a be the time its lease was last renewed with.  The claim itself    *)
(* took at most Grace, the bootstrap heartbeat begins one interval later   *)
(* and takes at most Grace; handing over to the lifecycle heartbeat at the *)
(* last moment costs one more Grace and one more interval before another   *)
(* heartbeat of at most Grace, so the next renewal has happened by         *)
(* a + 2 * HeartbeatInterval + 4 * Grace < a + LeaseDuration.              *)
(***************************************************************************)

\* The renewal of an active process's lease is due in time.
OnTime(p) ==
  /\ phase[p] = "joining" => now <= stamp[p] + Grace
  /\ Active(p) => now <= beat[p] + Grace
  /\ phase[p] = "starting" =>
       beat[p] + LeaseDuration <= leaseEnd[InstOf[p]] + HeartbeatInterval + Grace
  /\ phase[p] = "built" =>
       beat[p] + LeaseDuration <= leaseEnd[InstOf[p]] + HeartbeatInterval + 2 * Grace
  /\ phase[p] = "serving" =>
       beat[p] + LeaseDuration
         <= leaseEnd[InstOf[p]] + 2 * HeartbeatInterval + 3 * Grace
  /\ p \in beating => phase[p] \in {"starting", "serving"} /\ beat[p] <= stamp[p]

\* The lease of an active process is its own.
Holding(p) == Active(p) => LeaseIsMine(p)

\* Instance IDs are not shared.
Unshared ==
  \A p, q \in Processes : Alive(p) /\ Alive(q) /\ InstOf[p] = InstOf[q] => p = q

ReleaseInv == Unshared /\ \A p \in Processes : OnTime(p) /\ Holding(p)

\* An active process that is on time has not reached the end of its lease.
LEMMA LeaseRuns ==
  ASSUME TypeOK, NEW p \in Processes, OnTime(p), Active(p)
  PROVE  leaseEnd[InstOf[p]] > now
<1> USE ReleaseShape, ReleaseNumbers DEF TypeOK, RowsTypeOK, ProcessesTypeOK
<1>1. leaseEnd[InstOf[p]] \in Nat /\ now \in Nat /\ beat[p] \in Nat
  OBVIOUS
<1>2. now <= beat[p] + Grace
  BY DEF OnTime
<1>3. beat[p] + LeaseDuration
         <= leaseEnd[InstOf[p]] + 2 * HeartbeatInterval + 3 * Grace
  BY <1>1 DEF OnTime, Active
<1> QED BY <1>1, <1>2, <1>3

LEMMA NextUnshared ==
  ASSUME ~Overlap, TypeOK, Unshared, \A q \in beating : Active(q), [Next]_vars
  PROVE  Unshared'
<1> USE ReleaseShape DEF TypeOK, RowsTypeOK, ProcessesTypeOK, Unshared
<1>1. ASSUME NEW p \in Processes, Join(p) PROVE Unshared'
  BY <1>1 DEF Join, Alive, Enter
<1>2. ASSUME NEW p \in Processes, Run(p), ~Join(p) PROVE Unshared'
  <2>1. \A q \in Processes : Alive(q)' => Alive(q)
    <3>1. Alive(p)
      BY <1>2 DEF Run, Claim, Refuse, StopBootstrap, Serve, BeginHeartbeat,
        HeartbeatRuntimeRelease, HeartbeatLost, Close, Leave, Crash, Alive, Active
    <3>2. \A q \in Processes : q # p => phase'[q] = phase[q]
      BY <1>2 DEF Run, Claim, Refuse, StopBootstrap, Serve, BeginHeartbeat, Enter,
        HeartbeatRuntimeRelease, HeartbeatLost, Close, Leave, Crash
    <3> QED BY <3>1, <3>2 DEF Alive
  <2> QED BY <2>1
<1>3. CASE Tick \/ Stall \/ UNCHANGED vars
  BY <1>3 DEF Tick, Stall, vars, Alive
<1> QED BY <1>1, <1>2, <1>3 DEF Next

\* What a process leaves of the others: their own state and, when they are
\* alive, their lease row.
Untouched(q) ==
  /\ phase'[q] = phase[q] /\ stamp'[q] = stamp[q] /\ beat'[q] = beat[q]
  /\ mine'[q] = mine[q] /\ (q \in beating' <=> q \in beating)
  /\ Alive(q) => /\ leaseEnd'[InstOf[q]] = leaseEnd[InstOf[q]]
                 /\ leaseGen'[InstOf[q]] = leaseGen[InstOf[q]]
                 /\ leaseId'[InstOf[q]] = leaseId[InstOf[q]]

LEMMA OthersUntouched ==
  ASSUME TypeOK, Unshared, NEW p \in Processes, OnTime(p), Run(p),
         NEW q \in Processes, q # p
  PROVE  Untouched(q)
<1> USE ReleaseShape DEF TypeOK, RowsTypeOK, ProcessesTypeOK, Untouched, Enter
<1>1. CASE Claim(p) \/ HeartbeatRuntimeRelease(p)
  <2>1. Alive(p)
    BY <1>1 DEF Claim, HeartbeatRuntimeRelease, OnTime, Active, Alive
  <2>2. Alive(q) => InstOf[q] # InstOf[p]
    BY <2>1 DEF Unshared
  <2> QED BY <1>1, <2>2 DEF Claim, HeartbeatRuntimeRelease
<1>2. CASE Join(p) \/ Refuse(p) \/ StopBootstrap(p) \/ Serve(p) \/ BeginHeartbeat(p)
  BY <1>2 DEF Join, Refuse, StopBootstrap, Serve, BeginHeartbeat
<1>3. CASE HeartbeatLost(p) \/ Close(p) \/ Leave(p) \/ Crash(p)
  BY <1>3 DEF HeartbeatLost, Close, Leave, Crash
<1> QED BY <1>1, <1>2, <1>3 DEF Run

\* The process that takes a step is on time after it.
LEMMA RunOnTime ==
  ASSUME TypeOK, NEW p \in Processes, OnTime(p), Run(p)
  PROVE  OnTime(p)'
<1> USE ReleaseShape, ReleaseNumbers
         DEF TypeOK, RowsTypeOK, ProcessesTypeOK, OnTime, Active, Enter
<1>1. CASE Join(p)
  <2>1. now' = now /\ phase'[p] = "joining" /\ stamp'[p] = now /\ p \notin beating'
    BY <1>1 DEF Join
  <2> QED BY <2>1
<1>2. CASE Claim(p)
  <2>1. /\ now' = now /\ phase'[p] = "starting" /\ p \notin beating'
        /\ beat'[p] = now + HeartbeatInterval
        /\ leaseEnd'[InstOf[p]] = stamp[p] + LeaseDuration
    BY <1>2 DEF Claim, Expiry
  <2>2. now <= stamp[p] + Grace
    BY <1>2 DEF Claim
  <2>3. now <= beat'[p] + Grace
    BY <2>1
  <2>4. beat'[p] + LeaseDuration
          <= leaseEnd'[InstOf[p]] + HeartbeatInterval + Grace
    BY <2>1, <2>2
  <2> QED BY <2>1, <2>3, <2>4
<1>3. CASE StopBootstrap(p) /\ phase[p] = "starting"
  <2>1. /\ now' = now /\ phase'[p] = "built" /\ p \notin beating'
        /\ beat'[p] = now /\ leaseEnd' = leaseEnd
    BY <1>3 DEF StopBootstrap
  <2>2. /\ now <= beat[p] + Grace
        /\ beat[p] + LeaseDuration
             <= leaseEnd[InstOf[p]] + HeartbeatInterval + Grace
    BY <1>3
  <2>3. leaseEnd[InstOf[p]] \in Nat /\ beat[p] \in Nat /\ now \in Nat
    OBVIOUS
  <2>4. /\ now <= beat'[p] + Grace
        /\ beat'[p] + LeaseDuration
             <= leaseEnd'[InstOf[p]] + HeartbeatInterval + 2 * Grace
    BY <2>1, <2>2, <2>3
  <2> QED BY <2>1, <2>4
<1>7. CASE Serve(p)
  <2>1. /\ now' = now /\ phase'[p] = "serving" /\ p \notin beating'
        /\ beat'[p] = now + HeartbeatInterval /\ leaseEnd' = leaseEnd
    BY <1>7 DEF Serve
  <2>2. /\ now <= beat[p] + Grace
        /\ beat[p] + LeaseDuration
             <= leaseEnd[InstOf[p]] + HeartbeatInterval + 2 * Grace
    BY <1>7 DEF Serve
  <2>3. leaseEnd[InstOf[p]] \in Nat /\ beat[p] \in Nat /\ now \in Nat
    OBVIOUS
  <2>4. /\ now <= beat'[p] + Grace
        /\ beat'[p] + LeaseDuration
             <= leaseEnd'[InstOf[p]] + 2 * HeartbeatInterval + 3 * Grace
    BY <2>1, <2>2, <2>3
  <2> QED BY <2>1, <2>4
<1>4. CASE BeginHeartbeat(p)
  <2>1. UNCHANGED <<now, phase, beat, leaseEnd>> /\ stamp'[p] = now /\ beat[p] <= now
    BY <1>4 DEF BeginHeartbeat
  <2>2. phase[p] \in {"starting", "serving"}
    BY <1>4 DEF BeginHeartbeat
  <2> QED BY <2>1, <2>2
<1>5. CASE HeartbeatRuntimeRelease(p)
  <2>1. /\ UNCHANGED <<now, phase>> /\ p \notin beating'
        /\ beat'[p] = stamp[p] + HeartbeatInterval
        /\ leaseEnd'[InstOf[p]] = stamp[p] + LeaseDuration
    BY <1>5 DEF HeartbeatRuntimeRelease, Expiry
  <2>2. /\ now <= beat[p] + Grace /\ beat[p] <= stamp[p]
        /\ phase[p] \in {"starting", "serving"}
    BY <1>5 DEF HeartbeatRuntimeRelease
  <2>3. now <= beat'[p] + Grace
    BY <2>1, <2>2
  <2>4. beat'[p] + LeaseDuration
          <= leaseEnd'[InstOf[p]] + HeartbeatInterval + Grace
    BY <2>1
  <2>5. beat'[p] + LeaseDuration
          <= leaseEnd'[InstOf[p]] + 2 * HeartbeatInterval + 3 * Grace
    BY <2>1
  <2> QED BY <2>1, <2>2, <2>3, <2>4, <2>5
<1>6. CASE \/ Refuse(p) \/ HeartbeatLost(p) \/ Close(p) \/ Leave(p) \/ Crash(p)
           \/ StopBootstrap(p) /\ phase[p] # "starting"
  <2>1. phase'[p] \in {"doomed", "failed", "closing", "gone"} /\ p \notin beating'
    BY <1>6 DEF Refuse, HeartbeatLost, Close, Leave, Crash, StopBootstrap
  <2> QED BY <2>1
<1> QED BY <1>1, <1>2, <1>3, <1>4, <1>5, <1>6, <1>7 DEF Run

\* A tick waits for everybody who is due.
LEMMA NextOnTime ==
  ASSUME stalls' = 0, TypeOK, ReleaseInv, [Next]_vars, NEW q \in Processes
  PROVE  OnTime(q)'
<1>1. ASSUME NEW p \in Processes, Run(p) PROVE OnTime(q)'
  <2>1. CASE q = p
    BY <1>1, <2>1, RunOnTime DEF ReleaseInv
  <2>2. CASE q # p
    <3>1. Untouched(q)
      BY <1>1, <2>2, OthersUntouched DEF ReleaseInv
    <3>2. now' = now
      BY <1>1, RunTimes
    <3>3. OnTime(q)
      BY DEF ReleaseInv
    <3> QED BY <3>1, <3>2, <3>3 DEF OnTime, Untouched, Active, Alive
  <2> QED BY <2>1, <2>2
<1>2. CASE Tick
  <2>1. now' = now + 1 /\ UNCHANGED <<leaseVars, phase, beatVars>> /\ Prompt
    BY <1>2 DEF Tick
  <2>2. now \in Nat /\ stamp[q] \in Nat /\ beat[q] \in Nat
    BY DEF TypeOK, ProcessesTypeOK
  <2>3. OnTime(q)
    BY DEF ReleaseInv
  <2> QED BY <2>1, <2>2, <2>3, ReleaseNumbers DEF OnTime, Prompt, Active
<1>3. CASE Stall
  BY <1>3 DEF Stall, TypeOK, ProcessesTypeOK
<1>4. CASE UNCHANGED vars
  BY <1>4 DEF vars, ReleaseInv, OnTime, Active
<1> QED BY <1>1, <1>2, <1>3, <1>4 DEF Next

\* A claim finds the leases of the active processes live: the stamp it
\* compares them with has passed, and they run beyond now.
LEMMA ClaimSpares ==
  ASSUME TypeOK, ReleaseInv, NEW p \in Processes, Claim(p),
         NEW q \in Processes, Active(q)
  PROVE  InstOf[q] \in Live(p) /\ UNCHANGED cohortVars
<1>1. leaseEnd[InstOf[q]] > now
  BY LeaseRuns DEF ReleaseInv
<1>2. InstOf[q] \in leased
  BY DEF ReleaseInv, Holding, LeaseIsMine
<1>3. stamp[p] <= now /\ stamp[p] \in Nat /\ now \in Nat /\ leaseEnd[InstOf[q]] \in Nat
  BY ReleaseShape DEF TypeOK, RowsTypeOK, ProcessesTypeOK
<1>4. InstOf[q] \in Live(p)
  BY <1>1, <1>2, <1>3 DEF Live
<1> QED BY <1>4 DEF Claim

LEMMA NextHolding ==
  ASSUME TypeOK, ReleaseInv, [Next]_vars, NEW q \in Processes
  PROVE  Holding(q)'
<1> USE ReleaseShape DEF TypeOK, RowsTypeOK, ProcessesTypeOK
<1>1. ASSUME NEW p \in Processes, Run(p), q = p PROVE Holding(q)'
  <2>1. CASE Claim(p)
    BY <1>1, <2>1 DEF Claim, Compatible, Holding, LeaseIsMine
  <2>2. CASE \/ Serve(p) \/ BeginHeartbeat(p) \/ HeartbeatRuntimeRelease(p)
             \/ StopBootstrap(p)
    BY <1>1, <2>2 DEF StopBootstrap, Serve, BeginHeartbeat, HeartbeatRuntimeRelease, Enter,
      ReleaseInv, Holding, LeaseIsMine, Active
  <2>3. CASE \/ Join(p) \/ Refuse(p) \/ HeartbeatLost(p) \/ Close(p) \/ Leave(p)
             \/ Crash(p)
    BY <1>1, <2>3 DEF Join, Refuse, HeartbeatLost, Close, Leave, Crash, Enter,
      Holding, Active
  <2> QED BY <1>1, <2>1, <2>2, <2>3 DEF Run
<1>2. ASSUME NEW p \in Processes, Run(p), q # p, Active(q)' PROVE LeaseIsMine(q)'
  <2>1. Untouched(q)
    BY <1>2, OthersUntouched DEF ReleaseInv
  <2>2. Active(q) /\ Alive(q)
    BY <1>2, <2>1 DEF Untouched, Active, Alive
  <2>3. LeaseIsMine(q)
    BY <2>2 DEF ReleaseInv, Holding
  <2>4. UNCHANGED cohortVars /\ InstOf[q] \in leased'
    <3>1. CASE Claim(p)
      BY <3>1, <2>2, ClaimSpares DEF Claim, Kept
    <3>2. CASE Leave(p)
      <4>1. InstOf[p] # InstOf[q]
        BY <1>2, <2>2, <3>2 DEF Leave, Alive, ReleaseInv, Unshared
      <4> QED BY <3>2, <4>1, <2>3 DEF Leave, LeaseIsMine
    <3>3. CASE ~Claim(p) /\ ~Leave(p)
      BY <1>2, <2>3, <3>3 DEF Run, Join, Refuse, StopBootstrap, Serve, BeginHeartbeat,
        HeartbeatRuntimeRelease, HeartbeatLost, Close, Crash, LeaseIsMine
    <3> QED BY <3>1, <3>2, <3>3
  <2> QED BY <2>1, <2>2, <2>3, <2>4 DEF Untouched, LeaseIsMine
<1>3. CASE Tick \/ Stall \/ UNCHANGED vars
  BY <1>3 DEF Tick, Stall, vars, ReleaseInv, Holding, LeaseIsMine, Active
<1> QED BY <1>1, <1>2, <1>3 DEF Next, Holding

\* Nothing undoes a stall.
LEMMA StallsStay ==
  ASSUME TypeOK, [Next]_vars, stalls' = 0
  PROVE  stalls = 0
<1>1. stalls \in Nat
  BY ReleaseNumbers DEF TypeOK, ProcessesTypeOK
<1>2. ASSUME NEW p \in Processes, Run(p) PROVE stalls' = stalls
  BY <1>2 DEF Run, Join, Claim, Refuse, StopBootstrap, Serve, BeginHeartbeat,
    HeartbeatRuntimeRelease, HeartbeatLost, Close, Leave, Crash
<1>3. CASE Stall
  BY <1>1, <1>3 DEF Stall
<1>4. CASE Tick \/ UNCHANGED vars
  BY <1>4 DEF Tick, vars
<1> QED BY <1>2, <1>3, <1>4 DEF Next

OnTimeInv == stalls = 0 => ReleaseInv

LEMMA NextReleaseInv ==
  ASSUME ~Overlap
  PROVE  TypeOK /\ OnTimeInv /\ [Next]_vars => OnTimeInv'
<1> SUFFICES ASSUME TypeOK, OnTimeInv, [Next]_vars, stalls' = 0 PROVE ReleaseInv'
  BY DEF OnTimeInv
<1> ReleaseInv
  BY StallsStay DEF OnTimeInv
<1>1. \A p \in beating : Active(p)
  BY DEF ReleaseInv, OnTime, Active, TypeOK, ProcessesTypeOK
<1>2. Unshared'
  BY <1>1, NextUnshared DEF ReleaseInv
<1>3. \A p \in Processes : OnTime(p)' /\ Holding(p)'
  BY NextOnTime, NextHolding
<1> QED BY <1>2, <1>3 DEF ReleaseInv

\* Without shared instance IDs, and until a process or a transaction is not
\* scheduled in time, a process that executes business work holds an unexpired
\* lease of the active cohort.
THEOREM ActiveHoldsLeaseCorrect ==
  ASSUME ~Overlap
  PROVE  Spec => []ActiveHoldsLease
<1>1. Init => OnTimeInv
  BY DEF Init, OnTimeInv, ReleaseInv, Unshared, OnTime, Holding, Active, Alive
<1>2. TypeOK /\ OnTimeInv => ActiveHoldsLease
  BY LeaseRuns DEF OnTimeInv, ReleaseInv, Holding, ActiveHoldsLease
<1> QED BY <1>1, <1>2, NextReleaseInv, TypeCorrect, PTL DEF Spec

\* Without shared instance IDs, and until a process or a transaction is not
\* scheduled in time, two releases never execute business work on one database
\* at the same time, whichever of their processes crash, lose a database call,
\* restart or are rolled over.
THEOREM OneReleaseCorrect ==
  ASSUME ~Overlap
  PROVE  Spec => []OneRelease
<1>1. ActiveHoldsLease => OneRelease
  BY DEF ActiveHoldsLease, OneRelease, LeaseIsMine
<1> QED BY <1>1, ActiveHoldsLeaseCorrect, PTL

=============================================================================
