--------------------------- MODULE ReleaseCohort ---------------------------
(***************************************************************************)
(* Release admission: the Runtime processes that share a database must     *)
(* run one release.  A process joins the active release cohort before it   *)
(* touches business data, renews its lease while it runs, closes its       *)
(* traffic admission for good when a renewal fails, and gives the lease    *)
(* back when it shuts down.                                                *)
(*                                                                         *)
(* Code: runtime_release_cohort_store.go, the deployment application       *)
(* service, and startup and shutdown under bootstrap/runtime.  A claim and *)
(* a heartbeat are serializable transactions that begin by updating the    *)
(* cohort row, so each is one atomic step; the time it works with was read *)
(* before it began (stamp).                                                *)
(*                                                                         *)
(* A process is one run of the program.  A later run may use the instance  *)
(* ID (RUNTIME_INSTANCE_ID) of an earlier one.                             *)
(***************************************************************************)
EXTENDS Integers

CONSTANTS
  Processes, Instances, Identities,
  InstOf,            \* the instance ID a process is configured with
  IdOf,              \* the release identity a process is built from
  NoIdentity,        \* the empty identity_json of the first cohort row
  LeaseDuration,     \* defaultRuntimeReleaseLeaseDuration
  HeartbeatInterval, \* defaultRuntimeReleaseHeartbeat
  Grace,             \* the longest a prompt claim, heartbeat or handover takes
  Overlap,           \* may a process start while its ID is still in use?
  MaxFaults,         \* bound: crashes and failed database calls
  MaxStalls,         \* bound: processes or transactions not scheduled in time
  Horizon            \* bound: the last instant

ASSUME ReleaseShape ==
  /\ InstOf \in [Processes -> Instances] /\ IdOf \in [Processes -> Identities]
  /\ NoIdentity \notin Identities /\ Overlap \in BOOLEAN

\* The code has 45 s and 15 s: two intervals and four calls, each up to Grace,
\* fit in a lease.
ASSUME ReleaseNumbers ==
  /\ HeartbeatInterval \in Nat \ {0} /\ LeaseDuration \in Nat /\ Grace \in Nat
  /\ 2 * HeartbeatInterval + 4 * Grace < LeaseDuration
  /\ MaxFaults \in Nat /\ MaxStalls \in Nat /\ Horizon \in Nat

VARIABLES
  now,
  generation, active,            \* _release_cohorts: generation and identity
  leased, leaseGen, leaseId, leaseEnd, \* _release_instances, by instance ID
  phase,    \* what a process is doing
  stamp,    \* the time a claim or heartbeat in progress works with
  beating,  \* processes with a heartbeat in progress
  beat,     \* when the next heartbeat is due
  mine,     \* the generation of a process's own lease, 0 before the claim
  faults, stalls

cohortVars == <<generation, active>>
leaseVars == <<leased, leaseGen, leaseId, leaseEnd>>
beatVars == <<stamp, beating, beat>>
vars == <<now, cohortVars, leaseVars, phase, beatVars, mine, faults, stalls>>

Init ==
  /\ now = 0
  /\ generation = 0 /\ active = NoIdentity
  /\ leased = {}
  /\ leaseGen = [i \in Instances |-> 0]
  /\ leaseId = [i \in Instances |-> NoIdentity]
  /\ leaseEnd = [i \in Instances |-> 0]
  /\ phase = [p \in Processes |-> "off"]
  /\ stamp = [p \in Processes |-> 0]
  /\ beating = {}
  /\ beat = [p \in Processes |-> 0]
  /\ mine = [p \in Processes |-> 0]
  /\ faults = 0 /\ stalls = 0

Alive(p) == phase[p] \notin {"off", "gone"}

\* A process that executes business work and has not lost its lease: startup
\* restores metadata and seeds, a serving process admits requests and runs
\* workers.  Between the two, "built" has no heartbeat.
Active(p) == phase[p] \in {"starting", "built", "serving"}

Enter(p, s) == phase' = [phase EXCEPT ![p] = s]

-----------------------------------------------------------------------------
(* Joining.                                                                *)

\* Join: the instant of the claim is read before the transaction begins.
Join(p) ==
  /\ phase[p] = "off"
  /\ Overlap \/ \A q \in Processes : InstOf[q] = InstOf[p] => ~Alive(q)
  /\ Enter(p, "joining")
  /\ stamp' = [stamp EXCEPT ![p] = now]
  /\ UNCHANGED <<now, cohortVars, leaseVars, beating, beat, mine, faults, stalls>>

\* The rows liveInstances returns; it deletes the others.
Live(p) == {i \in leased : leaseEnd[i] > stamp[p]}

\* Leases that are live may only be joined by the identity they stand for.
MutCompatible(p) == TRUE
Compatible(p) ==
  /\ \A i \in Live(p) : leaseGen[i] = generation /\ leaseId[i] = active
  /\ active = IdOf[p]

MutNextGeneration == IF generation = 0 THEN 1 ELSE generation
NextGeneration == generation + 1

\* The new expiry of the lease of a claim or heartbeat.
MutExpiry(p) == leaseEnd[InstOf[p]] + LeaseDuration
Expiry(p) == stamp[p] + LeaseDuration

\* The rows a claim leaves behind besides its own.
MutKept(p) == leased
Kept(p) == Live(p)

\* claim and writeInstanceLease: without a live lease the cohort moves to the
\* claimed identity under a new generation.
Claim(p) ==
  /\ phase[p] = "joining"
  /\ \/ Live(p) = {} /\ generation' = NextGeneration /\ active' = IdOf[p]
     \/ Live(p) # {} /\ Compatible(p) /\ UNCHANGED cohortVars
  /\ leased' = Kept(p) \cup {InstOf[p]}
  /\ leaseGen' = [leaseGen EXCEPT ![InstOf[p]] = generation']
  /\ leaseId' = [leaseId EXCEPT ![InstOf[p]] = IdOf[p]]
  /\ leaseEnd' = [leaseEnd EXCEPT ![InstOf[p]] = Expiry(p)]
  /\ mine' = [mine EXCEPT ![p] = generation']
  /\ beat' = [beat EXCEPT ![p] = now + HeartbeatInterval]
  /\ Enter(p, "starting")
  /\ UNCHANGED <<now, stamp, beating, faults, stalls>>

\* RuntimeReleaseCohortConflict: the transaction rolls back, startup fails.
Refuse(p) ==
  /\ phase[p] = "joining"
  /\ Live(p) # {} /\ ~Compatible(p)
  /\ Enter(p, "gone")
  /\ UNCHANGED <<now, cohortVars, leaseVars, beatVars, mine, faults, stalls>>

-----------------------------------------------------------------------------
(* Running.                                                                *)

\* Startup is complete: runtimeReleaseBootstrapHeartbeat.Stop ends the bootstrap
\* heartbeat and hands its error, if any, to startup, which then gives up.
StopBootstrap(p) ==
  /\ \/ phase[p] = "starting" /\ Enter(p, "built")
     \/ phase[p] = "doomed" /\ Enter(p, "closing")
  /\ beating' = beating \ {p}
  /\ beat' = [beat EXCEPT ![p] = now]
  /\ UNCHANGED <<now, cohortVars, leaseVars, stamp, mine, faults, stalls>>

\* StartWorkers: the lifecycle heartbeat starts with a full interval ahead of
\* it, startup is marked complete and traffic is admitted.
Serve(p) ==
  /\ phase[p] = "built"
  /\ Enter(p, "serving")
  /\ beat' = [beat EXCEPT ![p] = now + HeartbeatInterval]
  /\ UNCHANGED <<now, cohortVars, leaseVars, stamp, beating, mine, faults, stalls>>

BeginHeartbeat(p) ==
  /\ phase[p] \in {"starting", "serving"}
  /\ p \notin beating /\ now >= beat[p]
  /\ beating' = beating \cup {p}
  /\ stamp' = [stamp EXCEPT ![p] = now]
  /\ UNCHANGED <<now, cohortVars, leaseVars, phase, beat, mine, faults, stalls>>

\* HeartbeatRuntimeRelease's fence: cohort and lease are still the ones the
\* process joined, and the lease has not run out.
LeaseIsMine(p) ==
  /\ generation = mine[p] /\ active = IdOf[p]
  /\ InstOf[p] \in leased
  /\ leaseGen[InstOf[p]] = mine[p] /\ leaseId[InstOf[p]] = IdOf[p]

HeartbeatRuntimeRelease(p) ==
  /\ p \in beating
  /\ LeaseIsMine(p) /\ leaseEnd[InstOf[p]] > stamp[p]
  /\ leaseEnd' = [leaseEnd EXCEPT ![InstOf[p]] = Expiry(p)]
  /\ beat' = [beat EXCEPT ![p] = stamp[p] + HeartbeatInterval]
  /\ beating' = beating \ {p}
  /\ UNCHANGED <<now, cohortVars, leased, leaseGen, leaseId, phase, stamp, mine,
                 faults, stalls>>

\* The lease is lost, or the database call fails: a serving process closes its
\* admission (RuntimeReleaseAdmission.Fail); a starting one notes the error and
\* goes on with its startup, without further heartbeats.
HeartbeatLost(p) ==
  /\ p \in beating
  /\ \/ /\ ~(LeaseIsMine(p) /\ leaseEnd[InstOf[p]] > stamp[p])
        /\ UNCHANGED faults
     \/ faults < MaxFaults /\ faults' = faults + 1
  /\ beating' = beating \ {p}
  /\ Enter(p, IF phase[p] = "starting" THEN "doomed" ELSE "failed")
  /\ UNCHANGED <<now, cohortVars, leaseVars, stamp, beat, mine, stalls>>

-----------------------------------------------------------------------------
(* Leaving.                                                                *)

\* The HTTP server is down and the workers drained, or startup gave up.
Close(p) ==
  /\ phase[p] \in {"starting", "doomed", "built", "serving", "failed"}
  /\ Enter(p, "closing")
  /\ beating' = beating \ {p}
  /\ UNCHANGED <<now, cohortVars, leaseVars, stamp, beat, mine, faults, stalls>>

\* ReleaseRuntimeRelease deletes the row with the process's instance ID,
\* identity and generation.
Leave(p) ==
  /\ phase[p] = "closing"
  /\ leased' = IF InstOf[p] \in leased /\ leaseGen[InstOf[p]] = mine[p]
                  /\ leaseId[InstOf[p]] = IdOf[p]
               THEN leased \ {InstOf[p]} ELSE leased
  /\ Enter(p, "gone")
  /\ UNCHANGED <<now, cohortVars, leaseGen, leaseId, leaseEnd, beatVars, mine,
                 faults, stalls>>

\* A crash, a claim or a Leave that fails: the lease is left to expire.
Crash(p) ==
  /\ Alive(p)
  /\ faults < MaxFaults /\ faults' = faults + 1
  /\ Enter(p, "gone")
  /\ beating' = beating \ {p}
  /\ UNCHANGED <<now, cohortVars, leaseVars, stamp, beat, mine, stalls>>

-----------------------------------------------------------------------------
\* Everybody is on time: claims and heartbeats are not older than Grace.
Prompt ==
  \A p \in Processes :
    /\ phase[p] = "joining" => now < stamp[p] + Grace
    /\ Active(p) => now < beat[p] + Grace

Tick ==
  /\ now < Horizon /\ Prompt
  /\ now' = now + 1
  /\ UNCHANGED <<cohortVars, leaseVars, phase, beatVars, mine, faults, stalls>>

\* Somebody is not.
Stall ==
  /\ stalls < MaxStalls
  /\ stalls' = stalls + 1
  /\ \E t \in now + 1 .. Horizon : now' = t
  /\ UNCHANGED <<cohortVars, leaseVars, phase, beatVars, mine, faults>>

Run(p) ==
  \/ Join(p) \/ Claim(p) \/ Refuse(p) \/ StopBootstrap(p) \/ Serve(p)
  \/ BeginHeartbeat(p) \/ HeartbeatRuntimeRelease(p) \/ HeartbeatLost(p)
  \/ Close(p) \/ Leave(p) \/ Crash(p)

Next == (\E p \in Processes : Run(p)) \/ Tick \/ Stall

Spec == Init /\ [][Next]_vars

-----------------------------------------------------------------------------
(* Properties.                                                             *)

Phases ==
  {"off", "joining", "starting", "doomed", "built", "serving", "failed", "closing",
   "gone"}

RowsTypeOK ==
  /\ generation \in Nat /\ active \in Identities \cup {NoIdentity}
  /\ leased \subseteq Instances
  /\ leaseGen \in [Instances -> Nat]
  /\ leaseId \in [Instances -> Identities \cup {NoIdentity}]
  /\ leaseEnd \in [Instances -> Nat]

ProcessesTypeOK ==
  /\ phase \in [Processes -> Phases]
  /\ stamp \in [Processes -> Nat] /\ beat \in [Processes -> Nat]
  /\ mine \in [Processes -> Nat]
  /\ beating \subseteq Processes
  /\ now \in Nat /\ faults \in 0 .. MaxFaults /\ stalls \in 0 .. MaxStalls

\* Types; no process works with a time that has not come, and no lease
\* outlives its duration.
TypeOK ==
  /\ RowsTypeOK /\ ProcessesTypeOK
  /\ \A p \in Processes : stamp[p] <= now
  /\ \A i \in Instances : leaseEnd[i] <= now + LeaseDuration

\* Every row of _release_instances, live or expired, stands for the active
\* cohort: the claim's "lease disagrees with cohort" refusal is unreachable.
LeasesAgree ==
  \A i \in leased : leaseGen[i] = generation /\ leaseId[i] = active

\* A generation never stands for two releases, however late a process is:
\* what the heartbeat fences by generation it fences by release.
GenerationIdentity ==
  \A p, q \in Processes :
    mine[p] = mine[q] /\ mine[p] > 0 => IdOf[p] = IdOf[q]

\* Unless a process was not scheduled in time, processes that execute business
\* work at the same time run one release.
OneRelease ==
  stalls = 0 =>
    \A p, q \in Processes : Active(p) /\ Active(q) => IdOf[p] = IdOf[q]

\* Unless a process was not scheduled in time, one that executes business work
\* holds a lease that has not expired, of the active cohort.
ActiveHoldsLease ==
  stalls = 0 =>
    \A p \in Processes :
      Active(p) => LeaseIsMine(p) /\ leaseEnd[InstOf[p]] > now

=============================================================================
