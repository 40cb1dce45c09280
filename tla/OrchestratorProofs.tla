------------------------- MODULE OrchestratorProofs -------------------------
(***************************************************************************)
(* Theorems of Orchestrator for every set of replicas, tenants and slots,  *)
(* every kind and number of faults.                                        *)
(***************************************************************************)
EXTENDS Orchestrator, TLAPS

-----------------------------------------------------------------------------
(* The helpers that update one replica's maps.                             *)

(* Whatever they leave or take away, the maps keep their types.            *)
LEMMA HelperTypes ==
  ASSUME TypeOK, NEW r \in Replicas, NEW T
  PROVE  /\ Forgotten(r, T) \in [Arms -> Slots \cup {NoOne}]
         /\ Signalled(r, T) \in [Calls -> Phases]
         /\ Unlocked(r, T) \in [Tenants -> Replicas \cup {NoOne}]
         /\ Unleased(r, T) \in [Arms -> Leases]
<1> USE DEF TypeOK
<1>1. Forgotten(r, T) \in [Arms -> Slots \cup {NoOne}] BY DEF Forgotten
<1>2. Signalled(r, T) \in [Calls -> Phases] BY DEF Signalled, Phases
<1>3. Unlocked(r, T) \in [Tenants -> Replicas \cup {NoOne}] BY DEF Unlocked
<1>4. Unleased(r, T) \in [Arms -> Leases] BY DEF Unleased, Leases
<1> QED BY <1>1, <1>2, <1>3, <1>4

(* spawnChild's first half takes at most one slot from free to checked.    *)
LEMMA CalledType ==
  ASSUME NEW ps \in [Calls -> Phases], NEW r \in Replicas, NEW t \in Tenants, NEW h
  PROVE  Called(ps, r, t, h) \in [Calls -> Phases]
BY DEF Called, Phases

-----------------------------------------------------------------------------
(* Types.                                                                  *)

LEMMA TypeInit == Init => TypeOK
BY DEF Init, TypeOK, Leases, Phases, Stages

LEMMA TypeChild == TypeOK /\ ChildStep => TypeOK'
<1> SUFFICES ASSUME TypeOK, ChildStep PROVE TypeOK' OBVIOUS
<1> USE DEF TypeOK, storeVars, loopVars, flagVars
<1>1. ASSUME NEW r \in Replicas, NEW t \in Tenants, NEW s \in Slots, StoreRead(r, t, s)
      PROVE  TypeOK'
  BY <1>1 DEF StoreRead, Phases
<1>2. ASSUME NEW r \in Replicas, NEW t \in Tenants, NEW s \in Slots, SpawnProcess(r, t, s)
      PROVE  TypeOK'
  BY <1>2 DEF SpawnProcess, Phases
<1>3. ASSUME NEW r \in Replicas, NEW t \in Tenants, NEW s \in Slots, ExitEvent(r, t, s)
      PROVE  TypeOK'
  <2>1. timers' \in [Arms -> Nat]
    <3>1. timers[<<r, t>>] + 1 \in Nat BY DEF Arms
    <3>2. [timers EXCEPT ![<<r, t>>] = @ + 1] \in [Arms -> Nat] BY <3>1
    <3> QED BY <1>3, <3>2 DEF ExitEvent
  <2>2. entry' \in [Arms -> Slots \cup {NoOne}] BY <1>3 DEF ExitEvent
  <2>3. proc' \in [Calls -> Phases] BY <1>3 DEF ExitEvent, Phases
  <2> QED BY <1>3, <2>1, <2>2, <2>3 DEF ExitEvent
<1>4. ASSUME NEW r \in Replicas, NEW t \in Tenants, Timer(r, t) PROVE TypeOK'
  <2>1. timers' \in [Arms -> Nat]
    <3>1. timers[<<r, t>>] \in Nat BY DEF Arms
    <3>2. timers[<<r, t>>] - 1 \in Nat BY <1>4, <3>1 DEF Timer
    <3> QED BY <1>4, <3>2 DEF Timer
  <2>2. proc' \in [Calls -> Phases] BY <1>4, CalledType DEF Timer
  <2> QED BY <1>4, <2>1, <2>2 DEF Timer
<1> QED BY <1>1, <1>2, <1>3, <1>4 DEF ChildStep, Calls, Arms

LEMMA TypeLoop == ASSUME TypeOK, NEW r \in Replicas, LoopStep(r) PROVE TypeOK'
<1> USE DEF TypeOK, storeVars, childVars, loopVars, flagVars
<1>1. CASE LoopHalt(r) BY <1>1, HelperTypes DEF LoopHalt
<1>2. CASE ListTenants(r) BY <1>2 DEF ListTenants, Stages
<1>3. CASE StoreUnreadable(r) BY <1>3 DEF StoreUnreadable, Running, Stages
<1>4. CASE StandDown(r) BY <1>4, HelperTypes DEF StandDown, Stages
<1>5. ASSUME NEW t \in Tenants, ArmSkip(r, t) PROVE TypeOK' BY <1>5 DEF ArmSkip
<1>6. ASSUME NEW t \in Tenants, ArmTenant(r, t) PROVE TypeOK'
  BY <1>6, CalledType DEF ArmTenant, Stages
<1>7. ASSUME NEW t \in Tenants, AcquireGranted(r, t) PROVE TypeOK'
  BY <1>7, CalledType DEF AcquireGranted, Stages, Leases
<1>8. ASSUME NEW t \in Tenants, AcquireRefused(r, t) PROVE TypeOK'
  BY <1>8 DEF AcquireRefused, Stages
<1>9. ASSUME NEW t \in Tenants, SpawnReturned(r, t) PROVE TypeOK'
  BY <1>9 DEF SpawnReturned, Stages
<1>10. CASE RefreshBegin(r) BY <1>10 DEF RefreshBegin, Running, Stages
<1>11. ASSUME NEW t \in Tenants, RefreshGrant(r, t) PROVE TypeOK'
  BY <1>11 DEF RefreshGrant
<1>12. CASE KillUnwanted(r) BY <1>12, HelperTypes DEF KillUnwanted, Running, Stages
<1>13. CASE LoopEnd(r) BY <1>13 DEF LoopEnd, Stages
<1> QED BY <1>1, <1>2, <1>3, <1>4, <1>5, <1>6, <1>7, <1>8, <1>9, <1>10, <1>11, <1>12,
           <1>13 DEF LoopStep

LEMMA TypeWatchdog ==
  ASSUME TypeOK, NEW r \in Replicas, NEW t \in Tenants, Watchdog(r, t) PROVE TypeOK'
<1> USE DEF TypeOK, storeVars, loopVars, flagVars
<1>1. faults' \in Nat BY ConstantsAssumption DEF Watchdog, Fault
<1>2. proc' \in [Calls -> Phases] BY HelperTypes, CalledType DEF Watchdog
<1>3. entry' \in [Arms -> Slots \cup {NoOne}] BY HelperTypes DEF Watchdog
<1> QED BY <1>1, <1>2, <1>3 DEF Watchdog

LEMMA TypeReboot == ASSUME TypeOK, NEW r \in Replicas, Reboot(r), faults' \in Nat PROVE TypeOK'
<1> USE DEF TypeOK
<1>1. lease' \in [Arms -> Leases] /\ lock' \in [Tenants -> Replicas \cup {NoOne}]
      /\ entry' \in [Arms -> Slots \cup {NoOne}]
  BY HelperTypes DEF Reboot
<1>2. proc' \in [Calls -> Phases] BY DEF Reboot, Phases
<1>3. timers' \in [Arms -> Nat] /\ file' \in [Arms -> BOOLEAN] BY DEF Reboot
<1> QED BY <1>1, <1>2, <1>3 DEF Reboot, Stages

LEMMA TypeEnv == TypeOK /\ EnvStep => TypeOK'
<1> SUFFICES ASSUME TypeOK, EnvStep PROVE TypeOK' OBVIOUS
<1> USE DEF TypeOK, storeVars, childVars, loopVars, flagVars
<1>0. ASSUME NEW f, Fault(f) PROVE faults' \in Nat BY <1>0, ConstantsAssumption DEF Fault
<1>1. ASSUME NEW r \in Replicas, NEW t \in Tenants, ConnectionDrops(r, t) PROVE TypeOK'
  BY <1>1, <1>0 DEF ConnectionDrops, Leases
<1>2. ASSUME NEW r \in Replicas, NEW t \in Tenants, ClientNotices(r, t) PROVE TypeOK'
  BY <1>2 DEF ClientNotices, Leases
<1>3. ASSUME NEW r \in Replicas, NEW t \in Tenants, NEW s \in Slots, ChildDies(r, t, s)
      PROVE  TypeOK'
  BY <1>3, <1>0 DEF ChildDies, Phases
<1>4. ASSUME NEW t \in Tenants, Sign(t) PROVE TypeOK' BY <1>4 DEF Sign
<1>5. ASSUME NEW t \in Tenants, Revoke(t) PROVE TypeOK' BY <1>5, <1>0 DEF Revoke
<1>6. ASSUME NEW r \in Replicas, ToggleHalt(r) PROVE TypeOK' BY <1>6, <1>0 DEF ToggleHalt
<1>7. ASSUME NEW r \in Replicas, Stop(r) PROVE TypeOK'
  BY <1>7, <1>0, HelperTypes DEF Stop
<1>8. ASSUME NEW r \in Replicas, Exit(r) PROVE TypeOK' BY <1>8, TypeReboot DEF Exit
<1>9. ASSUME NEW r \in Replicas, StoreReadThrows(r) PROVE TypeOK'
  BY <1>9, <1>0, TypeReboot DEF StoreReadThrows
<1> QED BY <1>1, <1>2, <1>3, <1>4, <1>5, <1>6, <1>7, <1>8, <1>9 DEF EnvStep, Calls, Arms

LEMMA TypeStep == TypeOK /\ [Next]_vars => TypeOK'
<1> SUFFICES ASSUME TypeOK, [Next]_vars PROVE TypeOK' OBVIOUS
<1>1. CASE UNCHANGED vars
  BY <1>1 DEF TypeOK, vars, storeVars, childVars, loopVars, flagVars
<1>2. CASE Next BY <1>2, TypeChild, TypeLoop, TypeWatchdog, TypeEnv DEF Next
<1> QED BY <1>1, <1>2

(* TypeOK: every map of a replica keeps its type, whatever interleaves.    *)
THEOREM TypeCorrect == Spec => []TypeOK
BY TypeInit, TypeStep, PTL DEF Spec

-----------------------------------------------------------------------------
(* The lease map and the Postgres lock.                                    *)

LEMMA LeaseInit == Init => LeaseIsLock
BY ConstantsAssumption DEF Init, LeaseIsLock, Arms

(* Releasing leases releases exactly the locks behind them.                *)
LEMMA LetGo ==
  ASSUME TypeOK, LeaseIsLock, NEW r \in Replicas, NEW T,
         lease' = Unleased(r, T), lock' = Unlocked(r, T)
  PROVE  LeaseIsLock'
<1> SUFFICES ASSUME NEW q \in Replicas, NEW t \in Tenants
             PROVE  lease'[<<q, t>>] = "held" <=> lock'[t] = q
  BY DEF LeaseIsLock, Arms
<1>1. lease[<<q, t>>] = "held" <=> lock[t] = q BY DEF LeaseIsLock, Arms
<1>2. lease'[<<q, t>>] = IF q = r /\ t \in T THEN "none" ELSE lease[<<q, t>>]
  BY DEF Unleased, Arms
<1>3. lock'[t] = IF t \in T /\ lock[t] = r THEN NoOne ELSE lock[t] BY DEF Unlocked
<1> QED BY <1>1, <1>2, <1>3, ConstantsAssumption

LEMMA LeaseStep ==
  ASSUME TypeOK, LeaseIsLock, Next PROVE LeaseIsLock'
<1> USE DEF storeVars, childVars, loopVars, flagVars
<1>1. CASE UNCHANGED <<lease, lock>> BY <1>1 DEF LeaseIsLock
<1>2. ASSUME ChildStep PROVE LeaseIsLock'
  BY <1>1, <1>2 DEF ChildStep, StoreRead, SpawnProcess, ExitEvent, Timer
<1>3. ASSUME NEW r \in Replicas, LoopStep(r) PROVE LeaseIsLock'
  <2>1. CASE LoopHalt(r) BY <2>1, LetGo DEF LoopHalt
  <2>2. CASE StandDown(r) BY <2>2, LetGo DEF StandDown
  <2>3. CASE KillUnwanted(r) BY <2>3, LetGo DEF KillUnwanted
  <2>4. ASSUME NEW t \in Tenants, AcquireGranted(r, t) PROVE LeaseIsLock'
    <3> SUFFICES ASSUME NEW q \in Replicas, NEW u \in Tenants
                 PROVE  lease'[<<q, u>>] = "held" <=> lock'[u] = q
      BY DEF LeaseIsLock, Arms
    <3>1. lease[<<q, u>>] = "held" <=> lock[u] = q BY DEF LeaseIsLock, Arms
    <3>2. lease'[<<q, u>>] = IF q = r /\ u = t THEN "held" ELSE lease[<<q, u>>]
      BY <2>4 DEF AcquireGranted, TypeOK, Arms
    <3>3. lock'[u] = IF u = t THEN r ELSE lock[u] BY <2>4 DEF AcquireGranted, TypeOK
    <3> QED BY <2>4, <3>1, <3>2, <3>3, ConstantsAssumption DEF AcquireGranted
  <2>5. CASE \/ ListTenants(r) \/ StoreUnreadable(r) \/ RefreshBegin(r) \/ LoopEnd(r)
             \/ \E t \in Tenants : \/ ArmSkip(r, t) \/ ArmTenant(r, t) \/ AcquireRefused(r, t)
                                   \/ SpawnReturned(r, t) \/ RefreshGrant(r, t)
    BY <1>1, <2>5 DEF ListTenants, StoreUnreadable, RefreshBegin, LoopEnd, ArmSkip, ArmTenant,
                      AcquireRefused, SpawnReturned, RefreshGrant
  <2> QED BY <1>3, <2>1, <2>2, <2>3, <2>4, <2>5 DEF LoopStep
<1>4. ASSUME NEW r \in Replicas, NEW t \in Tenants, Watchdog(r, t) PROVE LeaseIsLock'
  BY <1>1, <1>4 DEF Watchdog
<1>5. ASSUME EnvStep PROVE LeaseIsLock'
  <2>1. ASSUME NEW r \in Replicas, NEW t \in Tenants, ConnectionDrops(r, t) PROVE LeaseIsLock'
    <3> SUFFICES ASSUME NEW q \in Replicas, NEW u \in Tenants
                 PROVE  lease'[<<q, u>>] = "held" <=> lock'[u] = q
      BY DEF LeaseIsLock, Arms
    <3>1. lease[<<q, u>>] = "held" <=> lock[u] = q BY DEF LeaseIsLock, Arms
    <3>2. lease'[<<q, u>>] = IF q = r /\ u = t THEN "stale" ELSE lease[<<q, u>>]
      BY <2>1 DEF ConnectionDrops, TypeOK, Arms
    <3>3. lock'[u] = IF u = t THEN NoOne ELSE lock[u] BY <2>1 DEF ConnectionDrops, TypeOK
    <3> QED BY <2>1, <3>1, <3>2, <3>3, ConstantsAssumption DEF ConnectionDrops
  <2>2. ASSUME NEW r \in Replicas, NEW t \in Tenants, ClientNotices(r, t) PROVE LeaseIsLock'
    <3> SUFFICES ASSUME NEW q \in Replicas, NEW u \in Tenants
                 PROVE  lease'[<<q, u>>] = "held" <=> lock'[u] = q
      BY DEF LeaseIsLock, Arms
    <3>1. lease[<<q, u>>] = "held" <=> lock[u] = q BY DEF LeaseIsLock, Arms
    <3>2. lease'[<<q, u>>] = IF q = r /\ u = t THEN "lost" ELSE lease[<<q, u>>]
      BY <2>2 DEF ClientNotices, TypeOK, Arms
    <3> QED BY <2>2, <3>1, <3>2 DEF ClientNotices
  <2>3. ASSUME NEW r \in Replicas, Reboot(r) PROVE LeaseIsLock' BY <2>3, LetGo DEF Reboot
  <2>4. ASSUME NEW r \in Replicas, Stop(r) PROVE LeaseIsLock' BY <2>4, LetGo DEF Stop
  <2>5. CASE \/ \E c \in Calls : ChildDies(c[1], c[2], c[3])
             \/ \E t \in Tenants : Sign(t) \/ Revoke(t)
             \/ \E r \in Replicas : ToggleHalt(r)
    BY <1>1, <2>5 DEF ChildDies, Sign, Revoke, ToggleHalt
  <2> QED BY <1>5, <2>1, <2>2, <2>3, <2>4, <2>5 DEF EnvStep, Arms, Exit, StoreReadThrows
<1> QED BY <1>2, <1>3, <1>4, <1>5 DEF Next

(* LeaseIsLock, under every fault: a replica never believes in a lease it  *)
(* does not hold in Postgres, and never holds a lock without its lease.    *)
THEOREM LeasesAreLocks == Spec => []LeaseIsLock
<1>1. TypeOK /\ LeaseIsLock /\ [Next]_vars => (TypeOK /\ LeaseIsLock)'
  <2>1. ASSUME LeaseIsLock, UNCHANGED vars PROVE LeaseIsLock'
    BY <2>1 DEF LeaseIsLock, vars, storeVars
  <2> QED BY <2>1, TypeStep, LeaseStep
<1> QED BY <1>1, TypeInit, LeaseInit, PTL DEF Spec

-----------------------------------------------------------------------------
(* Children, entries and leases of one replica and tenant.                 *)

Pending(q, u, s) == proc[<<q, u, s>>] \in {"checked", "granted"}

(* A running child is the registered one, under a lease; a spawnChild call *)
(* between its awaits is the only one, with nothing registered and a lease *)
(* on file; a lease about to be asked for is not there yet.                *)
ArmOk(q, u) ==
  /\ \A s \in Slots :
       proc[<<q, u, s>>] = "running" => entry[<<q, u>>] = s /\ lease[<<q, u>>] # "none"
  /\ \A s \in Slots : Pending(q, u, s) => entry[<<q, u>>] = NoOne /\ lease[<<q, u>>] # "none"
  /\ \A s, z \in Slots : Pending(q, u, s) /\ Pending(q, u, z) => s = z
  /\ loop[q] = "acquire" /\ at[q] = u => lease[<<q, u>>] = "none" /\ entry[<<q, u>>] = NoOne

ArmInv == \A q \in Replicas, u \in Tenants : ArmOk(q, u)

(* An arm nothing happened to keeps its invariant.                         *)
LEMMA ArmSame ==
  ASSUME NEW q \in Replicas, NEW u \in Tenants, ArmOk(q, u),
         entry'[<<q, u>>] = entry[<<q, u>>], lease'[<<q, u>>] = lease[<<q, u>>],
         \A s \in Slots : proc'[<<q, u, s>>] = proc[<<q, u, s>>],
         loop'[q] = "acquire" /\ at'[q] = u => loop[q] = "acquire" /\ at[q] = u
  PROVE  ArmOk(q, u)'
BY DEF ArmOk, Pending

(* What a killed or released arm looks like.                               *)
LEMMA Killed ==
  ASSUME TypeOK, NEW r \in Replicas, NEW T, NEW q \in Replicas, NEW u \in Tenants
  PROVE  /\ Forgotten(r, T)[<<q, u>>] = IF q = r /\ u \in T THEN NoOne ELSE entry[<<q, u>>]
         /\ Unleased(r, T)[<<q, u>>] = IF q = r /\ u \in T THEN "none" ELSE lease[<<q, u>>]
         /\ \A s \in Slots : Signalled(r, T)[<<q, u, s>>] =
              IF q = r /\ u \in T /\ entry[<<r, u>>] = s /\ proc[<<q, u, s>>] = "running"
                THEN "dead" ELSE proc[<<q, u, s>>]
BY DEF Forgotten, Unleased, Signalled, Arms, Calls

(* Killing the registered children of T and dropping the leases of G, when *)
(* G's running children are in T and no spawn of T or G is pending.        *)
LEMMA ArmKill ==
  ASSUME TypeOK, ArmInv, NEW r \in Replicas, NEW T, NEW G,
         entry' = Forgotten(r, T), proc' = Signalled(r, T), lease' = Unleased(r, G),
         \A t \in Tenants, s \in Slots : ~Pending(r, t, s),
         \A t \in Tenants : t \in G /\ entry[<<r, t>>] # NoOne => t \in T,
         loop'[r] # "acquire", \A q \in Replicas \ {r} : loop'[q] = loop[q], UNCHANGED at
  PROVE  ArmInv'
<1> SUFFICES ASSUME NEW q \in Replicas, NEW u \in Tenants PROVE ArmOk(q, u)' BY DEF ArmInv
<1>0. ArmOk(q, u) BY DEF ArmInv
<1>1. CASE q # r
  <2>1. entry'[<<q, u>>] = entry[<<q, u>>] /\ lease'[<<q, u>>] = lease[<<q, u>>]
    BY <1>1 DEF Forgotten, Unleased, Arms
  <2>2. \A s \in Slots : proc'[<<q, u, s>>] = proc[<<q, u, s>>] BY <1>1 DEF Signalled, Calls
  <2> QED BY <1>0, <1>1, <2>1, <2>2, ArmSame
<1>2. CASE q = r
  <2>1. entry'[<<q, u>>] = IF u \in T THEN NoOne ELSE entry[<<q, u>>] BY <1>2, Killed
  <2>2. lease'[<<q, u>>] = IF u \in G THEN "none" ELSE lease[<<q, u>>] BY <1>2, Killed
  <2>3. \A s \in Slots : proc'[<<q, u, s>>] =
          IF u \in T /\ entry[<<r, u>>] = s /\ proc[<<q, u, s>>] = "running"
            THEN "dead" ELSE proc[<<q, u, s>>]
    BY <1>2, Killed
  <2>4. \A s \in Slots : ~Pending(q, u, s)' BY <1>2, <2>3 DEF Pending
  <2>5. ASSUME NEW s \in Slots, proc'[<<q, u, s>>] = "running"
        PROVE  entry'[<<q, u>>] = s /\ lease'[<<q, u>>] # "none"
    <3>1. proc[<<q, u, s>>] = "running" /\ entry[<<q, u>>] = s /\ lease[<<q, u>>] # "none"
      BY <1>0, <2>3, <2>5 DEF ArmOk
    <3>2. u \notin T BY <1>2, <2>3, <2>5, <3>1
    <3>3. s # NoOne BY ConstantsAssumption
    <3> QED BY <1>2, <2>1, <2>2, <3>1, <3>2, <3>3
  <2> QED BY <1>2, <2>4, <2>5 DEF ArmOk
<1> QED BY <1>1, <1>2

LEMMA ArmInit == Init => ArmInv
BY DEF Init, ArmInv, ArmOk, Pending, Arms, Calls

LEMMA ArmChild ==
  ASSUME TypeOK, ArmInv, "overlap" \notin Faults, ChildStep PROVE ArmInv'
<1> SUFFICES ASSUME NEW q \in Replicas, NEW u \in Tenants PROVE ArmOk(q, u)' BY DEF ArmInv
<1> USE DEF loopVars, storeVars
<1>0. ArmOk(q, u) BY DEF ArmInv
<1>1. ASSUME NEW r \in Replicas, NEW t \in Tenants, NEW s \in Slots, StoreRead(r, t, s)
      PROVE  ArmOk(q, u)'
  <2>1. ArmOk(r, t) /\ Pending(r, t, s) BY <1>1 DEF ArmInv, StoreRead, Pending
  <2>2. \A z \in Slots : \/ proc'[<<q, u, z>>] = proc[<<q, u, z>>]
                         \/ q = r /\ u = t /\ z = s /\ proc'[<<q, u, z>>] \in {"granted", "free"}
    BY <1>1 DEF StoreRead, TypeOK, Calls
  <2> QED BY <1>0, <1>1, <2>1, <2>2 DEF StoreRead, ArmOk, Pending
<1>2. ASSUME NEW r \in Replicas, NEW t \in Tenants, NEW s \in Slots, SpawnProcess(r, t, s)
      PROVE  ArmOk(q, u)'
  <2>1. ArmOk(r, t) /\ Pending(r, t, s) BY <1>2 DEF ArmInv, SpawnProcess, Pending
  <2>2. \A z \in Slots : proc'[<<q, u, z>>] =
          IF q = r /\ u = t /\ z = s THEN "running" ELSE proc[<<q, u, z>>]
    BY <1>2 DEF SpawnProcess, TypeOK, Calls
  <2>3. entry'[<<q, u>>] = IF q = r /\ u = t THEN s ELSE entry[<<q, u>>]
    BY <1>2 DEF SpawnProcess, TypeOK, Arms
  <2>4. CASE ~(q = r /\ u = t) BY <1>0, <1>2, <2>2, <2>3, <2>4, ArmSame DEF SpawnProcess
  <2>5. CASE q = r /\ u = t
    <3>1. \A z \in Slots : z # s => proc[<<q, u, z>>] # "running" /\ ~Pending(q, u, z)
      BY <2>1, <2>5, ConstantsAssumption DEF ArmOk
    <3>2. \A z \in Slots : ~Pending(q, u, z)' BY <2>2, <2>5, <3>1 DEF Pending
    <3>3. lease'[<<q, u>>] # "none" /\ ~(loop'[q] = "acquire" /\ at'[q] = u)
      BY <1>2, <2>1, <2>5 DEF SpawnProcess, ArmOk
    <3> QED BY <2>2, <2>3, <2>5, <3>1, <3>2, <3>3 DEF ArmOk
  <2> QED BY <2>4, <2>5
<1>3. ASSUME NEW r \in Replicas, NEW t \in Tenants, NEW s \in Slots, ExitEvent(r, t, s)
      PROVE  ArmOk(q, u)'
  <2>1. \A z \in Slots : proc'[<<q, u, z>>] =
          IF q = r /\ u = t /\ z = s THEN "free" ELSE proc[<<q, u, z>>]
    BY <1>3 DEF ExitEvent, TypeOK, Calls
  <2>2. entry'[<<q, u>>] = IF q = r /\ u = t /\ entry[<<q, u>>] = s THEN NoOne ELSE entry[<<q, u>>]
    BY <1>3 DEF ExitEvent, TypeOK, Arms
  <2>3. proc[<<r, t, s>>] = "dead" BY <1>3 DEF ExitEvent
  <2> QED BY <1>0, <1>3, <2>1, <2>2, <2>3 DEF ExitEvent, ArmOk, Pending
<1>4. ASSUME NEW r \in Replicas, NEW t \in Tenants, Timer(r, t) PROVE ArmOk(q, u)'
  <2>1. CASE entry[<<r, t>>] # NoOne BY <1>0, <1>4, <2>1, ArmSame DEF Timer
  <2>2. CASE entry[<<r, t>>] = NoOne
    <3>1. \A z \in Slots : ~Pending(r, t, z) BY <1>4 DEF Timer, Settled, Pending
    <3>2. \A z \in Slots :
            \/ proc'[<<q, u, z>>] = proc[<<q, u, z>>]
            \/ /\ q = r /\ u = t /\ z = FreeSlot(proc, r, t) /\ Healthy(r, t)
               /\ proc'[<<q, u, z>>] = "checked"
      BY <1>4, <2>2 DEF Timer, TypeOK, Called, Calls
    <3>3. UNCHANGED <<entry, lease, loop, at>> BY <1>4 DEF Timer
    <3> QED BY <1>0, <2>2, <3>1, <3>2, <3>3 DEF ArmOk, Pending, Healthy
  <2> QED BY <2>1, <2>2
<1> QED BY <1>1, <1>2, <1>3, <1>4 DEF ChildStep, Calls, Arms

(* A step that only moves the loop of r.                                   *)
LEMMA ArmMoved ==
  ASSUME ArmInv, NEW r \in Replicas, UNCHANGED <<entry, lease, proc, at>>,
         loop'[r] = "acquire" => loop[r] = "acquire",
         \A q \in Replicas \ {r} : loop'[q] = loop[q]
  PROVE  ArmInv'
BY DEF ArmInv, ArmOk, Pending

LEMMA ArmLoop ==
  ASSUME TypeOK, ArmInv, "overlap" \notin Faults, NEW r \in Replicas, LoopStep(r)
  PROVE  ArmInv'
<1> USE DEF storeVars, childVars, loopVars, flagVars
<1>0. \A q \in Replicas : \A v : [loop EXCEPT ![r] = v][q] = IF q = r THEN v ELSE loop[q]
  BY DEF TypeOK
<1>1. CASE LoopHalt(r)
  <2>1. \A t \in Tenants, s \in Slots : ~Pending(r, t, s) BY <1>1 DEF LoopHalt, Settled, Pending
  <2>2. loop'[r] # "acquire" /\ \A q \in Replicas : loop'[q] = loop[q] BY <1>1 DEF LoopHalt
  <2>3. UNCHANGED at BY <1>1 DEF LoopHalt
  <2> QED BY <1>1, <2>1, <2>2, <2>3, ArmKill DEF LoopHalt
<1>2. CASE StandDown(r)
  <2> DEFINE T == {t \in Tenants : lease[<<r, t>>] = "lost"}
  <2>1. \A t \in Tenants, s \in Slots : ~Pending(r, t, s) BY <1>2 DEF StandDown, Settled, Pending
  <2>2. loop'[r] # "acquire" /\ \A q \in Replicas \ {r} : loop'[q] = loop[q]
    BY <1>0, <1>2 DEF StandDown
  <2>3. entry' = Forgotten(r, T) /\ proc' = Signalled(r, T) /\ lease' = Unleased(r, T)
        /\ UNCHANGED at
    BY <1>2 DEF StandDown
  <2> HIDE DEF T
  <2> QED BY <2>1, <2>2, <2>3, ArmKill
<1>3. CASE KillUnwanted(r)
  <2> DEFINE T == Running(r) \ snapshot[r]
             G == Leased(r) \ snapshot[r]
  <2>1. \A t \in Tenants, s \in Slots : ~Pending(r, t, s)
    BY <1>3 DEF KillUnwanted, Settled, Pending
  <2>2. loop'[r] # "acquire" /\ \A q \in Replicas \ {r} : loop'[q] = loop[q]
    BY <1>0, <1>3 DEF KillUnwanted
  <2>3. entry' = Forgotten(r, T) /\ proc' = Signalled(r, T) /\ lease' = Unleased(r, G)
        /\ UNCHANGED at
    BY <1>3 DEF KillUnwanted
  <2>4. \A t \in Tenants : t \in G /\ entry[<<r, t>>] # NoOne => t \in T BY DEF Running
  <2> HIDE DEF T, G
  <2> QED BY <2>1, <2>2, <2>3, <2>4, ArmKill
<1>4. ASSUME NEW t \in Tenants, ArmTenant(r, t) PROVE ArmInv'
  <2> SUFFICES ASSUME NEW q \in Replicas, NEW u \in Tenants PROVE ArmOk(q, u)' BY DEF ArmInv
  <2>1. ArmOk(q, u) BY DEF ArmInv
  <2>2. loop'[q] = (IF q = r THEN IF lease[<<r, t>>] = "none" THEN "acquire" ELSE "spawn"
                             ELSE loop[q])
        /\ at'[q] = IF q = r THEN t ELSE at[q]
    BY <1>4 DEF ArmTenant, TypeOK
  <2>3. \A z \in Slots : ~Pending(r, t, z) BY <1>4 DEF ArmTenant, Settled, Pending
  <2>4. \A z \in Slots :
          \/ proc'[<<q, u, z>>] = proc[<<q, u, z>>]
          \/ /\ q = r /\ u = t /\ z = FreeSlot(proc, r, t) /\ lease[<<r, t>>] # "none"
             /\ proc'[<<q, u, z>>] = "checked"
    BY <1>4 DEF ArmTenant, TypeOK, Called, Calls, Healthy
  <2>5. UNCHANGED <<entry, lease>> /\ entry[<<r, t>>] = NoOne BY <1>4 DEF ArmTenant
  <2> QED BY <2>1, <2>2, <2>3, <2>4, <2>5 DEF ArmOk, Pending
<1>5. ASSUME NEW t \in Tenants, AcquireGranted(r, t) PROVE ArmInv'
  <2> SUFFICES ASSUME NEW q \in Replicas, NEW u \in Tenants PROVE ArmOk(q, u)' BY DEF ArmInv
  <2>1. ArmOk(q, u) BY DEF ArmInv
  <2>2. loop'[q] = IF q = r THEN "spawn" ELSE loop[q] BY <1>5 DEF AcquireGranted, TypeOK
  <2>3. lease'[<<q, u>>] = IF q = r /\ u = t THEN "held" ELSE lease[<<q, u>>]
    BY <1>5 DEF AcquireGranted, TypeOK, Arms
  <2>4. \A z \in Slots :
          \/ proc'[<<q, u, z>>] = proc[<<q, u, z>>]
          \/ /\ q = r /\ u = t /\ z = FreeSlot(proc, r, t)
             /\ proc'[<<q, u, z>>] = "checked"
    BY <1>5 DEF AcquireGranted, TypeOK, Called, Calls
  <2>5. UNCHANGED <<entry, at>> BY <1>5 DEF AcquireGranted
  <2>6. lease[<<r, t>>] = "none" /\ (\A z \in Slots : ~Pending(r, t, z))
    BY <1>5 DEF ArmInv, ArmOk, AcquireGranted
  <2>7. entry[<<r, t>>] = NoOne BY <1>5 DEF ArmInv, ArmOk, AcquireGranted
  <2> QED BY <2>1, <2>2, <2>3, <2>4, <2>5, <2>6, <2>7 DEF ArmOk, Pending
<1>6. CASE \/ ListTenants(r) \/ StoreUnreadable(r) \/ RefreshBegin(r) \/ LoopEnd(r)
           \/ \E t \in Tenants : \/ ArmSkip(r, t) \/ AcquireRefused(r, t)
                                 \/ SpawnReturned(r, t) \/ RefreshGrant(r, t)
  <2>1. UNCHANGED <<entry, lease, proc, at>>
    BY <1>6 DEF ListTenants, StoreUnreadable, RefreshBegin, LoopEnd, ArmSkip, AcquireRefused,
                SpawnReturned, RefreshGrant
  <2>2. loop'[r] = loop[r] \/ loop'[r] # "acquire"
    BY <1>0, <1>6 DEF ListTenants, StoreUnreadable, RefreshBegin, LoopEnd, ArmSkip,
                      AcquireRefused, SpawnReturned, RefreshGrant
  <2>3. loop' = loop \/ \E v : loop' = [loop EXCEPT ![r] = v]
    BY <1>6 DEF ListTenants, StoreUnreadable, RefreshBegin, LoopEnd, ArmSkip, AcquireRefused,
                SpawnReturned, RefreshGrant
  <2>4. \A q \in Replicas \ {r} : loop'[q] = loop[q] BY <1>0, <2>3
  <2> QED BY <2>1, <2>2, <2>4, ArmMoved
<1> QED BY <1>1, <1>2, <1>3, <1>4, <1>5, <1>6 DEF LoopStep

LEMMA ArmWatchdog ==
  ASSUME TypeOK, ArmInv, "overlap" \notin Faults,
         NEW r \in Replicas, NEW t \in Tenants, Watchdog(r, t)
  PROVE  ArmInv'
<1> USE DEF storeVars, loopVars, flagVars
<1> SUFFICES ASSUME NEW q \in Replicas, NEW u \in Tenants PROVE ArmOk(q, u)' BY DEF ArmInv
<1>1. ArmOk(q, u) /\ ArmOk(r, t) BY DEF ArmInv
<1>2. entry'[<<q, u>>] = IF q = r /\ u = t THEN NoOne ELSE entry[<<q, u>>]
  BY DEF Watchdog, Forgotten, Arms
<1>3. \A z \in Slots : ~Pending(r, t, z) BY DEF Watchdog, Settled, Pending
<1> DEFINE ps == Signalled(r, {t})
<1>4. \A z \in Slots : ps[<<q, u, z>>] =
        IF q = r /\ u = t /\ entry[<<r, t>>] = z /\ proc[<<q, u, z>>] = "running"
          THEN "dead" ELSE proc[<<q, u, z>>]
  BY DEF Signalled, Calls
<1>5. \A z \in Slots :
        \/ proc'[<<q, u, z>>] = ps[<<q, u, z>>]
        \/ /\ q = r /\ u = t /\ z = FreeSlot(ps, r, t) /\ Healthy(r, t)
           /\ proc'[<<q, u, z>>] = "checked"
  <2>1. ps \in [Calls -> Phases] BY HelperTypes
  <2>2. proc' = Called(ps, r, t, Healthy(r, t)) BY DEF Watchdog
  <2> HIDE DEF ps
  <2> QED BY <2>1, <2>2 DEF Called, Calls
<1>6. UNCHANGED <<lease, loop, at>> BY DEF Watchdog
<1> HIDE DEF ps
<1>7. CASE ~(q = r /\ u = t) BY <1>1, <1>2, <1>4, <1>5, <1>6, <1>7, ArmSame
<1>8. CASE q = r /\ u = t
  <2>1. \A z \in Slots : proc'[<<q, u, z>>] # "running"
    BY <1>1, <1>4, <1>5, <1>8 DEF ArmOk
  <2>2. \A z \in Slots : Pending(q, u, z)' => z = FreeSlot(ps, r, t) /\ Healthy(r, t)
    BY <1>3, <1>4, <1>5, <1>8 DEF Pending
  <2>3. entry'[<<q, u>>] = NoOne BY <1>2, <1>8
  <2>4. loop'[q] = "acquire" /\ at'[q] = u => lease'[<<q, u>>] = "none"
    BY <1>1, <1>6, <1>8 DEF ArmOk
  <2>5. Healthy(r, t) => lease'[<<q, u>>] # "none" BY <1>6, <1>8 DEF Healthy
  <2> QED BY <2>1, <2>2, <2>3, <2>4, <2>5 DEF ArmOk
<1> QED BY <1>7, <1>8

LEMMA ArmReboot == ASSUME TypeOK, ArmInv, NEW r \in Replicas, Reboot(r) PROVE ArmInv'
<1> SUFFICES ASSUME NEW q \in Replicas, NEW u \in Tenants PROVE ArmOk(q, u)' BY DEF ArmInv
<1>1. ArmOk(q, u) BY DEF ArmInv
<1>2. CASE q = r
  <2>1. \A s \in Slots : proc'[<<q, u, s>>] = "free" BY <1>2 DEF Reboot, Calls
  <2>2. loop'[q] = "sleep" BY <1>2 DEF Reboot, TypeOK
  <2> QED BY <2>1, <2>2 DEF ArmOk, Pending
<1>3. CASE q # r
  <2>1. entry'[<<q, u>>] = entry[<<q, u>>] /\ lease'[<<q, u>>] = lease[<<q, u>>]
    BY <1>3 DEF Reboot, Forgotten, Unleased, Arms
  <2>2. \A s \in Slots : proc'[<<q, u, s>>] = proc[<<q, u, s>>] BY <1>3 DEF Reboot, Calls
  <2>3. loop'[q] = loop[q] /\ at'[q] = at[q] BY <1>3 DEF Reboot, TypeOK
  <2> QED BY <1>1, <2>1, <2>2, <2>3, ArmSame
<1> QED BY <1>2, <1>3

LEMMA ArmEnv ==
  ASSUME TypeOK, ArmInv, "deploy" \notin Faults, EnvStep PROVE ArmInv'
<1> USE DEF storeVars, childVars, loopVars, flagVars
<1>1. ASSUME NEW r \in Replicas, NEW t \in Tenants,
             ConnectionDrops(r, t) \/ ClientNotices(r, t)
      PROVE  ArmInv'
  <2> SUFFICES ASSUME NEW q \in Replicas, NEW u \in Tenants PROVE ArmOk(q, u)' BY DEF ArmInv
  <2>1. ArmOk(q, u) BY DEF ArmInv
  <2>2. lease'[<<q, u>>] = "none" <=> lease[<<q, u>>] = "none"
    BY <1>1 DEF ConnectionDrops, ClientNotices, TypeOK, Arms
  <2>3. UNCHANGED <<entry, proc, loop, at>> BY <1>1 DEF ConnectionDrops, ClientNotices
  <2> QED BY <2>1, <2>2, <2>3 DEF ArmOk, Pending
<1>2. ASSUME NEW r \in Replicas, NEW t \in Tenants, NEW s \in Slots, ChildDies(r, t, s)
      PROVE  ArmInv'
  <2> SUFFICES ASSUME NEW q \in Replicas, NEW u \in Tenants PROVE ArmOk(q, u)' BY DEF ArmInv
  <2>1. ArmOk(q, u) BY DEF ArmInv
  <2>2. \A z \in Slots : proc'[<<q, u, z>>] = proc[<<q, u, z>>] \/ proc'[<<q, u, z>>] = "dead"
    BY <1>2 DEF ChildDies, TypeOK, Calls
  <2>3. UNCHANGED <<entry, lease, loop, at>> BY <1>2 DEF ChildDies
  <2> QED BY <2>1, <2>2, <2>3 DEF ArmOk, Pending
<1>3. CASE (\E t \in Tenants : Sign(t) \/ Revoke(t)) \/ \E r \in Replicas : ToggleHalt(r)
  BY <1>3 DEF Sign, Revoke, ToggleHalt, ArmInv, ArmOk, Pending
<1>4. ASSUME NEW r \in Replicas, Exit(r) \/ StoreReadThrows(r) PROVE ArmInv'
  BY <1>4, ArmReboot DEF Exit, StoreReadThrows
<1>5. \A r \in Replicas : ~Stop(r) BY DEF Stop, Fault
<1> QED BY <1>1, <1>2, <1>3, <1>4, <1>5 DEF EnvStep, Arms, Calls

LEMMA ArmStep ==
  "overlap" \notin Faults /\ "deploy" \notin Faults /\ TypeOK /\ ArmInv /\ [Next]_vars => ArmInv'
<1> SUFFICES ASSUME "overlap" \notin Faults, "deploy" \notin Faults, TypeOK, ArmInv, [Next]_vars
             PROVE  ArmInv'
  OBVIOUS
<1>1. CASE UNCHANGED vars
  BY <1>1 DEF vars, storeVars, childVars, loopVars, ArmInv, ArmOk, Pending
<1>2. CASE Next BY <1>2, ArmChild, ArmLoop, ArmWatchdog, ArmEnv DEF Next
<1> QED BY <1>1, <1>2

LEMMA ArmAlways ==
  ASSUME "overlap" \notin Faults, "deploy" \notin Faults PROVE Spec => [](TypeOK /\ ArmInv)
<1>1. TypeOK /\ ArmInv /\ [Next]_vars => (TypeOK /\ ArmInv)' BY TypeStep, ArmStep
<1> QED BY <1>1, TypeInit, ArmInit, PTL DEF Spec

(* NoOrphan, as long as no event overtakes the awaits of a spawnChild and  *)
(* no replica is stopped in the middle of one: every running child is the  *)
(* one the watchdog and the kill switch can see.                           *)
THEOREM NoChildIsOrphaned ==
  "overlap" \notin Faults /\ "deploy" \notin Faults => (Spec => []NoOrphan)
<1> SUFFICES ASSUME "overlap" \notin Faults, "deploy" \notin Faults PROVE Spec => []NoOrphan
  OBVIOUS
<1>1. ArmInv => NoOrphan BY DEF ArmInv, ArmOk, NoOrphan, Calls
<1> QED BY <1>1, ArmAlways, PTL

(* UnderLease, under the same conditions: whichever path lets a lease go   *)
(* takes the tenant's child down with it.                                  *)
THEOREM ChildrenRunUnderLease ==
  "overlap" \notin Faults /\ "deploy" \notin Faults => (Spec => []UnderLease)
<1> SUFFICES ASSUME "overlap" \notin Faults, "deploy" \notin Faults PROVE Spec => []UnderLease
  OBVIOUS
<1>1. ArmInv => UnderLease BY DEF ArmInv, ArmOk, UnderLease, Calls
<1> QED BY <1>1, ArmAlways, PTL

(* While no connection drops, every lease on file is held.                 *)
HeldInv == \A q \in Replicas, u \in Tenants : lease[<<q, u>>] \in {"none", "held"}

LEMMA HeldStep ==
  ASSUME TypeOK, HeldInv, "drop" \notin Faults, Next PROVE HeldInv'
<1> USE DEF storeVars, childVars, loopVars, flagVars
<1>1. CASE UNCHANGED lease BY <1>1 DEF HeldInv
<1>2. ASSUME NEW r \in Replicas, NEW T, lease' = Unleased(r, T) PROVE HeldInv'
  BY <1>2 DEF HeldInv, Unleased, Arms
<1>3. ASSUME NEW r \in Replicas, NEW t \in Tenants, AcquireGranted(r, t) PROVE HeldInv'
  BY <1>3 DEF HeldInv, AcquireGranted, TypeOK, Arms
<1>4. ASSUME ChildStep PROVE HeldInv'
  BY <1>1, <1>4 DEF ChildStep, StoreRead, SpawnProcess, ExitEvent, Timer
<1>5. ASSUME NEW r \in Replicas, LoopStep(r) PROVE HeldInv'
  BY <1>1, <1>2, <1>3, <1>5
     DEF LoopStep, LoopHalt, ListTenants, StoreUnreadable, StandDown, ArmSkip, ArmTenant,
         AcquireRefused, SpawnReturned, RefreshBegin, RefreshGrant, KillUnwanted, LoopEnd
<1>6. ASSUME NEW r \in Replicas, NEW t \in Tenants, Watchdog(r, t) PROVE HeldInv'
  BY <1>1, <1>6 DEF Watchdog
<1>7. ASSUME EnvStep PROVE HeldInv'
  <2>1. \A a \in Arms : ~ConnectionDrops(a[1], a[2]) BY DEF ConnectionDrops, Fault
  <2>2. \A a \in Arms : ~ClientNotices(a[1], a[2]) BY DEF ClientNotices, HeldInv, Arms
  <2> QED BY <1>1, <1>2, <1>7, <2>1, <2>2
          DEF EnvStep, ChildDies, Sign, Revoke, ToggleHalt, Stop, Exit, StoreReadThrows, Reboot
<1> QED BY <1>4, <1>5, <1>6, <1>7 DEF Next

(* OneArm, when moreover no lease connection drops: a running child is     *)
(* under a held lease, a held lease is the Postgres lock, and a lock has   *)
(* one holder.                                                             *)
THEOREM OneReplicaArmsATenant ==
  Faults \cap {"overlap", "deploy", "drop"} = {} => (Spec => []OneArm)
<1> SUFFICES ASSUME Faults \cap {"overlap", "deploy", "drop"} = {} PROVE Spec => []OneArm
  OBVIOUS
<1>1. Spec => [](TypeOK /\ ArmInv) BY ArmAlways
<1>2. Init => HeldInv BY DEF Init, HeldInv, Arms
<1>3. TypeOK /\ HeldInv /\ [Next]_vars => HeldInv'
  <2>1. ASSUME HeldInv, UNCHANGED vars PROVE HeldInv' BY <2>1 DEF HeldInv, vars
  <2> QED BY <2>1, HeldStep
<1>4. ArmInv /\ HeldInv /\ LeaseIsLock => OneArm
  <2> SUFFICES ASSUME ArmInv, HeldInv, LeaseIsLock,
                      NEW q \in Replicas, NEW p \in Replicas, NEW u \in Tenants,
                      NEW s \in Slots, NEW z \in Slots,
                      proc[<<q, u, s>>] = "running", proc[<<p, u, z>>] = "running"
               PROVE  q = p
    BY DEF OneArm, Calls
  <2>1. lease[<<q, u>>] = "held" /\ lease[<<p, u>>] = "held" BY DEF ArmInv, ArmOk, HeldInv
  <2>2. lock[u] = q /\ lock[u] = p BY <2>1 DEF LeaseIsLock, Arms
  <2> QED BY <2>2
<1> QED BY <1>1, <1>2, <1>3, <1>4, TypeCorrect, LeasesAreLocks, PTL DEF Spec

=============================================================================
