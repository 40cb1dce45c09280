---------------------------- MODULE Orchestrator ----------------------------
(***************************************************************************)
(* The hosted supervisor: worker/src/orchestrator.ts and the per-tenant    *)
(* advisory lease of worker/src/tenant-lease.ts.                           *)
(*                                                                         *)
(* Every replica runs one loop (reconcile, then the watchdog) over a Node  *)
(* event loop on which spawnChild calls, exit events and respawn timers    *)
(* interleave at every await.  Replicas share the grant store and the      *)
(* Postgres advisory locks, nothing else.                                  *)
(*                                                                         *)
(* A slot is one call of spawnChild and the process it may become: free,   *)
(* checked (the lease was healthy, the grant is being read), granted (the  *)
(* grant file is written, settings and the bootstrap are being written),   *)
(* running, dead (the process is gone, its exit event is still to come).   *)
(* The worker installs no signal handler, so SIGTERM and SIGKILL both end  *)
(* it at once.                                                             *)
(***************************************************************************)
EXTENDS Integers, FiniteSets

CONSTANTS
  Replicas,   \* orchestrator processes
  Tenants,    \* owners, each with at most one grant
  Slots,      \* bound: spawnChild calls and processes a replica has per tenant
  NoOne,      \* no replica, no tenant, no slot
  Faults,     \* what the environment may do, a subset of AllFaults
  MaxFaults   \* bound on how often it does it

(* crash: a child exits; wedge: a child stops beating; drop: a lease's      *)
(* connection dies; revoke: owners sign and revoke; halt: FLEET_HALT comes  *)
(* and goes; deploy: a replica is stopped; store: the grant store cannot be *)
(* read; overlap: the awaits of one spawnChild may outlast the next event.  *)
AllFaults == {"crash", "wedge", "drop", "revoke", "halt", "deploy", "store", "overlap"}

ASSUME ConstantsAssumption ==
  /\ NoOne \notin Replicas \cup Tenants \cup Slots
  /\ IsFiniteSet(Slots) /\ Slots # {}
  /\ Faults \subseteq AllFaults /\ MaxFaults \in Nat

VARIABLES
  granted,   \* the grant store: tenants with a grant
  lock,      \* Postgres: which replica's session holds a tenant's lock
  lease,     \* leases map: none, held, stale (lost, not yet noticed), lost
  entry,     \* children map: the slot registered for a tenant
  proc,      \* every slot of every replica
  timers,    \* respawn timers the exit handler has set
  file,      \* the grant.json in a child's home
  loop, snapshot, todo, at,  \* the main loop: where, the tenants it listed,
                             \* the ones it still has to visit, the one at hand
  halt, stopping,
  faults     \* bound

storeVars == <<granted, lock>>
childVars == <<entry, proc, timers, file>>
loopVars  == <<loop, snapshot, todo, at>>
flagVars  == <<halt, stopping>>
vars == <<storeVars, lease, childVars, loopVars, flagVars, faults>>

Arms   == Replicas \X Tenants
Calls  == Replicas \X Tenants \X Slots
Leases == {"none", "held", "stale", "lost"}
Phases == {"free", "checked", "granted", "running", "dead"}
Stages == {"sleep", "lost", "arm", "acquire", "spawn",
           "refresh", "watch"}

-----------------------------------------------------------------------------
(* The maps of one replica.                                                *)

(* lease.healthy(): the connection has not told us otherwise.              *)
Healthy(r, t) == lease[<<r, t>>] \in {"held", "stale"}

(* No spawnChild is between two of its awaits, or overlapping is allowed.  *)
Settled(r) ==
  "overlap" \in Faults \/ \A t \in Tenants, s \in Slots : proc[<<r, t, s>>] \notin {"checked", "granted"}

HasSlot(r, t) == \E s \in Slots : proc[<<r, t, s>>] = "free"
FreeSlot(ps, r, t) == CHOOSE s \in Slots : ps[<<r, t, s>>] = "free"

(* Mutant: the respawn does not look at the lease.                         *)
CalledUnleased(ps, r, t, healthy) ==
  IF ~stopping[r] THEN [ps EXCEPT ![<<r, t, FreeSlot(ps, r, t)>>] = "checked"] ELSE ps

(* spawnChild up to its first await.                                       *)
Called(ps, r, t, healthy) ==
  IF ~stopping[r] /\ healthy THEN [ps EXCEPT ![<<r, t, FreeSlot(ps, r, t)>>] = "checked"] ELSE ps

(* killChild, for every tenant of T: forget the entry, signal the process. *)
Forgotten(r, T) == [a \in Arms |-> IF a[1] = r /\ a[2] \in T THEN NoOne ELSE entry[a]]
Signalled(r, T) ==
  [c \in Calls |-> IF c[1] = r /\ c[2] \in T /\ entry[<<r, c[2]>>] = c[3] /\ proc[c] = "running"
                     THEN "dead" ELSE proc[c]]

(* Mutant: the lock of a tenant is released whoever holds it.              *)
UnlockedByKey(r, T) == [t \in Tenants |-> IF t \in T THEN NoOne ELSE lock[t]]

(* releaseLease, for every tenant of T.                                    *)
Unlocked(r, T) == [t \in Tenants |-> IF t \in T /\ lock[t] = r THEN NoOne ELSE lock[t]]
Unleased(r, T) == [a \in Arms |-> IF a[1] = r /\ a[2] \in T THEN "none" ELSE lease[a]]

Fault(f) == f \in Faults /\ faults < MaxFaults /\ faults' = faults + 1

Running(r) == {t \in Tenants : entry[<<r, t>>] # NoOne}
Leased(r)  == {t \in Tenants : lease[<<r, t>>] # "none"}

-----------------------------------------------------------------------------
(* spawnChild after its awaits.                                            *)

(* writeGrantForChild: no grant, no child.                                 *)
StoreRead(r, t, s) ==
  /\ proc[<<r, t, s>>] = "checked"
  /\ IF t \in granted
       THEN /\ proc' = [proc EXCEPT ![<<r, t, s>>] = "granted"]
            /\ file' = [file EXCEPT ![<<r, t>>] = TRUE]
       ELSE proc' = [proc EXCEPT ![<<r, t, s>>] = "free"] /\ UNCHANGED file
  /\ UNCHANGED <<storeVars, lease, entry, timers, loopVars, flagVars, faults>>

(* spawn() and children.set: whatever happened during the awaits.          *)
SpawnProcess(r, t, s) ==
  /\ proc[<<r, t, s>>] = "granted"
  /\ proc' = [proc EXCEPT ![<<r, t, s>>] = "running"]
  /\ entry' = [entry EXCEPT ![<<r, t>>] = s]
  /\ UNCHANGED <<storeVars, lease, timers, file, loopVars, flagVars, faults>>

(* Mutant: children.delete(tenant), whoever is registered now.             *)
ExitEventByKey(r, t, s) ==
  /\ proc[<<r, t, s>>] = "dead"
  /\ proc' = [proc EXCEPT ![<<r, t, s>>] = "free"]
  /\ entry' = [entry EXCEPT ![<<r, t>>] = NoOne]
  /\ timers' \in {timers, [timers EXCEPT ![<<r, t>>] = @ + 1]}
  /\ UNCHANGED <<storeVars, lease, file, loopVars, flagVars, faults>>

(* The exit handler: forget the entry if it is still this process's, then  *)
(* set a respawn timer or, after MAX_RESTARTS, give up.                    *)
ExitEvent(r, t, s) ==
  /\ proc[<<r, t, s>>] = "dead"
  /\ proc' = [proc EXCEPT ![<<r, t, s>>] = "free"]
  /\ entry' = [entry EXCEPT ![<<r, t>>] = IF @ = s THEN NoOne ELSE @]
  /\ \/ UNCHANGED timers
     \/ ~stopping[r] /\ timers' = [timers EXCEPT ![<<r, t>>] = @ + 1]
  /\ UNCHANGED <<storeVars, lease, file, loopVars, flagVars, faults>>

(* Mutant: a timer that was already consumed fires again.                  *)
TimerAgain(r, t) ==
  /\ Settled(r) /\ HasSlot(r, t)
  /\ timers' = [timers EXCEPT ![<<r, t>>] = @ - 1]
  /\ proc' = IF entry[<<r, t>>] = NoOne THEN Called(proc, r, t, Healthy(r, t)) ELSE proc
  /\ UNCHANGED <<storeVars, lease, entry, file, loopVars, flagVars, faults>>

(* The respawn timer: only if nothing is registered.                       *)
Timer(r, t) ==
  /\ timers[<<r, t>>] > 0 /\ Settled(r) /\ HasSlot(r, t)
  /\ timers' = [timers EXCEPT ![<<r, t>>] = @ - 1]
  /\ proc' = IF entry[<<r, t>>] = NoOne THEN Called(proc, r, t, Healthy(r, t)) ELSE proc
  /\ UNCHANGED <<storeVars, lease, entry, file, loopVars, flagVars, faults>>

ChildStep ==
  \/ \E c \in Calls : StoreRead(c[1], c[2], c[3]) \/ SpawnProcess(c[1], c[2], c[3])
                        \/ ExitEvent(c[1], c[2], c[3])
  \/ \E a \in Arms : Timer(a[1], a[2])

-----------------------------------------------------------------------------
(* The main loop: FLEET_HALT, or reconcile and the watchdog.               *)

LoopHalt(r) ==
  /\ loop[r] = "sleep" /\ halt[r] /\ ~stopping[r] /\ Settled(r)
  /\ entry' = Forgotten(r, Tenants) /\ proc' = Signalled(r, Tenants)
  /\ lease' = Unleased(r, Tenants) /\ lock' = Unlocked(r, Tenants)
  /\ UNCHANGED <<granted, timers, file, loopVars, flagVars, faults>>

ListTenants(r) ==
  /\ loop[r] = "sleep" /\ ~halt[r] /\ ~stopping[r] /\ Settled(r)
  /\ loop' = [loop EXCEPT ![r] = "lost"]
  /\ snapshot' = [snapshot EXCEPT ![r] = granted]
  /\ UNCHANGED <<storeVars, lease, childVars, todo, at, flagVars, faults>>

(* The store cannot be listed: the whole reconcile is skipped.             *)
StoreUnreadable(r) ==
  /\ "store" \in Faults
  /\ loop[r] = "sleep" /\ ~halt[r] /\ ~stopping[r] /\ Settled(r)
  /\ loop' = [loop EXCEPT ![r] = "watch"]
  /\ todo' = [todo EXCEPT ![r] = Running(r)]
  /\ UNCHANGED <<storeVars, lease, childVars, snapshot, at, flagVars, faults>>

(* Mutant: a lost lease stays in the map.                                  *)
StandDownKeepsLease(r) ==
  LET T == {t \in Tenants : lease[<<r, t>>] = "lost"} IN
  /\ loop[r] = "lost" /\ Settled(r)
  /\ entry' = Forgotten(r, T) /\ proc' = Signalled(r, T)
  /\ loop' = [loop EXCEPT ![r] = "arm"] /\ todo' = [todo EXCEPT ![r] = snapshot[r]]
  /\ UNCHANGED <<storeVars, lease, timers, file, snapshot, at, flagVars, faults>>

(* Stand down every child whose lease reports its connection gone.         *)
StandDown(r) ==
  LET T == {t \in Tenants : lease[<<r, t>>] = "lost"} IN
  /\ loop[r] = "lost" /\ Settled(r)
  /\ entry' = Forgotten(r, T) /\ proc' = Signalled(r, T)
  /\ lease' = Unleased(r, T) /\ lock' = Unlocked(r, T)
  /\ loop' = [loop EXCEPT ![r] = "arm"] /\ todo' = [todo EXCEPT ![r] = snapshot[r]]
  /\ UNCHANGED <<granted, timers, file, snapshot, at, flagVars, faults>>

(* children.has(tenant): nothing to do.                                    *)
ArmSkip(r, t) ==
  /\ loop[r] = "arm" /\ t \in todo[r] /\ entry[<<r, t>>] # NoOne
  /\ todo' = [todo EXCEPT ![r] = @ \ {t}]
  /\ UNCHANGED <<storeVars, lease, childVars, loop, snapshot, at, flagVars, faults>>

(* Not running: spawn behind the lease we hold, or ask for one first.      *)
ArmTenant(r, t) ==
  /\ loop[r] = "arm" /\ t \in todo[r] /\ entry[<<r, t>>] = NoOne /\ Settled(r) /\ HasSlot(r, t)
  /\ todo' = [todo EXCEPT ![r] = @ \ {t}]
  /\ at' = [at EXCEPT ![r] = t]
  /\ loop' = [loop EXCEPT ![r] = IF lease[<<r, t>>] = "none" THEN "acquire" ELSE "spawn"]
  /\ proc' = IF lease[<<r, t>>] = "none" THEN proc ELSE Called(proc, r, t, Healthy(r, t))
  /\ UNCHANGED <<storeVars, lease, entry, timers, file, snapshot, flagVars, faults>>

(* pg_try_advisory_lock, then spawnChild; or another replica holds it, or  *)
(* the attempt failed.                                                     *)
AcquireGranted(r, t) ==
  /\ loop[r] = "acquire" /\ at[r] = t /\ lock[t] = NoOne /\ HasSlot(r, t)
  /\ lock' = [lock EXCEPT ![t] = r]
  /\ lease' = [lease EXCEPT ![<<r, t>>] = "held"]
  /\ proc' = Called(proc, r, t, TRUE)
  /\ loop' = [loop EXCEPT ![r] = "spawn"]
  /\ UNCHANGED <<granted, entry, timers, file, snapshot, todo, at, flagVars, faults>>

AcquireRefused(r, t) ==
  /\ loop[r] = "acquire" /\ at[r] = t
  /\ lock[t] # NoOne \/ "store" \in Faults
  /\ loop' = [loop EXCEPT ![r] = "arm"]
  /\ UNCHANGED <<storeVars, lease, childVars, snapshot, todo, at, flagVars, faults>>

(* The awaited spawnChild has returned.                                    *)
SpawnReturned(r, t) ==
  /\ loop[r] = "spawn" /\ at[r] = t
  /\ \A s \in Slots : proc[<<r, t, s>>] \notin {"checked", "granted"}
  /\ loop' = [loop EXCEPT ![r] = "arm"]
  /\ UNCHANGED <<storeVars, lease, childVars, snapshot, todo, at, flagVars, faults>>

(* Every child it has is then handed the grant the store now holds; a      *)
(* store that cannot be read leaves the child the grant it has.            *)
RefreshBegin(r) ==
  /\ loop[r] = "arm" /\ todo[r] = {}
  /\ loop' = [loop EXCEPT ![r] = "refresh"] /\ todo' = [todo EXCEPT ![r] = Running(r)]
  /\ UNCHANGED <<storeVars, lease, childVars, snapshot, at, flagVars, faults>>

RefreshGrant(r, t) ==
  /\ loop[r] = "refresh" /\ t \in todo[r]
  /\ todo' = [todo EXCEPT ![r] = @ \ {t}]
  /\ \/ file' = [file EXCEPT ![<<r, t>>] = @ \/ (t \in granted /\ entry[<<r, t>>] # NoOne)]
     \/ "store" \in Faults /\ UNCHANGED file
  /\ UNCHANGED <<storeVars, lease, entry, proc, timers, loop, snapshot, at, flagVars, faults>>

(* Mutant: the kill switch releases the lease and leaves the child.        *)
KillUnwantedLeaseOnly(r) ==
  LET G == Leased(r) \ snapshot[r] IN
  /\ loop[r] = "refresh" /\ todo[r] = {} /\ Settled(r)
  /\ lease' = Unleased(r, G) /\ lock' = Unlocked(r, G)
  /\ loop' = [loop EXCEPT ![r] = "watch"] /\ todo' = [todo EXCEPT ![r] = Running(r)]
  /\ UNCHANGED <<granted, childVars, snapshot, at, flagVars, faults>>

(* The kill switch: children, their homes and the leases of tenants that   *)
(* were not in the list.                                                   *)
KillUnwanted(r) ==
  LET T == Running(r) \ snapshot[r]
      G == Leased(r) \ snapshot[r] IN
  /\ loop[r] = "refresh" /\ todo[r] = {} /\ Settled(r)
  /\ entry' = Forgotten(r, T) /\ proc' = Signalled(r, T)
  /\ file' = [a \in Arms |-> file[a] /\ ~(a[1] = r /\ a[2] \in T)]
  /\ lease' = Unleased(r, G) /\ lock' = Unlocked(r, G)
  /\ loop' = [loop EXCEPT ![r] = "watch"] /\ todo' = [todo EXCEPT ![r] = Running(r) \ T]
  /\ UNCHANGED <<granted, timers, snapshot, at, flagVars, faults>>

(* A stale heartbeat: delete, SIGKILL, and a spawnChild nobody awaits.     *)
Watchdog(r, t) ==
  /\ Fault("wedge")
  /\ loop[r] = "watch" /\ t \in todo[r] /\ entry[<<r, t>>] # NoOne
  /\ ~stopping[r] /\ Settled(r) /\ HasSlot(r, t)
  /\ entry' = Forgotten(r, {t})
  /\ proc' = Called(Signalled(r, {t}), r, t, Healthy(r, t))
  /\ todo' = [todo EXCEPT ![r] = @ \ {t}]
  /\ UNCHANGED <<storeVars, lease, timers, file, loop, snapshot, at, flagVars>>

LoopEnd(r) ==
  /\ loop[r] = "watch"
  /\ loop' = [loop EXCEPT ![r] = "sleep"]
  /\ UNCHANGED <<storeVars, lease, childVars, snapshot, todo, at, flagVars, faults>>

LoopStep(r) ==
  \/ LoopHalt(r) \/ ListTenants(r) \/ StoreUnreadable(r) \/ StandDown(r)
  \/ \E t \in Tenants : ArmSkip(r, t) \/ ArmTenant(r, t) \/ AcquireGranted(r, t)
                          \/ AcquireRefused(r, t) \/ SpawnReturned(r, t)
  \/ RefreshBegin(r) \/ (\E t \in Tenants : RefreshGrant(r, t))
  \/ KillUnwanted(r) \/ LoopEnd(r)

-----------------------------------------------------------------------------
(* The environment.                                                        *)

(* A connection dies: Postgres drops the lock at once, the client hears of *)
(* it later.                                                               *)
ConnectionDrops(r, t) ==
  /\ Fault("drop")
  /\ lease[<<r, t>>] = "held" /\ lock[t] = r
  /\ lock' = [lock EXCEPT ![t] = NoOne]
  /\ lease' = [lease EXCEPT ![<<r, t>>] = "stale"]
  /\ UNCHANGED <<granted, childVars, loopVars, flagVars>>

ClientNotices(r, t) ==
  /\ lease[<<r, t>>] = "stale"
  /\ lease' = [lease EXCEPT ![<<r, t>>] = "lost"]
  /\ UNCHANGED <<storeVars, childVars, loopVars, flagVars, faults>>

ChildDies(r, t, s) ==
  /\ Fault("crash")
  /\ proc[<<r, t, s>>] = "running"
  /\ proc' = [proc EXCEPT ![<<r, t, s>>] = "dead"]
  /\ UNCHANGED <<storeVars, lease, entry, timers, file, loopVars, flagVars>>

Sign(t) ==
  /\ t \notin granted /\ granted' = granted \cup {t}
  /\ UNCHANGED <<lock, lease, childVars, loopVars, flagVars, faults>>

Revoke(t) ==
  /\ Fault("revoke")
  /\ t \in granted /\ granted' = granted \ {t}
  /\ UNCHANGED <<lock, lease, childVars, loopVars, flagVars>>

ToggleHalt(r) ==
  /\ Fault("halt")
  /\ halt' = [halt EXCEPT ![r] = ~@]
  /\ UNCHANGED <<storeVars, lease, childVars, loopVars, stopping>>

(* SIGTERM to the replica: signal the children, release the leases.        *)
Stop(r) ==
  /\ Fault("deploy")
  /\ ~stopping[r] /\ stopping' = [stopping EXCEPT ![r] = TRUE]
  /\ proc' = Signalled(r, Tenants)
  /\ lease' = Unleased(r, Tenants) /\ lock' = Unlocked(r, Tenants)
  /\ UNCHANGED <<granted, entry, timers, file, loopVars, halt>>

(* The process is gone and a new one starts: its maps, its children and    *)
(* their homes go with the container.                                      *)
Reboot(r) ==
  /\ lease' = Unleased(r, Tenants) /\ lock' = Unlocked(r, Tenants)
  /\ entry' = Forgotten(r, Tenants)
  /\ proc' = [c \in Calls |-> IF c[1] = r THEN "free" ELSE proc[c]]
  /\ timers' = [a \in Arms |-> IF a[1] = r THEN 0 ELSE timers[a]]
  /\ file' = [a \in Arms |-> file[a] /\ a[1] # r]
  /\ loop' = [loop EXCEPT ![r] = "sleep"]
  /\ snapshot' = [snapshot EXCEPT ![r] = {}] /\ todo' = [todo EXCEPT ![r] = {}]
  /\ at' = [at EXCEPT ![r] = NoOne]
  /\ stopping' = [stopping EXCEPT ![r] = FALSE]
  /\ UNCHANGED <<granted, halt>>

Exit(r) == stopping[r] /\ Reboot(r) /\ UNCHANGED faults

(* getGrantStore().get throws inside spawnChild, and nothing catches it.   *)
StoreReadThrows(r) ==
  /\ Fault("store")
  /\ \E t \in Tenants, s \in Slots : proc[<<r, t, s>>] = "checked"
  /\ Reboot(r)

EnvStep ==
  \/ \E a \in Arms : ConnectionDrops(a[1], a[2]) \/ ClientNotices(a[1], a[2])
  \/ \E c \in Calls : ChildDies(c[1], c[2], c[3])
  \/ \E t \in Tenants : Sign(t) \/ Revoke(t)
  \/ \E r \in Replicas : ToggleHalt(r) \/ Stop(r) \/ Exit(r) \/ StoreReadThrows(r)

Init ==
  /\ granted = {} /\ lock = [t \in Tenants |-> NoOne]
  /\ lease = [a \in Arms |-> "none"] /\ entry = [a \in Arms |-> NoOne]
  /\ proc = [c \in Calls |-> "free"]
  /\ timers = [a \in Arms |-> 0] /\ file = [a \in Arms |-> FALSE]
  /\ loop = [r \in Replicas |-> "sleep"] /\ at = [r \in Replicas |-> NoOne]
  /\ snapshot = [r \in Replicas |-> {}] /\ todo = [r \in Replicas |-> {}]
  /\ halt = [r \in Replicas |-> FALSE] /\ stopping = [r \in Replicas |-> FALSE]
  /\ faults = 0

Next ==
  \/ ChildStep
  \/ \E r \in Replicas : LoopStep(r) \/ \E t \in Tenants : Watchdog(r, t)
  \/ EnvStep

Spec == Init /\ [][Next]_vars

-----------------------------------------------------------------------------
(* Properties.                                                             *)

TypeOK ==
  /\ granted \subseteq Tenants
  /\ lock \in [Tenants -> Replicas \cup {NoOne}]
  /\ lease \in [Arms -> Leases]
  /\ entry \in [Arms -> Slots \cup {NoOne}] /\ proc \in [Calls -> Phases]
  /\ timers \in [Arms -> Nat] /\ file \in [Arms -> BOOLEAN]
  /\ loop \in [Replicas -> Stages] /\ at \in [Replicas -> Tenants \cup {NoOne}]
  /\ snapshot \in [Replicas -> SUBSET Tenants] /\ todo \in [Replicas -> SUBSET Tenants]
  /\ halt \in [Replicas -> BOOLEAN] /\ stopping \in [Replicas -> BOOLEAN]
  /\ faults \in Nat

(* Two views of one lock: a replica that believes it holds a tenant's      *)
(* lease, and has not lost its connection, holds the Postgres lock.        *)
LeaseIsLock == \A a \in Arms : lease[a] = "held" <=> lock[a[2]] = a[1]

(* The exit handler, "ONLY IF THIS ENTRY IS STILL OURS": no child is       *)
(* orphaned, "still ticking ... invisible to the watchdog", whatever kills *)
(* and restarts it.                                                        *)
NoOrphan == \A c \in Calls : proc[c] = "running" => entry[<<c[1], c[2]>>] = c[3]

(* A child runs only while its replica keeps the tenant's lease on file:   *)
(* every path that lets a lease go takes the child down with it.           *)
UnderLease == \A c \in Calls : proc[c] = "running" => lease[<<c[1], c[2]>>] # "none"

(* The header: "a second orchestrator replica can never also arm the same  *)
(* tenant and double its daily spend".                                     *)
OneArm ==
  \A c, d \in Calls : proc[c] = "running" /\ proc[d] = "running" /\ c[2] = d[2] => c[1] = d[1]

Trading(r, t) == file[<<r, t>>] /\ \E s \in Slots : proc[<<r, t, s>>] = "running"

(* Fairness: the loop sleeps 15 s and comes back, the event loop delivers  *)
(* exits and timers, the grant store answers, a lost connection is noticed *)
(* and a stopping process exits.  Nothing else is owed.                    *)
Fairness ==
  /\ \A r \in Replicas : WF_vars(LoopStep(r)) /\ WF_vars(Exit(r))
  /\ \A a \in Arms : WF_vars(Timer(a[1], a[2])) /\ WF_vars(ClientNotices(a[1], a[2]))
  /\ \A c \in Calls : /\ WF_vars(StoreRead(c[1], c[2], c[3]))
                     /\ WF_vars(SpawnProcess(c[1], c[2], c[3]))
                     /\ WF_vars(ExitEvent(c[1], c[2], c[3]))

FairSpec == Spec /\ Fairness

(* "Automatic handoff, and never a permanent freeze": a tenant with a      *)
(* grant ends up with a running child on some replica that is not halted.  *)
WantedRuns ==
  \A t \in Tenants :
    t \in granted ~> \/ t \notin granted \/ \A r \in Replicas : halt[r]
                     \/ \E r \in Replicas, s \in Slots : proc[<<r, t, s>>] = "running"

(* The kill switch: a tenant without a grant ends up with no process that  *)
(* still has a grant file to trade on.                                     *)
RevokedStandsDown ==
  \A t \in Tenants, r \in Replicas :
    t \notin granted ~> t \in granted \/ ~Trading(r, t) \/ halt[r]

(* A lease that goes unhealthy "stands the child down rather than let it   *)
(* trade unprotected".                                                     *)
LostStandsDown ==
  \A t \in Tenants, r \in Replicas :
    lease[<<r, t>>] = "lost" ~>
      lease[<<r, t>>] # "lost" /\ \A s \in Slots : proc[<<r, t, s>>] # "running"

=============================================================================
