# Verification of oathwall

oathwall runs trading agents that act under a grant an owner has signed. One
worker process trades one grant; on the hosted service an orchestrator runs one
worker per tenant and shares tenants with other replicas. This directory holds
TLA+ models of the places where money depends on interleaving and failure:

* the **money path** of one worker: an intent from its policy check to the
  settled ledger row (`IntentPipeline`);
* the **books** of an agent: what counts as its owner's capital and what a fee
  is taken on (`Capital`), what its fills cost, in which epoch and in which
  records (`FillBook`), and the log scans both are checked with (`LogScan`);
* the **breaker** that stops it: the contracts, and the worker in front of them
  (`Breaker`);
* the **fleet**: who runs which tenant, behind which lease (`Orchestrator`);
* the **ferries** between a worker's files and the shared database: the self-test
  command on its way down (`CommandFerry`), the trade tape on its way up
  (`LedgerMirror`).

All definitions are translated from the TypeScript under `worker/src` and the
Solidity under `contracts/contracts`, those of the self-test route from `web/src`.

## 1. Inventory

### What talks to what

    owner --signs/revokes--> web app --> grant store (file or Postgres)
      |                                      |  listTenants / get, every 15 s
      |                       orchestrator replicas --pg advisory lock per tenant
      |                          |   ^       |  spawn, grant.json, bootstrap.json,
      |                 commands |   | trades, agents row     SIGTERM/SIGKILL
      |                          v   |       v
      |   chat / telegram --intents--> worker process <-- strategy, once per tick
      |                            |        |  ^
      | deposits,          trade rows, flows,  |  | receipts, Transfer and event logs,
      | withdrawals        basis, journal   v  |    balances, isTripped
      +--------------------------> bundler / EntryPoint / account / breaker registry

### Components

| component | state it keeps | operations | hard part | what makes it correct |
|---|---|---|---|---|
| intent pipeline (`index.ts`, `executor.ts`) | reservation (`inFlight*`), settled halves (`settled*`), armed agent, intent lock | tick, syncGrant, refreshConfig, processIntent, recordTrade, execute | chat intents beside the tick; a death at any await; a send or a receipt that never answers | caps hold on what the chain executed; nothing is sent without a row; no reservation leaks |
| ledger: rows and budget (`store.ts`) | trade rows, commands | addTrade, budget queries | one row per operation; rails apart | claims only observed outcomes |
| in-flight reconciliation (`inflight-reconcile.ts`) | none | findOrphanOps, resolveSubmittedOps, getLogsAdaptive | incomplete log windows, two sweeps at once, a provider that refuses | settles what the chain decided, guesses nothing; covers what it says it covered |
| capital accounting (`index.ts`, `deposit-log.ts`, `bootstrap-*.ts`, `fees.ts`) | flows, high-water mark, scan cursor, baseline cash, bootstrap licence | reconcileFlows, scanChainFlows, record, accrual, anchor | money moves between any two awaits; the same movement seen as a balance change and as a log; a lost database | every movement once; no fee on principal |
| fills, basis, epochs (`index.ts`, `basis.ts`, `store.ts`) | cost basis, journal, epoch, carry flow | bookFill, recordTrade, resolveStrandedOps, openNextEpoch | three writes per fill, a sweep beside them, an epoch that moves | rows, journal and basis agree with the chain |
| policy wall (`policy.ts`) | none | checkPolicy | boundary arithmetic, drawdown exemptions | never admits beyond a limit |
| breaker contracts | registry struct, policy status | arm, report, trip, halt, reset, check | rounding at the threshold; a worker that acts on what it saw | a tripped account validates nothing of the session key |
| orchestrator (`orchestrator.ts`) | children map, leases map, timers, homes | reconcile, spawnChild, exit handler, watchdog, halt, stop, ferryCommands, mirrorLedgers | every await lets another event in | one running child per tenant, visible and leased |
| tenant lease (`tenant-lease.ts`) | one connection and its `alive` latch | acquire, healthy, release | the lock dies before the holder knows | holder of the lease holds the lock |
| ledger mirror (`ledger-mirror.ts`) | watermarks, shared tables | mirrorTenant: append-only tables, resync, snapshots | a ledger that is reborn under its watermark; a row copied before its outcome | each trade once, none skipped, an outcome final |
| command files and ferry | files, command rows | ferryCommands, claim | delivered twice or never | a bounded number of runs, none revived |
| grant store (`grant-store.ts`) | sealed grants, archive | put, get, remove, listTenants | a first connection that fails | a revoked tenant is not listed |
| execution mode (`exec-mode.ts`, `paper*.ts`) | the rail, the simulated book | execMode, paper fill | the rail follows balances read mid-tick | paper never becomes a real operation |
| journal export, accounting repair | the hash chain | append, export, repair | - | a pure function of the entries |
| settings, identity, account claims, follows | key-value rows | get/set, claim | first writer wins | one owner per account |
| venues, gas, session account | quotes, nonce | build calldata | refusals before signing | no state of their own |
| web, gateway, brain, clients | sessions, tickets, balances | HTTP routes | replayed tickets, double claims | not modelled |
| strategies, research, backtests | none in the money path | propose, analyse | - | proposals are nondeterministic here |

`PROJECT.json` lists each with its status, and the hazards of the code at the
line where they bite.

## 2. Modules

| module | models |
|---|---|
| `IntentPipeline` | index.ts, executor.ts, the trade rows of store.ts, inflight-reconcile.ts, the caps of policy.ts |
| `OpLifecycle` | the abstract promise about one UserOperation |
| `Capital` | reconcileFlows and the accrual of index.ts, deposit-log.ts, bootstrap-state.ts, bootstrap-source.ts, fees.ts, the mirrored mark |
| `FillBook` | bookFill, recordTrade, the basis check, the stranded sweep and the epoch boundary of index.ts, basis.ts, addTrade of store.ts |
| `LogScan` | getLogsAdaptive of inflight-reconcile.ts |
| `Breaker` | BreakerRegistry.sol, KernelBreakerPolicy.sol, the drawdown rule of policy.ts, the worker's read of the registry |
| `Orchestrator` | orchestrator.ts, tenant-lease.ts, the set of grants |
| `CommandFerry` | the self-test route, the ferry of orchestrator.ts, command-files.ts, runQueuedCommand of index.ts |
| `LedgerMirror` | mirrorTenant of ledger-mirror.ts for the trades table |
| `TradeTape` | the abstract promise about the shared trade table |
| `MCIntentPipeline`, `MCOrchestrator` | small instances |
| `MCBooks` | a sum of `Capital`, `FillBook`, `LogScan` and `Breaker` |
| `MCFerries` | a sum of `CommandFerry` and `LedgerMirror` |
| `IntentPipelineProofs`, `OrchestratorProofs`, `CommandFerryProofs`, `CapitalProofs`, `FillBookProofs`, `ChainEdgeProofs`, `LedgerMirrorProofs` | theorems (`ChainEdgeProofs`: of `LogScan` and `Breaker`) |
| `Sums` | lemmas about sums over finite sets, for the proofs of `IntentPipeline` and `Capital` |

`MCBooks` and `MCFerries` put modules that share no variable side by side: a
constant of the behaviour (`subject`, `cargo`) says which of them it is a
behaviour of, and the others stand still in their first state. So such a run
asks each module's questions separately; it is not a composition.

### IntentPipeline: state

| variable | code |
|---|---|
| `rows[o][status]` | rows of `trades` for the operation, by status |
| `chain[o]` | what the bundler and EntryPoint did: none, pending, success, reverted, dropped |
| `settled`, `inFlight` | `settledSpentUsdg`/`settledOps` and `inFlightSpentUsdg`/`inFlightOps`, kept as a charge per operation; `Spent` and `Count` are the sums the code stores |
| `rail` | `execMode()` / `budgetRail()` |
| `paperBook` | intents the simulated book has filled |
| `active`, `ready`, `tick` | the armed agent, `lastEquityUsdg` known, position in `tick()` |
| `pc`, `cur`, `reserved`, `proposed` | the intent inside `processIntentLocked`, and those already handed to it |
| `sweep` | settlements that the arm sweep and the detached tick sweep still have to write |
| `refused`, `unrecorded` | history: reverted pairs, and fills whose row failed, in this arm |

An action ends at an await where other code can run. Everything the code does
between two awaits is in one action: `RecordTrade` is the row, the re-read of
the budget and the release; `LeaveSubmitted` is the re-read and the release of
every exit that leaves the submitted row; `Arm` clears the reservations and the
per-arm memory. Between two of its database awaits `recordTrade` touches only
the counters of the intent that holds the lock, so it is one step.

### Orchestrator: state

| variable | code |
|---|---|
| `granted` | the grant store |
| `lock[t]` | the Postgres session that holds `pg_try_advisory_lock` |
| `lease[r,t]` | `leases` map entry: none, held, stale (lock gone, client not told), lost (`healthy()` is false) |
| `entry[r,t]` | `children` map |
| `proc[r,t,s]` | one call of `spawnChild` and the process it becomes |
| `timers`, `file` | respawn timers; `grant.json` in a child's home |
| `loop`, `snapshot`, `todo`, `at` | the main loop, the tenants it listed, those still to visit |
| `halt`, `stopping` | `FLEET_HALT`, the stop handler |

`spawnChild` is three steps (`Called`, `StoreRead`, `SpawnProcess`) because it
awaits the grant store and then the settings and the bootstrap. It tests
`stopping` and the lease in the first step only. The worker has no signal
handler, so SIGTERM and SIGKILL are the same event.

### CommandFerry: state

| variable | code |
|---|---|
| `hosted` | `isHostedMode()`, chosen once |
| `posted`, `rows` | command ids handed out; `agent_commands` (`agent_id`, `claimed_at` set, `done_at` set, `result` is the PASSED line) |
| `home`, `answers` | `<id>.json` and `<id>.done.json` in each tenant's `commands` directory |
| `worker[t]` | dead, starting, armed and idle, holding a command before its probe, holding its verdict (`commandInFlight`) |
| `ferry` | the ferry's place in its loop over the children, its batch, the command being marked, the drained results |
| `runs[c]`, `landed`, `stale` | history: how often the probe of `c` entered the pipeline; the commands whose probe was concluded by its own landed operation; those whose verdict was an earlier intent's |

File operations of the code are synchronous, so a write, a claim or a drain is
one step with what surrounds it; each `UPDATE`, the probe and each answer is a
step of its own. `Probe` is `runSelftestProbe`: it declines (not armed, no
bundler key, another chain, or a command of another kind: an answer without an
operation), or enters the pipeline and reads its verdict (`Says`) from what the
pipeline left in `lastTradeOutcome`. The run has two commands and a LIMIT of 2,
so a batch can be interrupted between its rows; a batch that leaves rows behind
is the subject of the theorems only. Two writers fill the table: the route, which keys a row by the
smart account, and `store.enqueueCommand`, which keys it by whatever id its
caller passes. Only rows keyed by a tenant ever match the ferry's `SELECT`, so
what the `Ferries` run says of the ferry, it says of those.

### Capital: state

| variable | code |
|---|---|
| `moves`, `cash`, `capital` | what crossed the account, in order; its USDG; what the owner has in it (chain, and history) |
| `gain`, `best` | performance, and the most it has been (history) |
| `stage`, `opKind`, `waiter` | the agent's operation on its way, and whether the tick or a chat handler awaits it |
| `receipts`, `explained`, `net`, `evidenced` | `flows`: those found in a log, movements with a trade row, the signed sum, whether all have a transaction |
| `hwm`, `mirrored`, `peak` | `agents.hwm_usdg` of the worker, of the shared database, and `highWaterMarkUsdg` in memory |
| `charged` | the profit fees were accrued on |
| `pc`, `read*`, `head`, `queue`, `due` | position in the tick, what its balances reflect, the scan in progress, a flow whose mark is not yet moved |
| `cursor`, `seen`, `wrote`, `row`, `traded` | `chainScanCursor`, `lastCashUsdg`, `ledgerWrites`, the last equity row, whether anything was sent since |
| `stale` | the watermark (`lastChainLogBlock`) once `resumeFrom` has clamped it: it stays behind until a newer receipt |
| `licence`, `anchor`, `known` | the bootstrap licence, its cash, `contributionsKnown` |

The tick is one step for each await: balances, the window of the scan, each
flow and its move of the mark, the baseline, the accrual with the equity row,
the intents. The account moves between any two. A self-hosted worker restarts
with its tables; a hosted one with none, and with an anchor made of the shared
ones.

### FillBook: state

| variable | code |
|---|---|
| `ops`, `truth` | operations and what the chain did with each; what the account holds of the symbol and what it paid (history) |
| `basis`, `rows`, `journal` | `cost_basis`, `trades`, `journal` of the position |
| `legacy`, `epoch`, `carried` | rows from before ACCOUNTING_FIXED_AT, `agents.epoch`, the epoch-carry flows |
| `waiting`, `chat`, `booked` | the operation awaited, for whom, and whether `bookFill` is done and `recordTrade` not |
| `tick`, `holds`, `watched` | the tick between its balances and its basis check, what it saw, `watchTokens` |
| `phase`, `sweeps`, `todo` | the worker's arm, the stranded sweeps and the rows each took up |

An operation that reverts is left with its submitted row to the sweep
(`ReceiptReverted`), as in `IntentPipeline`: only a landed one is booked and
recorded by its own intent.

### LogScan: state

`from`, `to`, `at`, `span`, `attempt` are the parameters and locals of
`getLogsAdaptive`; `reads[b]` counts how often the logs of block b were taken;
`result` and `scannedTo` are what it returns.

### Breaker: state

`owner` .. `last` are the `Breaker` struct, `policy` the status of the session's
permission, `sight` and `verdict` what the worker's tick read and its wall
answered, `op` its operation between signing and validation. `highest`,
`unjudged` and `halts` are history: the highest report of the current peak, an
owner's change that nothing has judged yet, and that the trip came from a halt.

### LedgerMirror: state

| variable | code |
|---|---|
| `status`, `id`, `size`, `holder` | `trades` in the ledger of each home, with AUTOINCREMENT ids; the home whose worker is running |
| `tape`, `mark` | the shared `trades`; `mirror_state.last_id` |
| `pass`, `from`, `batch`, `top`, `resolved` | `mirrorTenant` between two awaits |
| `reborn`, `aged` | history: the ledger is younger than the watermark; rows past RESYNC_WINDOW_SEC |

### Faults

Each model has a set `Faults` that says what the environment may do.
A run or a theorem names the faults it allows, so every claim carries its
conditions.

| IntentPipeline | |
|---|---|
| `ledger` | a write fails (`addTrade` returns false, or booking the basis throws); reads do not |
| `late-rearm` | settings or the grant change while an intent is in flight |
| `rail-flip` | a balance read moves the agent between paper and live |
| `redeploy` | a death discards the ledger with its container |
| `paper` | the agent starts on the paper rail |

Process death, sends that throw, lost receipts, dropped operations and
incomplete sweeps are not in this set: they are always possible.

A ledger that cannot be *read* is not in it, and is possible: `refreshBudget`
(`index.ts:726-730`) has no catch. Where an intent awaits it (`index.ts:3450`,
`4590`, `4634`) a throw escapes to the `finally` (`index.ts:4747`), which releases
the reservation without the re-read; that is what the mutant
`LeaveSubmittedUncounted` does, and `CountedBeforeTrading` and `NeverOverSpend`
fail under it until the next tick re-reads the budget. So these two, their
theorems, and the order of row, re-read and release stand under the condition
that reads of the ledger succeed.

| Orchestrator | |
|---|---|
| `crash`, `wedge` | a child exits; a child stops beating |
| `drop` | a lease connection dies |
| `revoke`, `halt` | owners revoke; `FLEET_HALT` comes and goes |
| `deploy` | a replica is stopped and restarted |
| `store` | the grant store cannot be read |
| `overlap` | another event arrives between the awaits of a `spawnChild` |

| CommandFerry | |
|---|---|
| `worker`, `orchestrator` | a worker dies; the replica's container dies with its workers |
| `select`, `mark`, `record` | the database refuses the SELECT or one of the two UPDATEs |
| `disk` | writing a command or an answer file throws |
| `probe` | the probe throws, wherever it is |
| `silent` | the pipeline returns and leaves `lastTradeOutcome` as an earlier intent set it |

| Capital | |
|---|---|
| `rpc`, `gap` | a scan is refused; the watermark is further back than a scan looks |
| `between`, `opening` | money moves between a tick's balances and the head of its scan; the same in the tick that opens the scan |
| `flow`, `firstflow`, `peak` | a flow cannot be written; the first one; the mark cannot be moved |
| `unresolved`, `chat` | a receipt times out; the owner's chat trades beside the tick |
| `redeploy` | a hosted container is replaced while its books say what they said at the last equity row (`Settled`) |
| `midway`, `anchor` | it is replaced past that; or its parent cannot read the shared database |
| `stop`, `kill`, `torn` | a restart with nothing on its way; with something; between a flow and its mark |

| FillBook | |
|---|---|
| `chat`, `unresolved` | as above |
| `unread`, `rearm`, `carry` | epoch one cannot be read at the arm; the worker arms again; the carry flow fails |
| `write`, `basis`, `unreadable` | a row, the basis, a balance cannot be written or read |
| `unwatch` | the owner takes the symbol off the list |
| `stop`, `kill`, `tear` | a death between operations, while one is awaited, between two writes of one fill |

| LedgerMirror | |
|---|---|
| `store`, `crash` | a shared statement fails; the pass dies |
| `rebuild`, `regrow` | the ledger starts again at id 1; and outgrows its old watermark before a pass sees it |
| `handover`, `return` | another replica takes over; and finds an old ledger of this tenant |
| `late` | a row leaves the resync window before it was updated |

`LogScan` and `Breaker` have no fault set: a provider may answer anything, and
anybody may call the contracts at any time.

`overlap` is how Node really behaves. Naming it separates what holds when a
spawn finishes before the next event (the normal case: the awaits take
milliseconds, the loop fifteen seconds) from what breaks in that window.

## 3. Runs

### Passing

| run | instance | faults | shows |
|---|---|---|---|
| `IntentsLive` | 3 operations (2, 2, 1 USDG; one from chat), cap 3 and 2 ops, 1 death, 1 re-arm | ledger | types, `NeverOverSpend`, `NoBlindBroadcast`, `ReservationBalanced`, `SpendStaysCounted`, `CountedBeforeTrading`, refinement of `OpLifecycle` |
| `IntentsFaults` | 2 operations, 1 death, 1 re-arm | ledger, rail-flip, late-rearm, redeploy | `LedgerTruthful`, `RailsApart` |
| `IntentsSettle` | 3 operations, no chat, fair, 1 death | ledger | `OneRowPerOp`, `SubmittedSettles` |
| `FleetSafe` | 2 replicas, 1 tenant, 3 slots, 3 faults | crash, wedge, revoke, halt | types, `NoOrphan`, `UnderLease`, `OneArm` |
| `FleetLeases` | the same, 2 faults | drop, deploy, store, overlap, crash, wedge | `LeaseIsLock` |
| `FleetLive` | the same, fair, 2 faults | crash, wedge, drop, revoke, halt | `WantedRuns`, `LostStandsDown`, `RevokedStandsDown` |
| `Ferries`, commands | 2 commands of one millisecond, 1 tenant, LIMIT 2, hosted and self-hosted, fair, 2 faults | all | `RunsBounded`, `NeverRevived`, `PassWasEarned`, `WaitingIsTaken` |
| `Ferries`, trades | 3 rows, 2 homes, batch 2, resync 3, fair, 2 faults | all but return and regrow | `TapeExact`, `NothingSkipped`, `EveryRowShown`, `OutcomeFollows`, refinement of `TradeTape` |
| `Books`, capital | movements of 400 and 100, performance of 1 either way, hosted or not, scan on or off, 2 faults | all | `PeakCarries`, `BookedOnce`, `NothingMissed`, `NoFeeOnPrincipal` |
| `Books`, fills | 2 operations (buy 3 for 10, sell 2 for 8), old epoch or not, 2 faults | all | `JournalAgrees`, `CostFollowsChain`, `CapitalCrosses` |
| `Books`, logs | all windows of 7 blocks, spans to 5, 2 retries | - | `CoverageIsTrue`, `ScanEnds` |
| `Books`, breaker | 2 callers, equities 0, 2, 3, thresholds 3333 and 3334 bps | - | `BreaksInTime`, `BreaksInEarnest`, `NoTradeBeyond` |

`BookedOnce`, `NothingMissed`, `NoFeeOnPrincipal`, `CostFollowsChain`,
`CapitalCrosses`, `JournalAgrees` and `PeakCarries` name the faults after which
they do not hold; with all faults in the run, the condition is the claim. The
run shows it for any pair of the other faults, the theorems of section 4 for any
number of them in any order. No condition can be left out: without any one of
those of `BookedOnce`, `NothingMissed` and `NoFeeOnPrincipal` TLC finds a
counterexample with two movements (of 100 each where they have to cancel) and at
most three faults; the instructive ones are told below.

Every property of a passing run has a mutant in `PROJECT.json`: a plausible bug
in one definition of the model under which the run reports the property
violated. The mutated operators stand in the modules beside the originals,
marked `Mutant:`.

### Disagreements between the code and its own words

Each of these runs checks one property that quotes a comment, and TLC finds a
behaviour of the code that violates it.

| run | property | what happens |
|---|---|---|
| `FindLateRearm` | `NeverOverSpend` | an arm clears the reservation of an intent in flight, and its release then goes below zero |
| `FindOrphan` | `NoOrphan` | a respawn timer and reconcile both spawn during one another's awaits |
| `FindFillAsCapital` | `Booked` | a receipt times out, the fill lands later: its cash change has no ledger write the counter knows of and is booked as a withdrawal of the owner's |
| `FindCostDropped` | `CostNotDiscarded` | one balance the multicall cannot read is taken for "not held", and the position loses its cost basis |

The same models show more windows. They are not kept as runs.

Of the money path:

* `NeverOverSpend` with `rail-flip` added to `IntentsLive`: the budget is re-read
  on the rail of the previous tick's balances (`index.ts:4934`), before the
  balances that decide the rail; "paper and live never share one"
  (`index.ts:719`).
* `OneRowPerOp` with the chat operation left in `IntentsSettle`: the detached
  sweep settles a chat intent that is still waiting, and both write
  (`store.ts:1956-1966`); the same with one re-arm, between the two sweeps.
* `NoRetryAfterRefusal` as an invariant of `IntentsLive`: a typed revert takes
  the "may have landed" exit (`index.ts:4633`, `4706`), so its pair is never
  suppressed.
* `SpendStaysCounted` with `paper` added to `IntentsLive`: an unrecorded paper
  fill is forgotten at the next re-read of the budget (`index.ts:3434` says the
  spend stays counted for the arm; there is no submitted row behind it).

Of the books:

* The mark is mirrored upwards only (`ledger-mirror.ts:556`). After a
  withdrawal the worker lowers it, a redeploy hands back the one from before:
  "the account sits permanently 'in drawdown' by whatever its owner took home"
  (`index.ts:997-1000`), and no fee is taken until the agent has earned that
  much. The mark being too high breaks no property here; `restoreAnchoredHighWaterMark`
  calls that direction the safe one (`index.ts:1443-1446`).
* A worker that starts without its anchor starts from a mark of zero. It takes
  no fee, but its next container, with an anchor, finds every flow evidenced and
  forgets the doubt: `Times("redeploy") + Times("anchor") <= 1` in
  `NothingMissed` and `NoFeeOnPrincipal` is there for this.
* `rpc`: a tick whose scan is refused infers the flow, and the scan of the next
  tick books it again (against `index.ts:1171-1173`); `firstflow`: the first
  observation is retried after the baseline has gone by (against 1268-1275);
  `kill`, `chat`: a fill without its row yet is capital to the next inference.
* A movement that the scan books ahead of the balances (`between`) has no place
  in the last equity row. If the worker then restarts past the lookback (`gap`),
  the first observation compares the balance with that row and books it again.
  If the container is replaced, the new child's anchor is that row: a movement of
  the same size back the other way restores its cash, no drift is seen, and the
  second movement is missing. These are the orders that `Before("between", ...)`
  in `BookedOnce` and `NothingMissed` rules out. `NoFeeOnPrincipal` rules
  `between` out altogether: a withdrawal that is booked, and not yet in the
  equity of the same tick, lowers the mark under that equity, and the fee of the
  difference is taken.
* A watermark that is too old stays too old: it is the block of the newest
  receipt, and a start past the lookback writes none (`index.ts:1129-1138`). So
  every restart leaves the window to inference until the next receipt (`stale`).
* A new child compares one balance with one balance (`foldLicence`,
  `bootstrap-state.ts:569-573`). Two movements of opposite sign since the last
  equity row cancel in it: a fill and a deposit, say. It sees no drift, keeps
  its contributions "known", and lacks the deposit. `midway` is the replacement
  that can leave two such movements, where `redeploy` cannot.
* `flow` with a transfer of the agent's: the trade row is written and its flow
  is not, and from then on the scan takes the transfer for explained.
* `addFlow` journals also when ON CONFLICT DO NOTHING inserts no row
  (`store.ts:1336-1367`).
* `chat` with a fill: a buy that lands between the balances of a tick and its
  basis check loses its cost. `unwatch`: a symbol off the list while it is held
  does too (the exceptions are hard-coded, `index.ts:5242-5243`). `unresolved`:
  what a sweep settles never gets a basis.
* `unread` and `rearm`: a boundary opened late files the row of an operation in
  epoch one and its journal entry in epoch two. `tear`: a death between the
  epoch and its carry flow loses the opening balance for good.
* `deposit-log.ts:20` calls a failure of a single block "a bad block to step
  over"; the scan stops there and says so, which is what `CoverageIsTrue` shows.

Of the fleet and the ferries:

* `OneArm` with `drop` added to `FleetSafe`: a dropped connection gives the lock
  away before its holder knows.
* `UnderLease` with `deploy` added to `FleetSafe`: a spawn under way when the
  replica stops starts a child whose lease has been released.
* `LostStandsDown` with `store` added to `FleetLive`: a store that cannot be
  listed skips the stand-down of lost leases (`orchestrator.ts:614`).
* `RevokedStandsDown` with `overlap` added to `FleetLive`, with 3 faults: an
  orphan is out of reach of the kill switch, the watchdog and `FLEET_HALT`.
* `RunsAtMostOnce` as an invariant of `Ferries`: the file is written before the
  row is marked, so a failed UPDATE or a death in between delivers the command
  again. "At-most-once is the only acceptable semantics" (`store.ts:376`,
  `command-files.ts:31`); what holds is `RunsBounded`.
* `PassIsOwn` as an invariant of `Ferries`: the probe "Reads the LEDGER for its
  verdict, never the absence of an exception" (`index.ts:2393`). What it reads is
  `lastTradeOutcome` (`index.ts:1530`), written by `recordTrade` (`3419`) and by
  the receipt timeout (`4579`), and never cleared before the probe (`2415`). The
  exit for whatever fails after the submitted row (`4633-4644`) writes neither,
  and a typed revert takes it too; nor does the return of a worker that was
  disarmed while the probe waited its turn (`3373`). After a trade that landed,
  such a probe is answered PASSED. `PassWasEarned` leaves out the commands this
  happened to (`stale`); what it shows is that nothing else makes a PASSED: no
  early return, redelivery, lost answer or torn batch.
* `QueuedEnds` in `Ferries`: the route files a hosted command under the smart
  account, the ferry looks under the tenant (`orchestrator.ts:742`,
  `route.ts:113-114`): it stays queued for ever. Self-hosted nothing drains the
  result files and the table has no row, so the page's state of a command is
  always "none" (`PageState`).
* `TapeExact` with `handover` and `return`: a replica that gets a tenant back
  finds its old ledger, whose ids say nothing about the watermark of the other,
  and copies its rows again.
* `NothingSkipped` with `regrow`: a reborn ledger that has reached the old
  watermark before a pass looks has a row of that id, another one ("asking for
  the row itself does not" fail, `ledger-mirror.ts:299-300`), and all below it
  is skipped.

Read in the source, without a model: the mirror's cursor over decisions is a
timestamp it re-reads with a lookback; with `MIRROR_BATCH` decisions inside the
lookback every pass reads the same oldest ones (`ledger-mirror.ts:451-500`).
The grant store caches the promise of its first connection also when it is
rejected (`grant-store.ts:183`). Nothing in the source calls `reportEquity`,
and no session installs the breaker policy, so the contracts guard only whoever
arms them.

### Bounds, and why they are enough

* **Operations.** Two operations of 2 USDG under a cap of 3 do not fit
  together; with the third of 1 USDG one of them fits beside it. So both the
  daily cap and the operation cap (2) are reached, and refused at. Two intents
  are enough for every race of a chat intent with the tick, as only one holds
  the intent lock.
* **Deaths and re-arms.** One death leaves every possible half-done state to
  one restart. The state a second death would find is one the first already
  produced, except for a death inside the recovery, which repeats it.
* **Slots.** A slot is an in-progress spawn or a process. Three let a running
  child, a dead one whose exit event is still due and a new spawn exist
  together for one tenant, which is what the exit-handler race needs. A full
  set of slots delays a spawn (`HasSlot`) and frees up at the next exit.
* **MaxFaults** counts crashes, wedges, drops, revocations, halts and deploys
  together; timers, exits and the loop are not counted.
* **Tenants.** One in the runs: tenants share nothing in a replica but the
  order of its loop. The theorems of `OrchestratorProofs` hold for any set.
* **Commands.** Two share a millisecond, so either may be delivered or taken
  first, and one batch may hold both. Two faults are enough for a
  delivery that is interrupted and interrupted again, or a worker that dies
  with the redelivered command.
* **Rows.** Three with a batch of 2 need two passes; a rebuild after the first
  leaves the watermark above, at or below what the new ledger holds.
* **Movements.** Two of different size: each may be a deposit, a takeout, a fill
  or a transfer, in either order, so a movement counted twice, left out, or
  with the wrong sign shows in the sum. Two faults are a fault and another one
  inside its recovery. Performance of 1 is smaller than any movement, so a fee
  on principal exceeds all the agent ever earned.
* **Fills.** Part of a position is sold, at a cost that does not divide, and
  then a second operation may fill it up; with two epochs and two sweeps.
* **Blocks.** Seven, with spans that halve to odd and even remainders, and
  windows that are empty, of one block, and upside down.
* **Equities.** A fall from 3 to 2 is 33.33..% of the peak: thresholds of 3333
  and 3334 lie at either side of it, so a division rounded the wrong way shows.
* **Symmetry.** The safety runs of the fleet permute the replicas, which run
  the same program. The liveness runs use no symmetry.

Deadlock is checked in the passing runs of the money path and the fleet: when
nothing is left to do, the tick goes on and a halted loop idles. The others
come to rest: posted commands and bounded rows run out, the movements and
operations are bounded, a log scan returns. `FindLateRearm` has no deaths and
bounded operations, and stops too.

### Fairness

`IntentPipeline`. `runLoop` reschedules the tick in a `finally`, so `TickStep`
is weakly fair. The calls of an intent have timeouts and the receipt loop is
bounded, so the lock holder moves. Strong fairness is assumed of reading the
budget and the book, of starting the detached sweep with all it can find and of
writing a settlement: a chain or ledger that fails is read again on a later
tick, and one that fails for ever settles nothing. No fairness is assumed of
the chain, of new intents or of deaths.

`Orchestrator`. The main loop, timers, exit events, the two awaits of
`spawnChild`, the noticing of a lost connection and the exit of a stopping
process are weakly fair. Nothing is assumed of owners, crashes or connections.
A child that gives up after MAX_RESTARTS is the branch of `ExitEvent` without a
timer; the loop respawns the tenant at its next pass.

`CommandFerry`. A pass of the ferry goes over all children, so each visit is
strongly fair (it is enabled between other visits only) and its steps weakly
fair; the reconcile respawns workers and each tick runs the queue, so the steps
of a worker are weakly fair. Faults and owners have no fairness.

`LedgerMirror`. The orchestrator runs a pass every RECONCILE_MS and a pass goes
on at each await, so `PassStep` is weakly fair. The worker and the faults have
no fairness.

`LogScan` needs none: that a scan ends is stated as a measure (`ScanEnds`).
Every answer of the provider ends the scan, moves the cursor, narrows the span
or uses up a retry, all of which are bounded. A bug that makes a scan go on for
ever is one that breaks the measure.

## 4. Theorems

The proofs are for any set of operations (replicas, tenants, slots), any caps
and any number of deaths and re-arms (faults). Conditions are on `Faults` only.
The assumptions on constants are the named `ConstantsAssumption`s.

### IntentPipelineProofs

| theorem | condition on faults | invariant it rests on |
|---|---|---|
| `TypeCorrect` | none | `TypeInv`: `TypeOK` and the lock variables agree (`LockInv`) |
| `LedgerIsTruthful` | none | `LedgerInv`: the phase of the intent and the pending settlements agree with the chain |
| `NothingIsBroadcastBlind` | no redeploy | `DurableInv`: the row is there from before the send |
| `ReservationIsBalanced` | no late-rearm | `ReserveInv` |
| `CountedBeforeJudged`, `UnrecordedStaysCounted` | at most ledger | `BudgetInv`: whatever is out is charged in one of the two halves |
| `RailsStayApart` | none | `PaperInv` |
| `PipelineImplementsLifecycle` | no redeploy | `LedgerInv` and `DurableInv`: each step is a step of `OpLifecycle` or stutters |
| `OneRowHolds` | none; no chat operation and no second arm | `RowInv` |
| `NothingOverSpends` | at most ledger | `SpendInv`, on top of `BudgetInv` and `ReserveInv` |

`TypeOK` alone is not inductive: a released intent must be known to hold no
reservation, and `cur` to be an operation exactly while `pc` is busy. That is
`LockInv`. `LedgerTruthful` needs to know that a settlement a sweep holds was
read from a chain state that does not change any more (`SweepInv`), and that
the intent in phase `record` saw a success (`PhaseInv`).

`NothingOverSpends` is the promise of the whole pipeline: what the chain executes
in a day stays within both caps. `NeverOverSpend` speaks of operations that have
succeeded, and an admission cannot see the ones still out. So `SpendInv` speaks
of everything that has succeeded or still may, and of the operation an admitted
intent is about to become (`Committed`). An admission adds its own notional to
settled plus in-flight spend and compares with the cap; `BudgetInv` says that
the two together charge at least `Committed` (`SpendAdmitted`), and sums
are monotone. Everything after the admission only moves an operation that is in
`Committed` already, or takes it out.

`addTrade` looks for a submitted row and inserts one if there is none, so two
writers of one outcome leave two rows. `RowInv` is why there is one writer: the
sweep of the arm, the detached sweep and an intent are never after the same
operation (`OneWriter`, `Unsettled`). With a chat operation or a second arm they
can be, and section 3 shows both.

### OrchestratorProofs

| theorem | condition on faults |
|---|---|
| `TypeCorrect`, `LeasesAreLocks` | none |
| `NoChildIsOrphaned`, `ChildrenRunUnderLease` | no overlap, no deploy |
| `OneReplicaArmsATenant` | no overlap, no deploy, no drop |

The invariant `ArmInv` says for each replica and tenant: a running child is the
registered one and has a lease on file; a spawn between its awaits is the only
one, with nothing registered and a lease on file; and while the loop is asking
for a lease there is neither a lease nor a child. The two middle clauses are
what `NoOrphan` and `UnderLease` miss to be inductive: `SpawnProcess` looks at
nothing, so what it may overwrite has to be known from before. `ArmKill` is the
lemma for every path that stands children down (halt, lost leases, kill
switch). `OneReplicaArmsATenant` then follows from `LeasesAreLocks`: a child
runs under a held lease, a held lease is the lock, and a lock has one holder.
Each excluded fault is necessary: section 3 gives the counterexamples.

### CommandFerryProofs

Every theorem holds under every fault.

| theorem | invariant it rests on |
|---|---|
| `TypeCorrect` | `TypeOK`, which says in which states ferry and worker hold a command |
| `ProbesAreBounded` | `OnceInv` |
| `NothingIsRevived` | `OnceInv`: a batch holds only rows that are not marked |
| `PassesAreEarned` | `PassInv`: a verdict of PASSED is born of the command's own landed operation, or of a pipeline that recorded nothing, and then only travels, in the worker's hands, in an answer file, among the drained results, into the row |

`RunsBounded` counts runs, and a run may come from several places. `CountInv`
adds them up: the runs so far, plus one for a file in a home, one for a worker
that has taken the command, one for a row the ferry has yet to deliver, are at
most one plus the faults. Each ordinary step moves a unit from one place to the
next; only an interrupted delivery makes one, and a fault pays for it
(`RedeliveryCosts`). `PlaceInv` says a command is with one tenant, and
self-hosted in one place, so a unit that leaves a place leaves none behind.

### LedgerMirrorProofs

| theorem | condition on faults | invariant it rests on |
|---|---|---|
| `MirrorTypeCorrect` | none | `Types` |
| `TapeIsTruthful`, `MirrorImplementsTape` | none | `Truth`: what the pass has read of an outcome stays true while it waits to be written |
| `TapeIsExact` | no return | `CopyInv`: ids are 1..size of a ledger; a row with a copy is below the watermark of the ledger that holds it, and a batch holds only rows above |
| `NothingIsSkipped` | no return, no regrow | `SkipInv`: what is below the watermark of a ledger that is not reborn has a copy, and the ids of a reborn one do not reach it |

`TapeExact` speaks of counts, but its invariant does not: a row is copied by an
INSERT above the watermark and by nothing else, so it is enough to know where a
row with a copy lies. A rebuilt ledger starts at id 1 with rows nobody has
copied yet, which is why starting over (`Start`) copies nothing twice; a
replica that comes back to an old ledger does, and is excluded by `NoReturn`.

### CapitalProofs

| theorem | condition on faults (all in the property) | invariant it rests on |
|---|---|---|
| `CapitalTypeCorrect` | none | `Types`, in five parts with a frame lemma each |
| `PeakCarriesHolds` | no peak, torn, anchor before | `Paired` |
| `BookedOnceHolds` | no `Overlaps`, no between before a gap | `BookedInv` |
| `NothingMissedHolds` | no `Overlaps`, flow, midway; no between before a gap or a redeploy; one redeploy or anchor | `WholeInv` |
| `NoFeeOnPrincipalHolds` | the same, and no between at all | `FeeInv` |

`PeakCarries` is not inductive. `Paired` adds that nothing is due outside a
record and that the mark in memory is the one in the table: the accrual takes
its fee above the one and raises the other. A restart may raise the mark
(`Raised` is at least the worker's) and never lowers it, unless its anchor is
missing.

The other three are about `net`, one number, and say of which movements it is
the sum. No state variable knows that set, so the invariants say that it exists:

* `Facts` is what the rest needs of tick, account and books without any set: an
  operation is waited for at the end of a tick only (`Waits`), the cash is the
  sum of the movements and what the tick read the sum of those it read
  (`Money`, `Readings`), an account without a row or a mark (`NoRow`, `NoMark`),
  where a scan may stand (`Openings`, `Cursors`, `Queued`).
* `BookedInv`: there is a set B of movements with `net = SumOf(B)` of which
  nothing will be booked again. There are four ways to book one, and a conjunct
  for each: the logs (`Unfound`: B is behind the cursor, recorded, or below the
  watermark), the cash of the last look (`SinceLook`) and of the last equity row
  (`SinceRow`: that balance was taken after every member of B, and since then
  only the owner moved money), and the agent's own record (`Unrecorded`). An
  inferred flow is then the sum of an interval of the owner's movements
  (`OwnersMoney`), disjoint from B.
* `WholeInv`: as long as the contributions count as known, there is a set C with
  `net = SumOf(C)` that has all of them up to where the books look. With a
  cursor, or a receipt to resume from (`News`), it is what the logs have shown
  (`Held`); a new life with only the last equity row to go by, its watermark
  missing or stale, has all that row reflects (`FromRow`); in a tick, with what
  is queued, it is all up to the head of its scan (`InTick`).
  `Ordered` is why the watermark may stand for the cursor after a restart: the
  logs are booked oldest first. At the accrual nothing is queued, so C is all
  the balances reflect, which is `NothingMissed`.
* `FeeInv` is `NoFeeOnPrincipal` under the conditions of `WholeInv`: equity is
  at most the contributions plus the best performance so far, the mark carries
  the contributions plus what was charged already (`Paired`), and their
  difference is the fee.

`Steady` and `SteadyKnown` carry the conditions: with no replacement so far the
account is a new one and known; a redeploy that keeps it known had a row.

### FillBookProofs

| theorem | condition on faults | invariant it rests on |
|---|---|---|
| `FillTypeCorrect` | none | `Types`: also that who waits, waits for an operation that was sent, and that what is booked has landed |
| `JournalAgreesHolds` | every history is read, or no second arm (in the property) | `Kept` |
| `CapitalCrossesHolds` | no failed flow, no death before it (in the property) | `Crossing` |
| `CostFollowsChainHolds` | those of the property | `Costing` |

A landed row keeps the epoch it was submitted in, its journal entry gets the
epoch of the write, and nothing in `addTrade` compares them. `JournalAgrees`
therefore needs that whoever may settle a row (the intent that waits for it, a
sweep that took it up) finds it in the current epoch (`WritesNow`). `Kept` says
why, in two ways of which one suffices: with every history read, the boundary is
crossed before the first operation is sent (`EarlyBoundary`); without a second
arm, nobody waits and no detached sweep is under way while it is crossed
(`QuietBoundary`). `OneWaits` (one submitted row for an operation at most) makes
a write one row and one entry. The counts are compared by cardinality: a write
adds one fresh element to both sets or to neither.

`Crossing` adds to `CapitalCrosses` that nothing is carried while the flow is
still to be written; that the carry state is only ever in epoch two (`Carrying`)
comes from `Kept`. `Costing` says the basis trails the chain by the one fill the
tick waits for, that nothing but that fill is under way, and that a position of
quantity zero cost nothing. The last is what makes closing a basis safe, and
rests on `ApplyFillPosition`: a sale of everything takes the whole remaining
cost, where a share rounded down would leave some.

### ChainEdgeProofs

`CoverageHolds` and `ScanTerminates` (of `LogScan`) hold for any window, span
and number of retries. The invariant `ScanInv` says a block is read once if it
lies between the start and the cursor, and otherwise never; halving keeps the
cursor.

`BreakerTypeCorrect`, `BreaksInTimeHolds`, `BreaksInEarnestHolds` and
`NoTradeBeyondHolds` have no condition: for all equities, callers and
thresholds from 1 to 10000. What the wall half of the first two says, it says
with the two exemptions of `checkPolicy` (section 5), and `BreaksInEarnest` says
that nothing exempt is ever refused. The arithmetic is in the first lemmas: a quotient
of integers reaches a limit exactly if the dividend reaches the limit times the
divisor, which is what makes rounding down the right direction. `HaltTrips`
says that a halt in force is a trip in force.

### Sums

The spend counters and the capital flows are `SumFunctionOnSet` of the community
modules, a recursive function over the subsets of a set that picks members by
CHOOSE. An induction theorem cannot be instantiated here, but a smallest
counterexample can be looked at: the strict subsets of a finite set are well
founded, so a non-empty family of subsets has a minimal member
(`MinimalSubset`). With that, the fold exists and is unique (`FoldExists`,
`FoldUnique`), does not depend on the order (`SumRemove`), and is additive and
monotone (`SumAdd`, `SumDisjoint`, `SumMonotone`, `SumShift`).

### Only model-checked

* Liveness (`SubmittedSettles`, `WantedRuns`, `LostStandsDown`,
  `RevokedStandsDown`, `WaitingIsTaken`, `EveryRowShown`, `OutcomeFollows`):
  fairness and ENABLED are beyond the prover.
* The properties that the disagreement runs refute.

The type invariants of `Capital`, `FillBook`, `CommandFerry`, `LedgerMirror` and
`Breaker` are proved and not run.

## 5. What the models leave out

* A call of the store is one step: what a kill leaves between two SQL
  statements of one synchronous stretch is the state before or after it.
  Where the code awaits between store calls, the steps are apart.
* `IntentPipeline`: amounts other than the notional of an intent. Rules of
  `checkPolicy` other than the caps are one refusal. The trailing 24 hours: rows
  do not age out, which only tightens the caps. The bundler accepting an
  operation under another hash. `market.unreadable`, missing prices and unread
  balances are one `HoldTick`.
* `Capital`: what the account holds beside cash is one number, its performance;
  vaults and brokerage cash are not told apart; the paper book and the expiry of
  an anchor are left out. The shared tables are in step with the worker's at a
  redeploy, but for the mark, which a pass may have taken at any time
  (`MirrorMark`); what the mirror may lose is `LedgerMirror`'s subject. Gas and
  fee rates are left out: a fee is the profit it is taken on.
* `FillBook`: one symbol; realised P&L, slippage, prices, and the hashes of the
  journal, which are a function of its entries.
* `LogScan`: the classification of an error message is a choice.
* `Breaker`: one account and one session. The drawdown rule has the two
  exemptions of `policy.ts:544`: an intent that only leaves a position, and any
  intent while the book is incomplete, when equity is a partial sum
  (`policy.ts:213-223`). The tick says whether it is (`index.ts:6045`), chat
  passes what the last tick found (`index.ts:6161`, `6181`), the self-test always
  says it is (`index.ts:2415`). A loss that reached the limit is then admitted by
  the wall, and only the registry could refuse it. Which intents are exits is
  a choice.
* `Orchestrator`: a lease is acquired in one step and released in one, though the
  unlock is awaited after the entry is gone (`orchestrator.ts:278`,
  `tenant-lease.ts:153`); in those two windows the map and the lock differ, and
  `LeaseIsLock` is about the states outside them. The MAX_RESTARTS count and
  back-off times are left out (any exit may or may not set a timer), and so are
  the file grant store and the lease of a self-hosted install, which has one
  process and no replica.
* `CommandFerry`: an unreadable command file is removed by the claim, but a
  rename never leaves one. The early returns of the probe and unknown kinds are
  one choice (`Declines`), as each answers that nothing ran. What an answer says
  is PASSED or not; the reasons are left out. `lastTradeOutcome` is set before
  the row is written (`index.ts:3419-3420`), so the PASSED line's "and the ledger
  recorded it" is no part of `PassWasEarned`: with a failing ledger it is not so.
* `LedgerMirror`: one append-only table stands for those with the same loop;
  the snapshot tables are replaced as a whole, and decisions have a cursor of
  their own.

### Not modelled

The web app, the clients, the installers and the research services are most of
the source's lines. They hold no part of the money path's state: screens, HTTP
routes over single statements of a database, quotes and indicators that are
nondeterministic inputs here. Two have protocols of their own that would be
worth a module, recovery tickets (web) and balance claims (gateway); they come
last in the plan.

## 6. Plan

Done: the money path, the books, the breaker, the fleet and both ferries.
Next, in this order:

1. `GrantStore`: sealed rows, the archive and the cached connection, composed
   with `Orchestrator`; account claims.
2. The decisions cursor of the mirror, beside `LedgerMirror`.
3. `Capital` composed with `FillBook`: one operation, its row, its basis and its
   flow in one behaviour.
4. `PolicyWall`: the other rules of `checkPolicy` as operators against a
   reference of each limit.
5. Recovery tickets and grant routes of the web app; balance claims of the
   gateway.
