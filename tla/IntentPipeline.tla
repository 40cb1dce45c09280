--------------------------- MODULE IntentPipeline ---------------------------
(***************************************************************************)
(* The money path of one worker process: worker/src/index.ts (tick,        *)
(* syncGrant, processIntent and the budget counters), executor.ts (the     *)
(* send), store.ts (the trade rows) and the two sweeps that settle         *)
(* operations the process lost track of.                                   *)
(*                                                                         *)
(* Every intent is one member of Ops and produces at most one              *)
(* UserOperation.  A spend counter of the code is the sum of the charges   *)
(* it holds; here the charges themselves are kept, one integer per         *)
(* operation, and Spent / Count are the two sums the code stores.          *)
(*                                                                         *)
(* Threads of the worker: the tick loop, the chat loop (its intents run    *)
(* beside the tick, under the intent lock) and the detached stranded-op    *)
(* sweep.  Around them: the chain, which includes a pending operation when *)
(* it pleases, and the operating system, which may kill the process.       *)
(***************************************************************************)
EXTENDS Integers, FiniteSets, Functions

CONSTANTS
  Ops,            \* intents, each with the UserOperation it may become
  ChatOps,        \* the ones the chat loop or a queued command submits
  Notional,       \* [Ops -> Nat], the USDG an operation counts for
  PairOf,         \* the (kind, token pair) key of an intent
  DailyCap,       \* limits.dailyUsdg
  MaxOpsPerDay,   \* limits.maxOpsPerDay
  NoOp,           \* "no intent holds the lock"
  Faults,         \* what the environment may do, a subset of AllFaults
  MaxCrashes,     \* bound on process deaths
  MaxRearms       \* bound on grant or connection changes

(* rail-flip: a balance read moves the agent between live and paper;       *)
(* ledger: a ledger write may fail; late-rearm: settings or the grant may  *)
(* change while an intent is in flight; redeploy: a death may discard the  *)
(* ledger with its container; paper: the agent starts on the paper rail.   *)
AllFaults == {"rail-flip", "ledger", "late-rearm", "redeploy", "paper"}

ASSUME ConstantsAssumption ==
  /\ IsFiniteSet(Ops) /\ ChatOps \subseteq Ops /\ NoOp \notin Ops
  /\ Notional \in [Ops -> Nat]
  /\ DailyCap \in Nat /\ MaxOpsPerDay \in Nat
  /\ Faults \subseteq AllFaults
  /\ MaxCrashes \in Nat /\ MaxRearms \in Nat

VARIABLES
  rows,        \* trades table: per operation, how many rows hold each status
  chain,       \* what the bundler and the chain have done with the operation
  settled,     \* settledSpentUsdg / settledOps, as charges per operation
  inFlight,    \* inFlightSpentUsdg / inFlightOps, as charges per operation
  rail,        \* execMode(): the rail an intent would take now
  paperBook,   \* intents the simulated book has filled
  active,      \* an agent is armed in this process
  ready,       \* lastEquityUsdg is known, so chat intents are accepted
  tick,        \* where the tick loop is
  pc, cur, reserved,  \* the intent holding the lock and its reservation
  proposed,    \* intents already handed to processIntent
  sweep,       \* per sweep: {} or the settlements it still has to write
  refused,     \* pairs the chain refused in this arm (history)
  unrecorded,  \* fills of this arm whose row could not be written (history)
  crashes, rearms

ledgerVars == <<rows, paperBook>>
budgetVars == <<settled, inFlight>>
intentVars == <<pc, cur, reserved, proposed>>
tickVars   == <<active, ready, tick, rail>>
histVars   == <<refused, unrecorded>>
bounds     == <<crashes, rearms>>
vars == <<ledgerVars, chain, budgetVars, tickVars, intentVars, sweep, histVars, bounds>>

Statuses  == {"submitted", "landed", "reverted", "paper"}
ChainStates == {"none", "pending", "success", "reverted", "dropped"}
Sweeps    == {"arm", "tick"}
Outcomes  == {"landed", "reverted"}
Rails     == {"live", "paper"}

-----------------------------------------------------------------------------
(* The ledger's arithmetic.                                                *)

NoCharge == [o \in Ops |-> 0]
NoRows   == [o \in Ops |-> [s \in Statuses |-> 0]]

(* Mutant: a budget that forgets operations whose outcome is unknown.      *)
RailChargeLandedOnly(led, r) ==
  [o \in Ops |-> IF r = "live" THEN led[o]["landed"] ELSE led[o]["paper"]]

(* RAIL_STATUSES: 'submitted' counts on the live rail. *)
RailCharge(led, r) ==
  [o \in Ops |-> IF r = "live" THEN led[o]["landed"] + led[o]["submitted"]
                               ELSE led[o]["paper"]]

Spent(charge) == SumFunctionOnSet([o \in Ops |-> Notional[o] * charge[o]], Ops)
Count(charge) == SumFunctionOnSet(charge, Ops)
Plus(f, g)    == [o \in Ops |-> f[o] + g[o]]
SpentToday    == Spent(Plus(settled, inFlight))
OpsToday      == Count(Plus(settled, inFlight))

(* Mutant: the outcome is always inserted beside the submitted row.        *)
AddTradeInserts(led, o, st) == [led EXCEPT ![o][st] = @ + 1]

(* addTrade with a hash: UPDATE the submitted row in place, and only if    *)
(* there is none INSERT.                                                   *)
AddTrade(led, o, st) ==
  IF led[o]["submitted"] > 0
    THEN [led EXCEPT ![o]["submitted"] = 0, ![o][st] = @ + led[o]["submitted"]]
    ELSE [led EXCEPT ![o][st] = @ + 1]

(* addTrade without a hash (a paper fill), and the pre-broadcast row.      *)
InsertTrade(led, o, st) == [led EXCEPT ![o][st] = @ + 1]

(* Mutant: an early return that leaks the reservation.                     *)
ReleasedNever == inFlight

(* releaseBudget: subtract what this intent reserved, if it still holds it.*)
Released == IF reserved THEN [inFlight EXCEPT ![cur] = @ - 1] ELSE inFlight

(* The intent lets go of the lock. *)
Unlock == pc' = "free" /\ cur' = NoOp /\ reserved' = FALSE

-----------------------------------------------------------------------------
(* processIntent: the intents.                                             *)

(* Chat needs a first complete tick; strategy intents are awaited by the   *)
(* tick that proposes them.                                                *)
MaySubmit(o) ==
  /\ pc = "free" /\ active /\ o \notin proposed
  /\ IF o \in ChatOps THEN ready ELSE tick = "trade"

(* checkPolicy's ops-cap and daily-cap rules, then the suppression lookup  *)
(* (a map no reachable path fills, see ReceiptReverted).                   *)
PolicyOk(o) ==
  /\ OpsToday < MaxOpsPerDay
  /\ SpentToday + Notional[o] <= DailyCap

(* An intent may be refused over a cap or for any rule whose data is left  *)
(* out (allowlists, drawdown, no gas, no executor, an unfillable paper     *)
(* order).  It leaves a 'rejected' row, which counts on no rail, and       *)
(* recordTrade re-reads the budget.                                        *)
Reject(o) ==
  /\ MaySubmit(o)
  /\ proposed' = proposed \cup {o}
  /\ settled' = RailCharge(rows, rail)
  /\ UNCHANGED <<ledgerVars, chain, inFlight, tickVars, pc, cur, reserved, sweep, histVars, bounds>>

(* The live rail: reserve before the first await of the execution.         *)
AdmitLive(o) ==
  /\ MaySubmit(o) /\ PolicyOk(o) /\ rail = "live"
  /\ proposed' = proposed \cup {o}
  /\ pc' = "build" /\ cur' = o /\ reserved' = TRUE
  /\ inFlight' = [inFlight EXCEPT ![o] = @ + 1]
  /\ UNCHANGED <<ledgerVars, chain, settled, tickVars, sweep, histVars, bounds>>

(* Mutant: the paper arm falls through to the live one.                    *)
AdmitPaperFallsThrough(o) ==
  /\ MaySubmit(o) /\ PolicyOk(o) /\ rail = "paper"
  /\ proposed' = proposed \cup {o}
  /\ paperBook' = paperBook \cup {o}
  /\ pc' = "build" /\ cur' = o /\ reserved' = TRUE
  /\ inFlight' = [inFlight EXCEPT ![o] = @ + 1]
  /\ UNCHANGED <<rows, chain, settled, tickVars, sweep, histVars, bounds>>

(* The paper rail: the simulated book moves first, then the reservation.   *)
AdmitPaper(o) ==
  /\ MaySubmit(o) /\ PolicyOk(o) /\ rail = "paper"
  /\ proposed' = proposed \cup {o}
  /\ paperBook' = paperBook \cup {o}
  /\ pc' = "paper" /\ cur' = o /\ reserved' = TRUE
  /\ inFlight' = [inFlight EXCEPT ![o] = @ + 1]
  /\ UNCHANGED <<rows, chain, settled, tickVars, sweep, histVars, bounds>>

(* recordTrade of a fill whose row was written: re-read, then release.     *)
RecordTrade(led) ==
  /\ rows' = led
  /\ settled' = RailCharge(led, rail)
  /\ inFlight' = Released
  /\ Unlock
  /\ UNCHANGED <<paperBook, chain, tickVars, proposed, sweep, histVars, bounds>>

(* Mutant: a failed write refunds the spend.                               *)
RecordFailsRefunds ==
  /\ "ledger" \in Faults
  /\ inFlight' = Released
  /\ unrecorded' = unrecorded \cup {cur}
  /\ Unlock
  /\ UNCHANGED <<ledgerVars, settled, chain, tickVars, proposed, sweep, refused, bounds>>

(* recordTrade of a fill whose row could not be written: the reservation   *)
(* becomes a settled charge.                                               *)
RecordFails ==
  /\ "ledger" \in Faults
  /\ settled' = [settled EXCEPT ![cur] = @ + (IF reserved THEN 1 ELSE 0)]
  /\ inFlight' = Released
  /\ unrecorded' = unrecorded \cup {cur}
  /\ Unlock
  /\ UNCHANGED <<ledgerVars, chain, tickVars, proposed, sweep, refused, bounds>>

PaperRecord == pc = "paper" /\ RecordTrade(InsertTrade(rows, cur, "paper"))
PaperRecordFails == pc = "paper" /\ RecordFails

(* The basis could not be booked: the paper arm's finally drops the        *)
(* reservation, the book keeps the fill and no row says so.                *)
PaperThrows ==
  /\ pc = "paper" /\ "ledger" \in Faults
  /\ inFlight' = Released
  /\ Unlock
  /\ UNCHANGED <<ledgerVars, settled, chain, tickVars, proposed, sweep, histVars, bounds>>

(* A quote, fence, gas or sponsor refusal, or any throw before the hook:   *)
(* nothing was signed, the reservation is dropped.                         *)
BuildRefused == pc = "build" /\ RecordTrade(rows)

(* Mutant: the hook's answer is ignored, as when it ran after the send.    *)
OnSubmittedUnchecked ==
  /\ pc = "build"
  /\ rows' \in {rows, InsertTrade(rows, cur, "submitted")}
  /\ pc' = "send"
  /\ UNCHANGED <<paperBook, chain, budgetVars, tickVars, cur, reserved, proposed, sweep, histVars, bounds>>

(* hooks.onSubmitted: the durable row goes in before the send ...          *)
OnSubmitted ==
  /\ pc = "build"
  /\ rows' = InsertTrade(rows, cur, "submitted")
  /\ pc' = "send"
  /\ UNCHANGED <<paperBook, chain, budgetVars, tickVars, cur, reserved, proposed, sweep, histVars, bounds>>

(* ... and when it cannot be written the operation is not sent.            *)
NotRecorded == pc = "build" /\ "ledger" \in Faults /\ RecordTrade(rows)

SendUserOperation ==
  /\ pc = "send"
  /\ chain' = [chain EXCEPT ![cur] = "pending"]
  /\ pc' = "wait"
  /\ UNCHANGED <<ledgerVars, budgetVars, tickVars, cur, reserved, proposed, sweep, histVars, bounds>>

(* Mutant: the reservation is released without re-reading the ledger.      *)
LeaveSubmittedUncounted == inFlight' = Released /\ UNCHANGED settled /\ Unlock

(* Every way out that leaves the submitted row standing: re-read the       *)
(* ledger, which counts it, then release.                                  *)
LeaveSubmitted ==
  /\ settled' = RailCharge(rows, rail)
  /\ inFlight' = Released
  /\ Unlock

(* The send threw: the bundler may or may not have taken the operation.    *)
SendUnresolved ==
  /\ pc = "send"
  /\ \E fate \in {"none", "pending"} : chain' = [chain EXCEPT ![cur] = fate]
  /\ LeaveSubmitted
  /\ UNCHANGED <<ledgerVars, tickVars, proposed, sweep, histVars, bounds>>

ReceiptSuccess ==
  /\ pc = "wait" /\ chain[cur] = "success"
  /\ pc' = "record"
  /\ UNCHANGED <<ledgerVars, chain, budgetVars, tickVars, cur, reserved, proposed, sweep, histVars, bounds>>

(* The receipt says reverted.  The catch block's `if (submittedRow)` takes *)
(* every error that arrives after the hook, this typed one included, so    *)
(* the code that would classify and suppress it is never reached.          *)
ReceiptReverted ==
  /\ pc = "wait" /\ chain[cur] = "reverted"
  /\ refused' = refused \cup {PairOf[cur]}
  /\ LeaveSubmitted
  /\ UNCHANGED <<ledgerVars, chain, tickVars, proposed, sweep, unrecorded, bounds>>

(* Mutant: an unread receipt is booked as a revert.                        *)
UnresolvedAsReverted ==
  /\ pc \in {"wait", "record"}
  /\ rows' = AddTrade(rows, cur, "reverted")
  /\ LeaveSubmitted
  /\ UNCHANGED <<paperBook, chain, tickVars, proposed, sweep, histVars, bounds>>

(* No receipt after RECEIPT_ATTEMPTS reads (wait), or something between    *)
(* the receipt and the row threw (record).                                 *)
Unresolved ==
  /\ pc \in {"wait", "record"}
  /\ LeaveSubmitted
  /\ UNCHANGED <<ledgerVars, chain, tickVars, proposed, sweep, histVars, bounds>>

RecordLanded == pc = "record" /\ RecordTrade(AddTrade(rows, cur, "landed"))
RecordLandedFails == pc = "record" /\ RecordFails

IntentStep ==
  \/ \E o \in Ops : Reject(o) \/ AdmitLive(o) \/ AdmitPaper(o)
  \/ PaperRecord \/ PaperRecordFails \/ PaperThrows
  \/ BuildRefused \/ OnSubmitted \/ NotRecorded
  \/ SendUserOperation \/ SendUnresolved
  \/ ReceiptSuccess \/ ReceiptReverted \/ Unresolved
  \/ RecordLanded \/ RecordLandedFails

-----------------------------------------------------------------------------
(* The two sweeps that settle operations from the chain.                   *)

(* Mutants: an operation without an event is written off as reverted; only *)
(* successful operations are looked for.                                   *)
ResolvableGuessed ==
  {p \in Ops \X Outcomes :
     /\ rows[p[1]]["submitted"] > 0
     /\ (chain[p[1]] = "success") = (p[2] = "landed")}

ResolvableLandedOnly ==
  {p \in Ops \X {"landed"} : rows[p[1]]["submitted"] > 0 /\ chain[p[1]] = "success"}

(* resolveSubmittedOps: a submitted row whose operation the chain has an   *)
(* event for.  An operation it has none for is left alone.                 *)
Resolvable ==
  {p \in Ops \X Outcomes :
     /\ rows[p[1]]["submitted"] > 0
     /\ chain[p[1]] = IF p[2] = "landed" THEN "success" ELSE "reverted"}

(* Mutant: an operation found on the chain is booked as still in flight.   *)
OrphansInFlight ==
  {p \in Ops \X {"submitted"} :
     /\ chain[p[1]] = "success"
     /\ rows[p[1]]["landed"] = 0 /\ rows[p[1]]["reverted"] = 0}

(* findOrphanOps: a successful operation whose hash is in no settled row.  *)
Orphans ==
  {p \in Ops \X {"landed"} :
     /\ chain[p[1]] = "success"
     /\ rows[p[1]]["landed"] = 0 /\ rows[p[1]]["reverted"] = 0}

SweepWrite(k) ==
  \E p \in sweep[k] :
    /\ rows' = AddTrade(rows, p[1], p[2])
    /\ sweep' = [sweep EXCEPT ![k] = @ \ {p}]
    /\ UNCHANGED <<paperBook, chain, budgetVars, tickVars, intentVars, histVars, bounds>>

(* addTrade's answer is not looked at: the row stays as it was.            *)
SweepWriteFails(k) ==
  /\ "ledger" \in Faults
  /\ \E p \in sweep[k] : sweep' = [sweep EXCEPT ![k] = @ \ {p}]
  /\ UNCHANGED <<ledgerVars, chain, budgetVars, tickVars, intentVars, histVars, bounds>>

(* The scan may cover only part of the window, so any part of what there   *)
(* is to find may be found.                                                *)
ArmResolve ==
  /\ tick = "resolve"
  /\ \E found \in SUBSET Resolvable : sweep' = [sweep EXCEPT !["arm"] = found]
  /\ tick' = "write"
  /\ UNCHANGED <<ledgerVars, chain, budgetVars, active, ready, rail, intentVars, histVars, bounds>>

ArmOrphans ==
  /\ tick = "write" /\ sweep["arm"] = {}
  /\ \E found \in SUBSET Orphans : sweep' = [sweep EXCEPT !["arm"] = found]
  /\ tick' = "orphans"
  /\ UNCHANGED <<ledgerVars, chain, budgetVars, active, ready, rail, intentVars, histVars, bounds>>

(* Reconciliation never blocks arming: a chain read that throws skips it.  *)
ArmSkip ==
  /\ tick \in {"resolve", "write"} /\ sweep["arm"] = {}
  /\ tick' = "seed"
  /\ UNCHANGED <<ledgerVars, chain, budgetVars, active, ready, rail, intentVars, sweep, histVars, bounds>>

(* runStrandedResolve: detached from the tick that starts it.              *)
StrandedResolve(found) ==
  /\ tick = "trade" /\ active /\ (cur = NoOp \/ cur \in ChatOps)
  /\ sweep["tick"] = {} /\ found # {}
  /\ sweep' = [sweep EXCEPT !["tick"] = found]
  /\ UNCHANGED <<ledgerVars, chain, budgetVars, tickVars, intentVars, histVars, bounds>>

SweepStep ==
  \/ ArmResolve \/ ArmOrphans \/ ArmSkip
  \/ \E found \in SUBSET Resolvable : StrandedResolve(found)
  \/ \E k \in Sweeps : SweepWrite(k) \/ SweepWriteFails(k)

-----------------------------------------------------------------------------
(* tick(): refreshConfig, syncGrant, refreshBudget, the book, the intents. *)

MayRearm == rearms < MaxRearms /\ (pc = "free" \/ "late-rearm" \in Faults)

(* refreshConfig; new connection settings disarm.                          *)
TickStart ==
  /\ tick = "sleep" /\ tick' = "sync"
  /\ \/ UNCHANGED <<active, rearms>>
     \/ active /\ MayRearm /\ active' = FALSE /\ rearms' = rearms + 1
  /\ UNCHANGED <<ledgerVars, chain, budgetVars, ready, rail, intentVars, sweep, histVars, crashes>>

(* The kill switch, or an expired key: disarmed until a grant is signed.   *)
GrantGone ==
  /\ tick = "sync" /\ MayRearm /\ rearms' = rearms + 1
  /\ active' = FALSE /\ tick' = "sleep"
  /\ UNCHANGED <<ledgerVars, chain, budgetVars, ready, rail, intentVars, sweep, histVars, crashes>>

(* syncGrant's short circuit.                                              *)
GrantUnchanged ==
  /\ tick = "sync" /\ active /\ tick' = "budget"
  /\ UNCHANGED <<ledgerVars, chain, budgetVars, active, ready, rail, intentVars, sweep, histVars, bounds>>

(* syncGrant arming: a first grant, a re-signed one, or new connections.   *)
(* "Nothing is in flight at arm time": the reservations are cleared.       *)
Arm ==
  /\ tick = "sync"
  /\ \/ ~active /\ UNCHANGED rearms
     \/ active /\ MayRearm /\ rearms' = rearms + 1
  /\ active' = TRUE
  /\ inFlight' = NoCharge
  /\ refused' = {} /\ unrecorded' = {}
  /\ tick' = "resolve"
  /\ UNCHANGED <<ledgerVars, chain, settled, ready, rail, intentVars, sweep, crashes>>

(* syncGrant's seed, after the sweeps.                                     *)
Seed ==
  /\ tick = "seed" \/ (tick = "orphans" /\ sweep["arm"] = {})
  /\ settled' = RailCharge(rows, rail)
  /\ tick' = "budget"
  /\ UNCHANGED <<ledgerVars, chain, inFlight, active, ready, rail, intentVars, sweep, histVars, bounds>>

(* refreshBudget, once per tick.                                           *)
RefreshBudget ==
  /\ tick = "budget"
  /\ settled' = RailCharge(rows, rail)
  /\ tick' = "book"
  /\ UNCHANGED <<ledgerVars, chain, inFlight, active, ready, rail, intentVars, sweep, histVars, bounds>>

(* Balances and prices are read; the rail follows the balances.            *)
ReadBook ==
  /\ tick = "book" /\ tick' = "trade" /\ ready' = TRUE
  /\ rail' \in IF "rail-flip" \in Faults THEN Rails ELSE {rail}
  /\ UNCHANGED <<ledgerVars, chain, budgetVars, active, intentVars, sweep, histVars, bounds>>

(* The market or the book could not be read: nothing is traded this tick.  *)
HoldTick ==
  /\ tick \in {"budget", "book"} /\ tick' = "sleep"
  /\ UNCHANGED <<ledgerVars, chain, budgetVars, active, ready, rail, intentVars, sweep, histVars, bounds>>

(* The strategy's intents are awaited; a chat intent is not.               *)
TickEnd ==
  /\ tick = "trade" /\ (cur = NoOp \/ cur \in ChatOps)
  /\ tick' = "sleep"
  /\ UNCHANGED <<ledgerVars, chain, budgetVars, active, ready, rail, intentVars, sweep, histVars, bounds>>

TickStep == TickStart \/ GrantGone \/ GrantUnchanged \/ Arm \/ Seed \/ RefreshBudget
              \/ ReadBook \/ HoldTick \/ TickEnd

-----------------------------------------------------------------------------
(* The environment.                                                        *)

(* EntryPoint executes a pending operation, or it is never included.       *)
ChainStep ==
  \E o \in Ops, fate \in {"success", "reverted", "dropped"} :
    /\ chain[o] = "pending"
    /\ chain' = [chain EXCEPT ![o] = fate]
    /\ UNCHANGED <<ledgerVars, budgetVars, tickVars, intentVars, sweep, histVars, bounds>>

(* The process dies and its memory with it.  Balances not read yet count   *)
(* as funded, so the rail starts live again; on a hosted child a redeploy  *)
(* discards the ledger too.                                                *)
Crash ==
  /\ crashes < MaxCrashes /\ crashes' = crashes + 1
  /\ \/ UNCHANGED ledgerVars
     \/ "redeploy" \in Faults /\ rows' = NoRows /\ paperBook' = {}
  /\ settled' = NoCharge /\ inFlight' = NoCharge
  /\ active' = FALSE /\ ready' = FALSE /\ tick' = "sleep"
  /\ rail' = IF "rail-flip" \in Faults THEN "live" ELSE rail
  /\ Unlock
  /\ sweep' = [k \in Sweeps |-> {}]
  /\ refused' = {} /\ unrecorded' = {}
  /\ UNCHANGED <<chain, proposed, rearms>>

Init ==
  /\ rows = NoRows /\ paperBook = {}
  /\ chain = [o \in Ops |-> "none"]
  /\ settled = NoCharge /\ inFlight = NoCharge
  /\ rail = IF "paper" \in Faults THEN "paper" ELSE "live"
  /\ active = FALSE /\ ready = FALSE /\ tick = "sleep"
  /\ pc = "free" /\ cur = NoOp /\ reserved = FALSE /\ proposed = {}
  /\ sweep = [k \in Sweeps |-> {}]
  /\ refused = {} /\ unrecorded = {}
  /\ crashes = 0 /\ rearms = 0

Next == IntentStep \/ SweepStep \/ TickStep \/ ChainStep \/ Crash

Spec == Init /\ [][Next]_vars

-----------------------------------------------------------------------------
(* Properties.                                                             *)

TypeOK ==
  /\ rows \in [Ops -> [Statuses -> Nat]] /\ paperBook \subseteq Ops
  /\ chain \in [Ops -> ChainStates]
  /\ settled \in [Ops -> Int] /\ inFlight \in [Ops -> Int]
  /\ rail \in Rails /\ active \in BOOLEAN /\ ready \in BOOLEAN
  /\ tick \in {"sleep", "sync", "resolve", "write", "orphans", "seed", "budget", "book", "trade"}
  /\ pc \in {"free", "paper", "build", "send", "wait", "record"}
  /\ cur \in Ops \cup {NoOp} /\ reserved \in BOOLEAN /\ proposed \subseteq Ops
  /\ sweep \in [Sweeps -> SUBSET (Ops \X Outcomes)]
  /\ refused \subseteq {PairOf[o] : o \in Ops} /\ unrecorded \subseteq Ops
  /\ crashes \in Nat /\ rearms \in Nat

(* What the chain really took from the account.                            *)
ChainSpend == [o \in Ops |-> IF chain[o] = "success" THEN 1 ELSE 0]

(* "budgets may under-spend, never over-spend" (store.ts): whatever dies,  *)
(* is lost or lands late, what the chain executed stays within the caps.   *)
NeverOverSpend == Spent(ChainSpend) <= DailyCap /\ Count(ChainSpend) <= MaxOpsPerDay

(* executor.ts: no operation may be out without a ledger row that a sweep  *)
(* can find it by.                                                         *)
NoBlindBroadcast ==
  \A o \in Ops : chain[o] # "none" => \E s \in {"submitted", "landed", "reverted"} : rows[o][s] > 0

(* index.ts: the ledger never asserts a chain outcome nobody observed.     *)
LedgerTruthful ==
  \A o \in Ops :
    /\ rows[o]["landed"] > 0 => chain[o] = "success"
    /\ rows[o]["reverted"] > 0 => chain[o] = "reverted"

(* Outside an intent the reservation halves are empty: an operation leaked *)
(* into them is charged for the life of the arm, one taken out twice       *)
(* loosens the cap.                                                        *)
ReservationBalanced ==
  inFlight = [o \in Ops |-> IF reserved /\ o = cur THEN 1 ELSE 0]

(* addTrade: inserting "would leave two rows for one operation".           *)
OneRowPerOp ==
  \A o \in Ops : rows[o]["submitted"] + rows[o]["landed"] + rows[o]["reverted"] <= 1

(* recordTrade, fail-closed: a fill whose row could not be written "stays  *)
(* counted for the rest of this arm".                                      *)
SpendStaysCounted == \A o \in unrecorded : settled[o] + inFlight[o] >= 1

(* A pair the chain refused is "not retried again until the next arm".     *)
NoRetryAfterRefusal ==
  [][\A o \in Ops : chain[o] = "none" /\ chain'[o] = "pending" => PairOf[o] \notin refused]_vars

(* An intent is judged only against counters that hold every operation the *)
(* chain may have executed: once chat is open (ready) or the tick's own    *)
(* book read is next, nothing that is out is missing from both halves.     *)
CountedBeforeTrading ==
  ready \/ tick = "book" =>
    \A o \in Ops : chain[o] \in {"pending", "success"} => settled[o] + inFlight[o] >= 1

(* exec-mode.ts: a simulated fill is never also a real operation, and      *)
(* never charges the live rail.                                            *)
RailsApart ==
  \A o \in paperBook : chain[o] = "none" /\ RailCharge(rows, "live")[o] = 0

(* The ledger's view of an operation, whatever number of rows says so.     *)
Claimed(row) ==
  CASE row["landed"] > 0 -> "landed"
    [] row["reverted"] > 0 -> "reverted"
    [] row["submitted"] > 0 -> "claimed"
    [] OTHER -> "none"
ClaimOf == [o \in Ops |-> Claimed(rows[o])]

Lifecycle == INSTANCE OpLifecycle WITH claim <- ClaimOf

(* The pipeline implements OpLifecycle: claimed before broadcast, sent at  *)
(* most once, settled truthfully and for good.                             *)
ImplementsLifecycle == Lifecycle!Spec

-----------------------------------------------------------------------------
(* Fairness.  runLoop reschedules the tick in a finally; the chain calls   *)
(* of an intent have timeouts, so the lock holder always moves; the        *)
(* detached sweep is tried again on a later tick whenever a read or a      *)
(* write failed, and a market that cannot be read now can be read later.   *)
IntentMoves ==
  \/ PaperRecord \/ OnSubmitted \/ SendUserOperation \/ SendUnresolved
  \/ ReceiptSuccess \/ ReceiptReverted \/ Unresolved \/ RecordLanded

Fairness ==
  /\ WF_vars(TickStep) /\ SF_vars(RefreshBudget) /\ SF_vars(ReadBook)
  /\ WF_vars(ArmResolve \/ ArmOrphans)
  /\ WF_vars(IntentMoves)
  /\ SF_vars(StrandedResolve(Resolvable))
  /\ \A k \in Sweeps : SF_vars(SweepWrite(k))

FairSpec == Spec /\ Fairness

(* A row left 'submitted' whose operation the chain has decided does not   *)
(* charge the budget for ever: some sweep settles it.                      *)
SubmittedSettles ==
  \A o \in Ops :
    (rows[o]["submitted"] > 0 /\ chain[o] \in {"success", "reverted"})
      ~> rows[o]["submitted"] = 0

=============================================================================
