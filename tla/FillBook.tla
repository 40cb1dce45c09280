------------------------------ MODULE FillBook ------------------------------
(***************************************************************************)
(* One position of one agent in its books (index.ts bookFill, recordTrade, *)
(* resolveStrandedOps, the basis check of the tick and the epoch boundary  *)
(* of the arm; basis.ts; store.ts addTrade).  An operation that lands is   *)
(* written in three places: its cost into the basis, its row and its entry *)
(* in the journal.  Between them lie awaits, and around them the sweep for *)
(* lost operations, the tick that closes what the account no longer holds, *)
(* the boundary that moves the agent to the next epoch, and restarts.      *)
(*                                                                         *)
(* Abstraction: the statements of one store call are one step; what is     *)
(* awaited between store calls is not.                                     *)
(***************************************************************************)
EXTENDS Integers, Sequences, FiniteSets

CONSTANTS
  Orders,         \* [side, qty, cash] of the fills an intent may bring
  MaxOps,         \* bound on the operations
  Closing,        \* lastKnownEquityUsdg when the first epoch is closed
  FillFaults, MaxFillFaults

(* chat: an operation of the owner's chat, which no tick waits for;        *)
(* unresolved: a receipt that times out; unread: the history of epoch one  *)
(* cannot be read when the worker arms; rearm: it arms again in place;     *)
(* carry: the opening flow of the epoch fails; write: the row cannot be    *)
(* written; basis: the basis cannot be read or written; unreadable: the    *)
(* token's balance cannot be read; unwatch: the owner takes the symbol off *)
(* the list; stop: the worker ends between operations, kill: while it      *)
(* waits for one, tear: between two writes of one fill or one boundary.    *)
AllFillFaults ==
  {"chat", "unresolved", "unread", "rearm", "carry", "write", "basis", "unreadable", "unwatch",
   "stop", "kill", "tear"}

ASSUME FillAssumption ==
  /\ Orders \subseteq [side: {"buy", "sell"}, qty: Nat \ {0}, cash: Nat \ {0}]
  /\ MaxOps \in Nat /\ Closing \in Nat \ {0}
  /\ FillFaults \subseteq AllFillFaults /\ MaxFillFaults \in Nat

Sweepers == {"arm", "detached"}

VARIABLES
  legacy,         \* epoch one has rows from before ACCOUNTING_FIXED_AT
  epoch,          \* agents.epoch
  carried,        \* epoch-carry flows by epoch
  ops,            \* operations sent: their order, and what the chain did
  truth,          \* what the account holds of the symbol, and what it cost
  basis,          \* cost_basis
  rows, journal,  \* trades and journal entries, in the order written
  waiting, chat,  \* the operation processIntent waits for (0: none), and for whom
  booked,         \* bookFill is done, recordTrade is not
  tick, holds,    \* where the tick is, and whether it saw the symbol held
  watched,        \* watchTokens
  phase,          \* of the worker's arm
  sweeps, todo,   \* sweeps under way, and the rows each of them took up
  failed          \* the faults so far

ledgerVars == <<legacy, epoch, carried, rows, journal>>
intentVars == <<waiting, chat, booked>>
sightVars  == <<tick, holds, watched>>
sweepVars  == <<sweeps, todo>>
fillVars ==
  <<ledgerVars, ops, truth, basis, intentVars, sightVars, phase, sweepVars, failed>>

Fault(f) ==
  /\ f \in FillFaults /\ Len(failed) < MaxFillFaults
  /\ failed' = Append(failed, f)
NoneOf(F) == \A i \in 1 .. Len(failed) : failed[i] \notin F

-----------------------------------------------------------------------------
(* basis.ts.                                                               *)

Flat == [qty |-> 0, cost |-> 0]

(* Selling the whole position takes the whole remaining cost.              *)
CostOut(prev, sold) ==
  IF sold = prev.qty THEN prev.cost ELSE (prev.cost * sold) \div prev.qty

Capped(prev, qty) == IF qty < prev.qty THEN qty ELSE prev.qty

(* applyFill: the basis after a fill.  A sale of nothing tracked leaves it *)
(* flat.                                                                   *)
ApplyFill(prev, f) ==
  IF f.side = "buy" THEN [qty |-> prev.qty + f.qty, cost |-> prev.cost + f.cash]
  ELSE LET sold == Capped(prev, f.qty) IN
       [qty |-> prev.qty - sold, cost |-> prev.cost - CostOut(prev, sold)]

-----------------------------------------------------------------------------
(* store.ts.                                                               *)

Op == 1 .. Len(ops)
Submitted(n) == {i \in 1 .. Len(rows) : rows[i].op = n /\ rows[i].status = "submitted"}

(* Only money-moving rows enter the hash chain, in the current epoch.      *)
Journalled(n, status) ==
  IF status = "landed" THEN Append(journal, [op |-> n, epoch |-> epoch]) ELSE journal

(* addTrade: the submitted row of the operation is settled in place and    *)
(* keeps its epoch; without one a row is inserted.                         *)
AddTrade(n, status) ==
  /\ rows' = IF Submitted(n) # {}
               THEN [i \in 1 .. Len(rows) |->
                      IF i \in Submitted(n) THEN [rows[i] EXCEPT !.status = status] ELSE rows[i]]
               ELSE Append(rows, [op |-> n, status |-> status, epoch |-> epoch])
  /\ journal' = Journalled(n, status)
  /\ UNCHANGED <<legacy, epoch, carried>>

-----------------------------------------------------------------------------
(* The tick and its intents.                                               *)

TickWaits == waiting # 0 /\ ~chat

(* readPositions: what cannot be read is not in the result.                *)
ReadHoldings ==
  /\ phase = "up" /\ tick = "idle" /\ ~TickWaits
  /\ \/ holds' = (watched /\ truth.qty > 0) /\ UNCHANGED failed
     \/ watched /\ truth.qty > 0 /\ Fault("unreadable") /\ holds' = FALSE
  /\ tick' = "closing"
  /\ UNCHANGED <<ledgerVars, ops, truth, basis, intentVars, watched, phase, sweepVars>>

(* Mutant: the basis of every symbol is closed.                            *)
StaleBasisAlways == TRUE
(* "A symbol we no longer hold has no basis, full stop."                   *)
StaleBasis == ~holds

CloseBasis ==
  /\ tick = "closing"
  /\ basis' = IF StaleBasis THEN Flat ELSE basis
  /\ tick' = "intents"
  /\ UNCHANGED <<ledgerVars, ops, truth, intentVars, holds, watched, phase, sweepVars, failed>>

TickDone ==
  /\ tick = "intents" /\ ~TickWaits
  /\ tick' = "idle" /\ holds' = FALSE
  /\ UNCHANGED <<ledgerVars, ops, truth, basis, intentVars, watched, phase, sweepVars, failed>>

(* refreshConfig.                                                          *)
SetWatch ==
  /\ phase = "up" /\ tick = "idle"
  /\ \/ watched /\ Fault("unwatch")
     \/ ~watched /\ UNCHANGED failed
  /\ watched' = ~watched
  /\ UNCHANGED <<ledgerVars, ops, truth, basis, intentVars, tick, holds, phase, sweepVars>>

Possible(o) == o.side = "sell" => o.qty <= truth.qty

(* onSubmitted: the row, and then the operation.                           *)
Send ==
  /\ phase = "up" /\ waiting = 0 /\ watched /\ Len(ops) < MaxOps
  /\ \/ tick = "intents" /\ chat' = FALSE /\ UNCHANGED failed
     \/ chat' = TRUE /\ Fault("chat")
  /\ \E o \in Orders : Possible(o) /\ ops' = Append(ops, [order |-> o, fate |-> "sent"])
  /\ waiting' = Len(ops) + 1
  /\ rows' = Append(rows, [op |-> Len(ops) + 1, status |-> "submitted", epoch |-> epoch])
  /\ UNCHANGED <<legacy, epoch, carried, journal, truth, basis, booked, sightVars, phase, sweepVars>>

Land ==
  \E n \in Op :
    /\ ops[n].fate = "sent" /\ Possible(ops[n].order)
    /\ ops' = [ops EXCEPT ![n].fate = "landed"]
    /\ truth' = ApplyFill(truth, ops[n].order)
    /\ UNCHANGED <<ledgerVars, basis, intentVars, sightVars, phase, sweepVars, failed>>

Revert ==
  \E n \in Op :
    /\ ops[n].fate = "sent"
    /\ ops' = [ops EXCEPT ![n].fate = "reverted"]
    /\ UNCHANGED <<ledgerVars, truth, basis, intentVars, sightVars, phase, sweepVars, failed>>

(* bookFill.  setBasis swallows its failure, and getBasis takes a basis it *)
(* cannot read for none.                                                   *)
BookFill ==
  /\ waiting # 0 /\ ~booked /\ ops[waiting].fate = "landed"
  /\ \/ basis' = ApplyFill(basis, ops[waiting].order) /\ UNCHANGED failed
     \/ Fault("basis") /\ basis' \in {basis, ApplyFill(Flat, ops[waiting].order)}
  /\ booked' = TRUE
  /\ UNCHANGED <<ledgerVars, ops, truth, waiting, chat, sightVars, phase, sweepVars>>

(* recordTrade, of an operation booked.                                    *)
RecordTrade ==
  /\ waiting # 0 /\ booked
  /\ \/ AddTrade(waiting, "landed") /\ UNCHANGED failed
     \/ Fault("write") /\ UNCHANGED ledgerVars
  /\ waiting' = 0 /\ booked' = FALSE
  /\ UNCHANGED <<ops, truth, basis, chat, sightVars, phase, sweepVars>>

(* A revert, typed as it is, is left with its submitted row to the sweep.  *)
ReceiptReverted ==
  /\ waiting # 0 /\ ops[waiting].fate = "reverted"
  /\ waiting' = 0
  /\ UNCHANGED <<ledgerVars, ops, truth, basis, chat, booked, sightVars, phase, sweepVars, failed>>

(* UserOpUnresolved: the submitted row stands.                             *)
Unresolved ==
  /\ waiting # 0 /\ ~booked /\ Fault("unresolved")
  /\ waiting' = 0
  /\ UNCHANGED <<ledgerVars, ops, truth, basis, chat, booked, sightVars, phase, sweepVars>>

-----------------------------------------------------------------------------
(* resolveStrandedOps: of the arm, and detached from the tick.             *)

(* Mutant: the rows of an earlier epoch are taken up as well.              *)
StrandedOfAnyEpoch == {n \in Op : Submitted(n) # {}}
Stranded == {n \in Op : \E i \in Submitted(n) : rows[i].epoch = epoch}

SweepStart ==
  \E s \in Sweepers \ sweeps :
    /\ phase = IF s = "arm" THEN "sweeping" ELSE "up"
    /\ sweeps' = sweeps \cup {s}
    /\ todo' = [todo EXCEPT ![s] = Stranded]
    /\ UNCHANGED <<ledgerVars, ops, truth, basis, intentVars, sightVars, phase, failed>>

(* What the chain has an event for is settled, with no fill columns and no *)
(* basis; the operation may have been settled by its own intent since.     *)
SweepWrite ==
  \E s \in sweeps : \E n \in todo[s] :
    /\ ops[n].fate # "sent"
    /\ AddTrade(n, ops[n].fate)
    /\ todo' = [todo EXCEPT ![s] = @ \ {n}]
    /\ UNCHANGED <<ops, truth, basis, intentVars, sightVars, phase, sweeps, failed>>

(* The rest stays submitted: "left counted, not guessed at".               *)
SweepEnd ==
  \E s \in sweeps :
    /\ sweeps' = sweeps \ {s} /\ todo' = [todo EXCEPT ![s] = {}]
    /\ phase' = IF s = "arm" THEN "boundary" ELSE phase
    /\ UNCHANGED <<ledgerVars, ops, truth, basis, intentVars, sightVars, failed>>

-----------------------------------------------------------------------------
(* The epoch boundary, arms and restarts.                                  *)

NoBoundary ==
  /\ phase = "boundary"
  /\ \/ (epoch > 1 \/ ~legacy) /\ UNCHANGED failed
     \/ epoch = 1 /\ legacy /\ Fault("unread")
  /\ phase' = "up"
  /\ UNCHANGED <<ledgerVars, ops, truth, basis, intentVars, sightVars, sweepVars>>

(* openNextEpoch: the epoch, and in another statement the flow.            *)
OpenEpoch ==
  /\ phase = "boundary" /\ epoch = 1 /\ legacy
  /\ epoch' = epoch + 1 /\ phase' = "carry"
  /\ UNCHANGED <<legacy, carried, rows, journal, ops, truth, basis, intentVars, sightVars,
                 sweepVars, failed>>

(* Mutant: the flow is stamped with the epoch being closed.                *)
CarryEpochClosed == epoch - 1
(* addFlow stamps the current epoch.                                       *)
CarryEpoch == epoch

CarryCapital ==
  /\ phase = "carry"
  /\ \/ carried' = [carried EXCEPT ![CarryEpoch] = @ + Closing] /\ UNCHANGED failed
     \/ Fault("carry") /\ UNCHANGED carried
  /\ phase' = "up"
  /\ UNCHANGED <<legacy, epoch, rows, journal, ops, truth, basis, intentVars, sightVars, sweepVars>>

Rearm ==
  /\ phase = "up" /\ tick = "idle" /\ Fault("rearm")
  /\ phase' = "sweeping"
  /\ UNCHANGED <<ledgerVars, ops, truth, basis, intentVars, sightVars, sweepVars>>

Boot ==
  /\ phase = "down"
  /\ phase' = "sweeping"
  /\ UNCHANGED <<ledgerVars, ops, truth, basis, intentVars, sightVars, sweepVars, failed>>

Die ==
  /\ phase # "down"
  /\ Fault(IF booked \/ phase = "carry" THEN "tear" ELSE IF waiting # 0 THEN "kill" ELSE "stop")
  /\ phase' = "down" /\ tick' = "idle" /\ holds' = FALSE
  /\ waiting' = 0 /\ chat' = FALSE /\ booked' = FALSE
  /\ sweeps' = {} /\ todo' = [s \in Sweepers |-> {}]
  /\ UNCHANGED <<ledgerVars, ops, truth, basis, watched>>

FillInit ==
  /\ legacy \in BOOLEAN /\ epoch = 1 /\ carried = [e \in 1 .. 2 |-> 0]
  /\ ops = <<>> /\ truth = Flat /\ basis = Flat /\ rows = <<>> /\ journal = <<>>
  /\ waiting = 0 /\ chat = FALSE /\ booked = FALSE
  /\ tick = "idle" /\ holds = FALSE /\ watched = TRUE
  /\ phase = "down" /\ sweeps = {} /\ todo = [s \in Sweepers |-> {}]
  /\ failed = <<>>

FillNext ==
  \/ ReadHoldings \/ CloseBasis \/ TickDone \/ SetWatch
  \/ Send \/ Land \/ Revert \/ BookFill \/ RecordTrade \/ ReceiptReverted \/ Unresolved
  \/ SweepStart \/ SweepWrite \/ SweepEnd
  \/ NoBoundary \/ OpenEpoch \/ CarryCapital \/ Rearm \/ Boot \/ Die

FillSpec == FillInit /\ [][FillNext]_fillVars

-----------------------------------------------------------------------------
(* Properties.                                                             *)

FillTypeOK ==
  /\ legacy \in BOOLEAN /\ epoch \in 1 .. 2 /\ carried \in [1 .. 2 -> Nat]
  /\ ops \in Seq([order: Orders, fate: {"sent", "landed", "reverted"}])
  /\ {truth, basis} \subseteq [qty: Nat, cost: Nat]
  /\ rows \in Seq([op: 1 .. MaxOps, status: {"submitted", "landed", "reverted"}, epoch: 1 .. 2])
  /\ journal \in Seq([op: 1 .. MaxOps, epoch: 1 .. 2])
  /\ waiting \in 0 .. MaxOps /\ chat \in BOOLEAN /\ booked \in BOOLEAN
  /\ tick \in {"idle", "closing", "intents"} /\ holds \in BOOLEAN /\ watched \in BOOLEAN
  /\ phase \in {"down", "sweeping", "boundary", "carry", "up"}
  /\ sweeps \subseteq Sweepers /\ todo \in [Sweepers -> SUBSET (1 .. MaxOps)]
  /\ failed \in Seq(FillFaults)

(* The export's whole job: in every epoch, what moved money in the rows is *)
(* what the journal says moved it, operation by operation.  (The boundary  *)
(* is then opened before any intent, or by a worker with none on its way.) *)
RowsOf(n, e) == {i \in 1 .. Len(rows) : rows[i] = [op |-> n, status |-> "landed", epoch |-> e]}
EntriesOf(n, e) == {i \in 1 .. Len(journal) : journal[i] = [op |-> n, epoch |-> e]}
JournalAgrees ==
  (NoneOf({"unread"}) \/ NoneOf({"rearm"})) =>
    \A n \in Op : \A e \in 1 .. 2 : Cardinality(RowsOf(n, e)) = Cardinality(EntriesOf(n, e))

(* Between two intents the basis is what the account paid for what it      *)
(* holds, also after a death between the basis and the row.                *)
CostFollowsChain ==
  (/\ waiting = 0 /\ tick # "closing"
   /\ NoneOf({"chat", "unresolved", "kill", "basis", "unreadable", "unwatch"}))
  => basis = truth

(* "CAPITAL MUST CROSS THE BOUNDARY OR P&L LIES."                          *)
CapitalCrosses ==
  (epoch = 2 /\ phase # "carry" /\ NoneOf({"carry", "tear"})) => carried = [e \in 1 .. 2 |-> IF e = 2 THEN Closing ELSE 0]

(* "Closing its basis here would discard the cost of a real position": a   *)
(* tick takes no basis from what the account holds.                        *)
CostNotDiscarded == [][CloseBasis => (truth.qty > 0 => basis' = basis)]_fillVars
=============================================================================
