------------------------------ MODULE Capital ------------------------------
(***************************************************************************)
(* What counts as the owner's capital (index.ts reconcileFlows, deposit-   *)
(* log.ts, bootstrap-state.ts, fees.ts).  Every live tick reads the        *)
(* account, books what crossed its boundary since the last look, from      *)
(* Transfer logs when a scan covers the window and else from the change of *)
(* cash, moves the high-water mark with it, and takes a performance fee on *)
(* what equity is above that mark.                                         *)
(*                                                                         *)
(* The account moves between any two awaits of the tick: the owner's money *)
(* comes and goes, and the agent's own operations land.                    *)
(***************************************************************************)
EXTENDS Integers, Sequences, FiniteSets, Functions

CONSTANTS
  Amounts,        \* the size of the nth movement the chain executes: bounds the run
  MaxGain,        \* bound on performance, either way
  CapitalFaults, MaxCapitalFaults

(* rpc: a scan that is refused, a receipt that cannot be read; gap: the    *)
(* watermark is further back than DEPOSIT_LOOKBACK_BLOCKS; between: money  *)
(* moves between a tick's balances and the head of its scan, opening: the  *)
(* same in the tick that opens the scan; flow: an addFlow that fails,      *)
(* firstflow: that of the first observation; peak: a high-water mark write *)
(* that fails; unresolved: a receipt that times out; chat: an operation of *)
(* the owner's chat, which no tick waits for; redeploy: a hosted container *)
(* is replaced with its books as its last equity row has them, midway: or  *)
(* past that, anchor: and its parent cannot read the shared database;      *)
(* stop: a self-hosted worker restarts with nothing traded since its last  *)
(* equity row; kill: either dies with an operation on its way, or the self-*)
(* hosted one after a trade; torn: it dies between the flow and the peak.  *)
AllCapitalFaults ==
  {"rpc", "gap", "between", "opening", "flow", "firstflow", "peak", "unresolved", "chat",
   "redeploy", "midway", "anchor", "stop", "kill", "torn"}

ASSUME CapitalAssumption ==
  /\ Amounts \in Seq(Nat \ {0}) /\ MaxGain \in Nat
  /\ CapitalFaults \subseteq AllCapitalFaults /\ MaxCapitalFaults \in Nat

Moves    == 1 .. Len(Amounts)
External == {"deposit", "takeout"}       \* the owner's own transactions
OpKinds  == {"fill", "transfer"}         \* the agent's
Licences == {"self-hosted-local", "new-account", "resume", "none"}

VARIABLES
  hosted, scanOn,         \* OATHWALL_HOSTED, depositScanEnabled
  stale,                  \* the watermark the chain has left behind, 0 for none
  moves,                  \* the kinds of the movements executed, in order
  cash,                   \* the account's USDG
  capital,                \* what the owner has put in, less what was taken out
  gain, best,             \* what the agent has earned, equity less capital; the most so far
  stage, opKind, waiter,  \* its operation in flight, and who waits for it
  receipts, explained,    \* movements with a chain-log flow, with a trade row
  net,                    \* contributions: the signed sum of the flows
  evidenced,              \* every flow names a transaction
  hwm, charged,           \* agents.hwm_usdg, profit a fee was accrued on
  mirrored,               \* the hwm_usdg of the shared agents row
  row,                    \* cash of the last equity row
  pc,                     \* where the tick is
  read,                   \* how many movements the balances it read reflect
  readCash, readEquity,   \* and what they came to
  head, cursor,           \* the scan's head, chainScanCursor
  queue,                  \* flows found and not yet booked
  due,                    \* booked, and the peak not moved yet
  seen,                   \* lastCashUsdg
  wrote,                  \* ledgerWrites # ledgerWritesAtSnapshot
  traded,                 \* an operation was sent since the last equity row
  peak,                   \* highWaterMarkUsdg
  licence, anchor,        \* of the bootstrap anchor: licence and last cash
  known,                  \* accounting.contributionsKnown
  happened                \* the faults so far

configVars  == <<hosted, scanOn, stale>>
chainVars   == <<moves, cash, capital, gain, best>>
opVars      == <<stage, opKind, waiter>>
bookVars == <<receipts, explained, net, evidenced, hwm, charged, mirrored, row>>
readVars    == <<read, readCash, readEquity>>
tickVars    == <<pc, readVars, head, queue, due>>
memoryVars  == <<cursor, seen, wrote, traded, peak, licence, anchor, known>>
capitalVars ==
  <<configVars, chainVars, opVars, bookVars, tickVars, memoryVars, happened>>

Unread == [known |-> FALSE, cash |-> 0]       \* null
Reading(c) == [known |-> TRUE, cash |-> c]

Hit(f) ==
  /\ f \in CapitalFaults /\ Len(happened) < MaxCapitalFaults
  /\ happened' = Append(happened, f)
Times(f) == Cardinality({i \in 1 .. Len(happened) : happened[i] = f})
Never(F) == \A i \in 1 .. Len(happened) : happened[i] \notin F
Before(f, g) ==
  \E i, j \in 1 .. Len(happened) : i < j /\ happened[i] = f /\ happened[j] = g

-----------------------------------------------------------------------------
(* The account.                                                            *)

Inbound(k) == k = "deposit"
Signed(n) == IF Inbound(moves[n]) THEN Amounts[n] ELSE -Amounts[n]

Executed == Len(moves)
NextAmount == Amounts[Executed + 1]

(* The next movement, by which the cash changes, and unless it buys        *)
(* something the owner's capital.                                          *)
Moved(k) ==
  LET by == IF Inbound(k) THEN NextAmount ELSE -NextAmount IN
  /\ Executed < Len(Amounts) /\ cash + by >= 0
  /\ moves' = Append(moves, k) /\ cash' = cash + by
  /\ capital' = IF k = "fill" THEN capital ELSE capital + by

Deposit ==
  /\ Moved("deposit")
  /\ UNCHANGED <<configVars, gain, best, opVars, bookVars, tickVars, memoryVars, happened>>

Takeout ==
  /\ Moved("takeout")
  /\ UNCHANGED <<configVars, gain, best, opVars, bookVars, tickVars, memoryVars, happened>>

(* What is not cash is worth nothing at least.                             *)
Perform ==
  /\ \E g \in {gain - 1, gain + 1} \cap -MaxGain .. MaxGain :
       /\ capital + g >= cash
       /\ gain' = g /\ best' = IF g > best THEN g ELSE best
  /\ capital + gain > cash
  /\ UNCHANGED <<configVars, moves, cash, capital, opVars, bookVars, tickVars, memoryVars, happened>>

-----------------------------------------------------------------------------
(* The tick.                                                               *)

Waiting == stage # "none" /\ waiter = "tick"

TickRead ==
  /\ pc = "idle" /\ ~Waiting
  /\ read' = Executed /\ readCash' = cash /\ readEquity' = capital + gain
  /\ pc' = IF scanOn THEN "flows" ELSE "infer"
  /\ UNCHANGED <<configVars, chainVars, opVars, bookVars, head, queue, due, memoryVars, happened>>

(* The nth movement is in block 2n; a head of 2n + 1 is a later block with *)
(* nothing of this account in it.                                          *)
Block(m) == 2 * m
Heads == {h \in {2 * Executed, 2 * Executed + 1} : h >= cursor}

(* The last and the first of a set of movements.                           *)
Last(S, m) == m \in S /\ \A k \in S : k <= m
First(S, m) == m \in S /\ \A k \in S : m <= k

(* "Never scanned. Open at the head": this tick is left to inference.  So  *)
(* is the first tick of every later life while the watermark stays stale.  *)
OpenAtHead ==
  /\ pc = "flows" /\ cursor = 0 /\ (receipts = {} \/ Last(receipts, stale))
  /\ \/ Executed = read /\ cursor' = 2 * Executed + 1 /\ UNCHANGED happened
     \/ Hit("opening") /\ cursor' \in Heads
  /\ pc' = "infer"
  /\ UNCHANGED <<configVars, chainVars, opVars, bookVars, readVars, head, queue, due,
                 seen, wrote, traded, peak, licence, anchor, known>>

(* The watermark is in the rows it describes.                              *)
ResumeScan ==
  /\ pc = "flows" /\ cursor = 0
  /\ \E m \in receipts \ {stale} :
       /\ Last(receipts, m)
       /\ \/ cursor' = Block(m) /\ UNCHANGED <<stale, pc, happened>>
          \/ /\ Hit("gap") /\ Executed = read /\ cursor' = 2 * Executed + 1
             /\ stale' = m /\ pc' = "infer"
  /\ UNCHANGED <<hosted, scanOn, chainVars, opVars, bookVars, readVars, head, queue, due,
                 seen, wrote, traded, peak, licence, anchor, known>>

(* Mutant: what is on record already is not taken out.                     *)
FoundAgain(to) ==
  {m \in 1 .. Executed : Block(m) \in cursor .. to /\ moves[m] # "fill" /\ m \notin explained}

(* A swap is told by its receipt; a transfer of the agent's own by its row.*)
Found(to) ==
  {m \in 1 .. Executed : /\ Block(m) \in cursor .. to
                    /\ moves[m] # "fill"
                    /\ m \notin receipts \cup explained}

Scan ==
  /\ pc = "flows" /\ cursor > 0
  /\ \/ Executed = read /\ UNCHANGED happened
     \/ Executed > read /\ Hit("between")
  /\ \E h \in Heads : head' = h /\ queue' = Found(h)
  /\ pc' = "book"
  /\ UNCHANGED <<configVars, chainVars, opVars, bookVars, readVars, due, memoryVars>>

(* "Leave the cursor where it is so the same window is retried, and let    *)
(* inference cover this tick."                                             *)
ScanRefused ==
  /\ pc = "flows" /\ Hit("rpc")
  /\ pc' = "infer"
  /\ UNCHANGED <<configVars, chainVars, opVars, bookVars, readVars, head, queue, due, memoryVars>>

(* record(): the flow, and then the peak.                                  *)
BookReceipt ==
  /\ pc = "book" /\ queue # {}
  /\ \E m \in queue :
       /\ First(queue, m)
       /\ receipts' = receipts \cup {m} /\ net' = net + Signed(m)
       /\ queue' = queue \ {m} /\ due' = Signed(m)
  /\ pc' = "adjust"
  /\ UNCHANGED <<configVars, chainVars, opVars, explained, evidenced, hwm, charged, mirrored, row,
                 readVars, head, memoryVars, happened>>

ScanDone ==
  /\ pc = "book" /\ queue = {}
  /\ cursor' = head /\ pc' = "baseline"
  /\ UNCHANGED <<configVars, chainVars, opVars, bookVars, readVars, head, queue, due,
                 seen, wrote, traded, peak, licence, anchor, known, happened>>

(* planFirstObservation: what the account holds before this worker has     *)
(* looked at it once.                                                      *)
FirstDelta ==
  CASE licence = "self-hosted-local" /\ readEquity > 0 /\ peak = 0 -> readEquity
    [] licence = "self-hosted-local" /\ ~(readEquity > 0 /\ peak = 0) /\ row.known -> readCash - row.cash
    [] licence = "new-account" -> readEquity
    [] OTHER -> 0

(* And the drift of a tick without a ledger row.                           *)
Drift == IF wrote THEN 0 ELSE readCash - seen.cash
Delta == IF seen.known THEN Drift ELSE FirstDelta

Drifted == licence = "resume" /\ anchor.known /\ readCash # anchor.cash

(* "An inferred delta is not an actual capital-flow event."                *)
StillKnown == known /\ (seen.known \/ ~(Drifted \/ licence = "none"))

InferNothing ==
  /\ pc = "infer" /\ Delta = 0
  /\ pc' = "baseline" /\ known' = StillKnown
  /\ UNCHANGED <<configVars, chainVars, opVars, bookVars, readVars, head, queue, due,
                 cursor, seen, wrote, traded, peak, licence, anchor, happened>>

InferFlow ==
  /\ pc = "infer" /\ Delta # 0
  /\ net' = net + Delta /\ evidenced' = FALSE /\ due' = Delta
  /\ pc' = "adjustLast"
  /\ UNCHANGED <<configVars, chainVars, opVars, receipts, explained, hwm, charged, mirrored, row,
                 readVars, head, queue, memoryVars, happened>>

(* "Refusing to move the high-water mark without it": the cursor and the   *)
(* baseline stay, and the tick goes on.                                    *)
FlowFails ==
  /\ \/ pc = "book" /\ queue # {}
     \/ pc = "infer" /\ Delta # 0
  /\ Hit(IF pc = "infer" /\ ~seen.known THEN "firstflow" ELSE "flow")
  /\ pc' = "accrue" /\ queue' = {}
  /\ UNCHANGED <<configVars, chainVars, opVars, bookVars, readVars, head, due, memoryVars>>

(* Mutant: the peak is left alone, as before the flows had one.            *)
ShiftedNot(mark, by) == mark

(* MAX(0, hwm_usdg + ?).                                                   *)
Shifted(mark, by) == IF mark + by > 0 THEN mark + by ELSE 0

Adjusting == pc \in {"adjust", "adjustLast"}

(* adjustAgentHwm, which swallows its failure, and the read back.          *)
AdjustPeak ==
  /\ Adjusting
  /\ \/ hwm' = Shifted(hwm, due) /\ UNCHANGED happened
     \/ Hit("peak") /\ hwm' = hwm
  /\ peak' = hwm' /\ due' = 0
  /\ pc' = IF pc = "adjust" THEN "book" ELSE "baseline"
  /\ UNCHANGED <<configVars, chainVars, opVars, receipts, explained, net, evidenced, charged, mirrored, row,
                 readVars, head, queue, cursor, seen, wrote, traded, licence, anchor, known>>

(* lastCashUsdg and ledgerWritesAtSnapshot.                                *)
Baseline ==
  /\ pc = "baseline"
  /\ seen' = Reading(readCash) /\ wrote' = FALSE
  /\ pc' = "accrue"
  /\ UNCHANGED <<configVars, chainVars, opVars, bookVars, readVars, head, queue, due,
                 cursor, traded, peak, licence, anchor, known, happened>>

Above(mark) == IF readEquity > mark THEN readEquity - mark ELSE 0
Ratchet(mark) == mark + Above(mark)

(* Mutant: the fee is taken of a book whose contributions are in doubt.    *)
FeeableAlways == Above(peak)

Feeable == IF known THEN Above(peak) ELSE 0

(* accrueAboveHwm, setAgentHwm and the equity row.                         *)
Accrue ==
  /\ pc = "accrue"
  /\ charged' = charged + Feeable
  /\ peak' = Ratchet(peak)
  /\ \/ hwm' = Ratchet(hwm) /\ UNCHANGED happened
     \/ Above(peak) > 0 /\ Hit("peak") /\ hwm' = hwm
  /\ row' = Reading(readCash) /\ traded' = (stage # "none")
  /\ pc' = "intents"
  /\ UNCHANGED <<configVars, chainVars, opVars, receipts, explained, net, evidenced, mirrored,
                 readVars, head, queue, due, cursor, seen, wrote, licence, anchor, known>>

TickEnd ==
  /\ pc = "intents" /\ ~Waiting
  /\ pc' = "idle" /\ read' = 0 /\ readCash' = 0 /\ readEquity' = 0 /\ head' = 0
  /\ UNCHANGED <<configVars, chainVars, opVars, bookVars, queue, due, memoryVars, happened>>

-----------------------------------------------------------------------------
(* The agent's operations.                                                 *)

NoOp == stage' = "none" /\ waiter' = "nobody" /\ UNCHANGED opKind

Submit ==
  /\ stage = "none"
  /\ \/ pc = "intents" /\ waiter' = "tick" /\ UNCHANGED happened
     \/ waiter' = "chat" /\ Hit("chat")
  /\ Executed < Len(Amounts) /\ NextAmount <= cash
  /\ opKind' \in OpKinds /\ stage' = "submitted"
  /\ traded' = TRUE
  /\ UNCHANGED <<configVars, chainVars, bookVars, tickVars,
                 cursor, seen, wrote, peak, licence, anchor, known>>

Mine ==
  /\ stage = "submitted"
  /\ Moved(opKind) /\ stage' = "landed"
  /\ UNCHANGED <<configVars, gain, best, opKind, waiter, bookVars, tickVars, memoryVars, happened>>

(* Reverted, or never sent: no row of that status counts as a money move.  *)
Drop ==
  /\ stage = "submitted" /\ NoOp
  /\ UNCHANGED <<configVars, chainVars, bookVars, tickVars, memoryVars, happened>>

(* The movement of the landed operation: the last one of its kind.         *)
Landed(m) == Last({k \in 1 .. Executed : moves[k] = opKind}, m)

(* recordTrade: the row, and ledgerWrites.                                 *)
RecordFill ==
  /\ stage = "landed" /\ waiter # "nobody" /\ opKind = "fill" /\ NoOp
  /\ \E m \in 1 .. Executed : Landed(m) /\ explained' = explained \cup {m}
  /\ wrote' = TRUE
  /\ UNCHANGED <<configVars, chainVars, receipts, net, evidenced, hwm, charged, mirrored, row, tickVars,
                 cursor, seen, traded, peak, licence, anchor, known, happened>>

(* A transfer is a flow too, with the peak and the baseline moved by it.   *)
RecordTransfer ==
  /\ stage = "landed" /\ waiter # "nobody" /\ opKind = "transfer" /\ NoOp
  /\ wrote' = TRUE
  /\ \E m \in 1 .. Executed :
       /\ Landed(m) /\ explained' = explained \cup {m}
       /\ \/ /\ net' = net + Signed(m)
             /\ hwm' = Shifted(hwm, Signed(m)) /\ peak' = hwm'
             /\ seen' = IF seen.known THEN Reading(seen.cash + Signed(m)) ELSE seen
             /\ UNCHANGED happened
          \/ Hit("flow") /\ UNCHANGED <<net, hwm, peak, seen>>
  /\ UNCHANGED <<configVars, chainVars, receipts, evidenced, charged, mirrored, row, tickVars,
                 cursor, traded, licence, anchor, known>>

(* UserOpUnresolved: the submitted row stands, and nobody waits for it.    *)
Unresolve ==
  /\ stage # "none" /\ waiter # "nobody" /\ Hit("unresolved")
  /\ waiter' = "nobody"
  /\ UNCHANGED <<configVars, chainVars, stage, opKind, bookVars, tickVars, memoryVars>>

(* resolveStrandedOps writes the row with addTrade, past recordTrade.      *)
SettleStray ==
  /\ stage = "landed" /\ waiter = "nobody" /\ NoOp
  /\ \E m \in 1 .. Executed : Landed(m) /\ explained' = explained \cup {m}
  /\ UNCHANGED <<configVars, chainVars, receipts, net, evidenced, hwm, charged, mirrored, row, tickVars,
                 memoryVars, happened>>

-----------------------------------------------------------------------------
(* Restarts.                                                               *)

Restart ==
  /\ pc' = "idle" /\ read' = 0 /\ readCash' = 0 /\ readEquity' = 0 /\ head' = 0 /\ queue' = {} /\ due' = 0
  /\ cursor' = 0 /\ seen' = Unread /\ wrote' = FALSE /\ traded' = FALSE
  /\ waiter' = "nobody"
  /\ UNCHANGED <<configVars, chainVars, stage, opKind, net, charged>>

(* The mirror raises the shared mark and never lowers it: a redeploy hands *)
(* back the mark of before a withdrawal, if a pass has seen it.            *)
Raised == IF hwm > mirrored THEN hwm ELSE mirrored

MirrorMark ==
  /\ hosted /\ mirrored # Raised
  /\ mirrored' = Raised
  /\ UNCHANGED <<configVars, chainVars, opVars, receipts, explained, net, evidenced, hwm, charged, row,
                 tickVars, memoryVars, happened>>

HasAccounting == Raised > 0 \/ net # 0 \/ ~evidenced \/ receipts # {} \/ row.known

(* Mutant: a child that finds no tables takes the account for a new one.   *)
LicencesUnread == {"new-account"}

(* deriveBootstrapAccounting, accountingLicence; the shared tables are     *)
(* taken to be in step with the child's (LedgerMirror is about that).      *)
LicencesRead == {IF HasAccounting THEN "resume" ELSE "new-account"}

(* The books say what they said when the last equity row was written.      *)
Settled == pc \in {"intents", "idle", "flows", "infer"} /\ ~traded /\ stage # "submitted"

Redeploy ==
  /\ hosted
  /\ \/ Settled /\ Hit("redeploy") /\ licence' \in LicencesRead
     \/ ~Settled /\ ~Adjusting /\ stage # "submitted" /\ Hit("midway") /\ licence' \in LicencesRead
     \/ ~Adjusting /\ stage # "submitted" /\ Hit("anchor") /\ licence' = "none"
     \/ ~Adjusting /\ stage = "submitted" /\ Hit("kill") /\ licence' \in LicencesRead
     \/ Adjusting /\ Hit("torn") /\ licence' \in LicencesRead
  /\ Restart
  /\ known' = (licence' = "new-account" \/ (licence' = "resume" /\ evidenced))
  /\ anchor' = IF licence' = "resume" THEN row ELSE Unread
  /\ mirrored' = Raised
  /\ hwm' = (IF licence' = "resume" THEN Raised ELSE 0) /\ peak' = hwm'
  /\ receipts' = {} /\ explained' = {}
  /\ UNCHANGED <<evidenced, row>>

StopStart ==
  /\ ~hosted
  /\ \/ pc = "idle" /\ stage = "none" /\ ~traded /\ Hit("stop")
     \/ ~Adjusting /\ Hit("kill")
     \/ Adjusting /\ Hit("torn")
  /\ Restart /\ peak' = hwm
  /\ UNCHANGED <<receipts, explained, evidenced, hwm, mirrored, row, licence, anchor, known>>

CapitalInit ==
  /\ hosted \in BOOLEAN /\ scanOn \in BOOLEAN /\ stale = 0
  /\ moves = <<>> /\ cash = 0 /\ capital = 0 /\ gain = 0 /\ best = 0
  /\ stage = "none" /\ opKind = "fill" /\ waiter = "nobody"
  /\ receipts = {} /\ explained = {} /\ net = 0 /\ evidenced = TRUE
  /\ hwm = 0 /\ charged = 0 /\ mirrored = 0 /\ row = Unread
  /\ pc = "idle" /\ read = 0 /\ readCash = 0 /\ readEquity = 0 /\ head = 0 /\ queue = {} /\ due = 0
  /\ cursor = 0 /\ seen = Unread /\ wrote = FALSE /\ traded = FALSE /\ peak = 0
  /\ licence = IF hosted THEN "new-account" ELSE "self-hosted-local"
  /\ anchor = Unread /\ known = TRUE
  /\ happened = <<>>

TickStep ==
  \/ TickRead \/ OpenAtHead \/ ResumeScan \/ Scan \/ ScanRefused
  \/ BookReceipt \/ ScanDone \/ InferNothing \/ InferFlow \/ FlowFails
  \/ AdjustPeak \/ Baseline \/ Accrue \/ TickEnd

CapitalNext ==
  \/ Deposit \/ Takeout \/ Perform
  \/ TickStep
  \/ Submit \/ Mine \/ Drop \/ RecordFill \/ RecordTransfer \/ Unresolve \/ SettleStray
  \/ MirrorMark \/ Redeploy \/ StopStart

CapitalSpec == CapitalInit /\ [][CapitalNext]_capitalVars

-----------------------------------------------------------------------------
(* Properties.                                                             *)

CapitalTypeOK ==
  /\ hosted \in BOOLEAN /\ scanOn \in BOOLEAN /\ stale \in {0} \cup Moves
  /\ moves \in Seq(External \cup OpKinds) /\ Len(moves) <= Len(Amounts)
  /\ cash \in Nat /\ capital \in Int /\ gain \in Int /\ best \in Nat
  /\ stage \in {"none", "submitted", "landed"} /\ opKind \in OpKinds /\ waiter \in {"tick", "chat", "nobody"}
  /\ receipts \subseteq Moves /\ explained \subseteq Moves
  /\ net \in Int /\ evidenced \in BOOLEAN /\ hwm \in Nat /\ charged \in Nat /\ mirrored \in Nat
  /\ pc \in {"idle", "flows", "infer", "book", "adjust", "adjustLast", "baseline", "accrue", "intents"}
  /\ read \in 0 .. Len(Amounts) /\ readCash \in Nat /\ readEquity \in Int
  /\ head \in Nat /\ cursor \in Nat /\ queue \subseteq Moves /\ due \in Int
  /\ {row, seen, anchor} \subseteq [known: BOOLEAN, cash: Int]
  /\ wrote \in BOOLEAN /\ traded \in BOOLEAN /\ peak \in Nat
  /\ licence \in Licences /\ known \in BOOLEAN
  /\ happened \in Seq(CapitalFaults)

(* "THE PEAK AND THE CONTRIBUTION MOVE TOGETHER OR NOT AT ALL": between    *)
(* two records the mark carries every contribution, and all profit a fee   *)
(* was taken on already, so that neither is taken for profit again.  (Of a *)
(* worker without an anchor, which takes no fee, it is not asked.)         *)
PeakCarries ==
  Never({"peak", "torn", "anchor"}) =>
    IF Adjusting THEN hwm + due >= net + charged ELSE hwm >= net + charged

SumOf(S) == SumFunctionOnSet([m \in S |-> Signed(m)], S)
CapitalMoves(n) == {m \in 1 .. n : moves[m] # "fill"}

(* What is booked as capital is a set of movements across the account's    *)
(* boundary, each of them once: no trade is, and no transfer that both the *)
(* balance and its log have shown.  (A movement the scan has booked ahead  *)
(* of the balances is in them again when the watermark goes stale.)        *)
Booked == \E S \in SUBSET CapitalMoves(Executed) : net = SumOf(S)
Overlaps == {"rpc", "opening", "firstflow", "peak", "torn", "unresolved", "chat", "kill"}
BookedOnce == Never(Overlaps) /\ ~Before("between", "gap") => Booked

(* With the scan on, a fee is never judged before every movement the       *)
(* balances reflect is in the contributions.  (What a new child is told of *)
(* the old one's books is a balance, in which movements may cancel out.)   *)
NothingMissed ==
  (/\ scanOn /\ known /\ pc = "accrue"
   /\ Never(Overlaps \cup {"flow", "midway"})
   /\ ~Before("between", "gap") /\ ~Before("between", "redeploy")
   /\ Times("redeploy") + Times("anchor") <= 1)
  => \E n \in read .. Executed : net = SumOf(CapitalMoves(n))

(* So the fee is only ever taken on what the agent earned.                 *)
NoFeeOnPrincipal ==
  (/\ scanOn /\ Never(Overlaps \cup {"flow", "midway", "between"})
   /\ Times("redeploy") + Times("anchor") <= 1)
  => charged <= best
=============================================================================
