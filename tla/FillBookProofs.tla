--------------------------- MODULE FillBookProofs ---------------------------
(* Type correctness of FillBook, and that rows, journal, basis and carried *)
(* capital agree, for any orders, operations and faults.                   *)
EXTENDS FillBook, SequenceTheorems, FiniteSetTheorems, TLAPS

Position == [qty: Nat, cost: Nat]
Fates    == {"sent", "landed", "reverted"}
Sent     == [order: Orders, fate: Fates]
Row      == [op: 1 .. MaxOps, status: {"submitted", "landed", "reverted"}, epoch: 1 .. 2]
Entry    == [op: 1 .. MaxOps, epoch: 1 .. 2]

(* FillTypeOK in parts, with what a type alone does not say: who waits,    *)
(* waits for an operation that was sent, and what is booked has landed.    *)
LedgerTypes ==
  /\ legacy \in BOOLEAN /\ epoch \in 1 .. 2 /\ carried \in [1 .. 2 -> Nat]
  /\ rows \in Seq(Row) /\ journal \in Seq(Entry)

OpTypes ==
  /\ ops \in Seq(Sent) /\ Len(ops) <= MaxOps
  /\ truth \in Position /\ basis \in Position

IntentTypes ==
  /\ waiting \in 0 .. Len(ops) /\ chat \in BOOLEAN /\ booked \in BOOLEAN
  /\ booked => waiting # 0 /\ ops[waiting].fate = "landed"

WorkerTypes ==
  /\ tick \in {"idle", "closing", "intents"} /\ holds \in BOOLEAN /\ watched \in BOOLEAN
  /\ phase \in {"down", "sweeping", "boundary", "carry", "up"}
  /\ tick # "idle" => phase = "up"

SweepTypes ==
  /\ sweeps \subseteq Sweepers /\ todo \in [Sweepers -> SUBSET Op]
  /\ "arm" \in sweeps => phase = "sweeping"

FaultTypes == failed \in Seq(FillFaults)

Types == LedgerTypes /\ OpTypes /\ IntentTypes /\ WorkerTypes /\ SweepTypes /\ FaultTypes

LEMMA LenOps == ASSUME OpTypes PROVE Len(ops) \in Nat /\ Len(ops) <= MaxOps /\ MaxOps \in Nat
  BY FillAssumption, LenProperties DEF OpTypes

LEMMA TypesAreTypeOK == Types => FillTypeOK
<1> SUFFICES ASSUME Types PROVE FillTypeOK
  OBVIOUS
<1>1. waiting \in 0 .. MaxOps /\ Op \subseteq 1 .. MaxOps
  BY LenOps, SMT DEF Types, IntentTypes, Op
<1>2. SUBSET Op \subseteq SUBSET (1 .. MaxOps)
  BY <1>1
<1>3. todo \in [Sweepers -> SUBSET (1 .. MaxOps)]
  BY <1>2 DEF Types, SweepTypes
<1> QED
  BY <1>1, <1>3
     DEF FillTypeOK, Types, LedgerTypes, OpTypes, IntentTypes, WorkerTypes, SweepTypes, FaultTypes,
         Position, Fates, Sent, Row, Entry

LEMMA OpIsSent == ASSUME OpTypes, NEW n \in Op PROVE ops[n] \in Sent /\ n \in 1 .. MaxOps
<1>1. n \in 1 .. Len(ops)
  BY DEF Op
<1> QED
  BY <1>1, LenOps, ElementOfSeq, SMT DEF OpTypes

-----------------------------------------------------------------------------
(* The basis.                                                              *)

LEMMA ShareOfCost == \A cost, sold, qty \in Nat : qty > 0 /\ sold <= qty =>
                       (cost * sold) \div qty \in 0 .. cost
<1> SUFFICES ASSUME NEW cost \in Nat, NEW sold \in Nat, NEW qty \in Nat, qty > 0, sold <= qty
             PROVE  (cost * sold) \div qty \in 0 .. cost
  OBVIOUS
<1> DEFINE p == cost * sold
<1> DEFINE q == p \div qty
<1> DEFINE c == cost * qty
<1>1. p \in Nat /\ c \in Nat /\ p <= c
  BY SMT
<1>2. q \in Int /\ qty * q <= p /\ p < qty * q + qty
  <2> HIDE DEF p
  <2> QED
    BY <1>1, SMT
<1>3. q >= 0
  <2>1. ASSUME q <= -1 PROVE FALSE
    <3>1. qty * q <= -qty
      <4> HIDE DEF q
      <4> QED
        BY <1>2, <2>1, SMT
    <3> HIDE DEF p, q
    <3> QED
      BY <1>1, <1>2, <3>1, SMT
  <2> HIDE DEF q
  <2> QED
    BY <1>2, <2>1, SMT
<1>4. q <= cost
  <2>1. ASSUME q >= cost + 1 PROVE FALSE
    <3>1. qty * q >= c + qty
      <4> HIDE DEF q
      <4> QED
        BY <1>2, <2>1, SMT
    <3> HIDE DEF p, q, c
    <3> QED
      BY <1>1, <1>2, <3>1, SMT
  <2> HIDE DEF q
  <2> QED
    BY <1>2, <2>1, SMT
<1> QED
  BY <1>2, <1>3, <1>4, SMT

(* A position stays one, and one of nothing costs nothing.                 *)
LEMMA ApplyFillPosition ==
  ASSUME NEW prev \in Position, NEW f \in [side: {"buy", "sell"}, qty: Nat \ {0}, cash: Nat \ {0}]
  PROVE  /\ ApplyFill(prev, f) \in Position
         /\ ApplyFill(prev, f).qty = 0 => ApplyFill(prev, f).cost = 0
<1>1. prev.qty \in Nat /\ prev.cost \in Nat /\ f.qty \in Nat \ {0} /\ f.cash \in Nat \ {0}
  BY DEF Position
<1>2. CASE f.side = "buy"
  BY <1>1, <1>2, SMT DEF ApplyFill, Position
<1>3. CASE f.side # "buy"
  <2> DEFINE sold == Capped(prev, f.qty)
  <2> DEFINE out == CostOut(prev, sold)
  <2>1. sold \in Nat /\ sold <= prev.qty
    BY <1>1, SMT DEF Capped
  <2>2. out \in 0 .. prev.cost /\ (sold = prev.qty => out = prev.cost)
    <3> HIDE DEF sold
    <3>1. CASE sold = prev.qty
      BY <1>1, <3>1, SMT DEF CostOut
    <3>2. CASE sold # prev.qty
      <4>1. prev.qty > 0
        BY <1>1, <2>1, <3>2, SMT
      <4>2. (prev.cost * sold) \div prev.qty \in 0 .. prev.cost
        BY <1>1, <2>1, <4>1, ShareOfCost
      <4> QED
        BY <3>2, <4>2 DEF CostOut
    <3> QED
      BY <3>1, <3>2
  <2>3. ApplyFill(prev, f) = [qty |-> prev.qty - sold, cost |-> prev.cost - out]
    BY <1>3 DEF ApplyFill
  <2> HIDE DEF sold, out
  <2>4. prev.qty - sold \in Nat /\ prev.cost - out \in Nat
    BY <1>1, <2>1, <2>2, SMT
  <2>5. prev.qty - sold = 0 => prev.cost - out = 0
    BY <1>1, <2>1, <2>2, SMT
  <2> QED
    BY <2>3, <2>4, <2>5 DEF Position
<1> QED
  BY <1>2, <1>3

LEMMA FlatIsPosition == Flat \in Position
  BY SMT DEF Flat, Position

LEMMA OrderOf == ASSUME OpTypes, NEW n \in Op
                 PROVE  ops[n].order \in [side: {"buy", "sell"}, qty: Nat \ {0}, cash: Nat \ {0}]
  BY OpIsSent, FillAssumption DEF Sent

-----------------------------------------------------------------------------
(* What an action leaves alone keeps its type.                             *)

LEMMA LedgerFrame == ASSUME LedgerTypes, UNCHANGED ledgerVars PROVE LedgerTypes'
  BY DEF LedgerTypes, ledgerVars

LEMMA OpFrame == ASSUME OpTypes, UNCHANGED <<ops, truth, basis>> PROVE OpTypes'
  BY DEF OpTypes

LEMMA IntentFrame == ASSUME IntentTypes, UNCHANGED <<ops, intentVars>> PROVE IntentTypes'
  BY DEF IntentTypes, intentVars

LEMMA WorkerFrame == ASSUME WorkerTypes, UNCHANGED <<sightVars, phase>> PROVE WorkerTypes'
  BY DEF WorkerTypes, sightVars

LEMMA SweepFrame == ASSUME SweepTypes, UNCHANGED <<ops, sweepVars, phase>> PROVE SweepTypes'
  BY DEF SweepTypes, sweepVars, Op

AnyFault == UNCHANGED failed \/ \E f \in AllFillFaults : Fault(f)

LEMMA FaultFrame == ASSUME FaultTypes, AnyFault PROVE FaultTypes'
<1>1. ASSUME NEW f, Fault(f) PROVE FaultTypes'
  BY <1>1, AppendProperties DEF Fault, FaultTypes
<1> QED
  BY <1>1 DEF AnyFault, FaultTypes

LEMMA EveryFault == [FillNext]_fillVars => AnyFault
<1> SUFFICES ASSUME [FillNext]_fillVars PROVE AnyFault
  OBVIOUS
<1>1. CASE UNCHANGED fillVars
  BY <1>1 DEF fillVars, AnyFault
<1>2. CASE ReadHoldings \/ CloseBasis \/ TickDone \/ SetWatch \/ Send \/ Land \/ Revert
  BY <1>2 DEF ReadHoldings, CloseBasis, TickDone, SetWatch, Send, Land, Revert, AnyFault, AllFillFaults
<1>3. CASE BookFill \/ RecordTrade \/ ReceiptReverted \/ Unresolved \/ SweepStart \/ SweepWrite \/ SweepEnd
  BY <1>3 DEF BookFill, RecordTrade, ReceiptReverted, Unresolved, SweepStart, SweepWrite, SweepEnd, AnyFault, AllFillFaults
<1>4. CASE NoBoundary \/ OpenEpoch \/ CarryCapital \/ Rearm \/ Boot
  BY <1>4 DEF NoBoundary, OpenEpoch, CarryCapital, Rearm, Boot, AnyFault, AllFillFaults
<1>5. CASE Die
  <2>1. PICK f \in {"tear", "kill", "stop"} : Fault(f)
    BY <1>5 DEF Die
  <2> QED
    BY <2>1 DEF AnyFault, AllFillFaults
<1> QED
  BY <1>1, <1>2, <1>3, <1>4, <1>5 DEF FillNext

-----------------------------------------------------------------------------
(* The writes of the ledger.                                               *)

LEMMA SettledRows ==
  ASSUME LedgerTypes, NEW n, NEW status \in {"landed", "reverted"}
  PROVE  [i \in 1 .. Len(rows) |->
            IF i \in Submitted(n) THEN [rows[i] EXCEPT !.status = status] ELSE rows[i]] \in Seq(Row)
<1>1. Len(rows) \in Nat /\ \A i \in 1 .. Len(rows) : rows[i] \in Row
  BY LenProperties, ElementOfSeq DEF LedgerTypes
<1>2. \A i \in 1 .. Len(rows) : [rows[i] EXCEPT !.status = status] \in Row
  BY <1>1 DEF Row
<1>3. [i \in 1 .. Len(rows) |->
        IF i \in Submitted(n) THEN [rows[i] EXCEPT !.status = status] ELSE rows[i]]
      \in [1 .. Len(rows) -> Row]
  BY <1>1, <1>2
<1> QED
  BY <1>1, <1>3, SeqDef

LEMMA AddTradeTypes ==
  ASSUME LedgerTypes, NEW n \in 1 .. MaxOps, NEW status \in {"landed", "reverted"}, AddTrade(n, status)
  PROVE  LedgerTypes'
<1>1. [op |-> n, status |-> status, epoch |-> epoch] \in Row /\ [op |-> n, epoch |-> epoch] \in Entry
  BY DEF LedgerTypes, Row, Entry
<1>2. journal' \in Seq(Entry)
  BY <1>1, AppendProperties DEF AddTrade, Journalled, LedgerTypes
<1>3. rows' \in Seq(Row)
  <2>1. CASE Submitted(n) # {}
    BY <2>1, SettledRows DEF AddTrade
  <2>2. CASE Submitted(n) = {}
    BY <1>1, <2>2, AppendProperties DEF AddTrade, LedgerTypes
  <2> QED
    BY <2>1, <2>2
<1> QED
  BY <1>2, <1>3 DEF AddTrade, LedgerTypes

LEMMA TickSteps == Types /\ (ReadHoldings \/ CloseBasis \/ TickDone \/ SetWatch) => Types'
<1> SUFFICES ASSUME Types, ReadHoldings \/ CloseBasis \/ TickDone \/ SetWatch PROVE Types'
  OBVIOUS
<1> USE DEF Types
<1>1. LedgerTypes' /\ IntentTypes' /\ SweepTypes' /\ FaultTypes'
  <2>1. AnyFault
    BY EveryFault DEF FillNext
  <2> QED
    BY <2>1, LedgerFrame, IntentFrame, SweepFrame, FaultFrame
       DEF ReadHoldings, CloseBasis, TickDone, SetWatch
<1>2. OpTypes'
  BY FlatIsPosition DEF OpTypes, ReadHoldings, CloseBasis, TickDone, SetWatch
<1>3. CASE ReadHoldings
  <2>1. holds' \in BOOLEAN
    <3>1. \A p, q : (p /\ q) \in BOOLEAN
      OBVIOUS
    <3> QED
      BY <1>3, <3>1 DEF ReadHoldings
  <2> QED
    BY <1>1, <1>2, <1>3, <2>1 DEF ReadHoldings, WorkerTypes
<1>4. CASE CloseBasis
  BY <1>1, <1>2, <1>4 DEF CloseBasis, WorkerTypes
<1>5. CASE TickDone
  BY <1>1, <1>2, <1>5 DEF TickDone, WorkerTypes
<1>6. CASE SetWatch
  BY <1>1, <1>2, <1>6 DEF SetWatch, WorkerTypes
<1> QED
  BY <1>3, <1>4, <1>5, <1>6

LEMMA SendStep == Types /\ Send => Types'
<1> SUFFICES ASSUME Types, Send PROVE Types'
  OBVIOUS
<1> USE DEF Types
<1>1. PICK o \in Orders : Possible(o) /\ ops' = Append(ops, [order |-> o, fate |-> "sent"])
  BY DEF Send
<1>2. Len(ops) \in Nat /\ MaxOps \in Nat /\ Len(ops) < MaxOps
  BY LenOps, SMT DEF Send
<1>3. ops' \in Seq(Sent) /\ Len(ops') = Len(ops) + 1
  <2>1. [order |-> o, fate |-> "sent"] \in Sent
    BY DEF Sent, Fates
  <2> QED
    BY <1>1, <2>1, AppendProperties DEF OpTypes
<1>4. OpTypes'
  <2>1. Len(ops') <= MaxOps
    BY <1>2, <1>3, SMT
  <2> QED
    BY <1>3, <2>1 DEF Send, OpTypes
<1>5. LedgerTypes'
  <2>1. [op |-> Len(ops) + 1, status |-> "submitted", epoch |-> epoch] \in Row
    <3>1. Len(ops) + 1 \in 1 .. MaxOps
      BY <1>2, SMT
    <3> QED
      BY <3>1 DEF Row, LedgerTypes
  <2> QED
    BY <2>1, AppendProperties DEF Send, LedgerTypes
<1>6. IntentTypes'
  <2>1. waiting' \in 0 .. Len(ops')
    BY <1>2, <1>3, SMT DEF Send
  <2>2. chat' \in BOOLEAN /\ booked' \in BOOLEAN /\ ~booked'
    BY DEF Send, IntentTypes
  <2> QED
    BY <2>1, <2>2 DEF IntentTypes
<1>7. WorkerTypes'
  BY WorkerFrame DEF Send
<1>8. SweepTypes'
  <2>1. Op \subseteq Op'
    BY <1>2, <1>3, SMT DEF Op
  <2>2. todo \in [Sweepers -> SUBSET Op']
    BY <2>1 DEF SweepTypes
  <2> QED
    BY <2>2 DEF Send, SweepTypes, sweepVars
<1>9. FaultTypes'
  BY FaultFrame, EveryFault DEF FillNext
<1> QED
  BY <1>4, <1>5, <1>6, <1>7, <1>8, <1>9

LEMMA ChainSteps == Types /\ (Land \/ Revert) => Types'
<1> SUFFICES ASSUME Types, Land \/ Revert PROVE Types'
  OBVIOUS
<1> USE DEF Types
<1>1. PICK n \in Op, fate \in {"landed", "reverted"} :
        /\ ops[n].fate = "sent"
        /\ ops' = [ops EXCEPT ![n].fate = fate]
        /\ truth' \in {truth, ApplyFill(truth, ops[n].order)}
        /\ UNCHANGED <<ledgerVars, basis, intentVars, sightVars, phase, sweepVars, failed>>
  BY DEF Land, Revert
<1>2. n \in 1 .. Len(ops) /\ Len(ops) \in Nat
  BY LenOps DEF Op
<1>3. [ops[n] EXCEPT !.fate = fate] \in Sent
  BY <1>1, OpIsSent DEF Sent, Fates
<1>4. ops' = [ops EXCEPT ![n] = [ops[n] EXCEPT !.fate = fate]]
  BY <1>1
<1>5. ops' \in Seq(Sent) /\ Len(ops') = Len(ops)
  BY <1>2, <1>3, <1>4, ExceptSeq DEF OpTypes
<1>6. truth' \in Position
  BY <1>1, ApplyFillPosition, OrderOf DEF OpTypes
<1>7. LedgerTypes' /\ WorkerTypes' /\ FaultTypes'
  BY <1>1, LedgerFrame, WorkerFrame DEF FaultTypes
<1>8. OpTypes'
  BY <1>1, <1>5, <1>6 DEF OpTypes
<1>9. IntentTypes'
  <2>1. waiting # 0 => waiting \in 1 .. Len(ops)
    BY <1>2, SMT DEF IntentTypes
  <2>2. ops \in [1 .. Len(ops) -> Sent]
    BY LenProperties DEF OpTypes
  <2>3. booked => waiting # n
    BY <1>1 DEF IntentTypes
  <2>4. booked => ops'[waiting] = ops[waiting]
    BY <1>4, <2>1, <2>2, <2>3 DEF IntentTypes
  <2> QED
    BY <1>1, <1>5, <2>4 DEF IntentTypes, intentVars
<1>10. SweepTypes'
  BY <1>1, <1>5 DEF SweepTypes, sweepVars, Op
<1> QED
  BY <1>7, <1>8, <1>9, <1>10

LEMMA WaitedFor == ASSUME Types, waiting # 0 PROVE waiting \in Op /\ waiting \in 1 .. MaxOps
  BY LenOps, SMT DEF Types, IntentTypes, Op

LEMMA NobodyWaits == OpTypes => 0 \in 0 .. Len(ops)
  BY LenOps, SMT

LEMMA IntentSteps == Types /\ (BookFill \/ RecordTrade \/ ReceiptReverted \/ Unresolved) => Types'
<1> SUFFICES ASSUME Types, BookFill \/ RecordTrade \/ ReceiptReverted \/ Unresolved PROVE Types'
  OBVIOUS
<1> USE DEF Types
<1>1. FaultTypes'
  BY FaultFrame, EveryFault DEF FillNext
<1>2. WorkerTypes' /\ SweepTypes'
  BY WorkerFrame, SweepFrame DEF BookFill, RecordTrade, ReceiptReverted, Unresolved
<1>3. waiting \in Op /\ waiting \in 1 .. MaxOps
  BY WaitedFor DEF BookFill, RecordTrade, ReceiptReverted, Unresolved
<1>4. CASE BookFill
  <2>1. basis' \in Position
    <3>1. ApplyFill(basis, ops[waiting].order) \in Position /\ ApplyFill(Flat, ops[waiting].order) \in Position
      BY <1>3, ApplyFillPosition, OrderOf, FlatIsPosition DEF OpTypes
    <3> QED
      BY <1>4, <3>1 DEF BookFill, OpTypes
  <2> QED
    BY <1>1, <1>2, <1>4, <2>1, LedgerFrame DEF BookFill, OpTypes, IntentTypes
<1>5. CASE RecordTrade
  <2>1. LedgerTypes'
    <3>2. CASE AddTrade(waiting, "landed")
      BY <1>3, <3>2, AddTradeTypes
    <3> QED
      BY <1>5, <3>2, LedgerFrame DEF RecordTrade
  <2>2. IntentTypes'
    BY <1>5, NobodyWaits DEF RecordTrade, IntentTypes
  <2> QED
    BY <1>1, <1>2, <1>5, <2>1, <2>2, OpFrame DEF RecordTrade
<1>6. CASE ReceiptReverted \/ Unresolved
  <2>1. IntentTypes'
    BY <1>6, NobodyWaits DEF ReceiptReverted, Unresolved, IntentTypes
  <2> QED
    BY <1>1, <1>2, <1>6, <2>1, OpFrame, LedgerFrame DEF ReceiptReverted, Unresolved
<1> QED
  BY <1>4, <1>5, <1>6

LEMMA SweepSteps == Types /\ (SweepStart \/ SweepWrite \/ SweepEnd) => Types'
<1> SUFFICES ASSUME Types, SweepStart \/ SweepWrite \/ SweepEnd PROVE Types'
  OBVIOUS
<1> USE DEF Types
<1>1. FaultTypes'
  BY DEF FaultTypes, SweepStart, SweepWrite, SweepEnd
<1>2. OpTypes' /\ IntentTypes'
  BY OpFrame, IntentFrame DEF SweepStart, SweepWrite, SweepEnd
<1>3. CASE SweepStart
  <2>1. Stranded \subseteq Op
    BY DEF Stranded
  <2>2. WorkerTypes' /\ LedgerTypes'
    BY <1>3, WorkerFrame, LedgerFrame DEF SweepStart
  <2>3. SweepTypes'
    BY <1>3, <2>1 DEF SweepStart, SweepTypes, Op
  <2> QED
    BY <1>1, <1>2, <2>2, <2>3
<1>4. CASE SweepWrite
  <2>0. PICK s \in sweeps : \E n \in todo[s] :
          /\ ops[n].fate # "sent" /\ AddTrade(n, ops[n].fate)
          /\ todo' = [todo EXCEPT ![s] = @ \ {n}]
    BY <1>4 DEF SweepWrite
  <2>1. PICK n \in todo[s] :
          /\ ops[n].fate # "sent" /\ AddTrade(n, ops[n].fate)
          /\ todo' = [todo EXCEPT ![s] = @ \ {n}]
    BY <2>0
  <2>2. n \in Op
    BY <2>1 DEF SweepTypes
  <2>3. ops[n].fate \in {"landed", "reverted"} /\ n \in 1 .. MaxOps
    BY <2>1, <2>2, OpIsSent DEF Sent, Fates
  <2>4. LedgerTypes'
    BY <2>1, <2>3, AddTradeTypes
  <2>5. SweepTypes'
    BY <1>4, <2>1 DEF SweepWrite, SweepTypes, Op
  <2> QED
    BY <1>1, <1>2, <1>4, <2>4, <2>5, WorkerFrame DEF SweepWrite
<1>5. CASE SweepEnd
  <2>1. LedgerTypes'
    BY <1>5, LedgerFrame DEF SweepEnd
  <2>2. PICK s \in sweeps : /\ sweeps' = sweeps \ {s} /\ todo' = [todo EXCEPT ![s] = {}]
                            /\ phase' = IF s = "arm" THEN "boundary" ELSE phase
    BY <1>5 DEF SweepEnd
  <2>3. WorkerTypes'
    BY <1>5, <2>2 DEF SweepEnd, WorkerTypes, SweepTypes, sightVars
  <2>4. SweepTypes'
    BY <1>5, <2>2 DEF SweepEnd, SweepTypes, Op
  <2> QED
    BY <1>1, <1>2, <2>1, <2>3, <2>4
<1> QED
  BY <1>3, <1>4, <1>5

LEMMA ArmSteps == Types /\ (NoBoundary \/ OpenEpoch \/ CarryCapital \/ Rearm \/ Boot \/ Die) => Types'
<1> SUFFICES ASSUME Types, NoBoundary \/ OpenEpoch \/ CarryCapital \/ Rearm \/ Boot \/ Die PROVE Types'
  OBVIOUS
<1> USE DEF Types
<1>1. FaultTypes'
  BY FaultFrame, EveryFault DEF FillNext
<1>2. OpTypes'
  BY OpFrame DEF NoBoundary, OpenEpoch, CarryCapital, Rearm, Boot, Die
<1>3. CASE NoBoundary \/ Rearm \/ Boot
  <2>1. LedgerTypes' /\ IntentTypes'
    BY <1>3, LedgerFrame, IntentFrame DEF NoBoundary, Rearm, Boot
  <2>2. WorkerTypes'
    BY <1>3 DEF NoBoundary, Rearm, Boot, WorkerTypes, sightVars
  <2>3. SweepTypes'
    BY <1>3 DEF NoBoundary, Rearm, Boot, SweepTypes, sweepVars, Op
  <2> QED
    BY <1>1, <1>2, <2>1, <2>2, <2>3
<1>4. CASE OpenEpoch
  <2>1. LedgerTypes'
    <3>1. epoch' = 2
      BY <1>4, SMT DEF OpenEpoch
    <3> QED
      BY <1>4, <3>1 DEF OpenEpoch, LedgerTypes
  <2>2. WorkerTypes' /\ SweepTypes' /\ IntentTypes'
    BY <1>4, IntentFrame DEF OpenEpoch, WorkerTypes, sightVars, SweepTypes, sweepVars, Op
  <2> QED
    BY <1>1, <1>2, <2>1, <2>2
<1>5. CASE CarryCapital
  <2>1. LedgerTypes'
    <3>1. carried[epoch] + Closing \in Nat
      BY FillAssumption, SMT DEF LedgerTypes
    <3>2. [carried EXCEPT ![epoch] = @ + Closing] \in [1 .. 2 -> Nat]
      BY <3>1 DEF LedgerTypes
    <3> QED
      BY <1>5, <3>2 DEF CarryCapital, CarryEpoch, LedgerTypes
  <2>2. WorkerTypes' /\ SweepTypes' /\ IntentTypes'
    BY <1>5, IntentFrame DEF CarryCapital, WorkerTypes, sightVars, SweepTypes, sweepVars, Op
  <2> QED
    BY <1>1, <1>2, <2>1, <2>2
<1>6. CASE Die
  <2>1. LedgerTypes'
    BY <1>6, LedgerFrame DEF Die
  <2>2. IntentTypes'
    BY <1>6, NobodyWaits DEF Die, IntentTypes
  <2>3. WorkerTypes'
    BY <1>6 DEF Die, WorkerTypes
  <2>4. SweepTypes'
    BY <1>6 DEF Die, SweepTypes, Op
  <2> QED
    BY <1>1, <1>2, <2>1, <2>2, <2>3, <2>4
<1> QED
  BY <1>3, <1>4, <1>5, <1>6

LEMMA TypesBegin == FillInit => Types
<1> SUFFICES ASSUME FillInit PROVE Types
  OBVIOUS
<1>1. \A S : <<>> \in Seq(S)
  BY EmptySeq
<1>2. Len(ops) = 0 /\ MaxOps \in Nat
  BY FillAssumption, EmptySeq DEF FillInit
<1>3. LedgerTypes /\ FaultTypes
  <2>1. epoch \in 1 .. 2 /\ carried \in [1 .. 2 -> Nat]
    BY SMT DEF FillInit
  <2> QED
    BY <1>1, <2>1 DEF FillInit, LedgerTypes, FaultTypes
<1>4. OpTypes /\ IntentTypes
  <2>1. Len(ops) <= MaxOps
    BY <1>2, SMT
  <2>2. OpTypes
    BY <1>1, <2>1, FlatIsPosition DEF FillInit, OpTypes
  <2>3. waiting \in 0 .. Len(ops) /\ chat \in BOOLEAN /\ booked = FALSE
    BY <2>2, NobodyWaits DEF FillInit
  <2> QED
    BY <2>2, <2>3 DEF IntentTypes
<1>5. WorkerTypes /\ SweepTypes
  BY DEF FillInit, WorkerTypes, SweepTypes
<1> QED
  BY <1>3, <1>4, <1>5 DEF Types

LEMMA TypesStep == Types /\ [FillNext]_fillVars => Types'
<1> SUFFICES ASSUME Types, [FillNext]_fillVars PROVE Types'
  OBVIOUS
<1>1. CASE UNCHANGED fillVars
  BY <1>1, LedgerFrame, OpFrame, IntentFrame, WorkerFrame, SweepFrame
     DEF fillVars, Types, FaultTypes
<1>2. CASE FillNext
  BY <1>2, TickSteps, SendStep, ChainSteps, IntentSteps, SweepSteps, ArmSteps DEF FillNext
<1> QED
  BY <1>1, <1>2

LEMMA TypesHold == FillSpec => []Types
  BY TypesBegin, TypesStep, PTL DEF FillSpec

(* The books of a position stay what their columns can hold: no quantity   *)
(* and no cost is ever negative, whatever is sold of what was tracked.     *)
THEOREM FillTypeCorrect == FillSpec => []FillTypeOK
  BY TypesHold, TypesAreTypeOK, PTL

-----------------------------------------------------------------------------
(* The rows and the journal.                                               *)

LEMMA FaultsOnlyGrow ==
  ASSUME FaultTypes, AnyFault, NEW F, NoneOf(F)'
  PROVE  NoneOf(F)
<1>1. CASE UNCHANGED failed
  BY <1>1 DEF NoneOf
<1>2. ASSUME NEW f, Fault(f) PROVE NoneOf(F)
  <2>1. failed' = Append(failed, f) /\ failed \in Seq(FillFaults) /\ f \in FillFaults
    BY <1>2 DEF Fault, FaultTypes
  <2>2. /\ Len(failed') = Len(failed) + 1 /\ Len(failed) \in Nat
        /\ \A i \in 1 .. Len(failed) : failed'[i] = failed[i]
    BY <2>1, AppendProperties, LenProperties
  <2>3. \A i \in 1 .. Len(failed) : i \in 1 .. Len(failed')
    BY <2>2, SMT
  <2> QED
    BY <2>2, <2>3 DEF NoneOf
<1> QED
  BY <1>1, <1>2 DEF AnyFault

LEMMA AFaultIsKnown ==
  ASSUME FaultTypes, NEW f, Fault(f), NEW F, f \in F
  PROVE  ~NoneOf(F)'
<1>1. failed' = Append(failed, f) /\ failed \in Seq(FillFaults) /\ f \in FillFaults
  BY DEF Fault, FaultTypes
<1>2. Len(failed') = Len(failed) + 1 /\ Len(failed) \in Nat /\ failed'[Len(failed) + 1] = f
  BY <1>1, AppendProperties, LenProperties
<1>3. Len(failed) + 1 \in 1 .. Len(failed')
  BY <1>2, SMT
<1> QED
  BY <1>2, <1>3 DEF NoneOf

(* Who may settle a row now.                                               *)
Writing(n) == n = waiting \/ \E s \in Sweepers : n \in todo[s]

(* An operation has at most one row that waits for its outcome, and no row *)
(* or entry is of an operation that was never sent.                        *)
OneWaits ==
  /\ \A n \in Op : \A i, j \in Submitted(n) : i = j
  /\ \A i \in 1 .. Len(rows) : rows[i].op \in Op
  /\ \A i \in 1 .. Len(journal) : journal[i].op \in Op
  /\ \A s \in Sweepers : s \notin sweeps => todo[s] = {}

(* With every history read, the boundary comes before the first operation. *)
EarlyBoundary ==
  NoneOf({"unread"}) =>
    /\ (epoch = 1 /\ legacy) => ops = <<>> /\ phase # "up"
    /\ \A i \in 1 .. Len(rows) : rows[i].epoch = epoch

(* Without a second arm, nobody writes while it may move.                  *)
QuietBoundary ==
  NoneOf({"rearm"}) =>
    /\ phase # "up" => waiting = 0 /\ "detached" \notin sweeps
    /\ \A n \in Op : Writing(n) => \A i \in Submitted(n) : rows[i].epoch = epoch

Filing == OneWaits /\ EarlyBoundary /\ QuietBoundary

Calm == NoneOf({"unread"}) \/ NoneOf({"rearm"})

LEMMA WritesNow == Filing /\ Calm => \A n \in Op : Writing(n) => \A i \in Submitted(n) : rows[i].epoch = epoch
<1> SUFFICES ASSUME Filing, Calm, NEW n \in Op, Writing(n), NEW i \in Submitted(n) PROVE rows[i].epoch = epoch
  OBVIOUS
<1>1. i \in 1 .. Len(rows)
  BY DEF Submitted
<1> QED
  BY <1>1 DEF Filing, EarlyBoundary, QuietBoundary, Calm

(* The places of a value in a sequence it is appended to.                  *)
LEMMA PlacesOfAppend ==
  ASSUME NEW S, NEW seq \in Seq(S), NEW x \in S, NEW y
  PROVE  {i \in 1 .. Len(Append(seq, x)) : Append(seq, x)[i] = y}
           = {i \in 1 .. Len(seq) : seq[i] = y} \cup (IF x = y THEN {Len(seq) + 1} ELSE {})
<1>1. /\ Len(seq) \in Nat /\ Len(Append(seq, x)) = Len(seq) + 1
      /\ Append(seq, x)[Len(seq) + 1] = x
      /\ \A i \in 1 .. Len(seq) : Append(seq, x)[i] = seq[i]
  BY AppendProperties, LenProperties
<1>2. 1 .. Len(seq) + 1 = 1 .. Len(seq) \cup {Len(seq) + 1}
  BY <1>1, SMT
<1> QED
  BY <1>1, <1>2

LEMMA OneMore ==
  ASSUME NEW n \in Nat, NEW S \in SUBSET (1 .. n), NEW x, x \notin S
  PROVE  Cardinality(S \cup {x}) = Cardinality(S) + 1 /\ Cardinality(S) \in Nat
<1>1. IsFiniteSet(1 .. n)
  BY FS_Interval
<1>2. IsFiniteSet(S)
  BY <1>1, FS_Subset
<1> QED
  BY <1>2, FS_AddElement, FS_CardinalityType

LEMMA EntriesAfter ==
  ASSUME LedgerTypes, NEW n \in 1 .. MaxOps, NEW status, AddTrade(n, status), NEW m, NEW e
  PROVE  EntriesOf(m, e)' = EntriesOf(m, e) \cup
           (IF status = "landed" /\ m = n /\ e = epoch THEN {Len(journal) + 1} ELSE {})
<1> DEFINE x == [op |-> n, epoch |-> epoch]
<1>1. x \in Entry /\ journal \in Seq(Entry)
  BY DEF LedgerTypes, Entry
<1>2. x = [op |-> m, epoch |-> e] <=> m = n /\ e = epoch
  BY SMT
<1>3. CASE status = "landed"
  <2>1. journal' = Append(journal, x)
    BY <1>3 DEF AddTrade, Journalled
  <2> HIDE DEF x
  <2> QED
    BY <1>1, <1>2, <1>3, <2>1, PlacesOfAppend DEF EntriesOf
<1>4. CASE status # "landed"
  BY <1>4 DEF EntriesOf, AddTrade, Journalled
<1> QED
  BY <1>3, <1>4

(* The row a write settles, or the place of the one it adds.               *)
LEMMA RowsAfter ==
  ASSUME LedgerTypes, NEW n \in 1 .. MaxOps, NEW status \in {"landed", "reverted"}, AddTrade(n, status),
         \A i, j \in Submitted(n) : i = j, \A i \in Submitted(n) : rows[i].epoch = epoch,
         NEW m, NEW e
  PROVE  \E k \in Nat : /\ k \notin RowsOf(m, e)
                        /\ RowsOf(m, e)' = RowsOf(m, e) \cup
                             (IF status = "landed" /\ m = n /\ e = epoch THEN {k} ELSE {})
<1> DEFINE x == [op |-> n, status |-> status, epoch |-> epoch]
<1> DEFINE y == [op |-> m, status |-> "landed", epoch |-> e]
<1>0. Len(rows) \in Nat /\ x \in Row /\ \A i \in 1 .. Len(rows) : rows[i] \in Row
  BY LenProperties, ElementOfSeq DEF LedgerTypes, Row
<1>1. x = y <=> status = "landed" /\ m = n /\ e = epoch
  BY SMT
<1>2. CASE Submitted(n) = {}
  <2>1. rows' = Append(rows, x)
    BY <1>2 DEF AddTrade
  <2>2. RowsOf(m, e)' = RowsOf(m, e) \cup (IF x = y THEN {Len(rows) + 1} ELSE {})
    <3> HIDE DEF x, y
    <3>1. {i \in 1 .. Len(rows') : rows'[i] = y}
            = {i \in 1 .. Len(rows) : rows[i] = y} \cup (IF x = y THEN {Len(rows) + 1} ELSE {})
      BY <1>0, <2>1, PlacesOfAppend DEF LedgerTypes
    <3> QED
      BY <3>1 DEF RowsOf, y
  <2>3. Len(rows) + 1 \in Nat /\ Len(rows) + 1 \notin RowsOf(m, e)
    BY <1>0, SMT DEF RowsOf
  <2> HIDE DEF x, y
  <2> QED
    BY <1>1, <2>2, <2>3
<1>3. CASE Submitted(n) # {}
  <2>1. PICK k : Submitted(n) = {k}
    BY <1>3
  <2>2. k \in 1 .. Len(rows) /\ rows[k].op = n /\ rows[k].status = "submitted" /\ rows[k].epoch = epoch
    BY <2>1 DEF Submitted
  <2>3. rows' = [i \in 1 .. Len(rows) |-> IF i = k THEN [rows[i] EXCEPT !.status = status] ELSE rows[i]]
    BY <1>3, <2>1 DEF AddTrade
  <2>4. Len(rows') = Len(rows) /\ \A i \in 1 .. Len(rows) : i # k => rows'[i] = rows[i]
    BY <1>0, <2>3, LenProperties, SMT
  <2>5. rows'[k] = x
    <3>1. rows'[k] = [rows[k] EXCEPT !.status = status]
      BY <2>2, <2>3
    <3>2. rows[k] \in Row
      BY <1>0, <2>2
    <3> QED
      BY <2>2, <3>1, <3>2 DEF Row
  <2>6. rows[k] # y
    BY <2>2
  <2> HIDE DEF x, y
  <2>7. k \in Nat /\ k \notin RowsOf(m, e)
    <3>1. k \notin RowsOf(m, e)
      BY <2>6 DEF RowsOf, y
    <3> QED
      BY <2>2, <3>1, SMT
  <2>8. {i \in 1 .. Len(rows) : rows'[i] = y}
          = {i \in 1 .. Len(rows) : rows[i] = y} \cup (IF x = y THEN {k} ELSE {})
    BY <2>2, <2>4, <2>5, <2>6
  <2>9. RowsOf(m, e)' = RowsOf(m, e) \cup (IF x = y THEN {k} ELSE {})
    BY <2>4, <2>8 DEF RowsOf, y
  <2> QED
    BY <1>1, <2>7, <2>9
<1> QED
  BY <1>2, <1>3

LEMMA AddTradeAgrees ==
  ASSUME LedgerTypes, NEW n \in 1 .. MaxOps, NEW status \in {"landed", "reverted"}, AddTrade(n, status),
         \A i, j \in Submitted(n) : i = j, \A i \in Submitted(n) : rows[i].epoch = epoch,
         NEW m, NEW e, Cardinality(RowsOf(m, e)) = Cardinality(EntriesOf(m, e))
  PROVE  Cardinality(RowsOf(m, e)') = Cardinality(EntriesOf(m, e)')
<1>1. PICK k \in Nat : /\ k \notin RowsOf(m, e)
                       /\ RowsOf(m, e)' = RowsOf(m, e) \cup
                            (IF status = "landed" /\ m = n /\ e = epoch THEN {k} ELSE {})
  BY RowsAfter
<1>2. EntriesOf(m, e)' = EntriesOf(m, e) \cup
        (IF status = "landed" /\ m = n /\ e = epoch THEN {Len(journal) + 1} ELSE {})
  BY EntriesAfter
<1>3. /\ Len(rows) \in Nat /\ Len(journal) \in Nat
      /\ RowsOf(m, e) \subseteq 1 .. Len(rows) /\ EntriesOf(m, e) \subseteq 1 .. Len(journal)
      /\ Len(journal) + 1 \notin EntriesOf(m, e)
  <2>1. Len(rows) \in Nat /\ Len(journal) \in Nat
    BY LenProperties DEF LedgerTypes
  <2>2. RowsOf(m, e) \subseteq 1 .. Len(rows) /\ EntriesOf(m, e) \subseteq 1 .. Len(journal)
    BY DEF RowsOf, EntriesOf
  <2>3. Len(journal) + 1 \notin 1 .. Len(journal)
    BY <2>1, SMT
  <2> QED
    BY <2>1, <2>2, <2>3
<1>4. /\ Cardinality(RowsOf(m, e) \cup {k}) = Cardinality(RowsOf(m, e)) + 1
      /\ Cardinality(EntriesOf(m, e) \cup {Len(journal) + 1}) = Cardinality(EntriesOf(m, e)) + 1
  BY <1>1, <1>3, OneMore
<1>5. CASE status = "landed" /\ m = n /\ e = epoch
  BY <1>1, <1>2, <1>4, <1>5
<1>6. CASE ~(status = "landed" /\ m = n /\ e = epoch)
  BY <1>1, <1>2, <1>6
<1> QED
  BY <1>5, <1>6

(* What a write leaves of the other rows.                                  *)
LEMMA RowsKept ==
  ASSUME LedgerTypes, NEW n, NEW status \in {"landed", "reverted"}, AddTrade(n, status)
  PROVE  /\ \A m : Submitted(m)' \subseteq Submitted(m)
         /\ \A i \in 1 .. Len(rows') : \/ /\ i \in 1 .. Len(rows)
                                          /\ rows'[i].epoch = rows[i].epoch /\ rows'[i].op = rows[i].op
                                       \/ rows'[i].epoch = epoch /\ rows'[i].op = n
         /\ \A i \in 1 .. Len(journal') : \/ i \in 1 .. Len(journal) /\ journal'[i] = journal[i]
                                          \/ journal'[i].op = n
<1> DEFINE x == [op |-> n, status |-> status, epoch |-> epoch]
<1> DEFINE z == [op |-> n, epoch |-> epoch]
<1>1. /\ Len(rows) \in Nat /\ Len(journal) \in Nat
      /\ \A i \in 1 .. Len(rows) : rows[i] \in Row
  BY LenProperties, ElementOfSeq DEF LedgerTypes
<1>2. \A i \in 1 .. Len(journal') : \/ i \in 1 .. Len(journal) /\ journal'[i] = journal[i]
                                    \/ journal'[i].op = n
  <2>1. CASE journal' = journal
    BY <2>1
  <2>2. CASE journal' = Append(journal, z)
    <3>1. /\ Len(journal') = Len(journal) + 1 /\ journal'[Len(journal) + 1] = z
          /\ \A i \in 1 .. Len(journal) : journal'[i] = journal[i]
      BY <2>2, AppendProperties DEF LedgerTypes
    <3>2. \A i \in 1 .. Len(journal) + 1 : i \in 1 .. Len(journal) \/ i = Len(journal) + 1
      BY <1>1, SMT
    <3> QED
      BY <3>1, <3>2
  <2> QED
    BY <2>1, <2>2 DEF AddTrade, Journalled
<1>3. CASE Submitted(n) = {}
  <2>1. rows' = Append(rows, x)
    BY <1>3 DEF AddTrade
  <2>2. /\ Len(rows') = Len(rows) + 1 /\ rows'[Len(rows) + 1] = x
        /\ \A i \in 1 .. Len(rows) : rows'[i] = rows[i]
    BY <2>1, AppendProperties DEF LedgerTypes
  <2>3. \A i \in 1 .. Len(rows) + 1 : i \in 1 .. Len(rows) \/ i = Len(rows) + 1
    BY <1>1, SMT
  <2> QED
    BY <1>2, <2>2, <2>3 DEF Submitted
<1>4. CASE Submitted(n) # {}
  <2>1. rows' = [i \in 1 .. Len(rows) |->
                  IF i \in Submitted(n) THEN [rows[i] EXCEPT !.status = status] ELSE rows[i]]
    BY <1>4 DEF AddTrade
  <2>2. Len(rows') = Len(rows)
    BY <1>1, <2>1, LenProperties, SMT
  <2>3. \A i \in 1 .. Len(rows) :
          /\ rows'[i].epoch = rows[i].epoch /\ rows'[i].op = rows[i].op
          /\ rows'[i].status \in {rows[i].status, status}
    BY <1>1, <2>1 DEF Row
  <2> QED
    BY <1>2, <2>2, <2>3 DEF Submitted
<1> QED
  BY <1>3, <1>4

(* Only the boundary moves the epoch.                                      *)
Carrying == phase = "carry" => epoch = 2

Kept == Filing /\ Carrying /\ JournalAgrees

(* Steps that write nothing.                                               *)
LEMMA KeptQuietly ==
  ASSUME Types, Kept, AnyFault,
         UNCHANGED <<legacy, epoch, rows, journal>>, Op' = Op, ops = <<>> => ops' = <<>>,
         \A n \in Op : Writing(n)' => Writing(n),
         \A s \in Sweepers : s \notin sweeps' => todo'[s] = {},
         NoneOf({"unread"})' => ((epoch = 1 /\ legacy) => phase' # "up"),
         NoneOf({"rearm"})' => (phase' # "up" => waiting' = 0 /\ "detached" \notin sweeps'),
         phase' = "carry" => phase = "carry"
  PROVE  Kept'
<1>1. /\ NoneOf({"unread"})' => NoneOf({"unread"})
      /\ NoneOf({"rearm"})' => NoneOf({"rearm"})
  BY FaultsOnlyGrow DEF Types
<1>2. \A n : Submitted(n)' = Submitted(n)
  BY DEF Submitted
<1>3. OneWaits'
  BY <1>2 DEF Kept, Filing, OneWaits
<1>4. EarlyBoundary'
  BY <1>1 DEF Kept, Filing, EarlyBoundary
<1>5. QuietBoundary'
  BY <1>1, <1>2 DEF Kept, Filing, QuietBoundary
<1>6. JournalAgrees'
  <2> SUFFICES ASSUME Calm', NEW m \in Op, NEW e \in 1 .. 2
               PROVE  Cardinality(RowsOf(m, e)') = Cardinality(EntriesOf(m, e)')
    BY DEF JournalAgrees, Calm
  <2>1. RowsOf(m, e)' = RowsOf(m, e) /\ EntriesOf(m, e)' = EntriesOf(m, e)
    BY DEF RowsOf, EntriesOf
  <2>2. Calm
    BY <1>1 DEF Calm
  <2> QED
    BY <2>1, <2>2 DEF Kept, JournalAgrees, Calm
<1> QED
  BY <1>3, <1>4, <1>5, <1>6 DEF Kept, Filing, Carrying

LEMMA KeptWritten ==
  ASSUME Types, Kept, AnyFault, NEW n \in Op, Writing(n),
         NEW status \in {"landed", "reverted"}, AddTrade(n, status),
         UNCHANGED <<ops, phase, sweeps>>,
         \A m \in Op : Writing(m)' => Writing(m),
         \A s \in Sweepers : s \notin sweeps' => todo'[s] = {},
         waiting = 0 => waiting' = 0
  PROVE  Kept'
<1>1. /\ NoneOf({"unread"})' => NoneOf({"unread"})
      /\ NoneOf({"rearm"})' => NoneOf({"rearm"})
  BY FaultsOnlyGrow DEF Types
<1>2. /\ \A m : Submitted(m)' \subseteq Submitted(m)
      /\ \A i \in 1 .. Len(rows') : \/ /\ i \in 1 .. Len(rows)
                                       /\ rows'[i].epoch = rows[i].epoch /\ rows'[i].op = rows[i].op
                                    \/ rows'[i].epoch = epoch /\ rows'[i].op = n
      /\ \A i \in 1 .. Len(journal') : \/ i \in 1 .. Len(journal) /\ journal'[i] = journal[i]
                                       \/ journal'[i].op = n
  BY RowsKept DEF Types
<1>3. Op' = Op /\ epoch' = epoch /\ legacy' = legacy
  BY DEF Op, AddTrade
<1>4. OneWaits'
  BY <1>2, <1>3 DEF Kept, Filing, OneWaits
<1>5. EarlyBoundary'
  BY <1>1, <1>2, <1>3 DEF Kept, Filing, EarlyBoundary
<1>6. QuietBoundary'
  <2>1. \A m : \A i \in Submitted(m) : rows[i].epoch = epoch =>
          (i \in Submitted(m)' => rows'[i].epoch = epoch)
    BY <1>2 DEF Submitted
  <2> QED
    BY <1>1, <1>2, <1>3, <2>1 DEF Kept, Filing, QuietBoundary
<1>7. JournalAgrees'
  <2> SUFFICES ASSUME Calm', NEW m \in Op, NEW e \in 1 .. 2
               PROVE  Cardinality(RowsOf(m, e)') = Cardinality(EntriesOf(m, e)')
    BY <1>3 DEF JournalAgrees, Calm
  <2>1. Calm
    BY <1>1 DEF Calm
  <2>2. \A i \in Submitted(n) : rows[i].epoch = epoch
    BY <2>1, WritesNow DEF Kept
  <2>3. \A i, j \in Submitted(n) : i = j
    BY DEF Kept, Filing, OneWaits
  <2>4. Cardinality(RowsOf(m, e)) = Cardinality(EntriesOf(m, e))
    BY <2>1 DEF Kept, JournalAgrees, Calm
  <2>5. n \in 1 .. MaxOps
    BY OpIsSent DEF Types
  <2> QED
    BY <2>2, <2>3, <2>4, <2>5, AddTradeAgrees DEF Types
<1> QED
  BY <1>3, <1>4, <1>5, <1>6, <1>7 DEF Kept, Filing, Carrying

LEMMA KeptByTick ==
  Types /\ Kept /\ (ReadHoldings \/ CloseBasis \/ TickDone \/ SetWatch \/ Land \/ Revert \/ BookFill) => Kept'
<1> SUFFICES ASSUME Types, Kept,
                    ReadHoldings \/ CloseBasis \/ TickDone \/ SetWatch \/ Land \/ Revert \/ BookFill
             PROVE  Kept'
  OBVIOUS
<1>1. AnyFault
  BY EveryFault DEF FillNext
<1>2. UNCHANGED <<legacy, epoch, rows, journal, waiting, phase, sweeps, todo>>
  BY DEF ReadHoldings, CloseBasis, TickDone, SetWatch, Land, Revert, BookFill,
         ledgerVars, intentVars, sweepVars
<1>3. Op' = Op /\ (ops = <<>> => ops' = <<>>)
  <2>1. CASE Land \/ Revert
    <3>1. PICK n \in Op, fate \in {"landed", "reverted"} : ops' = [ops EXCEPT ![n].fate = fate]
      BY <2>1 DEF Land, Revert
    <3>2. DOMAIN ops' = DOMAIN ops /\ Len(ops) \in Nat /\ DOMAIN ops = 1 .. Len(ops)
      BY <3>1, LenProperties DEF Types, OpTypes
    <3>3. ops' \in [1 .. Len(ops) -> Sent]
      <4>1. [ops[n] EXCEPT !.fate = fate] \in Sent
        BY OpIsSent DEF Types, Sent, Fates
      <4>2. ops \in [1 .. Len(ops) -> Sent]
        BY LenProperties DEF Types, OpTypes
      <4> QED
        BY <3>1, <4>1, <4>2
    <3>4. Len(ops') = Len(ops)
      BY <3>2, <3>3, LenProperties, SeqDef, SMT
    <3>5. ops # <<>>
      BY <3>2, EmptySeq, SMT DEF Op
    <3> QED
      BY <3>4, <3>5 DEF Op
  <2>2. CASE ~(Land \/ Revert)
    BY <2>2 DEF ReadHoldings, CloseBasis, TickDone, SetWatch, BookFill, Op
  <2> QED
    BY <2>1, <2>2
<1>4. \A n : Writing(n)' <=> Writing(n)
  BY <1>2 DEF Writing
<1>5. \A F : NoneOf(F)' => NoneOf(F)
  BY <1>1, FaultsOnlyGrow DEF Types
<1>6. /\ \A s \in Sweepers : s \notin sweeps' => todo'[s] = {}
      /\ NoneOf({"unread"})' => ((epoch = 1 /\ legacy) => phase' # "up")
      /\ NoneOf({"rearm"})' => (phase' # "up" => waiting' = 0 /\ "detached" \notin sweeps')
  BY <1>2, <1>5 DEF Kept, Filing, OneWaits, EarlyBoundary, QuietBoundary
<1> QED
  BY <1>1, <1>2, <1>3, <1>4, <1>6, KeptQuietly

LEMMA KeptByArm ==
  Types /\ Kept /\ (ReceiptReverted \/ Unresolved \/ SweepEnd \/ NoBoundary \/ CarryCapital \/ Rearm \/ Boot \/ Die) => Kept'
<1> SUFFICES ASSUME Types, Kept,
                    ReceiptReverted \/ Unresolved \/ SweepEnd \/ NoBoundary \/ CarryCapital \/ Rearm \/ Boot \/ Die
             PROVE  Kept'
  OBVIOUS
<1>1. AnyFault
  BY EveryFault DEF FillNext
<1>2. UNCHANGED <<legacy, epoch, rows, journal, ops>> /\ Op' = Op
  BY DEF ReceiptReverted, Unresolved, SweepEnd, NoBoundary, CarryCapital, Rearm, Boot, Die, ledgerVars, Op
<1>3. \A F : NoneOf(F)' => NoneOf(F)
  BY <1>1, FaultsOnlyGrow DEF Types
<1>4. 0 \notin Op
  BY SMT DEF Op
<1>5. CASE ReceiptReverted \/ Unresolved
  <2>1. UNCHANGED <<phase, sweeps, todo>> /\ waiting' = 0
    BY <1>5 DEF ReceiptReverted, Unresolved, sweepVars
  <2>2. \A n \in Op : Writing(n)' => Writing(n)
    BY <1>4, <2>1 DEF Writing
  <2>3. /\ \A s \in Sweepers : s \notin sweeps' => todo'[s] = {}
        /\ NoneOf({"unread"})' => ((epoch = 1 /\ legacy) => phase' # "up")
        /\ NoneOf({"rearm"})' => (phase' # "up" => waiting' = 0 /\ "detached" \notin sweeps')
    BY <1>3, <2>1 DEF Kept, Filing, OneWaits, EarlyBoundary, QuietBoundary
  <2> QED
    BY <1>1, <1>2, <2>1, <2>2, <2>3, KeptQuietly
<1>6. CASE SweepEnd
  <2>1. PICK s \in sweeps : /\ sweeps' = sweeps \ {s} /\ todo' = [todo EXCEPT ![s] = {}]
                            /\ phase' = IF s = "arm" THEN "boundary" ELSE phase
    BY <1>6 DEF SweepEnd
  <2>2. waiting' = waiting /\ todo \in [Sweepers -> SUBSET Op] /\ ("arm" \in sweeps => phase = "sweeping")
    BY <1>6 DEF SweepEnd, intentVars, Types, SweepTypes
  <2>3. \A n \in Op : Writing(n)' => Writing(n)
    BY <2>1, <2>2 DEF Writing
  <2>4. /\ \A t \in Sweepers : t \notin sweeps' => todo'[t] = {}
        /\ NoneOf({"unread"})' => ((epoch = 1 /\ legacy) => phase' # "up")
        /\ NoneOf({"rearm"})' => (phase' # "up" => waiting' = 0 /\ "detached" \notin sweeps')
        /\ phase' = "carry" => phase = "carry"
    BY <1>3, <2>1, <2>2 DEF Kept, Filing, OneWaits, EarlyBoundary, QuietBoundary
  <2> QED
    BY <1>1, <1>2, <2>3, <2>4, KeptQuietly
<1>7. CASE NoBoundary \/ CarryCapital \/ Rearm \/ Boot
  <2>1. UNCHANGED <<waiting, sweeps, todo>>
    BY <1>7 DEF NoBoundary, CarryCapital, Rearm, Boot, intentVars, sweepVars
  <2>2. \A n \in Op : Writing(n)' => Writing(n)
    BY <2>1 DEF Writing
  <2>3. \A s \in Sweepers : s \notin sweeps' => todo'[s] = {}
    BY <2>1 DEF Kept, Filing, OneWaits
  <2>4. NoneOf({"unread"})' => ((epoch = 1 /\ legacy) => phase' # "up")
    <3>1. CASE NoBoundary
      <4>1. (epoch > 1 \/ ~legacy) \/ Fault("unread")
        BY <3>1 DEF NoBoundary
      <4>2. Fault("unread") => ~NoneOf({"unread"})'
        BY AFaultIsKnown DEF Types
      <4>3. epoch > 1 => epoch # 1
        BY SMT DEF Types, LedgerTypes
      <4> QED
        BY <4>1, <4>2, <4>3
    <3>2. CASE CarryCapital
      BY <3>2, SMT DEF CarryCapital, Kept, Carrying
    <3>3. CASE Rearm \/ Boot
      BY <3>3 DEF Rearm, Boot
    <3> QED
      BY <1>7, <3>1, <3>2, <3>3
  <2>5. NoneOf({"rearm"})' => (phase' # "up" => waiting' = 0 /\ "detached" \notin sweeps')
    <3>1. CASE Rearm
      <4>1. ~NoneOf({"rearm"})'
        BY <3>1, AFaultIsKnown DEF Rearm, Types
      <4> QED
        BY <4>1
    <3>2. CASE ~Rearm
      <4>1. phase # "up"
        BY <1>7, <3>2 DEF NoBoundary, CarryCapital, Boot
      <4> QED
        BY <1>3, <2>1, <4>1 DEF Kept, Filing, QuietBoundary
    <3> QED
      BY <3>1, <3>2
  <2>6. phase' # "carry"
    BY <1>7 DEF NoBoundary, CarryCapital, Rearm, Boot
  <2> QED
    BY <1>1, <1>2, <2>2, <2>3, <2>4, <2>5, <2>6, KeptQuietly
<1>8. CASE Die
  <2>1. phase' = "down" /\ waiting' = 0 /\ sweeps' = {} /\ todo' = [s \in Sweepers |-> {}]
    BY <1>8 DEF Die
  <2>2. \A n \in Op : ~Writing(n)'
    BY <1>4, <2>1 DEF Writing
  <2> QED
    BY <1>1, <1>2, <2>1, <2>2, KeptQuietly
<1> QED
  BY <1>5, <1>6, <1>7, <1>8

LEMMA KeptBySend == Types /\ Kept /\ Send => Kept'
<1> SUFFICES ASSUME Types, Kept, Send PROVE Kept'
  OBVIOUS
<1>0. PICK new, x : new = Len(ops) + 1 /\ x = [op |-> new, status |-> "submitted", epoch |-> epoch]
  OBVIOUS
<1>1. AnyFault
  BY EveryFault DEF FillNext
<1>2. \A F : NoneOf(F)' => NoneOf(F)
  BY <1>1, FaultsOnlyGrow DEF Types
<1>3. /\ UNCHANGED <<legacy, epoch, journal, phase, sweeps, todo>>
      /\ phase = "up" /\ waiting' = new /\ rows' = Append(rows, x)
  BY <1>0 DEF Send, sweepVars
<1>4. Op' = Op \cup {new} /\ new \notin Op
  <2>1. PICK o \in Orders : ops' = Append(ops, [order |-> o, fate |-> "sent"])
    BY DEF Send
  <2>2. Len(ops') = Len(ops) + 1 /\ Len(ops) \in Nat
    BY <2>1, LenProperties, AppendProperties DEF Types, OpTypes, Sent, Fates
  <2> QED
    BY <1>0, <2>2, SMT DEF Op
<1>5. /\ Len(rows) \in Nat /\ Len(rows') = Len(rows) + 1 /\ rows'[Len(rows) + 1] = x
      /\ \A i \in 1 .. Len(rows) : rows'[i] = rows[i]
  <2>1. new \in 1 .. MaxOps
    BY <1>0, LenOps, SMT DEF Types, Send
  <2>2. x \in Row
    BY <1>0, <2>1 DEF Row, Types, LedgerTypes
  <2> QED
    BY <1>3, <2>2, LenProperties, AppendProperties DEF Types, LedgerTypes
<1>6. 1 .. Len(rows') = 1 .. Len(rows) \cup {Len(rows) + 1} /\ Len(rows) + 1 \notin 1 .. Len(rows)
  BY <1>5, SMT
<1>7. \A i \in 1 .. Len(rows) : rows[i].op # new
  BY <1>4 DEF Kept, Filing, OneWaits
<1>8. \A m \in Op : Submitted(m)' = Submitted(m)
  BY <1>0, <1>4, <1>5, <1>6 DEF Submitted
<1>9. Submitted(new)' = {Len(rows) + 1}
  BY <1>0, <1>5, <1>6, <1>7 DEF Submitted
<1>10. OneWaits'
  BY <1>0, <1>3, <1>4, <1>5, <1>6, <1>8, <1>9 DEF Kept, Filing, OneWaits
<1>11. EarlyBoundary'
  BY <1>0, <1>2, <1>3, <1>5, <1>6 DEF Kept, Filing, EarlyBoundary
<1>12. QuietBoundary'
  <2> SUFFICES ASSUME NoneOf({"rearm"})', NEW m \in Op', Writing(m)', NEW i \in Submitted(m)'
               PROVE  rows'[i].epoch = epoch
    BY <1>3 DEF QuietBoundary
  <2>1. CASE m = new
    BY <1>0, <1>5, <1>9, <2>1
  <2>2. CASE m # new
    <3>1. m \in Op /\ Writing(m) /\ i \in Submitted(m)
      BY <1>3, <1>4, <1>8, <2>2 DEF Writing
    <3>2. rows[i].epoch = epoch
      BY <1>2, <3>1 DEF Kept, Filing, QuietBoundary
    <3> QED
      BY <1>5, <3>1, <3>2 DEF Submitted
  <2> QED
    BY <2>1, <2>2
<1>13. JournalAgrees'
  <2> SUFFICES ASSUME Calm', NEW m \in Op', NEW e \in 1 .. 2
               PROVE  Cardinality(RowsOf(m, e)') = Cardinality(EntriesOf(m, e)')
    BY DEF JournalAgrees, Calm
  <2>1. RowsOf(m, e)' = RowsOf(m, e)
    BY <1>0, <1>5, <1>6 DEF RowsOf
  <2>2. EntriesOf(m, e)' = EntriesOf(m, e)
    BY <1>3 DEF EntriesOf
  <2>3. CASE m = new
    <3>1. RowsOf(new, e) = {}
      BY <1>7 DEF RowsOf
    <3>2. EntriesOf(new, e) = {}
      BY <1>4 DEF EntriesOf, Kept, Filing, OneWaits
    <3> QED
      BY <2>1, <2>2, <2>3, <3>1, <3>2
  <2>4. CASE m # new
    BY <1>2, <1>4, <2>1, <2>2, <2>4 DEF Kept, JournalAgrees, Calm
  <2> QED
    BY <2>3, <2>4
<1>14. Carrying'
  BY <1>3 DEF Carrying
<1> QED
  BY <1>10, <1>11, <1>12, <1>13, <1>14 DEF Kept, Filing

LEMMA KeptBySettling == Types /\ Kept /\ (RecordTrade \/ SweepWrite) => Kept'
<1> SUFFICES ASSUME Types, Kept, RecordTrade \/ SweepWrite PROVE Kept'
  OBVIOUS
<1>1. AnyFault
  BY EveryFault DEF FillNext
<1>2. 0 \notin Op
  BY SMT DEF Op
<1>3. CASE RecordTrade
  <2>1. /\ UNCHANGED <<ops, phase, sweeps, todo>> /\ waiting' = 0 /\ Op' = Op
        /\ waiting # 0 /\ booked
    BY <1>3 DEF RecordTrade, sweepVars, Op
  <2>2. waiting \in Op
    BY <2>1, LenOps, SMT DEF Op, Types, IntentTypes
  <2>3. ops[waiting].fate = "landed"
    BY <2>1 DEF Types, IntentTypes
  <2>4. \A n \in Op : Writing(n)' => Writing(n)
    BY <1>2, <2>1 DEF Writing
  <2>5. \A s \in Sweepers : s \notin sweeps' => todo'[s] = {}
    BY <2>1 DEF Kept, Filing, OneWaits
  <2>6. CASE AddTrade(waiting, "landed")
    <3>1. Writing(waiting)
      BY DEF Writing
    <3> QED
      BY <1>1, <2>1, <2>2, <2>3, <2>4, <2>5, <2>6, <3>1, KeptWritten
  <2>7. CASE UNCHANGED ledgerVars
    <3>1. /\ NoneOf({"unread"})' => NoneOf({"unread"})
          /\ NoneOf({"rearm"})' => NoneOf({"rearm"})
      BY <1>1, FaultsOnlyGrow DEF Types
    <3>2. ops # <<>> /\ (phase' # "up" => ~NoneOf({"rearm"})')
      <4>1. ops # <<>>
        BY <2>2, EmptySeq, SMT DEF Op
      <4>2. phase # "up" /\ NoneOf({"rearm"}) => waiting = 0
        BY DEF Kept, Filing, QuietBoundary
      <4> QED
        BY <2>1, <3>1, <4>1, <4>2
    <3>3. NoneOf({"unread"})' => ((epoch = 1 /\ legacy) => phase' # "up")
      BY <2>1, <3>1 DEF Kept, Filing, EarlyBoundary
    <3>4. UNCHANGED <<legacy, epoch, rows, journal>>
      BY <2>7 DEF ledgerVars
    <3> QED
      BY <1>1, <2>1, <2>4, <2>5, <3>2, <3>3, <3>4, KeptQuietly
  <2> QED
    BY <1>3, <2>6, <2>7 DEF RecordTrade
<1>4. CASE SweepWrite
  <2>1. PICK s \in sweeps : \E n \in todo[s] :
          /\ ops[n].fate # "sent" /\ AddTrade(n, ops[n].fate)
          /\ todo' = [todo EXCEPT ![s] = @ \ {n}]
    BY <1>4 DEF SweepWrite
  <2>2. PICK n \in todo[s] :
          /\ ops[n].fate # "sent" /\ AddTrade(n, ops[n].fate)
          /\ todo' = [todo EXCEPT ![s] = @ \ {n}]
    BY <2>1
  <2>3. UNCHANGED <<ops, phase, sweeps, waiting>> /\ Op' = Op
    BY <1>4 DEF SweepWrite, intentVars, Op
  <2>4. s \in Sweepers /\ n \in Op /\ todo \in [Sweepers -> SUBSET Op]
    BY DEF Types, SweepTypes
  <2>5. ops[n].fate \in {"landed", "reverted"}
    BY <2>2, <2>4, OpIsSent DEF Types, Sent, Fates
  <2>6. Writing(n)
    BY <2>4 DEF Writing
  <2>7. \A m \in Op : Writing(m)' => Writing(m)
    BY <2>2, <2>3, <2>4 DEF Writing
  <2>8. \A t \in Sweepers : t \notin sweeps' => todo'[t] = {}
    BY <2>2, <2>3, <2>4 DEF Kept, Filing, OneWaits
  <2> HIDE DEF Writing
  <2> QED
    BY <1>1, <2>2, <2>3, <2>4, <2>5, <2>6, <2>7, <2>8, KeptWritten
<1> QED
  BY <1>3, <1>4

LEMMA KeptByStart == Types /\ Kept /\ SweepStart => Kept'
<1> SUFFICES ASSUME Types, Kept, SweepStart PROVE Kept'
  OBVIOUS
<1>1. /\ UNCHANGED <<legacy, epoch, rows, journal, ops, waiting, phase, failed>> /\ Op' = Op
      /\ UNCHANGED carried
  BY DEF SweepStart, ledgerVars, intentVars, Op
<1>2. PICK s \in Sweepers \ sweeps : /\ phase = IF s = "arm" THEN "sweeping" ELSE "up"
                                     /\ sweeps' = sweeps \cup {s}
                                     /\ todo' = [todo EXCEPT ![s] = Stranded]
  BY DEF SweepStart
<1>3. todo \in [Sweepers -> SUBSET Op]
  BY DEF Types, SweepTypes
<1>4. \A m : Submitted(m)' = Submitted(m)
  BY <1>1 DEF Submitted
<1>5. \A F : NoneOf(F)' <=> NoneOf(F)
  BY <1>1 DEF NoneOf
<1>6. OneWaits'
  BY <1>1, <1>2, <1>3, <1>4 DEF Kept, Filing, OneWaits
<1>7. EarlyBoundary'
  BY <1>1, <1>5 DEF Kept, Filing, EarlyBoundary
<1>8. QuietBoundary'
  <2> SUFFICES ASSUME NoneOf({"rearm"})
               PROVE  /\ phase # "up" => waiting = 0 /\ "detached" \notin sweeps'
                      /\ \A m \in Op : Writing(m)' => \A i \in Submitted(m) : rows[i].epoch = epoch
    BY <1>1, <1>4, <1>5 DEF QuietBoundary
  <2>1. phase # "up" => waiting = 0 /\ "detached" \notin sweeps'
    BY <1>2 DEF Kept, Filing, QuietBoundary
  <2>2. ASSUME NEW m \in Op, Writing(m)', NEW i \in Submitted(m) PROVE rows[i].epoch = epoch
    <3>1. CASE Writing(m)
      BY <3>1 DEF Kept, Filing, QuietBoundary
    <3>2. CASE ~Writing(m)
      <4>1. m \in Stranded
        BY <1>1, <1>2, <1>3, <2>2, <3>2 DEF Writing
      <4>2. PICK j \in Submitted(m) : rows[j].epoch = epoch
        BY <4>1 DEF Stranded
      <4>3. i = j
        BY <2>2 DEF Kept, Filing, OneWaits
      <4> QED
        BY <4>2, <4>3
    <3> QED
      BY <3>1, <3>2
  <2> QED
    BY <2>1, <2>2
<1>9. JournalAgrees'
  <2>1. \A n, e : RowsOf(n, e)' = RowsOf(n, e) /\ EntriesOf(n, e)' = EntriesOf(n, e)
    BY <1>1 DEF RowsOf, EntriesOf
  <2> QED
    BY <1>1, <1>5, <2>1 DEF Kept, JournalAgrees
<1> QED
  BY <1>1, <1>6, <1>7, <1>8, <1>9 DEF Kept, Filing, Carrying

(* The boundary moves the epoch while nobody writes, or before there is    *)
(* anything to write.                                                      *)
LEMMA KeptByBoundary == Types /\ Kept /\ OpenEpoch => Kept'
<1> SUFFICES ASSUME Types, Kept, OpenEpoch PROVE Kept'
  OBVIOUS
<1>1. /\ UNCHANGED <<legacy, rows, journal, ops, waiting, sweeps, todo, failed>> /\ Op' = Op
      /\ phase = "boundary" /\ phase' = "carry" /\ epoch = 1 /\ legacy /\ epoch' = 2
  BY SMT DEF OpenEpoch, intentVars, sweepVars, Op
<1>2. \A m : Submitted(m)' = Submitted(m)
  BY <1>1 DEF Submitted
<1>3. \A F : NoneOf(F)' <=> NoneOf(F)
  BY <1>1 DEF NoneOf
<1>4. OneWaits'
  BY <1>1, <1>2 DEF Kept, Filing, OneWaits
<1>5. EarlyBoundary'
  <2> SUFFICES ASSUME NoneOf({"unread"}) PROVE EarlyBoundary'
    BY <1>3 DEF EarlyBoundary
  <2>1. ops = <<>>
    BY <1>1 DEF Kept, Filing, EarlyBoundary
  <2>2. Op = {}
    <3>1. Len(ops) = 0
      BY <2>1, EmptySeq
    <3> QED
      BY <3>1, SMT DEF Op
  <2>3. \A i \in 1 .. Len(rows) : FALSE
    BY <2>2 DEF Kept, Filing, OneWaits
  <2> QED
    BY <1>1, <2>1, <2>3 DEF EarlyBoundary
<1>6. QuietBoundary'
  <2> SUFFICES ASSUME NoneOf({"rearm"}) PROVE QuietBoundary'
    BY <1>3 DEF QuietBoundary
  <2>1. waiting = 0 /\ "detached" \notin sweeps /\ "arm" \notin sweeps
    BY <1>1 DEF Kept, Filing, QuietBoundary, Types, SweepTypes
  <2>2. \A s \in Sweepers : todo[s] = {}
    BY <2>1 DEF Sweepers, Kept, Filing, OneWaits
  <2>3. 0 \notin Op
    BY SMT DEF Op
  <2>4. \A m \in Op : ~Writing(m)'
    BY <1>1, <2>1, <2>2, <2>3 DEF Writing
  <2> QED
    BY <1>1, <2>1, <2>4 DEF QuietBoundary
<1>7. JournalAgrees'
  <2>1. \A n, e : RowsOf(n, e)' = RowsOf(n, e) /\ EntriesOf(n, e)' = EntriesOf(n, e)
    BY <1>1 DEF RowsOf, EntriesOf
  <2> QED
    BY <1>1, <1>3, <2>1 DEF Kept, JournalAgrees
<1> QED
  BY <1>1, <1>4, <1>5, <1>6, <1>7 DEF Kept, Filing, Carrying

LEMMA KeptBegins == FillInit => Kept
<1> SUFFICES ASSUME FillInit PROVE Kept
  OBVIOUS
<1>1. Len(ops) = 0 /\ Len(rows) = 0 /\ Len(journal) = 0
  BY EmptySeq DEF FillInit
<1>2. Op = {} /\ 1 .. Len(rows) = {} /\ 1 .. Len(journal) = {}
  BY <1>1, SMT DEF Op
<1>3. OneWaits /\ EarlyBoundary /\ QuietBoundary
  BY <1>2 DEF FillInit, OneWaits, EarlyBoundary, QuietBoundary
<1> QED
  BY <1>2, <1>3 DEF FillInit, Kept, Filing, Carrying, JournalAgrees

LEMMA KeptStep == Types /\ Kept /\ [FillNext]_fillVars => Kept'
<1> SUFFICES ASSUME Types, Kept, [FillNext]_fillVars PROVE Kept'
  OBVIOUS
<1>1. CASE UNCHANGED fillVars
  <2>1. /\ UNCHANGED <<legacy, epoch, rows, journal, ops, waiting, phase, sweeps, todo, failed>>
        /\ Op' = Op
    BY <1>1 DEF fillVars, ledgerVars, intentVars, sweepVars, Op
  <2>2. \A n : Writing(n)' <=> Writing(n)
    BY <2>1 DEF Writing
  <2>3. \A F : NoneOf(F)' <=> NoneOf(F)
    BY <2>1 DEF NoneOf
  <2>4. AnyFault
    BY <2>1 DEF AnyFault
  <2>5. /\ \A s \in Sweepers : s \notin sweeps' => todo'[s] = {}
        /\ NoneOf({"unread"})' => ((epoch = 1 /\ legacy) => phase' # "up")
        /\ NoneOf({"rearm"})' => (phase' # "up" => waiting' = 0 /\ "detached" \notin sweeps')
    BY <2>1, <2>3 DEF Kept, Filing, OneWaits, EarlyBoundary, QuietBoundary
  <2> QED
    BY <2>1, <2>2, <2>4, <2>5, KeptQuietly
<1>2. CASE FillNext
  BY <1>2, KeptByTick, KeptBySend, KeptBySettling, KeptByStart, KeptByArm, KeptByBoundary DEF FillNext
<1> QED
  BY <1>1, <1>2

(* The export's two sources agree in every epoch, operation by operation,  *)
(* whatever rows are lost, swept twice or settled after their epoch: a row *)
(* moved money exactly when the journal says it did.  It takes one of two  *)
(* calms: every history is read, or the worker never arms a second time.   *)
THEOREM JournalAgreesHolds == FillSpec => []JournalAgrees
<1>1. Kept => JournalAgrees
  BY DEF Kept
<1>2. FillInit => Kept
  BY KeptBegins
<1>3. Types /\ Kept /\ [FillNext]_fillVars => Kept'
  BY KeptStep
<1> QED
  BY <1>1, <1>2, <1>3, TypesHold, PTL DEF FillSpec

-----------------------------------------------------------------------------
(* The capital.                                                            *)

(* Before the flow is written there is none, and then there is one.        *)
Crossed == epoch = 2 /\ phase # "carry"
Crossing ==
  NoneOf({"carry", "tear"}) => carried = [e \in 1 .. 2 |-> IF e = 2 /\ Crossed THEN Closing ELSE 0]

LEMMA CrossingKept ==
  ASSUME Types, Crossing, AnyFault, UNCHANGED <<epoch, carried>>, phase' = "carry" <=> phase = "carry"
  PROVE  Crossing'
<1>1. NoneOf({"carry", "tear"})' => NoneOf({"carry", "tear"})
  BY FaultsOnlyGrow DEF Types
<1>2. Crossed' <=> Crossed
  BY DEF Crossed
<1> HIDE DEF Crossed
<1> QED
  BY <1>1, <1>2 DEF Crossing

LEMMA CrossingStep == Types /\ Kept /\ Crossing /\ [FillNext]_fillVars => Crossing'
<1> SUFFICES ASSUME Types, Kept, Crossing, [FillNext]_fillVars PROVE Crossing'
  OBVIOUS
<1>1. AnyFault
  BY EveryFault
<1>2. /\ Fault("carry") => ~NoneOf({"carry", "tear"})'
      /\ Fault("tear") => ~NoneOf({"carry", "tear"})'
  BY AFaultIsKnown DEF Types
<1>3. CASE OpenEpoch
  <2>1. epoch = 1 /\ phase' = "carry" /\ UNCHANGED <<carried, failed>>
    BY <1>3 DEF OpenEpoch
  <2>2. ~Crossed /\ ~Crossed'
    BY <2>1 DEF Crossed
  <2> HIDE DEF Crossed
  <2> QED
    BY <2>1, <2>2 DEF Crossing, NoneOf
<1>4. CASE CarryCapital
  <2>1. phase = "carry" /\ epoch = 2 /\ epoch' = epoch /\ phase' = "up"
    BY <1>4 DEF CarryCapital, Kept, Carrying
  <2>2. CASE Fault("carry")
    BY <1>2, <2>2 DEF Crossing
  <2>3. CASE UNCHANGED failed /\ carried' = [carried EXCEPT ![CarryEpoch] = @ + Closing]
    <3> SUFFICES ASSUME NoneOf({"carry", "tear"})'
                 PROVE  carried' = [e \in 1 .. 2 |-> IF e = 2 /\ Crossed' THEN Closing ELSE 0]
      BY DEF Crossing
    <3>1. carried = [e \in 1 .. 2 |-> 0]
      BY <2>1, <2>3 DEF Crossing, Crossed, NoneOf
    <3>2. 0 + Closing = Closing /\ 2 \in 1 .. 2
      BY FillAssumption, SMT
    <3>3. carried' = [carried EXCEPT ![2] = Closing]
      BY <2>1, <2>3, <3>1, <3>2 DEF CarryEpoch
    <3>4. Crossed'
      BY <2>1 DEF Crossed
    <3> QED
      BY <3>1, <3>3, <3>4
  <2> QED
    BY <1>4, <2>2, <2>3 DEF CarryCapital
<1>5. CASE Die
  <2>1. UNCHANGED <<epoch, carried>> /\ phase' = "down"
    BY <1>5 DEF Die, ledgerVars
  <2>2. CASE phase = "carry"
    BY <1>2, <1>5, <2>2 DEF Die, Crossing
  <2>3. CASE phase # "carry"
    BY <1>1, <2>1, <2>3, CrossingKept
  <2> QED
    BY <2>2, <2>3
<1>6. CASE SweepEnd
  <2>1. UNCHANGED <<epoch, carried>> /\ (phase' = "carry" <=> phase = "carry")
    BY <1>6 DEF SweepEnd, ledgerVars, Types, SweepTypes
  <2> QED
    BY <1>1, <2>1, CrossingKept
<1>7. CASE ~(OpenEpoch \/ CarryCapital \/ Die \/ SweepEnd)
  <2>1. UNCHANGED <<epoch, carried>>
    BY <1>7 DEF FillNext, ReadHoldings, CloseBasis, TickDone, SetWatch, Send, Land, Revert, BookFill,
                RecordTrade, ReceiptReverted, Unresolved, SweepStart, SweepWrite, NoBoundary, Rearm, Boot, AddTrade,
                fillVars, ledgerVars
  <2>2. phase' = "carry" <=> phase = "carry"
    BY <1>7 DEF FillNext, ReadHoldings, CloseBasis, TickDone, SetWatch, Send, Land, Revert, BookFill,
                RecordTrade, ReceiptReverted, Unresolved, SweepStart, SweepWrite, NoBoundary, Rearm, Boot, fillVars
  <2> QED
    BY <1>1, <2>1, <2>2, CrossingKept
<1> QED
  BY <1>3, <1>4, <1>5, <1>6, <1>7

(* Once the next epoch is open its books begin with the capital the last   *)
(* one closed with, once, unless the flow failed or the worker died        *)
(* between the epoch and the flow: no arm, sweep or restart adds it twice. *)
THEOREM CapitalCrossesHolds == FillSpec => []CapitalCrosses
<1>1. FillInit => Crossing
  BY DEF FillInit, Crossing, Crossed
<1>2. Crossing => CapitalCrosses
  BY DEF Crossing, Crossed, CapitalCrosses
<1>3. FillInit => Kept
  BY KeptBegins
<1>4. Types /\ Kept /\ [FillNext]_fillVars => Kept'
  BY KeptStep
<1>5. Types /\ Kept /\ Crossing /\ [FillNext]_fillVars => Crossing'
  BY CrossingStep
<1> QED
  BY <1>1, <1>2, <1>3, <1>4, <1>5, TypesHold, PTL DEF FillSpec

-----------------------------------------------------------------------------
(* The cost.                                                               *)

Costly == {"chat", "unresolved", "kill", "basis", "unreadable", "unwatch"}

(* What the chain has done and the books have not.                         *)
Unbooked == waiting # 0 /\ ops[waiting].fate = "landed" /\ ~booked

NothingIsFree == truth.qty = 0 => truth.cost = 0

(* The tick alone trades, one operation at a time, and the basis trails    *)
(* the chain by the fill it waits for.                                     *)
Trailing ==
  /\ watched /\ ~chat
  /\ waiting # 0 => tick = "intents"
  /\ \A n \in Op : ops[n].fate = "sent" => n = waiting
  /\ IF Unbooked THEN truth = ApplyFill(basis, ops[waiting].order) ELSE basis = truth
  /\ tick = "closing" => (holds <=> truth.qty > 0)

Costing == NothingIsFree /\ (NoneOf(Costly) => Trailing)

LEMMA CostingTail ==
  ASSUME Types, Costing, AnyFault, NothingIsFree', NoneOf(Costly)' /\ Trailing => Trailing'
  PROVE  Costing'
<1>1. NoneOf(Costly)' => NoneOf(Costly)
  BY FaultsOnlyGrow DEF Types
<1> HIDE DEF Trailing
<1> QED
  BY <1>1 DEF Costing

LEMMA CostingQuietly ==
  ASSUME Types, Costing, AnyFault,
         UNCHANGED <<ops, truth, basis, waiting, chat, booked, tick, holds, watched>>
  PROVE  Costing'
<1>1. NothingIsFree'
  BY DEF Costing, NothingIsFree
<1>2. Trailing => Trailing'
  BY DEF Trailing, Unbooked, Op
<1> QED
  BY <1>1, <1>2, CostingTail

LEMMA CostingByTick == Types /\ Costing /\ (ReadHoldings \/ CloseBasis \/ TickDone \/ SetWatch) => Costing'
<1> SUFFICES ASSUME Types, Costing, ReadHoldings \/ CloseBasis \/ TickDone \/ SetWatch PROVE Costing'
  OBVIOUS
<1>1. AnyFault
  BY EveryFault DEF FillNext
<1>2. UNCHANGED <<ops, truth, waiting, chat, booked>> /\ Op' = Op
  BY DEF ReadHoldings, CloseBasis, TickDone, SetWatch, intentVars, Op
<1>3. NothingIsFree'
  BY <1>2 DEF Costing, NothingIsFree
<1>4. /\ Fault("unreadable") => ~NoneOf(Costly)'
      /\ Fault("unwatch") => ~NoneOf(Costly)'
  BY AFaultIsKnown DEF Types, Costly
<1>5. ASSUME NoneOf(Costly)', Trailing PROVE Trailing'
  <2>1. CASE ReadHoldings
    <3>1. tick' = "closing" /\ waiting = 0 /\ (holds' <=> truth.qty > 0) /\ UNCHANGED <<basis, watched>>
      BY <1>4, <1>5, <2>1 DEF ReadHoldings, Trailing
    <3> QED
      BY <1>2, <1>5, <3>1 DEF Trailing, Unbooked
  <2>2. CASE CloseBasis
    <3>1. waiting = 0 /\ basis = truth /\ (holds <=> truth.qty > 0)
      BY <1>5, <2>2 DEF CloseBasis, Trailing, Unbooked
    <3>2. CASE truth.qty > 0
      BY <1>2, <1>5, <2>2, <3>1, <3>2 DEF CloseBasis, StaleBasis, Trailing, Unbooked
    <3>3. CASE ~(truth.qty > 0)
      <4>1. truth \in Position
        BY DEF Types, OpTypes
      <4>2. truth.qty = 0
        BY <3>3, <4>1, SMT DEF Position
      <4>3. truth.cost = 0
        BY <4>2 DEF Costing, NothingIsFree
      <4>4. truth = Flat
        BY <4>1, <4>2, <4>3 DEF Position, Flat
      <4>5. basis' = truth /\ tick' = "intents" /\ watched' = watched
        BY <2>2, <3>1, <3>3, <4>4 DEF CloseBasis, StaleBasis
      <4> QED
        BY <1>2, <1>5, <3>1, <4>5 DEF Trailing, Unbooked
    <3> QED
      BY <3>2, <3>3
  <2>3. CASE TickDone
    <3>1. waiting = 0 /\ tick' = "idle" /\ UNCHANGED <<basis, watched>>
      BY <1>5, <2>3 DEF TickDone, TickWaits, Trailing
    <3> QED
      BY <1>2, <1>5, <3>1 DEF Trailing, Unbooked
  <2>4. CASE SetWatch
    BY <1>4, <1>5, <2>4 DEF SetWatch, Trailing
  <2> QED
    BY <2>1, <2>2, <2>3, <2>4
<1> QED
  BY <1>1, <1>3, <1>5, CostingTail

LEMMA CostingBySend == Types /\ Costing /\ Send => Costing'
<1> SUFFICES ASSUME Types, Costing, Send PROVE Costing'
  OBVIOUS
<1>1. AnyFault
  BY EveryFault DEF FillNext
<1>2. UNCHANGED <<truth, basis, tick, holds, watched>> /\ waiting = 0 /\ waiting' = Len(ops) + 1
  BY DEF Send, sightVars
<1>3. NothingIsFree'
  BY <1>2 DEF Costing, NothingIsFree
<1>4. Fault("chat") => ~NoneOf(Costly)'
  BY AFaultIsKnown DEF Types, Costly
<1>5. PICK o \in Orders : ops' = Append(ops, [order |-> o, fate |-> "sent"])
  BY DEF Send
<1>6. /\ Len(ops) \in Nat /\ Len(ops') = Len(ops) + 1 /\ ops'[Len(ops) + 1].fate = "sent"
      /\ \A n \in 1 .. Len(ops) : ops'[n] = ops[n]
  <2>1. [order |-> o, fate |-> "sent"] \in Sent
    BY DEF Sent, Fates
  <2> QED
    BY <1>5, <2>1, LenProperties, AppendProperties DEF Types, OpTypes
<1>7. 1 .. Len(ops') = 1 .. Len(ops) \cup {Len(ops) + 1} /\ Len(ops) + 1 # 0 /\ 0 \notin 1 .. Len(ops)
  BY <1>6, SMT
<1>8. ASSUME NoneOf(Costly)', Trailing PROVE Trailing'
  <2>1. tick = "intents" /\ ~chat'
    BY <1>4, <1>8 DEF Send
  <2>2. basis = truth /\ \A n \in 1 .. Len(ops) : ops[n].fate # "sent"
    BY <1>2, <1>7, <1>8 DEF Trailing, Unbooked, Op
  <2>3. ~Unbooked'
    BY <1>2, <1>6 DEF Unbooked
  <2>4. \A n \in Op' : ops'[n].fate = "sent" => n = waiting'
    BY <1>2, <1>6, <1>7, <2>2 DEF Op
  <2> QED
    BY <1>2, <1>8, <2>1, <2>2, <2>3, <2>4 DEF Trailing
<1> QED
  BY <1>1, <1>3, <1>8, CostingTail

LEMMA CostingByChain == Types /\ Costing /\ (Land \/ Revert) => Costing'
<1> SUFFICES ASSUME Types, Costing, Land \/ Revert PROVE Costing'
  OBVIOUS
<1>1. AnyFault
  BY EveryFault DEF FillNext
<1>2. UNCHANGED <<basis, waiting, chat, booked, tick, holds, watched>>
  BY DEF Land, Revert, intentVars, sightVars
<1>3. PICK n \in Op, fate \in {"landed", "reverted"} :
        /\ ops[n].fate = "sent" /\ ops' = [ops EXCEPT ![n].fate = fate]
        /\ truth' = IF fate = "landed" THEN ApplyFill(truth, ops[n].order) ELSE truth
  BY DEF Land, Revert
<1>4. NothingIsFree'
  <2>1. CASE fate = "landed"
    <3>1. truth \in Position /\ ops[n].order \in [side: {"buy", "sell"}, qty: Nat \ {0}, cash: Nat \ {0}]
      BY OrderOf DEF Types, OpTypes
    <3> QED
      BY <1>3, <2>1, <3>1, ApplyFillPosition DEF NothingIsFree
  <2>2. CASE fate # "landed"
    BY <1>3, <2>2 DEF Costing, NothingIsFree
  <2> QED
    BY <2>1, <2>2
<1>5. /\ ops \in [Op -> Sent] /\ ops[n] \in Sent
      /\ ops'[n] = [order |-> ops[n].order, fate |-> fate]
      /\ \A m \in Op : m # n => ops'[m] = ops[m]
  <2>1. ops \in [Op -> Sent]
    BY LenProperties DEF Types, OpTypes, Op
  <2>2. ops[n] \in Sent
    BY <2>1
  <2>3. [ops[n] EXCEPT !.fate = fate] = [order |-> ops[n].order, fate |-> fate]
    BY <2>2 DEF Sent
  <2> QED
    BY <1>3, <2>1, <2>2, <2>3
<1>6. Op' = Op
  <2>1. [ops[n] EXCEPT !.fate = fate] \in Sent
    BY <1>5 DEF Sent, Fates
  <2>2. ops' \in [1 .. Len(ops) -> Sent]
    BY <1>3, <1>5, <2>1 DEF Op
  <2>3. Len(ops') = Len(ops)
    <3>1. Len(ops) \in Nat
      BY LenProperties DEF Types, OpTypes
    <3> QED
      BY <2>2, <3>1, LenProperties, SeqDef, SMT
  <2> QED
    BY <2>3 DEF Op
<1>7. ASSUME NoneOf(Costly)', Trailing PROVE Trailing'
  <2>1. n = waiting /\ waiting # 0 /\ tick = "intents"
    <3>1. n # 0
      BY SMT DEF Op
    <3> QED
      BY <1>3, <1>7, <3>1 DEF Trailing
  <2>2. basis = truth /\ ~booked
    BY <1>3, <1>7, <2>1 DEF Trailing, Unbooked, Types, IntentTypes
  <2>3. \A m \in Op : ops'[m].fate # "sent"
    BY <1>3, <1>5, <1>7, <2>1 DEF Trailing
  <2>4. Unbooked' <=> fate = "landed"
    BY <1>2, <1>5, <2>1, <2>2 DEF Unbooked
  <2>5. IF Unbooked' THEN truth' = ApplyFill(basis, ops'[waiting].order) ELSE basis = truth'
    BY <1>3, <1>5, <2>1, <2>2, <2>4
  <2>6. ApplyFill(basis, ops[waiting].order)' = ApplyFill(basis, ops'[waiting].order)
    BY <1>2 DEF ApplyFill, CostOut, Capped
  <2> QED
    BY <1>2, <1>6, <1>7, <2>1, <2>3, <2>5, <2>6 DEF Trailing
<1> QED
  BY <1>1, <1>4, <1>7, CostingTail

LEMMA CostingByIntent == Types /\ Costing /\ (BookFill \/ RecordTrade \/ ReceiptReverted \/ Unresolved) => Costing'
<1> SUFFICES ASSUME Types, Costing, BookFill \/ RecordTrade \/ ReceiptReverted \/ Unresolved PROVE Costing'
  OBVIOUS
<1>1. AnyFault
  BY EveryFault DEF FillNext
<1>2. UNCHANGED <<ops, truth, chat, tick, holds, watched>> /\ Op' = Op
  BY DEF BookFill, RecordTrade, ReceiptReverted, Unresolved, sightVars, Op
<1>3. NothingIsFree'
  BY <1>2 DEF Costing, NothingIsFree
<1>4. /\ Fault("basis") => ~NoneOf(Costly)'
      /\ Fault("unresolved") => ~NoneOf(Costly)'
  BY AFaultIsKnown DEF Types, Costly
<1>5. ASSUME NoneOf(Costly)', Trailing PROVE Trailing'
  <2>1. CASE BookFill
    <3>1. UNCHANGED waiting /\ Unbooked /\ ~Unbooked' /\ basis' = ApplyFill(basis, ops[waiting].order)
      BY <1>4, <1>5, <2>1 DEF BookFill, Unbooked
    <3> QED
      BY <1>2, <1>5, <3>1 DEF Trailing
  <2>2. CASE RecordTrade
    <3>1. /\ waiting # 0 /\ waiting' = 0 /\ basis' = basis /\ ops[waiting].fate # "sent"
          /\ ~Unbooked /\ ~Unbooked'
      BY <2>2 DEF RecordTrade, Unbooked, Types, IntentTypes
    <3> QED
      BY <1>2, <1>5, <3>1 DEF Trailing
  <2>3. CASE Unresolved
    BY <1>4, <1>5, <2>3 DEF Unresolved
  <2>4. CASE ReceiptReverted
    <3>1. /\ waiting # 0 /\ waiting' = 0 /\ basis' = basis /\ ops[waiting].fate = "reverted"
          /\ ~Unbooked /\ ~Unbooked'
      BY <2>4 DEF ReceiptReverted, Unbooked, Types, IntentTypes
    <3> QED
      BY <1>2, <1>5, <3>1 DEF Trailing
  <2> QED
    BY <2>1, <2>2, <2>3, <2>4
<1> QED
  BY <1>1, <1>3, <1>5, CostingTail

LEMMA CostingByArm ==
  ASSUME Types, Costing,
         \/ SweepStart \/ SweepWrite \/ SweepEnd \/ NoBoundary \/ OpenEpoch \/ CarryCapital
         \/ Rearm \/ Boot \/ Die
  PROVE  Costing'
<1>1. AnyFault
  BY EveryFault DEF FillNext
<1>2. CASE Die
  <2>1. /\ UNCHANGED <<ops, truth, basis, watched>> /\ Op' = Op
        /\ waiting' = 0 /\ ~chat' /\ tick' = "idle"
    BY <1>2 DEF Die, Op
  <2>2. NothingIsFree'
    BY <2>1 DEF Costing, NothingIsFree
  <2>3. ASSUME NoneOf(Costly)', Trailing PROVE Trailing'
    <3>1. Fault("kill") => ~NoneOf(Costly)'
      BY AFaultIsKnown DEF Types, Costly
    <3>2. waiting = 0 \/ booked
      BY <1>2, <2>3, <3>1 DEF Die, Trailing, Types, WorkerTypes
    <3>3. basis = truth /\ \A n \in Op : ops[n].fate # "sent"
      <4>1. 0 \notin Op
        BY SMT DEF Op
      <4>2. waiting # 0 => ops[waiting].fate = "landed"
        BY <3>2 DEF Types, IntentTypes
      <4> QED
        BY <2>3, <3>2, <4>1, <4>2 DEF Trailing, Unbooked
    <3> QED
      BY <2>1, <2>3, <3>3 DEF Trailing, Unbooked
  <2> QED
    BY <1>1, <2>2, <2>3, CostingTail
<1>3. CASE ~Die
  <2>1. UNCHANGED <<ops, truth, basis, waiting, chat, booked, tick, holds, watched>>
    BY <1>3 DEF SweepStart, SweepWrite, SweepEnd, NoBoundary, OpenEpoch, CarryCapital, Rearm, Boot,
                intentVars, sightVars
  <2> QED
    BY <1>1, <2>1, CostingQuietly
<1> QED
  BY <1>2, <1>3

LEMMA CostingStep == Types /\ Costing /\ [FillNext]_fillVars => Costing'
<1> SUFFICES ASSUME Types, Costing, [FillNext]_fillVars PROVE Costing'
  OBVIOUS
<1>1. CASE UNCHANGED fillVars
  <2>1. AnyFault
    BY EveryFault
  <2>2. UNCHANGED <<ops, truth, basis, waiting, chat, booked, tick, holds, watched>>
    BY <1>1 DEF fillVars, intentVars, sightVars
  <2> QED
    BY <2>1, <2>2, CostingQuietly
<1>2. CASE FillNext
  BY <1>2, CostingByTick, CostingBySend, CostingByChain, CostingByIntent, CostingByArm DEF FillNext
<1> QED
  BY <1>1, <1>2

(* A tick that trades one operation at a time and learns every outcome     *)
(* keeps a basis that is the chain's own cost of what the account holds,   *)
(* through failed rows, sweeps, epochs and deaths between basis and row.   *)
THEOREM CostFollowsChainHolds == FillSpec => []CostFollowsChain
<1>1. FillInit => Costing
  <2> SUFFICES ASSUME FillInit PROVE Costing
    OBVIOUS
  <2>1. Op = {}
    <3>1. Len(ops) = 0
      BY EmptySeq DEF FillInit
    <3> QED
      BY <3>1, SMT DEF Op
  <2> QED
    BY <2>1 DEF FillInit, Flat, Costing, NothingIsFree, Trailing, Unbooked
<1>2. Costing => CostFollowsChain
  BY DEF Costing, Trailing, Unbooked, Costly, CostFollowsChain
<1>3. Types /\ Costing /\ [FillNext]_fillVars => Costing'
  BY CostingStep
<1> QED
  BY <1>1, <1>2, <1>3, TypesHold, PTL DEF FillSpec
=============================================================================
