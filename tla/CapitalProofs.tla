--------------------------- MODULE CapitalProofs ---------------------------
(* Theorems about Capital, for all amounts, faults and bounds: its types,  *)
(* the pairing of the high-water mark with the contributions, that a       *)
(* movement of money is booked, and once, and whom the fee is taken of.    *)
EXTENDS Capital, Sums, SequenceTheorems, TLAPS

Cells == [known: BOOLEAN, cash: Int]

(* CapitalTypeOK in parts.                                                 *)
ChainTypes ==
  /\ hosted \in BOOLEAN /\ scanOn \in BOOLEAN /\ stale \in {0} \cup Moves
  /\ moves \in Seq(External \cup OpKinds) /\ Len(moves) <= Len(Amounts)
  /\ cash \in Nat /\ capital \in Int /\ gain \in Int /\ best \in Nat
  /\ stage \in {"none", "submitted", "landed"} /\ opKind \in OpKinds
  /\ waiter \in {"tick", "chat", "nobody"}

BookTypes ==
  /\ receipts \subseteq Moves /\ explained \subseteq Moves
  /\ net \in Int /\ evidenced \in BOOLEAN /\ hwm \in Nat /\ charged \in Nat
  /\ mirrored \in Nat /\ row \in Cells

TickTypes ==
  /\ pc \in {"idle", "flows", "infer", "book", "adjust", "adjustLast", "baseline", "accrue", "intents"}
  /\ read \in 0 .. Len(Amounts) /\ readCash \in Nat /\ readEquity \in Int
  /\ head \in Nat /\ queue \subseteq Moves /\ due \in Int

MemoryTypes ==
  /\ cursor \in Nat /\ seen \in Cells /\ anchor \in Cells
  /\ wrote \in BOOLEAN /\ traded \in BOOLEAN /\ peak \in Nat
  /\ licence \in Licences /\ known \in BOOLEAN

FaultTypes == happened \in Seq(CapitalFaults)

Types == ChainTypes /\ BookTypes /\ TickTypes /\ MemoryTypes /\ FaultTypes

LEMMA TypesAreTypeOK == Types <=> CapitalTypeOK
  BY DEF Types, ChainTypes, BookTypes, TickTypes, MemoryTypes, FaultTypes, CapitalTypeOK, Cells

LEMMA AmountOf == \A m \in Moves : Amounts[m] \in Nat \ {0}
  BY CapitalAssumption, ElementOfSeq DEF Moves

LEMMA SignedInt == \A m \in Moves : Signed(m) \in Int
  BY AmountOf, SMT DEF Signed

LEMMA ReadingIsCell == \A c \in Int : Reading(c) \in Cells
  BY SMT DEF Reading, Cells

LEMMA UnreadIsCell == Unread \in Cells
  BY SMT DEF Unread, Cells

LEMMA HitKeepsFaults == ASSUME FaultTypes, NEW f, Hit(f) PROVE FaultTypes'
  BY AppendProperties DEF Hit, FaultTypes

LEMMA ShiftedIsNat == \A mark \in Nat, by \in Int :
                        Shifted(mark, by) \in Nat /\ Shifted(mark, by) >= mark + by
  BY SMT DEF Shifted

LEMMA AboveIsNat == \A mark \in Nat : readEquity \in Int =>
                      Above(mark) \in Nat /\ Ratchet(mark) \in Nat /\ Ratchet(mark) = mark + Above(mark)
  BY SMT DEF Above, Ratchet

LEMMA DeltaInt == Types => Delta \in Int
<1> SUFFICES ASSUME Types PROVE Delta \in Int
  OBVIOUS
<1>1. readEquity \in Int /\ readCash \in Int /\ row.cash \in Int /\ seen.cash \in Int
  BY SMT DEF Types, TickTypes, BookTypes, MemoryTypes, Cells
<1>2. Drift \in Int
  BY <1>1, SMT DEF Drift
<1>3. FirstDelta \in Int
  BY <1>1, SMT DEF FirstDelta
<1> QED
  BY <1>2, <1>3 DEF Delta

LEMMA MovedTypes ==
  ASSUME NEW k \in External \cup OpKinds, ChainTypes, Moved(k)
  PROVE  /\ moves' \in Seq(External \cup OpKinds) /\ Len(moves') <= Len(Amounts)
         /\ cash' \in Nat /\ capital' \in Int
<1>1. Len(moves) \in Nat /\ Len(Amounts) \in Nat /\ Len(moves) < Len(Amounts)
  BY CapitalAssumption, LenProperties, SMT DEF Moved, Executed, ChainTypes
<1>2. Len(moves) + 1 \in Moves
  BY <1>1, SMT DEF Moves
<1>3. NextAmount \in Nat
  BY <1>2, AmountOf, SMT DEF NextAmount, Executed
<1>4. moves' \in Seq(External \cup OpKinds) /\ Len(moves') = Len(moves) + 1
  BY AppendProperties DEF Moved, ChainTypes
<1>5. cash' \in Nat /\ capital' \in Int
  BY <1>3, SMT DEF Moved, ChainTypes
<1> QED
  BY <1>1, <1>4, <1>5, SMT
(* What an action leaves alone keeps its type.                             *)
LEMMA ChainFrame ==
  ASSUME ChainTypes, UNCHANGED <<configVars, chainVars, opVars>> PROVE ChainTypes'
  BY DEF ChainTypes, configVars, chainVars, opVars

LEMMA BookFrame == ASSUME BookTypes, UNCHANGED bookVars PROVE BookTypes'
  BY DEF BookTypes, bookVars

LEMMA TickFrame == ASSUME TickTypes, UNCHANGED tickVars PROVE TickTypes'
  BY DEF TickTypes, tickVars, readVars

LEMMA MemoryFrame == ASSUME MemoryTypes, UNCHANGED memoryVars PROVE MemoryTypes'
  BY DEF MemoryTypes, memoryVars

LEMMA FaultFrame ==
  ASSUME FaultTypes, UNCHANGED happened \/ \E f \in AllCapitalFaults : Hit(f) PROVE FaultTypes'
  BY HitKeepsFaults DEF FaultTypes

LEMMA ChainSteps == Types /\ (Deposit \/ Takeout \/ Perform \/ Mine) => Types'
<1> SUFFICES ASSUME Types, Deposit \/ Takeout \/ Perform \/ Mine PROVE Types'
  OBVIOUS
<1> USE DEF Types
<1>1. BookTypes' /\ TickTypes' /\ MemoryTypes' /\ FaultTypes'
  BY BookFrame, TickFrame, MemoryFrame, FaultFrame DEF Deposit, Takeout, Perform, Mine
<1>2. CASE Deposit
  BY <1>1, <1>2, MovedTypes DEF Deposit, ChainTypes, configVars, opVars, External
<1>3. CASE Takeout
  BY <1>1, <1>3, MovedTypes DEF Takeout, ChainTypes, configVars, opVars, External
<1>4. CASE Perform
  <2>1. PICK g \in {gain - 1, gain + 1} \cap -MaxGain .. MaxGain :
          gain' = g /\ best' = IF g > best THEN g ELSE best
    BY <1>4 DEF Perform
  <2>2. gain' \in Int /\ best' \in Nat
    BY <2>1, SMT DEF ChainTypes
  <2> QED
    BY <1>1, <1>4, <2>2 DEF Perform, ChainTypes, configVars, opVars
<1>5. CASE Mine
  <2>1. opKind \in External \cup OpKinds /\ Moved(opKind)
    BY <1>5 DEF Mine, ChainTypes
  <2> QED
    BY <1>1, <1>5, <2>1, MovedTypes DEF Mine, ChainTypes, configVars
<1> QED
  BY <1>2, <1>3, <1>4, <1>5

LEMMA ExecutedBound == ASSUME ChainTypes
                       PROVE  Executed \in 0 .. Len(Amounts) /\ Len(Amounts) \in Nat
  BY CapitalAssumption, LenProperties, SMT DEF ChainTypes, Executed

LEMMA ScanSteps ==
  Types /\ (TickRead \/ OpenAtHead \/ ResumeScan \/ Scan \/ ScanRefused \/ ScanDone) => Types'
<1> SUFFICES ASSUME Types, TickRead \/ OpenAtHead \/ ResumeScan \/ Scan \/ ScanRefused \/ ScanDone
             PROVE  Types'
  OBVIOUS
<1> USE DEF Types
<1>0. Executed \in 0 .. Len(Amounts) /\ Len(Amounts) \in Nat /\ \A h \in Heads : h \in Nat
  BY ExecutedBound, SMT DEF Heads
<1>1. ChainTypes' /\ BookTypes'
  <2>1. BookTypes' /\ UNCHANGED <<hosted, scanOn, chainVars, opVars>> /\ stale' \in {stale} \cup receipts
    BY BookFrame DEF TickRead, OpenAtHead, ResumeScan, Scan, ScanRefused, ScanDone, configVars
  <2> QED
    BY <2>1 DEF ChainTypes, BookTypes, chainVars, opVars
<1>2. FaultTypes'
  BY FaultFrame
     DEF TickRead, OpenAtHead, ResumeScan, Scan, ScanRefused, ScanDone, AllCapitalFaults
<1>3. CASE TickRead
  <2>1. MemoryTypes'
    BY <1>3, MemoryFrame DEF TickRead
  <2>2. readCash' \in Nat /\ readEquity' \in Int /\ read' \in 0 .. Len(Amounts)
    BY <1>0, <1>3, SMT DEF TickRead, ChainTypes
  <2> QED
    BY <1>1, <1>2, <1>3, <2>1, <2>2 DEF TickRead, TickTypes
<1>4. CASE OpenAtHead
  <2>1. cursor' \in Nat
    BY <1>0, <1>4, SMT DEF OpenAtHead
  <2> QED
    BY <1>1, <1>2, <1>4, <2>1 DEF OpenAtHead, TickTypes, MemoryTypes, readVars
<1>5. CASE ResumeScan
  <2>1. receipts \subseteq Nat
    BY <1>0, SMT DEF BookTypes, Moves
  <2>2. cursor' \in Nat
    BY <1>0, <1>5, <2>1, SMT DEF ResumeScan, Last, Block
  <2> QED
    BY <1>1, <1>2, <1>5, <2>2 DEF ResumeScan, TickTypes, MemoryTypes, readVars
<1>6. CASE Scan
  <2>1. MemoryTypes'
    BY <1>6, MemoryFrame DEF Scan
  <2>2. PICK h \in Heads : head' = h /\ queue' = Found(h)
    BY <1>6 DEF Scan
  <2>3. Found(h) \subseteq Moves
    BY <1>0, SMT DEF Found, Moves
  <2> QED
    BY <1>0, <1>1, <1>2, <1>6, <2>1, <2>2, <2>3 DEF Scan, TickTypes, readVars
<1>7. CASE ScanRefused
  BY <1>1, <1>2, <1>7, MemoryFrame DEF ScanRefused, TickTypes, readVars
<1>8. CASE ScanDone
  BY <1>1, <1>2, <1>8 DEF ScanDone, TickTypes, MemoryTypes, readVars
<1> QED
  BY <1>3, <1>4, <1>5, <1>6, <1>7, <1>8

LEMMA BookSteps ==
  Types /\ (BookReceipt \/ InferNothing \/ InferFlow \/ FlowFails \/ AdjustPeak) => Types'
<1> SUFFICES ASSUME Types, BookReceipt \/ InferNothing \/ InferFlow \/ FlowFails \/ AdjustPeak
             PROVE  Types'
  OBVIOUS
<1> USE DEF Types
<1>1. ChainTypes'
  BY ChainFrame
     DEF BookReceipt, InferNothing, InferFlow, FlowFails, AdjustPeak, configVars, chainVars, opVars
<1>2. FaultTypes'
  BY FaultFrame DEF BookReceipt, InferNothing, InferFlow, FlowFails, AdjustPeak, AllCapitalFaults
<1>3. CASE BookReceipt
  <2>1. PICK m \in queue : /\ receipts' = receipts \cup {m} /\ net' = net + Signed(m)
                           /\ queue' = queue \ {m} /\ due' = Signed(m)
    BY <1>3 DEF BookReceipt
  <2>2. m \in Moves /\ Signed(m) \in Int
    BY SignedInt DEF TickTypes
  <2>3. net' \in Int /\ due' \in Int /\ receipts' \subseteq Moves /\ queue' \subseteq Moves
    BY <2>1, <2>2, SMT DEF BookTypes, TickTypes
  <2> QED
    BY <1>1, <1>2, <1>3, <2>3, MemoryFrame DEF BookReceipt, BookTypes, TickTypes, readVars
<1>4. CASE InferNothing
  <2>1. known' \in BOOLEAN
    BY <1>4 DEF InferNothing, StillKnown, Drifted, MemoryTypes
  <2> QED
    BY <1>1, <1>2, <1>4, <2>1, BookFrame DEF InferNothing, MemoryTypes, TickTypes, readVars
<1>5. CASE InferFlow
  <2>1. net' \in Int /\ due' \in Int
    BY <1>5, DeltaInt, SMT DEF InferFlow, BookTypes
  <2> QED
    BY <1>1, <1>2, <1>5, <2>1, MemoryFrame DEF InferFlow, BookTypes, TickTypes, readVars
<1>6. CASE FlowFails
  BY <1>1, <1>2, <1>6, BookFrame, MemoryFrame DEF FlowFails, TickTypes, readVars
<1>7. CASE AdjustPeak
  <2>1. hwm' \in Nat
    BY <1>7, ShiftedIsNat DEF AdjustPeak, BookTypes, TickTypes
  <2> QED
    BY <1>1, <1>2, <1>7, <2>1 DEF AdjustPeak, BookTypes, TickTypes, MemoryTypes, readVars
<1> QED
  BY <1>3, <1>4, <1>5, <1>6, <1>7

LEMMA AccrualSteps == Types /\ (Baseline \/ Accrue \/ TickEnd) => Types'
<1> SUFFICES ASSUME Types, Baseline \/ Accrue \/ TickEnd PROVE Types'
  OBVIOUS
<1> USE DEF Types
<1>1. ChainTypes'
  BY ChainFrame DEF Baseline, Accrue, TickEnd, configVars, chainVars, opVars
<1>2. FaultTypes'
  BY FaultFrame DEF Baseline, Accrue, TickEnd, AllCapitalFaults
<1>3. readCash \in Int /\ Reading(readCash) \in Cells
  BY ReadingIsCell, SMT DEF TickTypes
<1>4. CASE Baseline
  BY <1>1, <1>2, <1>3, <1>4, BookFrame DEF Baseline, MemoryTypes, TickTypes, readVars
<1>5. CASE Accrue
  <2>1. Above(peak) \in Nat /\ Ratchet(peak) \in Nat /\ Ratchet(hwm) \in Nat
    BY AboveIsNat DEF MemoryTypes, BookTypes, TickTypes
  <2>2. charged' \in Nat
    BY <1>5, <2>1, SMT DEF Accrue, Feeable, BookTypes
  <2>3. hwm' \in Nat /\ peak' \in Nat /\ row' \in Cells /\ traded' \in BOOLEAN
    BY <1>3, <1>5, <2>1 DEF Accrue, BookTypes
  <2> QED
    BY <1>1, <1>2, <1>5, <2>2, <2>3 DEF Accrue, BookTypes, MemoryTypes, TickTypes, readVars
<1>6. CASE TickEnd
  <2>1. 0 \in 0 .. Len(Amounts)
    BY ExecutedBound, SMT
  <2> QED
    BY <1>1, <1>2, <1>6, <2>1, BookFrame, MemoryFrame DEF TickEnd, TickTypes
<1> QED
  BY <1>4, <1>5, <1>6

LEMMA OperationSteps ==
  Types /\ (Submit \/ Drop \/ RecordFill \/ RecordTransfer \/ Unresolve \/ SettleStray) => Types'
<1> SUFFICES ASSUME Types, Submit \/ Drop \/ RecordFill \/ RecordTransfer \/ Unresolve \/ SettleStray
             PROVE  Types'
  OBVIOUS
<1> USE DEF Types
<1>1. TickTypes' /\ FaultTypes'
  BY TickFrame, FaultFrame
     DEF Submit, Drop, RecordFill, RecordTransfer, Unresolve, SettleStray, AllCapitalFaults
<1>2. ChainTypes'
  BY DEF ChainTypes, Submit, Drop, RecordFill, RecordTransfer, Unresolve, SettleStray, NoOp,
         configVars, chainVars
<1>3. 1 .. Executed \subseteq Moves
  BY ExecutedBound, SMT DEF Moves
<1>4. CASE Submit
  BY <1>1, <1>2, <1>4, BookFrame DEF Submit, MemoryTypes
<1>5. CASE Drop
  BY <1>1, <1>2, <1>5, BookFrame, MemoryFrame DEF Drop
<1>6. CASE RecordFill
  BY <1>1, <1>2, <1>3, <1>6 DEF RecordFill, BookTypes, MemoryTypes
<1>7. CASE RecordTransfer
  <2>1. PICK m \in 1 .. Executed :
          /\ explained' = explained \cup {m}
          /\ \/ /\ net' = net + Signed(m)
                /\ hwm' = Shifted(hwm, Signed(m)) /\ peak' = hwm'
                /\ seen' = IF seen.known THEN Reading(seen.cash + Signed(m)) ELSE seen
             \/ UNCHANGED <<net, hwm, peak, seen>>
    BY <1>7 DEF RecordTransfer
  <2>2. m \in Moves /\ Signed(m) \in Int
    BY <1>3, SignedInt
  <2>3. net + Signed(m) \in Int /\ Shifted(hwm, Signed(m)) \in Nat /\ seen.cash + Signed(m) \in Int
    <3>1. net \in Int /\ hwm \in Nat /\ seen.cash \in Int
      BY SMT DEF BookTypes, MemoryTypes, Cells
    <3>2. Shifted(hwm, Signed(m)) \in Nat
      BY <2>2, <3>1, ShiftedIsNat
    <3>3. \A x, y \in Int : x + y \in Int
      BY SMT
    <3> QED
      BY <2>2, <3>1, <3>2, <3>3
  <2>4. net' \in Int /\ hwm' \in Nat /\ peak' \in Nat /\ seen' \in Cells
    BY <2>1, <2>3, ReadingIsCell DEF BookTypes, MemoryTypes
  <2>5. BookTypes'
    BY <1>7, <2>1, <2>2, <2>4 DEF RecordTransfer, BookTypes
  <2>6. MemoryTypes'
    BY <1>7, <2>4, SMT DEF RecordTransfer, MemoryTypes
  <2> QED
    BY <1>1, <1>2, <2>5, <2>6
<1>8. CASE Unresolve
  BY <1>1, <1>2, <1>8, BookFrame, MemoryFrame DEF Unresolve
<1>9. CASE SettleStray
  BY <1>1, <1>2, <1>3, <1>9, MemoryFrame DEF SettleStray, BookTypes
<1> QED
  BY <1>4, <1>5, <1>6, <1>7, <1>8, <1>9

LEMMA RaisedIsNat == Types => /\ Raised \in Nat /\ Raised >= hwm
  BY SMT DEF Types, BookTypes, Raised

LEMMA MirrorStep == Types /\ MirrorMark => Types'
<1> SUFFICES ASSUME Types, MirrorMark PROVE Types'
  OBVIOUS
<1>1. ChainTypes' /\ TickTypes' /\ MemoryTypes' /\ FaultTypes'
  BY ChainFrame, TickFrame, MemoryFrame, FaultFrame DEF MirrorMark, Types
<1>2. BookTypes'
  BY RaisedIsNat DEF MirrorMark, Types, BookTypes
<1> QED
  BY <1>1, <1>2 DEF Types

LEMMA RestartSteps == Types /\ (Redeploy \/ StopStart) => Types'
<1> SUFFICES ASSUME Types, Redeploy \/ StopStart PROVE Types'
  OBVIOUS
<1> USE DEF Types
<1>1. Restart
  BY DEF Redeploy, StopStart
<1>2. ChainTypes'
  BY <1>1 DEF Restart, ChainTypes, configVars, chainVars
<1>3. TickTypes'
  <2>1. 0 \in 0 .. Len(Amounts)
    BY ExecutedBound, SMT
  <2> QED
    BY <1>1, <2>1, SMT DEF Restart, TickTypes
<1>4. FaultTypes'
  BY FaultFrame DEF Redeploy, StopStart, AllCapitalFaults
<1>5. /\ cursor' \in Nat /\ seen' \in Cells /\ wrote' \in BOOLEAN /\ traded' \in BOOLEAN
      /\ net' \in Int /\ charged' \in Nat
  BY <1>1, UnreadIsCell DEF Restart, BookTypes
<1>6. CASE Redeploy
  <2>1. licence' \in Licences
    BY <1>6 DEF Redeploy, LicencesRead, Licences
  <2>2. known' \in BOOLEAN /\ anchor' \in Cells
    BY <1>6, UnreadIsCell DEF Redeploy, BookTypes
  <2>3. hwm' \in Nat /\ mirrored' \in Nat /\ peak' \in Nat
    BY <1>6, RaisedIsNat, SMT DEF Redeploy
  <2>4. BookTypes'
    <3>1. receipts' = {} /\ explained' = {} /\ evidenced' = evidenced /\ row' = row
      BY <1>6 DEF Redeploy
    <3> QED
      BY <1>5, <2>3, <3>1 DEF BookTypes
  <2>5. MemoryTypes'
    BY <1>5, <2>1, <2>2, <2>3 DEF MemoryTypes
  <2> QED
    BY <1>2, <1>3, <1>4, <2>4, <2>5
<1>7. CASE StopStart
  BY <1>2, <1>3, <1>4, <1>5, <1>7 DEF StopStart, BookTypes, MemoryTypes
<1> QED
  BY <1>6, <1>7

LEMMA TypesBegin == CapitalInit => Types
<1> SUFFICES ASSUME CapitalInit PROVE Types
  OBVIOUS
<1>1. <<>> \in Seq(External \cup OpKinds) /\ Len(<<>>) = 0 /\ <<>> \in Seq(CapitalFaults)
  BY EmptySeq
<1>2. Len(Amounts) \in Nat
  BY CapitalAssumption, LenProperties
<1>3. Unread \in Cells
  BY UnreadIsCell
<1>4. licence \in Licences
  BY SMT DEF CapitalInit, Licences
<1>5. ChainTypes /\ FaultTypes
  BY <1>1, <1>2, SMT DEF CapitalInit, ChainTypes, FaultTypes, OpKinds
<1>6. BookTypes
  BY <1>3, SMT DEF CapitalInit, BookTypes
<1>7. TickTypes
  BY <1>2, SMT DEF CapitalInit, TickTypes
<1>8. MemoryTypes
  BY <1>3, <1>4 DEF CapitalInit, MemoryTypes
<1> QED
  BY <1>5, <1>6, <1>7, <1>8 DEF Types

LEMMA TypesStep == Types /\ [CapitalNext]_capitalVars => Types'
<1> SUFFICES ASSUME Types, [CapitalNext]_capitalVars PROVE Types'
  OBVIOUS
<1>1. CASE UNCHANGED capitalVars
  BY <1>1, ChainFrame, BookFrame, TickFrame, MemoryFrame, FaultFrame DEF capitalVars, Types
<1>2. CASE CapitalNext
  BY <1>2, ChainSteps, ScanSteps, BookSteps, AccrualSteps, OperationSteps, MirrorStep, RestartSteps
     DEF CapitalNext, TickStep
<1> QED
  BY <1>1, <1>2

LEMMA TypesHold == CapitalSpec => []Types
  BY TypesBegin, TypesStep, PTL DEF CapitalSpec

(* The account, the ledger and the worker's memory of both stay what their *)
(* columns and fields can hold; the high-water mark is never negative.     *)
THEOREM CapitalTypeCorrect == CapitalSpec => []CapitalTypeOK
  BY TypesHold, TypesAreTypeOK, PTL

-----------------------------------------------------------------------------
(* The mark and the contributions.  PeakCarries is not inductive: what is  *)
(* due must be nothing outside a record, and the worker's copy of the mark *)
(* be the one on record, or an accrual would lose what it charges.         *)

Paired ==
  /\ ~Adjusting => due = 0
  /\ Never({"peak"}) => peak = hwm
  /\ PeakCarries

AnyFault == UNCHANGED happened \/ \E f \in AllCapitalFaults : Hit(f)

LEMMA FaultsOnlyGrow ==
  ASSUME FaultTypes, AnyFault, NEW F, Never(F)'
  PROVE  Never(F)
<1>1. CASE UNCHANGED happened
  BY <1>1 DEF Never
<1>2. ASSUME NEW f, Hit(f) PROVE Never(F)
  <2>1. happened' = Append(happened, f) /\ happened \in Seq(CapitalFaults) /\ f \in CapitalFaults
    BY <1>2 DEF Hit, FaultTypes
  <2>2. /\ Len(happened') = Len(happened) + 1 /\ Len(happened) \in Nat
        /\ \A i \in 1 .. Len(happened) : happened'[i] = happened[i]
    BY <2>1, AppendProperties, LenProperties
  <2>3. \A i \in 1 .. Len(happened) : i \in 1 .. Len(happened')
    BY <2>2, SMT
  <2> QED
    BY <2>2, <2>3 DEF Never
<1> QED
  BY <1>1, <1>2 DEF AnyFault

LEMMA AFaultIsKnown ==
  ASSUME FaultTypes, NEW f, Hit(f), NEW F, f \in F
  PROVE  ~Never(F)'
<1>1. happened' = Append(happened, f) /\ happened \in Seq(CapitalFaults) /\ f \in CapitalFaults
  BY DEF Hit, FaultTypes
<1>2. Len(happened') = Len(happened) + 1 /\ Len(happened) \in Nat /\ happened'[Len(happened) + 1] = f
  BY <1>1, AppendProperties, LenProperties
<1>3. Len(happened) + 1 \in 1 .. Len(happened')
  BY <1>2, SMT
<1> QED
  BY <1>2, <1>3 DEF Never

(* The numbers of the pairing.                                             *)
LEMMA Figures == ASSUME Types
                 PROVE  /\ hwm \in Nat /\ net \in Int /\ charged \in Nat /\ peak \in Nat /\ due \in Int
                        /\ readEquity \in Int
  BY DEF Types, BookTypes, TickTypes, MemoryTypes

LEMMA QuietSteps ==
  ASSUME Types, Paired, AnyFault, UNCHANGED <<hwm, net, charged, peak, due>>, Adjusting' <=> Adjusting
  PROVE  Paired'
<1>1. Never({"peak"})' => Never({"peak"})
  BY FaultsOnlyGrow DEF Types
<1>2. Never({"peak", "torn", "anchor"})' => Never({"peak", "torn", "anchor"})
  BY FaultsOnlyGrow DEF Types
<1> QED
  BY <1>1, <1>2 DEF Paired, PeakCarries

(* Nothing is taken into the books by these.                               *)
Bystander ==
  \/ Deposit \/ Takeout \/ Perform
  \/ TickRead \/ OpenAtHead \/ ResumeScan \/ Scan \/ ScanRefused \/ ScanDone
  \/ InferNothing \/ FlowFails \/ Baseline \/ TickEnd
  \/ Submit \/ Mine \/ Drop \/ RecordFill \/ Unresolve \/ SettleStray \/ MirrorMark

LEMMA BystanderSteps == Types /\ Paired /\ Bystander => Paired'
<1> SUFFICES ASSUME Types, Paired, Bystander PROVE Paired'
  OBVIOUS
<1>1. AnyFault
  BY DEF Bystander, AnyFault, AllCapitalFaults, Deposit, Takeout, Perform, TickRead, OpenAtHead,
         ResumeScan, Scan, ScanRefused, ScanDone, InferNothing, FlowFails, Baseline, TickEnd,
         Submit, Mine, Drop, RecordFill, Unresolve, SettleStray, MirrorMark
<1>2. CASE Deposit \/ Takeout \/ Perform \/ Mine \/ Drop \/ Unresolve \/ SettleStray
  <2>1. UNCHANGED <<hwm, net, charged, peak, due, pc>>
    BY <1>2 DEF Deposit, Takeout, Perform, Mine, Drop, Unresolve, SettleStray, bookVars, tickVars,
                memoryVars
  <2> QED
    BY <1>1, <2>1, QuietSteps DEF Adjusting
<1>3. CASE Submit \/ RecordFill \/ MirrorMark
  <2>1. UNCHANGED <<hwm, net, charged, peak, due, pc>>
    BY <1>3 DEF Submit, RecordFill, MirrorMark, bookVars, tickVars, memoryVars
  <2> QED
    BY <1>1, <2>1, QuietSteps DEF Adjusting
<1>4. CASE TickRead \/ OpenAtHead \/ ResumeScan \/ Scan \/ ScanRefused \/ ScanDone
  <2>1. UNCHANGED <<hwm, net, charged, peak, due>>
    BY <1>4 DEF TickRead, OpenAtHead, ResumeScan, Scan, ScanRefused, ScanDone, bookVars, memoryVars
  <2>2. ~Adjusting /\ ~Adjusting'
    BY <1>4 DEF TickRead, OpenAtHead, ResumeScan, Scan, ScanRefused, ScanDone, Adjusting
  <2> QED
    BY <1>1, <2>1, <2>2, QuietSteps
<1>5. CASE InferNothing \/ FlowFails \/ Baseline \/ TickEnd
  <2>1. UNCHANGED <<hwm, net, charged, peak, due>>
    BY <1>5 DEF InferNothing, FlowFails, Baseline, TickEnd, bookVars, memoryVars
  <2>2. ~Adjusting /\ ~Adjusting'
    BY <1>5 DEF InferNothing, FlowFails, Baseline, TickEnd, Adjusting
  <2> QED
    BY <1>1, <2>1, <2>2, QuietSteps
<1> QED
  BY <1>2, <1>3, <1>4, <1>5 DEF Bystander

LEMMA RecordBegins == Types /\ Paired /\ (BookReceipt \/ InferFlow) => Paired'
<1> SUFFICES ASSUME Types, Paired, BookReceipt \/ InferFlow PROVE Paired'
  OBVIOUS
<1>1. /\ UNCHANGED <<hwm, charged, peak, happened>> /\ ~Adjusting /\ Adjusting'
      /\ \E by \in Int : net' = net + by /\ due' = by
  <2>1. CASE BookReceipt
    BY <2>1, SignedInt DEF BookReceipt, Adjusting, memoryVars, Types, TickTypes
  <2>2. CASE InferFlow
    BY <2>2, DeltaInt DEF InferFlow, Adjusting, memoryVars
  <2> QED
    BY <2>1, <2>2
<1>2. PICK by \in Int : net' = net + by /\ due' = by
  BY <1>1
<1>3. \A F : Never(F)' <=> Never(F)
  BY <1>1 DEF Never
<1>4. hwm >= net + charged => hwm' + due' >= net' + charged'
  BY <1>1, <1>2, Figures, SMT
<1> QED
  BY <1>1, <1>3, <1>4 DEF Paired, PeakCarries

LEMMA RecordEnds == Types /\ Paired /\ AdjustPeak => Paired'
<1> SUFFICES ASSUME Types, Paired, AdjustPeak PROVE Paired'
  OBVIOUS
<1>1. due' = 0 /\ peak' = hwm' /\ Adjusting /\ ~Adjusting' /\ UNCHANGED <<net, charged>>
  BY DEF AdjustPeak, Adjusting
<1>2. CASE hwm' = Shifted(hwm, due) /\ UNCHANGED happened
  <2>1. hwm' \in Nat /\ hwm' >= hwm + due
    BY <1>2, Figures, ShiftedIsNat
  <2>2. hwm + due >= net + charged => hwm' >= net' + charged'
    BY <1>1, <2>1, Figures, SMT
  <2>3. Never({"peak", "torn", "anchor"})' <=> Never({"peak", "torn", "anchor"})
    BY <1>2 DEF Never
  <2> QED
    BY <1>1, <2>2, <2>3 DEF Paired, PeakCarries
<1>3. CASE Hit("peak")
  <2>1. ~Never({"peak"})' /\ ~Never({"peak", "torn", "anchor"})'
    BY <1>3, AFaultIsKnown DEF Types
  <2> QED
    BY <1>1, <2>1 DEF Paired, PeakCarries
<1> QED
  BY <1>2, <1>3 DEF AdjustPeak

LEMMA FeeIsCarried == Types /\ Paired /\ Accrue => Paired'
<1> SUFFICES ASSUME Types, Paired, Accrue PROVE Paired'
  OBVIOUS
<1>1. /\ UNCHANGED <<net, due>> /\ ~Adjusting /\ ~Adjusting'
      /\ peak' = Ratchet(peak) /\ charged' = charged + Feeable
  BY DEF Accrue, Adjusting
<1>2. CASE hwm' = Ratchet(hwm) /\ UNCHANGED happened
  <2>1. \A F : Never(F)' <=> Never(F)
    BY <1>2 DEF Never
  <2>2. Never({"peak", "torn", "anchor"}) => Never({"peak"})
    BY DEF Never
  <2>3. /\ Above(hwm) \in Nat /\ hwm' = hwm + Above(hwm)
        /\ peak = hwm => Feeable \in {0, Above(hwm)}
    BY <1>2, Figures, AboveIsNat DEF Feeable
  <2>4. peak = hwm /\ hwm >= net + charged => hwm' >= net' + charged'
    BY <1>1, <2>3, Figures, SMT
  <2> QED
    BY <1>1, <1>2, <2>1, <2>2, <2>4 DEF Paired, PeakCarries
<1>3. CASE Hit("peak")
  <2>1. ~Never({"peak"})' /\ ~Never({"peak", "torn", "anchor"})'
    BY <1>3, AFaultIsKnown DEF Types
  <2> QED
    BY <1>1, <2>1 DEF Paired, PeakCarries
<1> QED
  BY <1>2, <1>3 DEF Accrue

LEMMA TransferIsCarried == Types /\ Paired /\ RecordTransfer => Paired'
<1> SUFFICES ASSUME Types, Paired, RecordTransfer PROVE Paired'
  OBVIOUS
<1>1. UNCHANGED <<charged, due, pc>>
  BY DEF RecordTransfer, tickVars
<1>2. PICK m \in 1 .. Executed :
        \/ /\ net' = net + Signed(m) /\ hwm' = Shifted(hwm, Signed(m)) /\ peak' = hwm'
           /\ UNCHANGED happened
        \/ Hit("flow") /\ UNCHANGED <<net, hwm, peak>>
  BY DEF RecordTransfer
<1>3. Signed(m) \in Int
  <2>1. m \in Moves
    BY ExecutedBound, SMT DEF Moves, Types
  <2> QED
    BY <2>1, SignedInt
<1>4. CASE Hit("flow") /\ UNCHANGED <<net, hwm, peak>>
  BY <1>1, <1>4, QuietSteps DEF AnyFault, AllCapitalFaults, Adjusting
<1>5. CASE /\ net' = net + Signed(m) /\ hwm' = Shifted(hwm, Signed(m)) /\ peak' = hwm'
           /\ UNCHANGED happened
  <2>1. \A F : Never(F)' <=> Never(F)
    BY <1>5 DEF Never
  <2>2. hwm' \in Nat /\ hwm' >= hwm + Signed(m)
    BY <1>3, <1>5, Figures, ShiftedIsNat
  <2>3. /\ hwm >= net + charged => hwm' >= net' + charged'
        /\ hwm + due >= net + charged => hwm' + due' >= net' + charged'
    BY <1>1, <1>3, <1>5, <2>2, Figures, SMT
  <2>4. Adjusting' <=> Adjusting
    BY <1>1 DEF Adjusting
  <2> QED
    BY <1>1, <1>5, <2>1, <2>3, <2>4 DEF Paired, PeakCarries
<1> QED
  BY <1>2, <1>4, <1>5

LEMMA RestartForgetsNoMark == Types /\ Paired /\ (Redeploy \/ StopStart) => Paired'
<1> SUFFICES ASSUME Types, Paired, Redeploy \/ StopStart PROVE Paired'
  OBVIOUS
<1> DEFINE Excused == {"peak", "torn", "anchor"}
<1>1. UNCHANGED <<net, charged>> /\ due' = 0 /\ peak' = hwm' /\ ~Adjusting'
  BY DEF Redeploy, StopStart, Restart, Adjusting
<1>2. CASE \E f \in Excused : Hit(f)
  <2>1. ~Never(Excused)'
    BY <1>2, AFaultIsKnown DEF Types
  <2> QED
    BY <1>1, <2>1 DEF Paired, PeakCarries
<1>3. CASE ~\E f \in Excused : Hit(f)
  <2>1. ~Adjusting
    BY <1>3 DEF Redeploy, Settled, StopStart, Adjusting
  <2>2. hwm' \in Nat /\ hwm' >= hwm
    <3>1. CASE StopStart
      BY <3>1, Figures, SMT DEF StopStart
    <3>2. CASE Redeploy
      <4>1. licence' \in LicencesRead /\ hwm' = IF licence' = "resume" THEN Raised ELSE 0
        BY <1>3, <3>2 DEF Redeploy
      <4>2. Raised > 0 => licence' = "resume"
        BY <4>1 DEF LicencesRead, HasAccounting
      <4> QED
        BY <4>1, <4>2, Figures, RaisedIsNat, SMT
    <3> QED
      BY <3>1, <3>2
  <2>3. Never(Excused)' => Never(Excused)
    BY FaultsOnlyGrow DEF Types, AnyFault, AllCapitalFaults, Redeploy, StopStart
  <2>4. hwm >= net + charged => hwm' >= net' + charged'
    BY <1>1, <2>2, Figures, SMT
  <2> QED
    BY <1>1, <2>1, <2>3, <2>4 DEF Paired, PeakCarries
<1> QED
  BY <1>2, <1>3

LEMMA PairedBegins == CapitalInit => Paired
<1> SUFFICES ASSUME CapitalInit PROVE Paired
  OBVIOUS
<1>1. hwm = 0 /\ net = 0 /\ charged = 0 /\ due = 0 /\ peak = 0 /\ pc = "idle"
  BY DEF CapitalInit
<1> QED
  BY <1>1, SMT DEF Paired, PeakCarries, Adjusting

LEMMA PairedStep == Types /\ Paired /\ [CapitalNext]_capitalVars => Paired'
<1> SUFFICES ASSUME Types, Paired, [CapitalNext]_capitalVars PROVE Paired'
  OBVIOUS
<1>1. CASE UNCHANGED capitalVars
  BY <1>1, QuietSteps DEF capitalVars, bookVars, tickVars, memoryVars, AnyFault, Adjusting
<1>2. CASE CapitalNext
  BY <1>2, BystanderSteps, RecordBegins, RecordEnds, FeeIsCarried, TransferIsCarried,
     RestartForgetsNoMark
     DEF CapitalNext, TickStep, Bystander
<1> QED
  BY <1>1, <1>2

(* "THE PEAK AND THE CONTRIBUTION MOVE TOGETHER OR NOT AT ALL": for every  *)
(* history of deposits, trades, fees and restarts in which no write of the *)
(* mark fails, no worker dies between the two and none starts without the  *)
(* anchor.                                                                 *)
THEOREM PeakCarriesHolds == CapitalSpec => []PeakCarries
<1>1. Types /\ Paired /\ [CapitalNext]_capitalVars => (Types /\ Paired)'
  BY TypesStep, PairedStep
<1>2. CapitalInit => Types /\ Paired
  BY TypesBegin, PairedBegins
<1>3. Types /\ Paired => PeakCarries
  BY DEF Paired
<1> QED
  BY <1>1, <1>2, <1>3, PTL DEF CapitalSpec

-----------------------------------------------------------------------------
(* Sums over the movements of the account, and what a further one leaves   *)
(* as it is.                                                               *)

Tally(n) == SumOf(1 .. n)
Principal(n) == SumOf(CapitalMoves(n))

(* Every movement after the nth is the owner's own.                        *)
OwnersSince(n) == \A m \in 1 .. Executed : m > n => moves[m] \in External

LEMMA ExecutedMoves ==
  ASSUME Types
  PROVE  /\ Executed \in Nat /\ 1 .. Executed \subseteq Moves
         /\ \A m \in 1 .. Executed : Signed(m) \in Int
<1>1. Executed \in 0 .. Len(Amounts) /\ Len(Amounts) \in Nat
  BY ExecutedBound DEF Types
<1>2. 1 .. Executed \subseteq Moves
  BY <1>1, SMT DEF Moves
<1> QED
  BY <1>1, <1>2, SignedInt

(* SumOf as a sum of one function.                                         *)
LEMMA SumOfFits ==
  ASSUME Types
  PROVE  \E f : /\ \A S \in SUBSET (1 .. Executed) : /\ SumOf(S) = SumFunctionOnSet(f, S)
                                                     /\ WholeOn(f, S) /\ IsFiniteSet(S)
                /\ \A m \in 1 .. Executed : f[m] = Signed(m)
<1> DEFINE f == [m \in 1 .. Executed |-> Signed(m)]
<1>1. Executed \in Nat /\ \A m \in 1 .. Executed : f[m] = Signed(m) /\ f[m] \in Int
  BY ExecutedMoves
<1>2. IsFiniteSet(1 .. Executed)
  BY <1>1, FS_Interval
<1>3. ASSUME NEW S \in SUBSET (1 .. Executed)
      PROVE  SumOf(S) = SumFunctionOnSet(f, S) /\ WholeOn(f, S) /\ IsFiniteSet(S)
  <2> DEFINE g == [m \in S |-> Signed(m)]
  <2>1. IsFiniteSet(S)
    BY <1>2, FS_Subset
  <2>2. WholeOn(f, S) /\ \A m \in S : f[m] = g[m]
    BY <1>1 DEF WholeOn
  <2>3. SumOf(S) = SumFunctionOnSet(g, S)
    BY DEF SumOf
  <2> HIDE DEF f, g
  <2>4. SumFunctionOnSet(f, S) = SumFunctionOnSet(g, S)
    BY <2>1, <2>2, SumSame
  <2> QED
    BY <2>1, <2>2, <2>3, <2>4
<1> HIDE DEF f
<1> QED
  BY <1>1, <1>3

LEMMA SumOfInt == ASSUME Types, NEW S \in SUBSET (1 .. Executed) PROVE SumOf(S) \in Int
  BY SumOfFits, SumType

LEMMA SumOfNone == ASSUME Types PROVE SumOf({}) = 0
<1>1. {} \in SUBSET (1 .. Executed)
  OBVIOUS
<1> QED
  BY <1>1, SumOfFits, SumEmpty

LEMMA SumOfMore ==
  ASSUME Types, NEW S \in SUBSET (1 .. Executed), NEW m \in 1 .. Executed, m \notin S
  PROVE  SumOf(S \cup {m}) = SumOf(S) + Signed(m)
<1>1. PICK f : /\ \A T \in SUBSET (1 .. Executed) : /\ SumOf(T) = SumFunctionOnSet(f, T)
                                                    /\ WholeOn(f, T) /\ IsFiniteSet(T)
               /\ \A n \in 1 .. Executed : f[n] = Signed(n)
  BY SumOfFits
<1>2. S \cup {m} \in SUBSET (1 .. Executed)
  OBVIOUS
<1>3. SumFunctionOnSet(f, S \cup {m}) = f[m] + SumFunctionOnSet(f, S)
  BY <1>1, <1>2, SumAdd
<1>4. SumOf(S) \in Int /\ Signed(m) \in Int
  BY SumOfInt, ExecutedMoves
<1> QED
  BY <1>1, <1>2, <1>3, <1>4, SMT

LEMMA SumOfBoth ==
  ASSUME Types, NEW S \in SUBSET (1 .. Executed), NEW T \in SUBSET (1 .. Executed), S \cap T = {}
  PROVE  SumOf(S \cup T) = SumOf(S) + SumOf(T)
<1>1. PICK f : /\ \A U \in SUBSET (1 .. Executed) : /\ SumOf(U) = SumFunctionOnSet(f, U)
                                                    /\ WholeOn(f, U) /\ IsFiniteSet(U)
               /\ \A n \in 1 .. Executed : f[n] = Signed(n)
  BY SumOfFits
<1>2. S \cup T \in SUBSET (1 .. Executed)
  OBVIOUS
<1>3. SumFunctionOnSet(f, S \cup T) = SumFunctionOnSet(f, S) + SumFunctionOnSet(f, T)
  BY <1>1, <1>2, SumDisjoint
<1> QED
  BY <1>1, <1>2, <1>3

LEMMA TallyInt ==
  ASSUME Types, NEW n \in 0 .. Executed
  PROVE  /\ Tally(n) \in Int /\ Principal(n) \in Int
         /\ 1 .. n \in SUBSET (1 .. Executed) /\ CapitalMoves(n) \in SUBSET (1 .. Executed)
<1>1. 1 .. n \in SUBSET (1 .. Executed) /\ CapitalMoves(n) \in SUBSET (1 .. Executed)
  BY ExecutedMoves, SMT DEF CapitalMoves
<1> QED
  BY <1>1, SumOfInt DEF Tally, Principal

(* Between two readings the owner's money is all the difference.           *)
LEMMA OwnersMoney ==
  ASSUME Types, NEW n \in 0 .. Executed, OwnersSince(n), NEW k \in n .. Executed
  PROVE  /\ (n + 1) .. k \in SUBSET CapitalMoves(Executed)
         /\ Tally(k) - Tally(n) = SumOf((n + 1) .. k)
         /\ Principal(k) - Principal(n) = SumOf((n + 1) .. k)
         /\ SumOf((n + 1) .. k) \in Int /\ k \in 0 .. Executed
<1>1. /\ Executed \in Nat /\ k \in 0 .. Executed /\ (n + 1) .. k \in SUBSET (1 .. Executed)
      /\ 1 .. n \in SUBSET (1 .. Executed) /\ 1 .. k = (1 .. n) \cup ((n + 1) .. k)
      /\ (1 .. n) \cap ((n + 1) .. k) = {} /\ \A m \in (n + 1) .. k : m > n
  BY ExecutedMoves, SMT
<1>2. \A m \in (n + 1) .. k : moves[m] # "fill"
  BY <1>1, SMT DEF OwnersSince, External
<1>3. (n + 1) .. k \in SUBSET CapitalMoves(Executed)
  BY <1>1, <1>2 DEF CapitalMoves
<1>4. /\ CapitalMoves(k) = CapitalMoves(n) \cup ((n + 1) .. k)
      /\ CapitalMoves(n) \cap ((n + 1) .. k) = {} /\ CapitalMoves(n) \in SUBSET (1 .. Executed)
  BY <1>1, <1>2 DEF CapitalMoves
<1>5. SumOf(1 .. k) = SumOf(1 .. n) + SumOf((n + 1) .. k)
  BY <1>1, SumOfBoth
<1>6. SumOf(CapitalMoves(k)) = SumOf(CapitalMoves(n)) + SumOf((n + 1) .. k)
  BY <1>1, <1>4, SumOfBoth
<1>7. SumOf((n + 1) .. k) \in Int /\ SumOf(1 .. n) \in Int /\ SumOf(CapitalMoves(n)) \in Int
  BY <1>1, <1>4, SumOfInt
<1> QED
  BY <1>1, <1>3, <1>5, <1>6, <1>7, SMT DEF Tally, Principal

LEMMA ChainStill ==
  ASSUME UNCHANGED moves
  PROVE  /\ Executed' = Executed
         /\ \A S : SumOf(S)' = SumOf(S)
         /\ \A m : Signed(m)' = Signed(m)
         /\ \A n : /\ Tally(n)' = Tally(n) /\ Principal(n)' = Principal(n)
                   /\ CapitalMoves(n)' = CapitalMoves(n)
                   /\ OwnersSince(n)' = OwnersSince(n)
  BY DEF Executed, SumOf, Signed, Tally, Principal, CapitalMoves, OwnersSince

LEMMA ChainGrows ==
  ASSUME Types, NEW k \in External \cup OpKinds, Moved(k)
  PROVE  /\ Executed \in Nat /\ Executed' = Executed + 1
         /\ \A m \in 1 .. Executed : moves'[m] = moves[m] /\ Signed(m)' = Signed(m)
         /\ \E m \in Nat : /\ m = Executed + 1 /\ moves'[m] = k
                          /\ Signed(m)' \in Int /\ cash' = cash + Signed(m)'
                          /\ capital' = IF k = "fill" THEN capital ELSE capital + Signed(m)'
         /\ \A S \in SUBSET (1 .. Executed) : SumOf(S)' = SumOf(S)
         /\ \A n \in 0 .. Executed : /\ Tally(n)' = Tally(n) /\ Principal(n)' = Principal(n)
                                     /\ CapitalMoves(n)' = CapitalMoves(n)
<1>1. /\ moves \in Seq(External \cup OpKinds) /\ moves' = Append(moves, k)
  BY DEF Types, ChainTypes, Moved
<1>2. /\ Executed \in Nat /\ Executed' = Executed + 1
      /\ \A m \in 1 .. Executed : moves'[m] = moves[m]
      /\ moves'[Executed + 1] = k
  BY <1>1, AppendProperties, LenProperties DEF Executed
<1>3. \A m \in 1 .. Executed : Signed(m)' = Signed(m)
  BY <1>2 DEF Signed
<1>4. \E m \in Nat : /\ m = Executed + 1 /\ moves'[m] = k
                   /\ Signed(m)' \in Int /\ cash' = cash + Signed(m)'
                   /\ capital' = IF k = "fill" THEN capital ELSE capital + Signed(m)'
  <2>1. PICK m \in Nat : m = Executed + 1
    BY <1>2
  <2>2. Signed(m)' = (IF Inbound(k) THEN NextAmount ELSE -NextAmount)
    BY <1>2, <2>1 DEF Signed, Inbound, NextAmount
  <2>3. Len(Amounts) \in Nat /\ m \in Moves
    BY <1>2, <2>1, ExecutedBound, SMT DEF Moved, Moves, Types
  <2>4. NextAmount \in Int
    BY <2>1, <2>3, AmountOf DEF NextAmount
  <2>5. Signed(m)' \in Int
    BY <2>2, <2>4, SMT
  <2> QED
    BY <1>2, <2>1, <2>2, <2>5 DEF Moved
<1>5. ASSUME NEW S \in SUBSET (1 .. Executed) PROVE SumOf(S)' = SumOf(S)
  <2>1. [m \in S |-> Signed(m)'] = [m \in S |-> Signed(m)]
    BY <1>3
  <2> QED
    BY <2>1 DEF SumOf
<1>6. ASSUME NEW n \in 0 .. Executed
      PROVE  Tally(n)' = Tally(n) /\ Principal(n)' = Principal(n) /\ CapitalMoves(n)' = CapitalMoves(n)
  <2>1. 1 .. n \in SUBSET (1 .. Executed) /\ CapitalMoves(n) \in SUBSET (1 .. Executed)
    BY TallyInt
  <2>2. CapitalMoves(n)' = CapitalMoves(n)
    BY <1>2, <2>1, SMT DEF CapitalMoves
  <2>3. PICK C : C = CapitalMoves(n)
    OBVIOUS
  <2>4. SumOf(C)' = SumOf(C) /\ SumOf(1 .. n)' = SumOf(1 .. n)
    BY <1>5, <2>1, <2>3
  <2>5. SumOf(CapitalMoves(n))' = SumOf(C)'
    BY <2>2, <2>3 DEF SumOf
  <2> QED
    BY <2>2, <2>3, <2>4, <2>5 DEF Tally, Principal
<1> QED
  BY <1>2, <1>3, <1>4, <1>5, <1>6

LEMMA OneMore ==
  Types => \A S \in SUBSET (1 .. Executed), m \in 1 .. Executed :
             m \notin S => SumOf(S \cup {m}) = SumOf(S) + Signed(m)
  BY SumOfMore

LEMMA OneMoreAfter ==
  ASSUME Types'
  PROVE  \A S \in SUBSET (1 .. Executed'), m \in 1 .. Executed' :
           m \notin S => SumOf(S \cup {m})' = SumOf(S)' + Signed(m)'
<1> SUFFICES (Types => \A S \in SUBSET (1 .. Executed), m \in 1 .. Executed :
                m \notin S => SumOf(S \cup {m}) = SumOf(S) + Signed(m))'
  OBVIOUS
<1> QED
  BY OneMore, PTL

(* The new movement in the sums.                                           *)
LEMMA ChainNext ==
  ASSUME Types, Types', NEW k \in External \cup OpKinds, Moved(k)
  PROVE  \E n, m \in Nat :
           /\ n = Executed /\ m = Executed' /\ m = n + 1 /\ moves'[m] = k
           /\ cash' = cash + Signed(m)' /\ Signed(m)' \in Int
           /\ Tally(m)' = Tally(n) + Signed(m)'
           /\ capital' = IF k = "fill" THEN capital ELSE capital + Signed(m)'
           /\ Principal(m)' = IF k = "fill" THEN Principal(n) ELSE Principal(n) + Signed(m)'
           /\ CapitalMoves(m)' = IF k = "fill" THEN CapitalMoves(n) ELSE CapitalMoves(n) \cup {m}
<1>1. PICK m \in Nat : /\ m = Executed + 1 /\ moves'[m] = k
                       /\ Signed(m)' \in Int /\ cash' = cash + Signed(m)'
                       /\ capital' = IF k = "fill" THEN capital ELSE capital + Signed(m)'
  BY ChainGrows
<1>2. PICK n \in Nat : n = Executed
  BY ExecutedMoves
<1>3. /\ Executed' = m /\ m = n + 1 /\ n \in 0 .. Executed /\ 1 .. n \in SUBSET (1 .. Executed)
      /\ 1 .. n \in SUBSET (1 .. Executed') /\ m \in 1 .. Executed' /\ m \notin 1 .. n
      /\ 1 .. m = (1 .. n) \cup {m}
  BY <1>1, <1>2, ChainGrows, SMT
<1>4. PICK C : C = CapitalMoves(n) /\ C \in SUBSET (1 .. n)
  BY DEF CapitalMoves
<1>5. /\ \A q \in 1 .. n : moves'[q] = moves[q]
      /\ SumOf(1 .. n)' = SumOf(1 .. n) /\ SumOf(C)' = SumOf(C)
  BY <1>2, <1>3, <1>4, ChainGrows
<1>6. CapitalMoves(m)' = IF k = "fill" THEN C ELSE C \cup {m}
  BY <1>1, <1>3, <1>4, <1>5 DEF CapitalMoves
<1>7. SumOf(1 .. m)' = SumOf(1 .. n) + Signed(m)'
  BY <1>3, <1>5, OneMoreAfter
<1>8. SumOf(C \cup {m})' = SumOf(C) + Signed(m)'
  BY <1>3, <1>4, <1>5, OneMoreAfter
<1>9. Principal(m)' = IF k = "fill" THEN Principal(n) ELSE Principal(n) + Signed(m)'
  <2>1. Principal(n) = SumOf(C)
    BY <1>4 DEF Principal
  <2>2. CASE k = "fill"
    <3>1. Principal(m)' = SumOf(C)'
      BY <1>6, <2>2 DEF Principal, SumOf
    <3> QED
      BY <1>5, <2>1, <2>2, <3>1
  <2>3. CASE k # "fill"
    <3>1. Principal(m)' = SumOf(C \cup {m})'
      BY <1>6, <2>3 DEF Principal, SumOf
    <3> QED
      BY <1>8, <2>1, <2>3, <3>1
  <2> QED
    BY <2>2, <2>3
<1> QED
  BY <1>1, <1>2, <1>3, <1>4, <1>6, <1>7, <1>9 DEF Tally

-----------------------------------------------------------------------------
(* How the tick, the account and the books stand to each other as long as  *)
(* nothing is observed twice: the part of the invariants below that is not *)
(* about what has been booked.                                             *)

Early == pc \in {"intents", "idle", "flows", "infer"}

(* This life has not taken its first observation yet.                      *)
Fresh ==
  IF scanOn THEN cursor = 0 \/ pc = "infer" ELSE ~seen.known /\ pc \in {"idle", "infer"}

(* An operation is waited for at the end of a tick, unless a redeploy has  *)
(* taken the waiter away.                                                  *)
Waits ==
  /\ stage # "none" => \/ waiter = "tick" /\ pc = "intents" /\ traded
                       \/ waiter = "nobody" /\ stage = "landed" /\ hosted
  /\ pc = "intents" => row.known

Money ==
  /\ \A n \in 0 .. Executed : n = Executed => cash = Tally(n) /\ capital = Principal(n)
  /\ capital + gain >= cash /\ gain <= best

Readings ==
  /\ pc # "idle" => \E n \in 0 .. Executed : /\ n = read /\ readCash = Tally(n)
                                             /\ readEquity >= readCash
                                             /\ readEquity <= Principal(n) + best
  /\ pc \notin {"idle", "intents"} => /\ OwnersSince(read)
                                      /\ readEquity = readCash => capital + gain = cash

(* Before the first equity row there is only what the owner has sent.      *)
NoRow ==
  ~row.known =>
    /\ row.cash = 0 /\ OwnersSince(0) /\ stage = "none" /\ capital = cash /\ gain = 0
    /\ pc # "idle" => readEquity = readCash
    /\ (pc \in {"idle", "flows", "infer"} /\ (hosted => Never({"redeploy", "midway", "anchor"})))
         => ~HasAccounting /\ hwm = 0

(* An account with a row and without a mark was empty.                     *)
NoMark ==
  (~hosted /\ row.known /\ ~traded /\ hwm = 0 /\ Early) =>
    /\ row.cash = 0 /\ capital + gain = cash
    /\ pc \in {"flows", "infer"} => readEquity = readCash

Openings ==
  /\ Fresh => ~seen.known /\ pc \in {"idle", "flows", "infer"} /\ (~hosted => ~traded)
  /\ (scanOn /\ pc = "infer") => cursor = 2 * read + 1 /\ \A k \in receipts : k <= stale
  /\ ~scanOn => cursor = 0 /\ receipts = {} /\ pc \notin {"flows", "book", "adjust"}
  /\ (~scanOn /\ ~seen.known) => pc \in {"idle", "infer", "adjustLast", "baseline"}
  /\ (hosted /\ licence = "new-account" /\ Fresh) => ~row.known /\ net = 0
  /\ IF hosted THEN licence # "self-hosted-local" ELSE licence = "self-hosted-local"

Cursors ==
  /\ cursor <= 2 * Executed + 1
  /\ pc \in {"book", "adjust"} => cursor <= head /\ head <= 2 * Executed + 1
  /\ receipts \cup explained \cup queue \subseteq 1 .. Executed
  /\ stale = 0 \/ stale \in receipts
  /\ hosted => stale = 0 /\ (cursor = 0 => receipts = {})
  /\ pc \notin {"idle", "intents"} => stale <= read

Queued ==
  /\ pc \in {"book", "adjust"} \/ queue = {}
  /\ \A m \in queue : /\ moves[m] # "fill" /\ Block(m) >= cursor
                      /\ Never({"between"}) => m <= read

Facts == Waits /\ Money /\ Readings /\ NoRow /\ NoMark /\ Openings /\ Cursors /\ Queued

LEMMA FaultsHappen == CapitalNext => AnyFault
  BY DEF CapitalNext, TickStep, AnyFault, AllCapitalFaults, Deposit, Takeout, Perform, TickRead, OpenAtHead,
         ResumeScan, Scan, ScanRefused, ScanDone, BookReceipt, InferNothing, InferFlow, FlowFails,
         AdjustPeak, Baseline, Accrue, TickEnd, Submit, Mine, Drop, RecordFill, RecordTransfer,
         Unresolve, SettleStray, MirrorMark, Redeploy, StopStart

(* What the actions are while nothing is observed twice.                   *)
LEMMA CleanSteps ==
  ASSUME Types, Never(Overlaps)'
  PROVE  /\ ~ScanRefused /\ ~Unresolve
         /\ OpenAtHead => Executed = read /\ cursor' = 2 * Executed + 1 /\ UNCHANGED happened
         /\ FlowFails => pc = "book" \/ seen.known
         /\ AdjustPeak => hwm' = Shifted(hwm, due) /\ UNCHANGED happened
         /\ Accrue => hwm' = Ratchet(hwm) /\ UNCHANGED happened
         /\ Submit => pc = "intents" /\ waiter' = "tick" /\ UNCHANGED happened
         /\ Redeploy => ~Adjusting /\ stage # "submitted"
         /\ StopStart => pc = "idle" /\ stage = "none" /\ ~traded
<1>1. FaultTypes
  BY DEF Types
<1>2. \A f \in Overlaps : ~Hit(f)
  BY <1>1, AFaultIsKnown
<1>3. ~Hit("rpc") /\ ~Hit("opening") /\ ~Hit("firstflow") /\ ~Hit("peak") /\ ~Hit("torn")
      /\ ~Hit("unresolved") /\ ~Hit("chat") /\ ~Hit("kill")
  BY <1>2 DEF Overlaps
<1>4. ~ScanRefused /\ ~Unresolve
  BY <1>3 DEF ScanRefused, Unresolve
<1>5. OpenAtHead => Executed = read /\ cursor' = 2 * Executed + 1 /\ UNCHANGED happened
  BY <1>3 DEF OpenAtHead
<1>6. FlowFails => pc = "book" \/ seen.known
  BY <1>3 DEF FlowFails
<1>7. /\ AdjustPeak => hwm' = Shifted(hwm, due) /\ UNCHANGED happened
      /\ Accrue => hwm' = Ratchet(hwm) /\ UNCHANGED happened
  BY <1>3 DEF AdjustPeak, Accrue
<1>8. Submit => pc = "intents" /\ waiter' = "tick" /\ UNCHANGED happened
  BY <1>3 DEF Submit
<1>9. /\ Redeploy => ~Adjusting /\ stage # "submitted"
      /\ StopStart => pc = "idle" /\ stage = "none" /\ ~traded
  BY <1>3 DEF Redeploy, StopStart, Settled, Adjusting
<1> QED
  BY <1>4, <1>5, <1>6, <1>7, <1>8, <1>9

LEMMA WaitsStep == ASSUME Types, Types', Waits, Never(Overlaps)', CapitalNext PROVE Waits'
<1> USE CleanSteps DEF Waits
<1>1. CASE Deposit \/ Takeout \/ Perform
  BY <1>1 DEF Deposit, Takeout, Perform, opVars, tickVars, memoryVars, bookVars, configVars
<1>2. CASE TickRead \/ OpenAtHead \/ ResumeScan
  BY <1>2 DEF TickRead, OpenAtHead, ResumeScan, opVars, bookVars, configVars, Waiting
<1>3. CASE Scan \/ ScanDone \/ BookReceipt \/ FlowFails
  BY <1>3 DEF Scan, ScanDone, BookReceipt, FlowFails, opVars, bookVars, memoryVars, configVars
<1>4. CASE InferNothing \/ InferFlow \/ AdjustPeak \/ Baseline
  BY <1>4 DEF InferNothing, InferFlow, AdjustPeak, Baseline, Adjusting, opVars, bookVars, memoryVars,
              configVars
<1>5. CASE Accrue
  BY <1>5 DEF Accrue, opVars, configVars, Reading
<1>6. CASE TickEnd
  BY <1>6 DEF TickEnd, opVars, bookVars, memoryVars, configVars, Waiting
<1>7. CASE Submit
  BY <1>7 DEF Submit, tickVars, bookVars, configVars
<1>8. CASE Mine \/ Drop \/ RecordFill \/ RecordTransfer \/ SettleStray
  BY <1>8 DEF Mine, Drop, RecordFill, RecordTransfer, SettleStray, NoOp, tickVars, bookVars,
              memoryVars, configVars
<1>9. CASE MirrorMark
  BY <1>9 DEF MirrorMark, opVars, tickVars, memoryVars, configVars
<1>10. CASE Redeploy \/ StopStart
  BY <1>10 DEF Redeploy, StopStart, Restart, configVars, Types, ChainTypes
<1> QED
  BY <1>1, <1>2, <1>3, <1>4, <1>5, <1>6, <1>7, <1>8, <1>9, <1>10 DEF CapitalNext, TickStep

(* The actions by which nothing moves on the chain.                        *)
OffChain ==
  \/ TickStep \/ Submit \/ Drop \/ RecordFill \/ RecordTransfer \/ Unresolve \/ SettleStray
  \/ MirrorMark \/ Redeploy \/ StopStart

LEMMA OffChainStill == OffChain => UNCHANGED chainVars
  BY DEF OffChain, TickStep, TickRead, OpenAtHead, ResumeScan, Scan, ScanRefused, ScanDone, BookReceipt,
         InferNothing, InferFlow, FlowFails, AdjustPeak, Baseline, Accrue, TickEnd, Submit, Drop,
         RecordFill, RecordTransfer, Unresolve, SettleStray, MirrorMark, Redeploy, StopStart, Restart

(* Those by which something does.                                          *)
LEMMA OnChain ==
  ASSUME Types, Deposit \/ Takeout \/ Mine
  PROVE  \E k \in External \cup OpKinds :
           /\ Moved(k) /\ gain' = gain /\ best' = best /\ (~Mine => k \in External)
           /\ UNCHANGED <<configVars, bookVars, tickVars, memoryVars, happened, opKind, waiter>>
           /\ Mine => k = opKind /\ stage = "submitted" /\ stage' = "landed"
           /\ ~Mine => UNCHANGED stage
<1>1. CASE Mine
  BY <1>1 DEF Mine, Types, ChainTypes
<1>2. CASE (Deposit \/ Takeout) /\ ~Mine
  BY <1>2 DEF Deposit, Takeout, opVars, External
<1> QED
  BY <1>1, <1>2

LEMMA MoneyStep == ASSUME Types, Types', Money, CapitalNext PROVE Money'
<1>1. CASE Deposit \/ Takeout \/ Mine
  <2>1. PICK k \in External \cup OpKinds : Moved(k) /\ gain' = gain /\ best' = best
    BY <1>1, OnChain
  <2>2. PICK n, m \in Nat :
          /\ n = Executed /\ m = Executed' /\ m = n + 1
          /\ cash' = cash + Signed(m)' /\ Signed(m)' \in Int
          /\ Tally(m)' = Tally(n) + Signed(m)'
          /\ capital' = IF k = "fill" THEN capital ELSE capital + Signed(m)'
          /\ Principal(m)' = IF k = "fill" THEN Principal(n) ELSE Principal(n) + Signed(m)'
    BY <2>1, ChainNext
  <2>3. n \in 0 .. Executed /\ cash = Tally(n) /\ capital = Principal(n)
    BY <2>2 DEF Money
  <2>4. cash' = Tally(m)' /\ capital' = Principal(m)'
    BY <2>2, <2>3
  <2>5. cash \in Int /\ capital \in Int /\ gain \in Int
    BY DEF Types, ChainTypes
  <2>6. capital' + gain' >= cash'
    <3>1. CASE k # "fill"
      BY <2>1, <2>2, <2>5, <3>1, SMT DEF Money
    <3>2. CASE k = "fill"
      <4>1. cash' <= cash
        <5>1. Executed + 1 \in Moves
          BY <2>1, ExecutedMoves, ExecutedBound, SMT DEF Moved, Moves, Types
        <5>2. NextAmount \in Nat
          BY <5>1, AmountOf DEF NextAmount
        <5> QED
          BY <2>1, <2>5, <3>2, <5>2, SMT DEF Moved, Inbound
      <4> QED
        BY <2>1, <2>2, <2>5, <3>2, <4>1, SMT DEF Money, Types, ChainTypes
    <3> QED
      BY <3>1, <3>2
  <2> QED
    BY <2>1, <2>2, <2>4, <2>6 DEF Money
<1>2. CASE Perform
  <2>1. UNCHANGED moves /\ UNCHANGED <<cash, capital>>
    BY <1>2 DEF Perform
  <2>2. capital' + gain' >= cash' /\ gain' <= best'
    BY <1>2, <2>1, SMT DEF Perform, Money, Types, ChainTypes
  <2> QED
    BY <2>1, <2>2, ChainStill DEF Money
<1>3. CASE OffChain
  <2>1. UNCHANGED moves /\ UNCHANGED <<cash, capital, gain, best>>
    BY <1>3, OffChainStill DEF chainVars
  <2> QED
    BY <2>1, ChainStill DEF Money
<1> QED
  BY <1>1, <1>2, <1>3 DEF CapitalNext, OffChain

LEMMA ReadingsStep ==
  ASSUME Types, Types', Money, Readings, Waits, CapitalNext, Never(Overlaps)'
  PROVE  Readings'
<1>0. readCash \in Int /\ readEquity \in Int /\ best \in Int /\ best' \in Int /\ gain \in Int /\ gain' \in Int
      /\ capital \in Int /\ cash \in Int /\ read \in Nat /\ Executed \in Nat
  <2>1. read \in 0 .. Len(Amounts) /\ Len(Amounts) \in Nat /\ Executed \in Nat
    BY ExecutedBound, ExecutedMoves DEF Types, TickTypes
  <2>2. readCash \in Int /\ readEquity \in Int
    BY DEF Types, TickTypes
  <2>3. best \in Int /\ best' \in Int /\ gain \in Int /\ gain' \in Int /\ capital \in Int /\ cash \in Int
    BY DEF Types, ChainTypes
  <2> QED
    BY <2>1, <2>2, <2>3, SMT
<1>1. CASE Deposit \/ Takeout \/ Mine
  <2>1. PICK k \in External \cup OpKinds :
          /\ Moved(k) /\ gain' = gain /\ best' = best /\ (~Mine => k \in External)
          /\ UNCHANGED <<pc, read, readCash, readEquity>>
          /\ Mine => stage = "submitted"
    BY <1>1, OnChain DEF tickVars, readVars
  <2>2. PICK n, m \in Nat :
          /\ n = Executed /\ m = Executed' /\ m = n + 1 /\ moves'[m] = k
          /\ cash' = cash + Signed(m)' /\ Signed(m)' \in Int
          /\ capital' = IF k = "fill" THEN capital ELSE capital + Signed(m)'
    BY <2>1, ChainNext
  <2>3. /\ \A q \in 1 .. Executed : moves'[q] = moves[q]
        /\ \A q \in 0 .. Executed : Tally(q)' = Tally(q) /\ Principal(q)' = Principal(q)
    BY <2>1, ChainGrows
  <2>4. pc' # "idle" => \E q \in 0 .. Executed' : /\ q = read' /\ readCash' = Tally(q)'
                                                  /\ readEquity' >= readCash'
                                                  /\ readEquity' <= Principal(q)' + best'
    <3>1. SUFFICES ASSUME pc # "idle"
                   PROVE  \E q \in 0 .. Executed' : /\ q = read' /\ readCash' = Tally(q)'
                                                    /\ readEquity' >= readCash'
                                                    /\ readEquity' <= Principal(q)' + best'
      BY <2>1
    <3>2. PICK q \in 0 .. Executed : /\ q = read /\ readCash = Tally(q) /\ readEquity >= readCash
                                     /\ readEquity <= Principal(q) + best
      BY <3>1 DEF Readings
    <3>3. q \in 0 .. Executed'
      BY <2>2
    <3> QED
      BY <2>1, <2>3, <3>2, <3>3
  <2>5. ASSUME pc' \notin {"idle", "intents"}
        PROVE  OwnersSince(read)' /\ (readEquity' = readCash' => capital' + gain' = cash')
    <3>1. pc \notin {"idle", "intents"} /\ ~Mine
      BY <2>1, <2>5 DEF Waits
    <3>2. k \in External /\ k # "fill"
      BY <2>1, <3>1 DEF External
    <3>3. \A q \in 1 .. Executed' : q > read => moves'[q] \in External
      <4>1. SUFFICES ASSUME NEW q \in 1 .. Executed', q > read PROVE moves'[q] \in External
        OBVIOUS
      <4>2. CASE q = m
        BY <2>2, <3>2, <4>2
      <4>3. CASE q # m
        <5>1. q \in 1 .. Executed
          BY <2>2, <4>3, SMT
        <5> QED
          BY <2>3, <3>1, <4>1, <5>1 DEF Readings, OwnersSince
      <4> QED
        BY <4>2, <4>3
    <3>4. readEquity = readCash => capital' + gain' = cash'
      BY <1>0, <2>1, <2>2, <3>1, <3>2, SMT DEF Readings
    <3> QED
      BY <2>1, <3>3, <3>4 DEF OwnersSince
  <2> QED
    BY <2>4, <2>5 DEF Readings
<1>2. CASE Perform
  <2>1. UNCHANGED <<moves, cash, capital, pc, read, readCash, readEquity>>
    BY <1>2 DEF Perform, tickVars, readVars
  <2>2. best' >= best /\ capital + gain > cash
    BY <1>2, SMT DEF Perform, Money, Types, ChainTypes
  <2>3. \A n \in 0 .. Executed : Principal(n) \in Int
    BY TallyInt
  <2>4. pc' # "idle" => \E q \in 0 .. Executed' : /\ q = read' /\ readCash' = Tally(q)'
                                                  /\ readEquity' >= readCash'
                                                  /\ readEquity' <= Principal(q)' + best'
    <3>1. SUFFICES ASSUME pc # "idle"
                   PROVE  \E q \in 0 .. Executed : /\ q = read /\ readCash = Tally(q)
                                                   /\ readEquity >= readCash
                                                   /\ readEquity <= Principal(q) + best'
      BY <2>1, ChainStill
    <3>2. PICK q \in 0 .. Executed : /\ q = read /\ readCash = Tally(q) /\ readEquity >= readCash
                                     /\ readEquity <= Principal(q) + best
      BY <3>1 DEF Readings
    <3>3. readEquity <= Principal(q) + best'
      BY <1>0, <2>2, <2>3, <3>2, SMT
    <3> QED
      BY <3>2, <3>3
  <2>5. ASSUME pc' \notin {"idle", "intents"}
        PROVE  OwnersSince(read)' /\ (readEquity' = readCash' => capital' + gain' = cash')
    <3>1. OwnersSince(read) /\ (readEquity = readCash => capital + gain = cash)
      BY <2>1, <2>5 DEF Readings
    <3>2. readEquity # readCash
      BY <1>0, <2>2, <3>1, SMT
    <3>3. OwnersSince(read)'
      BY <2>1, <3>1 DEF OwnersSince, Executed
    <3> QED
      BY <2>1, <3>2, <3>3
  <2> QED
    BY <2>4, <2>5 DEF Readings
<1>3. CASE TickRead
  <2>1. UNCHANGED <<moves, cash, capital, gain, best>> /\ read' = Executed /\ readCash' = cash
        /\ readEquity' = capital + gain
    BY <1>3 DEF TickRead, chainVars
  <2>2. PICK n \in Nat : n = Executed
    BY <1>0
  <2>3. n \in 0 .. Executed /\ cash = Tally(n) /\ capital = Principal(n) /\ Principal(n) \in Int
    BY <2>2, TallyInt DEF Money
  <2>4. /\ n = read' /\ readCash' = Tally(n)' /\ readEquity' >= readCash'
        /\ readEquity' <= Principal(n)' + best' /\ n \in 0 .. Executed'
    <3>1. Tally(n)' = Tally(n) /\ Principal(n)' = Principal(n) /\ Executed' = Executed
      BY <2>1, ChainStill
    <3> QED
      BY <1>0, <2>1, <2>2, <2>3, <3>1, SMT DEF Money
  <2>5. OwnersSince(read)'
    BY <1>0, <2>1, SMT DEF OwnersSince, Executed
  <2>6. readEquity' = readCash' => capital' + gain' = cash'
    BY <2>1
  <2> QED
    BY <2>4, <2>5, <2>6 DEF Readings
<1>4. CASE OffChain /\ ~TickRead
  <2>1. UNCHANGED <<moves, cash, capital, gain, best>>
    BY <1>4, OffChainStill DEF chainVars
  <2>2. CASE pc' = "idle"
    BY <2>2 DEF Readings
  <2>3. CASE pc' # "idle"
    <3>1. UNCHANGED <<read, readCash, readEquity>> /\ pc # "idle" /\ (pc = "intents" => pc' = "intents")
      BY <1>4, <2>3
         DEF OffChain, TickStep, OpenAtHead, ResumeScan, Scan, ScanRefused, ScanDone, BookReceipt,
         InferNothing, InferFlow, FlowFails, AdjustPeak, Baseline, Accrue, TickEnd, Submit, Drop,
         RecordFill, RecordTransfer, Unresolve, SettleStray, MirrorMark, Redeploy, StopStart, Restart,
         Adjusting, tickVars, readVars
    <3> QED
      BY <2>1, <3>1, ChainStill DEF Readings, OwnersSince, Executed
  <2> QED
    BY <2>2, <2>3
<1> QED
  BY <1>1, <1>2, <1>3, <1>4 DEF CapitalNext, OffChain

LEMMA NoRowStep ==
  ASSUME Types, Types', Money, Waits, NoRow, CapitalNext, Never(Overlaps)'
  PROVE  NoRow'
<1>1. SUFFICES ASSUME ~row'.known
               PROVE  /\ row'.cash = 0 /\ OwnersSince(0)' /\ stage' = "none" /\ capital' = cash' /\ gain' = 0
                      /\ pc' # "idle" => readEquity' = readCash'
                      /\ (pc' \in {"idle", "flows", "infer"}
                            /\ (hosted' => Never({"redeploy", "midway", "anchor"})'))
                           => ~HasAccounting' /\ hwm' = 0
  BY DEF NoRow
<1>2. row' = row
  <2>1. ~Accrue
    BY <1>1 DEF Accrue, Reading
  <2> QED
    BY <2>1 DEF CapitalNext, TickStep, Deposit, Takeout, Perform, TickRead, OpenAtHead, ResumeScan, Scan,
         ScanRefused, ScanDone, BookReceipt, InferNothing, InferFlow, FlowFails, AdjustPeak, Baseline,
         TickEnd, Submit, Mine, Drop, RecordFill, RecordTransfer, Unresolve, SettleStray, MirrorMark,
         Redeploy, StopStart, bookVars
<1>3. /\ ~row.known /\ row.cash = 0 /\ OwnersSince(0) /\ stage = "none" /\ capital = cash /\ gain = 0
      /\ pc # "idle" => readEquity = readCash
      /\ (pc \in {"idle", "flows", "infer"} /\ (hosted => Never({"redeploy", "midway", "anchor"})))
           => ~HasAccounting /\ hwm = 0
      /\ pc # "intents"
  BY <1>1, <1>2 DEF NoRow, Waits
<1>4. cash \in Int /\ capital \in Int /\ gain \in Int /\ FaultTypes /\ hosted' = hosted
  BY DEF Types, ChainTypes, CapitalNext, TickStep, Deposit, Takeout, Perform, TickRead, OpenAtHead, ResumeScan, Scan,
         ScanRefused, ScanDone, BookReceipt, InferNothing, InferFlow, FlowFails, AdjustPeak, Baseline, Accrue,
         TickEnd, Submit, Mine, Drop, RecordFill, RecordTransfer, Unresolve, SettleStray, MirrorMark,
         Redeploy, StopStart, Restart, configVars
<1>5. Never({"redeploy", "midway", "anchor"})' => Never({"redeploy", "midway", "anchor"})
  BY <1>4, FaultsHappen, FaultsOnlyGrow
<1>6. ~Mine /\ ~Perform /\ ~Submit /\ ~Drop /\ ~RecordFill /\ ~RecordTransfer /\ ~SettleStray /\ ~Accrue
      /\ ~TickEnd /\ ~Unresolve
  <2>1. ~Perform
    BY <1>3, <1>4, SMT DEF Perform
  <2>2. ~Submit /\ ~Unresolve
    BY <1>3, CleanSteps
  <2>3. ~Accrue
    BY <1>1 DEF Accrue, Reading
  <2> QED
    BY <1>3, <2>1, <2>2, <2>3 DEF Mine, Drop, RecordFill, RecordTransfer, SettleStray, TickEnd
<1>7. CASE Deposit \/ Takeout
  <2>1. PICK k \in External \cup OpKinds :
          /\ Moved(k) /\ gain' = gain /\ k \in External
          /\ UNCHANGED <<configVars, bookVars, tickVars, memoryVars, happened>>
          /\ UNCHANGED stage
    BY <1>6, <1>7, OnChain
  <2>2. PICK n, m \in Nat :
          /\ n = Executed /\ m = Executed' /\ m = n + 1 /\ moves'[m] = k
          /\ cash' = cash + Signed(m)' /\ Signed(m)' \in Int
          /\ capital' = IF k = "fill" THEN capital ELSE capital + Signed(m)'
    BY <2>1, ChainNext
  <2>3. k # "fill" /\ capital' = cash'
    BY <1>3, <2>1, <2>2 DEF External
  <2>4. \A q \in 1 .. Executed' : q \in 1 .. Executed \/ q = m
    BY <2>2, SMT
  <2>5. OwnersSince(0)'
    BY <1>3, <2>1, <2>2, <2>4, ChainGrows, SMT DEF OwnersSince
  <2>6. UNCHANGED <<pc, readEquity, readCash, net, evidenced, receipts, row, hwm, mirrored, happened>>
    BY <2>1 DEF bookVars, tickVars, readVars
  <2>7. HasAccounting' <=> HasAccounting
    BY <2>6 DEF HasAccounting, Raised
  <2> QED
    BY <1>2, <1>3, <1>4, <1>5, <2>1, <2>3, <2>5, <2>6, <2>7
<1>8. CASE OffChain
  <2>1. UNCHANGED <<moves, cash, capital, gain>>
    BY <1>8, OffChainStill DEF chainVars
  <2>2. OwnersSince(0)'
    BY <1>3, <2>1, ChainStill
  <2>3. stage' = "none"
    BY <1>3, <1>6, <1>8
       DEF OffChain, TickStep, TickRead, OpenAtHead, ResumeScan, Scan, ScanRefused, ScanDone,
         BookReceipt, InferNothing, InferFlow, FlowFails, AdjustPeak, Baseline, MirrorMark, Redeploy,
         StopStart, Restart, opVars
  <2>4. pc' # "idle" => readEquity' = readCash'
    <3>1. CASE TickRead
      <4>1. readEquity' = capital + gain /\ readCash' = cash
        BY <3>1 DEF TickRead
      <4>2. capital + gain = cash
        BY <1>3, <1>4, SMT
      <4> QED
        BY <4>1, <4>2
    <3>2. ASSUME ~TickRead, pc' # "idle" PROVE readEquity' = readCash'
      <4>1. pc # "idle" /\ UNCHANGED <<readEquity, readCash>>
        BY <1>6, <1>8, <3>2
           DEF OffChain, TickStep, OpenAtHead, ResumeScan, Scan, ScanRefused, ScanDone, BookReceipt,
             InferNothing, InferFlow, FlowFails, AdjustPeak, Adjusting, Baseline, MirrorMark, Redeploy,
             StopStart, Restart, tickVars, readVars
      <4> QED
        BY <1>3, <4>1
    <3> QED
      BY <3>1, <3>2
  <2>5. ASSUME pc' \in {"idle", "flows", "infer"}, hosted' => Never({"redeploy", "midway", "anchor"})'
        PROVE  ~HasAccounting' /\ hwm' = 0
    <3>1. ~Redeploy
      <4>1. ASSUME Redeploy PROVE FALSE
        <5>1. hosted /\ \E f \in {"redeploy", "midway", "anchor"} : Hit(f)
          BY <4>1, CleanSteps, AFaultIsKnown, <1>4 DEF Redeploy, Overlaps
        <5> QED
          BY <1>4, <2>5, <5>1, AFaultIsKnown
      <4> QED
        BY <4>1
    <3>2. pc \in {"idle", "flows", "infer"}
      BY <1>6, <1>8, <2>5, <3>1, CleanSteps
         DEF OffChain, TickStep, TickRead, OpenAtHead, ResumeScan, Scan, ScanRefused, ScanDone, BookReceipt,
           InferNothing, InferFlow, FlowFails, AdjustPeak, Baseline, MirrorMark, StopStart, tickVars
    <3>3. ~HasAccounting /\ hwm = 0
      BY <1>3, <1>4, <1>5, <2>5, <3>2
    <3>4. ~MirrorMark
      BY <3>3, SMT DEF MirrorMark, HasAccounting, Raised, Types, BookTypes
    <3>5. UNCHANGED <<net, evidenced, receipts, hwm, mirrored>>
      BY <1>6, <1>8, <2>5, <3>1, <3>2, <3>4
         DEF OffChain, TickStep, TickRead, OpenAtHead, ResumeScan, Scan, ScanRefused, ScanDone, BookReceipt,
           InferNothing, InferFlow, FlowFails, AdjustPeak, Adjusting, Baseline, StopStart, Restart, bookVars
    <3> QED
      BY <1>2, <3>3, <3>5 DEF HasAccounting, Raised
  <2> QED
    BY <1>2, <1>3, <2>1, <2>2, <2>3, <2>4, <2>5
<1> QED
  BY <1>6, <1>7, <1>8 DEF CapitalNext, OffChain

LEMMA NoMarkStep ==
  ASSUME Types, Types', Paired, Waits, Readings, NoRow, NoMark, CapitalNext, Never(Overlaps)'
  PROVE  NoMark'
<1>1. SUFFICES ASSUME ~hosted', row'.known, ~traded', hwm' = 0, Early'
               PROVE  /\ row'.cash = 0 /\ capital' + gain' = cash'
                      /\ pc' \in {"flows", "infer"} => readEquity' = readCash'
  BY DEF NoMark
<1>2. cash \in Nat /\ capital \in Int /\ gain \in Int /\ readEquity \in Int /\ readCash \in Nat /\ hwm \in Nat
  BY DEF Types, ChainTypes, TickTypes, BookTypes
<1>3. ~hosted
  BY <1>1 DEF CapitalNext, TickStep, Deposit, Takeout, Perform, TickRead, OpenAtHead, ResumeScan, Scan,
         ScanRefused, ScanDone, BookReceipt, InferNothing, InferFlow, FlowFails, AdjustPeak, Baseline, Accrue,
         TickEnd, Submit, Mine, Drop, RecordFill, RecordTransfer, Unresolve, SettleStray, MirrorMark,
         Redeploy, StopStart, Restart, configVars
<1>4. CASE Accrue
  <2>1. hwm' = Ratchet(hwm) /\ row' = Reading(readCash) /\ pc = "accrue" /\ UNCHANGED <<capital, gain, cash>>
        /\ pc' = "intents"
    BY <1>4, CleanSteps DEF Accrue, chainVars
  <2>2. readEquity >= readCash /\ (readEquity = readCash => capital + gain = cash)
    BY <2>1 DEF Readings
  <2>3. readEquity <= 0
    BY <1>1, <1>2, <2>1, SMT DEF Ratchet, Above
  <2>4. readCash = 0 /\ readEquity = 0
    BY <1>2, <2>2, <2>3, SMT
  <2> QED
    BY <2>1, <2>2, <2>4 DEF Reading
<1>5. CASE ~Accrue
  <2>1. ~Submit /\ ~Mine /\ ~Drop /\ ~RecordFill /\ ~RecordTransfer /\ ~SettleStray /\ ~Unresolve
    <3>1. ~Submit
      BY <1>1 DEF Submit
    <3>2. CASE stage = "none"
      BY <3>1, <3>2, CleanSteps DEF Mine, Drop, RecordFill, RecordTransfer, SettleStray
    <3>3. CASE stage # "none"
      <4>1. traded
        BY <1>3, <3>3 DEF Waits
      <4> QED
        BY <1>1, <3>1, <4>1, CleanSteps
           DEF Mine, Drop, RecordFill, RecordTransfer, SettleStray, memoryVars
    <3> QED
      BY <3>2, <3>3
  <2>2. ~MirrorMark /\ ~Redeploy /\ ~ScanRefused
    BY <1>3, CleanSteps DEF MirrorMark, Redeploy
  <2>3. UNCHANGED <<row, hwm>> /\ Early /\ ~traded
    <3>1. CASE Deposit \/ Takeout \/ Perform
      BY <1>1, <3>1 DEF Deposit, Takeout, Perform, Early, bookVars, tickVars, memoryVars
    <3>2. CASE TickRead \/ OpenAtHead \/ ResumeScan \/ TickEnd
      BY <1>1, <3>2 DEF TickRead, OpenAtHead, ResumeScan, TickEnd, Early, bookVars, memoryVars
    <3>3. CASE StopStart
      BY <3>3, CleanSteps DEF StopStart, Early
    <3>4. ~(Scan \/ ScanDone \/ BookReceipt \/ InferNothing \/ InferFlow \/ FlowFails \/ AdjustPeak \/ Baseline)
      BY <1>1 DEF Scan, ScanDone, BookReceipt, InferNothing, InferFlow, FlowFails, AdjustPeak, Baseline, Early
    <3> QED
      BY <1>5, <2>1, <2>2, <3>1, <3>2, <3>3, <3>4 DEF CapitalNext, TickStep
  <2>4. row.cash = 0 /\ capital + gain = cash /\ (pc \in {"flows", "infer"} => readEquity = readCash)
    BY <1>1, <1>3, <2>3 DEF NoMark
  <2>5. ~Perform
    BY <1>2, <2>4, SMT DEF Perform
  <2>6. capital' + gain' = cash'
    <3>1. CASE Deposit \/ Takeout
      <4>1. PICK k \in External \cup OpKinds : Moved(k) /\ gain' = gain /\ k \in External
        BY <2>1, <3>1, OnChain
      <4>2. PICK m : /\ cash' = cash + Signed(m)' /\ Signed(m)' \in Int
                     /\ capital' = IF k = "fill" THEN capital ELSE capital + Signed(m)'
        BY <4>1, ChainNext
      <4>3. PICK by \in Int : cash' = cash + by /\ capital' = capital + by
        BY <4>1, <4>2 DEF External
      <4> QED
        BY <1>2, <2>4, <4>1, <4>3, SMT
    <3>2. CASE OffChain
      BY <2>4, <3>2, OffChainStill DEF chainVars
    <3> QED
      BY <2>1, <2>5, <3>1, <3>2 DEF CapitalNext, OffChain
  <2>7. ASSUME pc' \in {"flows", "infer"} PROVE readEquity' = readCash'
    <3>1. CASE TickRead
      BY <2>4, <3>1 DEF TickRead
    <3>2. CASE ~TickRead
      BY <1>5, <2>1, <2>2, <2>4, <2>5, <2>7, <3>2, CleanSteps
         DEF CapitalNext, TickStep, Deposit, Takeout, OpenAtHead, ResumeScan, Scan, ScanDone,
           BookReceipt, InferNothing, InferFlow, FlowFails, AdjustPeak, Adjusting, Baseline, TickEnd,
           StopStart, Restart, tickVars, readVars
    <3> QED
      BY <3>1, <3>2
  <2> QED
    BY <2>3, <2>4, <2>6, <2>7
<1> QED
  BY <1>4, <1>5

LEMMA OpeningsStep ==
  ASSUME Types, Types', Waits, Openings, Cursors, CapitalNext, Never(Overlaps)'
  PROVE  Openings'
<1> USE DEF Openings, Fresh
<1>0. /\ cursor \in Nat /\ head \in Nat /\ receipts \subseteq Nat
      /\ hosted \in BOOLEAN /\ scanOn \in BOOLEAN /\ hosted' \in BOOLEAN /\ scanOn' \in BOOLEAN
  <2>1. receipts \subseteq Moves /\ Moves \subseteq Nat
    BY SMT DEF Types, BookTypes, Moves
  <2> QED
    BY <2>1 DEF Types, ChainTypes, TickTypes, MemoryTypes
<1>1. CASE Deposit \/ Takeout \/ Perform \/ Mine \/ Drop \/ SettleStray
  <2>1. UNCHANGED <<hosted, scanOn, stale, pc, read, cursor, seen, traded, receipts, licence, row, net>>
    BY <1>1 DEF Deposit, Takeout, Perform, Mine, Drop, SettleStray, configVars, bookVars, tickVars,
                readVars, memoryVars
  <2> QED
    BY <2>1
<1>2. CASE RecordFill \/ RecordTransfer \/ Submit
  <2>1. pc = "intents" \/ hosted
    BY <1>2, CleanSteps DEF RecordFill, RecordTransfer, Waits
  <2>2. pc = "intents"
    BY <1>2, <2>1, CleanSteps DEF RecordFill, RecordTransfer, Waits
  <2>3. UNCHANGED <<hosted, scanOn, stale, pc, read, cursor, receipts, licence, row>>
        /\ (seen.known => seen'.known)
    BY <1>2 DEF RecordFill, RecordTransfer, Submit, configVars, bookVars, tickVars, readVars, Reading
  <2> QED
    BY <2>2, <2>3
<1>3. CASE MirrorMark
  <2>1. UNCHANGED <<hosted, scanOn, stale, pc, read, cursor, seen, traded, receipts, licence, row, net>>
    BY <1>3 DEF MirrorMark, configVars, tickVars, readVars, memoryVars
  <2> QED
    BY <2>1
<1>4. CASE TickRead \/ TickEnd
  <2>1. UNCHANGED <<hosted, scanOn, stale, cursor, seen, traded, receipts, licence, row, net>>
    BY <1>4 DEF TickRead, TickEnd, configVars, bookVars, memoryVars
  <2> QED
    BY <1>4, <2>1 DEF TickRead, TickEnd
<1>5. CASE OpenAtHead
  <2>1. /\ UNCHANGED <<hosted, scanOn, stale, read, seen, traded, receipts, licence, row, net>>
        /\ pc = "flows" /\ cursor = 0 /\ pc' = "infer" /\ cursor' = 2 * read + 1
        /\ receipts = {} \/ Last(receipts, stale)
    BY <1>5, CleanSteps DEF OpenAtHead, configVars, bookVars, readVars
  <2> QED
    BY <2>1 DEF Last
<1>6. CASE ResumeScan
  <2>1. /\ UNCHANGED <<hosted, scanOn, read, seen, traded, receipts, licence, row, net>>
        /\ pc = "flows" /\ cursor = 0 /\ scanOn
    BY <1>6 DEF ResumeScan, bookVars, readVars
  <2>2. PICK m \in receipts :
          /\ Last(receipts, m)
          /\ \/ cursor' = Block(m) /\ UNCHANGED <<stale, pc, happened>>
             \/ /\ Executed = read /\ cursor' = 2 * Executed + 1 /\ stale' = m /\ pc' = "infer"
    BY <1>6 DEF ResumeScan
  <2> QED
    BY <1>0, <2>1, <2>2 DEF Last
<1>7. CASE Scan \/ ScanDone \/ BookReceipt
  <2>1. /\ UNCHANGED <<hosted, scanOn, stale, read, seen, traded, licence, row>>
        /\ pc \in {"flows", "book"} /\ pc' \in {"book", "adjust", "baseline"} /\ scanOn
        /\ cursor # 0
    BY <1>7 DEF Scan, ScanDone, BookReceipt, configVars, bookVars, readVars, memoryVars
  <2>2. cursor' # 0
    <3>1. CASE ScanDone
      BY <1>0, <2>1, <3>1, SMT DEF ScanDone, Cursors
    <3>2. CASE Scan \/ BookReceipt
      BY <2>1, <3>2 DEF Scan, BookReceipt, memoryVars
    <3> QED
      BY <1>7, <3>1, <3>2
  <2> QED
    BY <2>1, <2>2
<1>8. CASE InferNothing \/ InferFlow \/ FlowFails
  <2>1. /\ UNCHANGED <<hosted, scanOn, stale, read, cursor, seen, traded, receipts, licence, row>>
        /\ pc \in {"infer", "book"} /\ pc' \in {"baseline", "adjustLast", "accrue"}
        /\ (pc = "book" => pc' = "accrue") /\ (pc' = "accrue" => pc = "book" \/ seen.known)
    BY <1>8, CleanSteps DEF InferNothing, InferFlow, FlowFails, configVars, bookVars, readVars, memoryVars
  <2>2. scanOn => cursor # 0
    <3>1. ASSUME scanOn, pc = "infer" PROVE cursor # 0
      <4>1. read \in Nat /\ cursor = 2 * read + 1
        BY <3>1, ExecutedBound, SMT DEF Types, TickTypes
      <4> QED
        BY <4>1, SMT
    <3> QED
      BY <2>1, <3>1
  <2> QED
    BY <2>1, <2>2
<1>9. CASE AdjustPeak \/ Baseline
  <2>1. /\ UNCHANGED <<hosted, scanOn, stale, read, cursor, traded, receipts, licence, row>>
        /\ pc \in {"adjust", "adjustLast", "baseline"} /\ pc' \in {"book", "baseline", "accrue"}
        /\ (pc' = "book" <=> pc = "adjust") /\ (pc' = "accrue" => seen'.known) /\ (seen.known => seen'.known)
    BY <1>9 DEF AdjustPeak, Adjusting, Baseline, Reading, configVars, bookVars, readVars, memoryVars
  <2> QED
    BY <2>1
<1>10. CASE Accrue
  <2>1. /\ UNCHANGED <<hosted, scanOn, stale, read, cursor, seen, receipts, licence>>
        /\ pc = "accrue" /\ pc' = "intents"
    BY <1>10 DEF Accrue, configVars, readVars
  <2> QED
    BY <2>1
<1>11. CASE Redeploy
  <2>1. /\ UNCHANGED <<hosted, scanOn, stale, row, net>> /\ hosted /\ receipts' = {} /\ pc' = "idle"
        /\ cursor' = 0 /\ seen' = Unread
    BY <1>11 DEF Redeploy, Restart, configVars
  <2>2. licence' \in {"resume", "new-account", "none"} /\ (licence' = "new-account" => ~HasAccounting)
    BY <1>11 DEF Redeploy, LicencesRead
  <2> QED
    BY <2>1, <2>2 DEF HasAccounting, Unread
<1>12. CASE StopStart
  <2>1. /\ UNCHANGED <<hosted, scanOn, stale, row, net, licence, receipts>> /\ ~hosted /\ pc' = "idle"
        /\ cursor' = 0 /\ seen' = Unread /\ traded' = FALSE
    BY <1>12 DEF StopStart, Restart, configVars
  <2> QED
    BY <2>1 DEF Unread
<1> QED
  BY CleanSteps, <1>1, <1>2, <1>3, <1>4, <1>5, <1>6, <1>7, <1>8, <1>9, <1>10, <1>11, <1>12
     DEF CapitalNext, TickStep

LEMMA CursorsStep ==
  ASSUME Types, Types', Waits, Openings, Cursors, CapitalNext, Never(Overlaps)'
  PROVE  Cursors'
<1> USE DEF Cursors
<1>0. /\ cursor \in Nat /\ head \in Nat /\ receipts \subseteq Nat /\ Executed \in Nat /\ stale \in Nat
      /\ 2 * Executed \in Nat
  <2>1. Moves \subseteq Nat
    BY SMT DEF Moves
  <2>2. receipts \subseteq Nat /\ stale \in Nat
    <3>1. receipts \subseteq Moves
      BY DEF Types, BookTypes
    <3>2. stale \in {0} \cup Moves
      BY DEF Types, ChainTypes
    <3> QED
      BY <2>1, <3>1, <3>2
  <2>3. Executed \in Nat /\ 2 * Executed \in Nat
    BY ExecutedMoves, SMT
  <2> QED
    BY <2>2, <2>3 DEF Types, TickTypes, MemoryTypes
<1>1. CASE Deposit \/ Takeout \/ Mine
  <2>1. UNCHANGED <<hosted, stale, pc, read, cursor, head, receipts, explained, queue>>
    BY <1>1, OnChain DEF configVars, bookVars, tickVars, readVars, memoryVars
  <2>2. Executed' = Executed + 1
    BY <1>1, OnChain, ChainGrows
  <2>3. 1 .. Executed \subseteq 1 .. Executed' /\ cursor <= 2 * Executed' + 1
        /\ (head <= 2 * Executed + 1 => head <= 2 * Executed' + 1)
    BY <1>0, <2>2, SMT
  <2> QED
    BY <2>1, <2>3
<1>2. CASE ~(Deposit \/ Takeout \/ Mine)
  <2>0. Executed' = Executed
    BY <1>2, OffChainStill, ChainStill DEF CapitalNext, OffChain, Perform, chainVars
  <2>1. CASE Perform \/ Drop \/ Submit \/ MirrorMark
    <3>1. UNCHANGED <<hosted, stale, pc, read, cursor, head, receipts, explained, queue>>
      BY <2>1 DEF Perform, Drop, Submit, MirrorMark, configVars, bookVars, tickVars, readVars, memoryVars
    <3> QED
      BY <2>0, <3>1
  <2>2. CASE RecordFill \/ RecordTransfer \/ SettleStray
    <3>1. UNCHANGED <<hosted, stale, pc, read, cursor, head, receipts, queue>>
          /\ \E m \in 1 .. Executed : explained' = explained \cup {m}
      BY <2>2 DEF RecordFill, RecordTransfer, SettleStray, configVars, tickVars, readVars, memoryVars
    <3> QED
      BY <2>0, <3>1
  <2>3. CASE TickRead
    <3>1. UNCHANGED <<hosted, stale, cursor, head, receipts, explained, queue>>
          /\ read' = Executed /\ pc' \in {"flows", "infer"}
      BY <2>3 DEF TickRead, configVars, bookVars, memoryVars
    <3>2. stale <= Executed
      BY <1>0, SMT
    <3> QED
      BY <2>0, <3>1, <3>2
  <2>4. CASE OpenAtHead
    <3>1. UNCHANGED <<hosted, stale, read, head, receipts, explained, queue>>
          /\ cursor' = 2 * Executed + 1 /\ pc' = "infer" /\ pc = "flows"
      BY <2>4, CleanSteps DEF OpenAtHead, configVars, bookVars, readVars
    <3> QED
      BY <1>0, <2>0, <3>1
  <2>5. CASE ResumeScan
    <3>1. /\ UNCHANGED <<hosted, read, head, receipts, explained, queue>>
          /\ pc = "flows" /\ cursor = 0 /\ pc' \in {"flows", "infer"} /\ receipts # {}
      BY <2>5 DEF ResumeScan, bookVars, readVars
    <3>2. PICK m \in receipts :
            \/ cursor' = Block(m) /\ stale' = stale
            \/ Executed = read /\ cursor' = 2 * Executed + 1 /\ stale' = m
      BY <2>5 DEF ResumeScan
    <3>3. m \in 1 .. Executed /\ ~hosted
      BY <3>1
    <3>4. cursor' <= 2 * Executed + 1
      BY <1>0, <3>2, <3>3, SMT DEF Block
    <3>5. stale' <= read
      BY <1>0, <3>1, <3>2, <3>3, SMT
    <3> QED
      BY <2>0, <3>1, <3>2, <3>3, <3>4, <3>5
  <2>6. CASE Scan
    <3>1. /\ UNCHANGED <<hosted, stale, read, cursor, receipts, explained>> /\ pc = "flows"
          /\ cursor > 0
      BY <2>6 DEF Scan, configVars, bookVars, readVars, memoryVars
    <3>2. PICK h \in Heads : head' = h /\ queue' = Found(h)
      BY <2>6 DEF Scan
    <3>3. cursor <= h /\ h <= 2 * Executed + 1 /\ Found(h) \subseteq 1 .. Executed
      BY <1>0, <3>2, SMT DEF Heads, Found
    <3> QED
      BY <1>0, <2>0, <3>1, <3>2, <3>3
  <2>7. CASE ScanDone
    <3>1. /\ UNCHANGED <<hosted, stale, read, head, receipts, explained, queue>> /\ pc = "book"
          /\ cursor' = head /\ pc' = "baseline"
      BY <2>7 DEF ScanDone, configVars, bookVars, readVars
    <3>2. cursor # 0 /\ head # 0
      BY <1>0, <3>1, SMT DEF Openings, Fresh
    <3> QED
      BY <2>0, <3>1, <3>2
  <2>8. CASE BookReceipt
    <3>1. /\ UNCHANGED <<hosted, stale, read, head, cursor, explained>> /\ pc = "book" /\ pc' = "adjust"
          /\ \E m \in queue : receipts' = receipts \cup {m} /\ queue' = queue \ {m}
      BY <2>8 DEF BookReceipt, configVars, readVars, memoryVars
    <3>2. cursor # 0
      BY <3>1 DEF Openings, Fresh
    <3> QED
      BY <2>0, <3>1, <3>2
  <2>9. CASE InferNothing \/ InferFlow \/ FlowFails \/ AdjustPeak \/ Baseline \/ Accrue
    <3>1. /\ UNCHANGED <<hosted, stale, read, head, cursor, explained, receipts>>
          /\ queue' \in {queue, {}}
          /\ pc' \in {"book", "adjust"} => pc = "adjust"
          /\ pc \notin {"idle", "intents"}
      BY <2>9 DEF InferNothing, InferFlow, FlowFails, AdjustPeak, Adjusting, Baseline, Accrue,
                  configVars, bookVars, readVars, memoryVars
    <3> QED
      BY <2>0, <3>1
  <2>10. CASE TickEnd
    <3>1. UNCHANGED <<hosted, stale, cursor, explained, receipts, queue>> /\ pc' = "idle"
      BY <2>10 DEF TickEnd, configVars, bookVars, memoryVars
    <3> QED
      BY <2>0, <3>1
  <2>11. CASE Redeploy
    <3>1. UNCHANGED <<hosted, stale>> /\ hosted /\ cursor' = 0 /\ explained' = {} /\ receipts' = {}
          /\ queue' = {} /\ pc' = "idle"
      BY <2>11 DEF Redeploy, Restart, configVars
    <3> QED
      BY <1>0, <2>0, <3>1
  <2>12. CASE StopStart
    <3>1. UNCHANGED <<hosted, stale, explained, receipts>> /\ ~hosted /\ cursor' = 0 /\ queue' = {}
          /\ pc' = "idle"
      BY <2>12 DEF StopStart, Restart, configVars
    <3> QED
      BY <1>0, <2>0, <3>1
  <2> QED
    BY CleanSteps, <1>2, <2>1, <2>2, <2>3, <2>4, <2>5, <2>6, <2>7, <2>8, <2>9, <2>10, <2>11, <2>12
       DEF CapitalNext, TickStep
<1> QED
  BY <1>1, <1>2

LEMMA QueuedStep ==
  ASSUME Types, Types', Waits, Cursors, Queued, CapitalNext, Never(Overlaps)'
  PROVE  Queued'
<1> USE DEF Queued
<1>1. Never({"between"})' => Never({"between"})
  BY FaultsHappen, FaultsOnlyGrow DEF Types
<1>2. CASE Deposit \/ Takeout \/ Mine
  <2>1. UNCHANGED <<pc, read, cursor, queue, happened>>
    BY <1>2, OnChain DEF tickVars, readVars, memoryVars
  <2>2. \A m \in queue : moves'[m] = moves[m]
    BY <1>2, OnChain, ChainGrows DEF Cursors
  <2> QED
    BY <1>1, <2>1, <2>2 DEF Block
<1>3. CASE Scan
  <2>1. /\ UNCHANGED <<moves, read, cursor>> /\ pc' = "book"
        /\ \/ Executed = read
           \/ Hit("between")
    BY <1>3 DEF Scan, chainVars, readVars, memoryVars
  <2>2. PICK h \in Heads : queue' = Found(h)
    BY <1>3 DEF Scan
  <2>3. \A m \in Found(h) : moves[m] # "fill" /\ Block(m) >= cursor /\ m <= Executed
    <3>1. cursor \in Nat /\ Executed \in Nat /\ h \in Int
      BY ExecutedMoves, SMT DEF Heads, Types, MemoryTypes
    <3> QED
      BY <3>1, SMT DEF Found, Block
  <2>4. Never({"between"})' => Executed = read
    BY <2>1, AFaultIsKnown DEF Types
  <2> QED
    BY <2>1, <2>2, <2>3, <2>4 DEF Block
<1>4. CASE BookReceipt \/ AdjustPeak \/ FlowFails \/ ScanDone
  <2>1. /\ UNCHANGED <<moves, read>> /\ queue' \subseteq queue
        /\ \/ pc' \in {"book", "adjust"} /\ UNCHANGED cursor
           \/ queue' = {}
    BY <1>4 DEF BookReceipt, AdjustPeak, Adjusting, FlowFails, ScanDone, chainVars, readVars, memoryVars
  <2> QED
    BY <1>1, <2>1 DEF Block
<1>5. CASE Perform \/ RecordFill \/ RecordTransfer \/ Submit \/ Drop \/ SettleStray \/ MirrorMark
  <2>1. UNCHANGED <<moves, pc, read, cursor, queue>>
    BY <1>5 DEF Perform, RecordFill, RecordTransfer, Submit, Drop, SettleStray, MirrorMark, chainVars,
                tickVars, readVars, memoryVars
  <2> QED
    BY <1>1, <2>1 DEF Block
<1>6. CASE \/ TickRead \/ OpenAtHead \/ ResumeScan \/ InferNothing \/ InferFlow \/ Baseline \/ Accrue
           \/ TickEnd \/ Redeploy \/ StopStart
  <2>1. queue' = {}
    BY <1>6 DEF TickRead, OpenAtHead, ResumeScan, InferNothing, InferFlow, Baseline, Accrue, TickEnd,
                Redeploy, StopStart, Restart, bookVars, tickVars
  <2> QED
    BY <2>1
<1> QED
  BY CleanSteps, <1>2, <1>3, <1>4, <1>5, <1>6 DEF CapitalNext, TickStep

LEMMA FactsBegin == CapitalInit => Facts
<1> SUFFICES ASSUME CapitalInit PROVE Facts
  OBVIOUS
<1>0. Types
  BY TypesBegin
<1>1. moves = <<>> /\ Executed = 0
  BY EmptySeq DEF CapitalInit, Executed
<1>2. Waits
  BY DEF CapitalInit, Waits
<1>3. Money
  <2>1. Tally(0) = 0 /\ Principal(0) = 0
    <3>1. 1 .. 0 = {} /\ CapitalMoves(0) = {}
      BY SMT DEF CapitalMoves
    <3> QED
      BY <1>0, <3>1, SumOfNone DEF Tally, Principal
  <2>2. cash = 0 /\ capital = 0 /\ gain = 0 /\ best = 0
    BY DEF CapitalInit
  <2>3. capital + gain >= cash /\ gain <= best
    BY <2>2, SMT
  <2> QED
    BY <1>1, <2>1, <2>2, <2>3 DEF Money
<1>4. Readings
  BY DEF CapitalInit, Readings
<1>5. NoRow
  <2>1. ~HasAccounting
    <3>1. /\ hwm = 0 /\ mirrored = 0 /\ net = 0 /\ evidenced = TRUE /\ receipts = {} /\ row = Unread
      BY DEF CapitalInit
    <3> QED
      BY <3>1, SMT DEF HasAccounting, Raised, Unread
  <2>2. OwnersSince(0)
    BY <1>1, SMT DEF OwnersSince
  <2> QED
    BY <2>1, <2>2 DEF CapitalInit, NoRow, Unread
<1>6. NoMark
  BY DEF CapitalInit, NoMark, Unread
<1>7. Openings
  BY DEF CapitalInit, Openings, Fresh, Unread
<1>8. Cursors
  <2>1. 0 <= 2 * 0 + 1
    BY SMT
  <2> QED
    BY <1>1, <2>1 DEF CapitalInit, Cursors
<1>9. Queued
  BY DEF CapitalInit, Queued
<1> QED
  BY <1>2, <1>3, <1>4, <1>5, <1>6, <1>7, <1>8, <1>9 DEF Facts

LEMMA FactsStep ==
  ASSUME Types, Types', Paired, Facts, [CapitalNext]_capitalVars, Never(Overlaps)'
  PROVE  Facts'
<1>1. CASE CapitalNext
  BY <1>1, WaitsStep, MoneyStep, ReadingsStep, NoRowStep, NoMarkStep, OpeningsStep, CursorsStep, QueuedStep
     DEF Facts
<1>2. CASE UNCHANGED capitalVars
  <2>1. /\ UNCHANGED <<configVars, chainVars, opVars, bookVars, tickVars, memoryVars, happened>>
        /\ UNCHANGED <<moves, readVars>>
    BY <1>2 DEF capitalVars, chainVars, tickVars
  <2>2. Waits' /\ Openings' /\ NoMark'
    BY <2>1 DEF Facts, Waits, Openings, Fresh, NoMark, Early, configVars, chainVars, opVars, bookVars, tickVars,
                readVars, memoryVars
  <2>3. Money' /\ Readings'
    BY <2>1, ChainStill
       DEF Facts, Money, Readings, OwnersSince, Executed, chainVars, tickVars, readVars
  <2>4. NoRow'
    <3>1. HasAccounting' <=> HasAccounting
      BY <2>1 DEF HasAccounting, Raised, bookVars
    <3>2. \A F : Never(F)' <=> Never(F)
      BY <2>1 DEF Never
    <3> QED
      BY <2>1, <3>1, <3>2, ChainStill
         DEF Facts, NoRow, configVars, chainVars, opVars, bookVars, tickVars, readVars
  <2>5. Cursors' /\ Queued'
    BY <2>1, ChainStill
       DEF Facts, Cursors, Queued, Never, Block, configVars, chainVars, bookVars, tickVars, readVars, memoryVars
  <2> QED
    BY <2>2, <2>3, <2>4, <2>5 DEF Facts
<1> QED
  BY <1>1, <1>2

-----------------------------------------------------------------------------
(* What is booked.  net is the sum of a set of movements that the faults   *)
(* leave free, so that the invariant speaks of some such set B: the reader *)
(* of the logs finds none of it again, and no balance that is still to be  *)
(* compared with the present one was taken before a member of it.          *)

(* All of B is in a balance of n movements, but what the scan has booked   *)
(* ahead of it.                                                            *)
Ahead(B, n) ==
  /\ \A b \in B : b <= n \/ b \in receipts
  /\ Never({"between"}) => \A b \in B : b <= n

(* The cash of the last equity row, for the first tick of the next life.   *)
SinceRow(B) ==
  (~hosted /\ ~traded /\ Early) =>
    \E n \in 0 .. Executed : /\ row.cash = Tally(n) /\ OwnersSince(n) /\ stale <= n /\ Ahead(B, n)
                             /\ pc \in {"flows", "infer"} => n <= read

(* The cash of the last look, for the next one.                            *)
SinceLook(B) ==
  (/\ ~scanOn /\ seen.known /\ ~wrote /\ ~(stage = "landed" /\ waiter = "tick")
   /\ pc \notin {"adjustLast", "baseline"}) =>
    \E n \in 0 .. Executed : /\ seen.cash = Tally(n) /\ OwnersSince(n) /\ \A b \in B : b <= n
                             /\ pc # "idle" => n <= read

(* The logs.                                                               *)
Unfound(B) ==
  /\ queue \cap B = {}
  /\ cursor > 0 => \A b \in B : Block(b) < cursor \/ b \in receipts \cup explained
  /\ \A b \in B, k \in receipts : b < k \/ k <= stale \/ b \in receipts \cup explained
  /\ ~hosted => receipts \subseteq B

(* The operation waited for.                                               *)
Unrecorded(B) ==
  (stage = "landed" /\ waiter = "tick") => \A m \in 1 .. Executed : Landed(m) => m \notin B

BookedSet(B) ==
  /\ net = SumOf(B)
  /\ (hosted /\ licence = "new-account" /\ Fresh) => B = {}
  /\ pc \notin {"idle", "intents"} => Ahead(B, read)
  /\ SinceRow(B) /\ SinceLook(B) /\ Unfound(B) /\ Unrecorded(B)

Clean == Never(Overlaps) /\ ~Before("between", "gap")

BookedInv == Clean => Facts /\ \E B \in SUBSET CapitalMoves(Executed) : BookedSet(B)

LEMMA OrderOnlyGrows ==
  ASSUME FaultTypes, AnyFault, NEW f, NEW g, ~Before(f, g)'
  PROVE  ~Before(f, g)
<1>1. CASE UNCHANGED happened
  BY <1>1 DEF Before
<1>2. ASSUME NEW h, Hit(h) PROVE ~Before(f, g)
  <2>1. happened' = Append(happened, h) /\ happened \in Seq(CapitalFaults) /\ h \in CapitalFaults
    BY <1>2 DEF Hit, FaultTypes
  <2>2. /\ Len(happened') = Len(happened) + 1 /\ Len(happened) \in Nat
        /\ \A i \in 1 .. Len(happened) : happened'[i] = happened[i]
    BY <2>1, AppendProperties, LenProperties
  <2>3. \A i \in 1 .. Len(happened) : i \in 1 .. Len(happened')
    BY <2>2, SMT
  <2> QED
    BY <2>2, <2>3 DEF Before
<1> QED
  BY <1>1, <1>2 DEF AnyFault

LEMMA OrderOfFaults ==
  ASSUME FaultTypes, NEW f, NEW g, Hit(g), ~Before(f, g)'
  PROVE  Never({f})
<1>1. happened' = Append(happened, g) /\ happened \in Seq(CapitalFaults) /\ g \in CapitalFaults
  BY DEF Hit, FaultTypes
<1>2. /\ Len(happened') = Len(happened) + 1 /\ Len(happened) \in Nat
      /\ \A i \in 1 .. Len(happened) : happened'[i] = happened[i]
      /\ happened'[Len(happened) + 1] = g
  BY <1>1, AppendProperties, LenProperties
<1>3. \A i \in 1 .. Len(happened) : /\ i \in 1 .. Len(happened') /\ i < Len(happened) + 1
                                    /\ Len(happened) + 1 \in 1 .. Len(happened')
  BY <1>2, SMT
<1> QED
  BY <1>2, <1>3 DEF Before, Never

(* No step but a restart makes the next observation the first.             *)
LEMMA FreshBefore ==
  ASSUME Types, Waits, Openings, Cursors, CapitalNext, Never(Overlaps)', Fresh', ~Redeploy, ~StopStart
  PROVE  Fresh /\ UNCHANGED <<hosted, licence>>
<1> USE DEF Openings, Fresh
<1>0. /\ cursor \in Nat /\ head \in Nat /\ scanOn \in BOOLEAN
      /\ scanOn /\ pc = "infer" => cursor # 0
  <2>1. read \in Nat
    BY ExecutedBound, SMT DEF Types, TickTypes
  <2> QED
    BY <2>1, SMT DEF Types, ChainTypes, TickTypes, MemoryTypes
<1>1. UNCHANGED <<hosted, scanOn, licence>>
  BY DEF CapitalNext, TickStep, Deposit, Takeout, Perform, TickRead, OpenAtHead, ResumeScan, Scan,
         ScanRefused, ScanDone, BookReceipt, InferNothing, InferFlow, FlowFails, AdjustPeak, Baseline, Accrue,
         TickEnd, Submit, Mine, Drop, RecordFill, RecordTransfer, Unresolve, SettleStray, MirrorMark,
         configVars, memoryVars
<1>2. CASE \/ Deposit \/ Takeout \/ Perform \/ Submit \/ Mine \/ Drop \/ RecordFill \/ RecordTransfer
           \/ SettleStray \/ MirrorMark
  <2>1. UNCHANGED <<pc, cursor>> /\ (seen.known => seen'.known)
    BY <1>2 DEF Deposit, Takeout, Perform, Submit, Mine, Drop, RecordFill, RecordTransfer, SettleStray,
                MirrorMark, Reading, tickVars, memoryVars
  <2> QED
    BY <1>1, <2>1
<1>3. CASE TickRead \/ TickEnd
  <2>1. UNCHANGED <<cursor, seen>> /\ pc \in {"idle", "intents"} /\ (scanOn => pc' # "infer")
    BY <1>3 DEF TickRead, TickEnd, memoryVars
  <2> QED
    BY <1>1, <2>1
<1>4. CASE OpenAtHead \/ ResumeScan
  BY <1>1, <1>4 DEF OpenAtHead, ResumeScan
<1>5. CASE Scan \/ BookReceipt \/ InferNothing \/ InferFlow \/ FlowFails \/ AdjustPeak \/ Baseline \/ Accrue
  <2>1. UNCHANGED cursor /\ pc' \notin {"idle", "infer"}
    BY <1>5 DEF Scan, BookReceipt, InferNothing, InferFlow, FlowFails, AdjustPeak, Baseline, Accrue, memoryVars
  <2> QED
    BY <1>1, <2>1
<1>6. CASE ScanDone
  <2>1. cursor' = head /\ pc = "book" /\ pc' = "baseline"
    BY <1>6 DEF ScanDone
  <2>2. cursor # 0
    BY <2>1
  <2> QED
    BY <1>0, <1>1, <2>1, <2>2, SMT DEF Cursors
<1> QED
  BY CleanSteps, <1>2, <1>3, <1>4, <1>5, <1>6 DEF CapitalNext, TickStep

(* The actions by which nothing is booked, moved or thrown away.           *)
Unbooking ==
  \/ Perform \/ TickRead \/ OpenAtHead \/ ResumeScan \/ Scan \/ ScanDone \/ InferNothing \/ FlowFails
  \/ AdjustPeak \/ Baseline \/ Accrue \/ TickEnd \/ Submit \/ Drop \/ RecordFill \/ SettleStray
  \/ MirrorMark \/ StopStart

LEMMA UnbookingLeaves ==
  ASSUME Types, Unbooking, Never(Overlaps)'
  PROVE  /\ UNCHANGED <<moves, net, receipts, hosted, scanOn>> /\ explained \subseteq explained'
         /\ queue' \subseteq queue \/ Scan
         /\ ~ResumeScan => UNCHANGED stale
         /\ Executed' = Executed
         /\ \A S : SumOf(S)' = SumOf(S)
         /\ \A n : /\ Tally(n)' = Tally(n) /\ CapitalMoves(n)' = CapitalMoves(n)
                   /\ OwnersSince(n)' = OwnersSince(n)
<1>1. UNCHANGED <<moves, net, receipts, hosted, scanOn>>
  BY DEF Unbooking, Perform, TickRead, OpenAtHead, ResumeScan, Scan, ScanDone, InferNothing, FlowFails,
         AdjustPeak, Baseline, Accrue, TickEnd, Submit, Drop, RecordFill, SettleStray, MirrorMark,
         StopStart, Restart, configVars, chainVars, bookVars
<1>2. explained \subseteq explained' /\ (queue' \subseteq queue \/ Scan) /\ (~ResumeScan => UNCHANGED stale)
  <2>1. explained \subseteq explained'
    BY DEF Unbooking, Perform, TickRead, OpenAtHead, ResumeScan, Scan, ScanDone, InferNothing, FlowFails,
         AdjustPeak, Baseline, Accrue, TickEnd, Submit, Drop, RecordFill, SettleStray, MirrorMark,
         StopStart, bookVars
  <2>2. queue' \subseteq queue \/ Scan
    BY DEF Unbooking, Perform, TickRead, OpenAtHead, ResumeScan, ScanDone, InferNothing, FlowFails,
         AdjustPeak, Baseline, Accrue, TickEnd, Submit, Drop, RecordFill, SettleStray, MirrorMark,
         StopStart, Restart, tickVars
  <2>3. ~ResumeScan => UNCHANGED stale
    BY DEF Unbooking, Perform, TickRead, OpenAtHead, Scan, ScanDone, InferNothing, FlowFails,
         AdjustPeak, Baseline, Accrue, TickEnd, Submit, Drop, RecordFill, SettleStray, MirrorMark,
         StopStart, Restart, configVars
  <2> QED
    BY <2>1, <2>2, <2>3
<1> QED
  BY <1>1, <1>2, ChainStill

LEMMA AheadStays ==
  ASSUME Types, CapitalNext, NEW B, NEW n, Ahead(B, n), receipts \subseteq receipts'
  PROVE  Ahead(B, n)'
<1>1. Never({"between"})' => Never({"between"})
  BY FaultsHappen, FaultsOnlyGrow DEF Types
<1> QED
  BY <1>1 DEF Ahead

LEMMA RowStays ==
  ASSUME Types, Types', Facts, CapitalNext, Unbooking, Clean',
         NEW B \in SUBSET CapitalMoves(Executed), BookedSet(B)
  PROVE  SinceRow(B)'
<1>0. /\ Never(Overlaps)' /\ Executed \in Nat
  BY ExecutedMoves DEF Clean
<1> SUFFICES ASSUME ~hosted', ~traded', Early'
             PROVE  \E n \in 0 .. Executed' : /\ row'.cash = Tally(n)' /\ OwnersSince(n)' /\ stale' <= n
                                              /\ Ahead(B, n)'
                                              /\ pc' \in {"flows", "infer"} => n <= read'
  BY DEF SinceRow
<1>1. /\ UNCHANGED <<hosted, receipts>> /\ Executed' = Executed /\ ~hosted
      /\ \A n : Tally(n)' = Tally(n) /\ OwnersSince(n)' = OwnersSince(n)
      /\ ~ResumeScan => UNCHANGED stale
      /\ \A n : Ahead(B, n) => Ahead(B, n)'
  BY <1>0, UnbookingLeaves, AheadStays
<1>2. CASE Accrue
  <2>1. row'.cash = readCash /\ UNCHANGED read /\ pc = "accrue" /\ pc' = "intents"
    BY <1>2 DEF Accrue, Reading, readVars
  <2>2. PICK n \in 0 .. Executed : n = read /\ readCash = Tally(n)
    BY <2>1 DEF Facts, Readings
  <2>3. OwnersSince(n) /\ stale <= n /\ Ahead(B, n)
    <3>1. OwnersSince(read) /\ Ahead(B, read) /\ stale <= read
      BY <2>1 DEF Facts, Readings, Cursors, BookedSet
    <3> QED
      BY <2>2, <3>1
  <2>4. ~ResumeScan
    BY <2>1 DEF ResumeScan
  <2> QED
    BY <1>1, <2>1, <2>2, <2>3, <2>4
<1>3. CASE ~Accrue
  <2>1. ~traded /\ Early /\ UNCHANGED row
    <3>1. ~Submit
      BY DEF Submit
    <3>2. ~(RecordFill \/ Drop \/ SettleStray)
      <4>1. stage # "none" => traded
        BY <1>1 DEF Facts, Waits
      <4> QED
        BY <4>1 DEF RecordFill, Drop, SettleStray, memoryVars
    <3>3. ~(Scan \/ ScanDone \/ InferNothing \/ FlowFails \/ AdjustPeak \/ Baseline)
      BY DEF Scan, ScanDone, InferNothing, FlowFails, AdjustPeak, Baseline, Early
    <3>4. CASE Perform \/ TickRead \/ OpenAtHead \/ ResumeScan \/ TickEnd \/ MirrorMark
      BY <3>4 DEF Perform, TickRead, OpenAtHead, ResumeScan, TickEnd, MirrorMark, Early, bookVars, tickVars,
                  memoryVars
    <3>5. CASE StopStart
      BY <1>0, <3>5, CleanSteps DEF StopStart, Early
    <3> QED
      BY <1>3, <3>1, <3>2, <3>3, <3>4, <3>5 DEF Unbooking
  <2>2. PICK n \in 0 .. Executed : /\ row.cash = Tally(n) /\ OwnersSince(n) /\ stale <= n /\ Ahead(B, n)
                                   /\ pc \in {"flows", "infer"} => n <= read
    BY <1>1, <2>1 DEF BookedSet, SinceRow
  <2>3. pc' \in {"flows", "infer"} => n <= read'
    <3>1. CASE TickRead
      BY <2>2, <3>1, <1>0, SMT DEF TickRead
    <3>2. CASE ~TickRead
      BY <1>0, <1>3, <2>1, <2>2, <3>2, CleanSteps
         DEF Unbooking, Early, Perform, OpenAtHead, ResumeScan, Scan, ScanDone, InferNothing, FlowFails,
           AdjustPeak, Adjusting, Baseline, TickEnd, Submit, Drop, RecordFill, SettleStray, MirrorMark,
           StopStart, Restart, tickVars, readVars
    <3> QED
      BY <3>1, <3>2
  <2>4. stale' <= n
    <3>1. CASE stale' = stale
      BY <2>2, <3>1
    <3>2. CASE stale' # stale
      <4>1. Hit("gap") /\ stale' \in receipts
        BY <1>1, <3>2 DEF ResumeScan
      <4>2. Never({"between"})
        BY <4>1, OrderOfFaults DEF Types, Clean
      <4>3. stale' \in B
        BY <1>1, <4>1 DEF BookedSet, Unfound
      <4> QED
        BY <2>2, <4>2, <4>3 DEF Ahead
    <3> QED
      BY <3>1, <3>2
  <2> QED
    BY <1>1, <2>1, <2>2, <2>3, <2>4
<1> QED
  BY <1>2, <1>3

LEMMA LookStays ==
  ASSUME Types, Types', Facts, CapitalNext, Unbooking, Clean',
         NEW B \in SUBSET CapitalMoves(Executed), BookedSet(B)
  PROVE  SinceLook(B)'
<1>0. Never(Overlaps)' /\ Executed \in Nat
  BY ExecutedMoves DEF Clean
<1> SUFFICES ASSUME ~scanOn', seen'.known, ~wrote', ~(stage' = "landed" /\ waiter' = "tick"),
                    pc' \notin {"adjustLast", "baseline"}
             PROVE  \E n \in 0 .. Executed' : /\ seen'.cash = Tally(n)' /\ OwnersSince(n)'
                                              /\ \A b \in B : b <= n
                                              /\ pc' # "idle" => n <= read'
  BY DEF SinceLook
<1>1. /\ UNCHANGED <<scanOn, receipts>> /\ Executed' = Executed /\ ~scanOn
      /\ \A n : Tally(n)' = Tally(n) /\ OwnersSince(n)' = OwnersSince(n)
  BY <1>0, UnbookingLeaves
<1>2. receipts = {} /\ pc \notin {"flows", "book", "adjust"}
  BY <1>1 DEF Facts, Openings
<1>3. CASE Baseline
  <2>1. seen'.cash = readCash /\ UNCHANGED read /\ pc = "baseline"
    BY <1>3 DEF Baseline, Reading, readVars
  <2>2. PICK n \in 0 .. Executed : n = read /\ readCash = Tally(n)
    BY <2>1 DEF Facts, Readings
  <2>3. OwnersSince(n) /\ \A b \in B : b <= n
    <3>1. OwnersSince(read) /\ Ahead(B, read)
      BY <2>1 DEF Facts, Readings, BookedSet
    <3> QED
      BY <1>2, <2>2, <3>1 DEF Ahead
  <2>4. n <= n
    BY <2>2, SMT
  <2> QED
    BY <1>1, <2>1, <2>2, <2>3, <2>4
<1>4. CASE ~Baseline
  <2>1. ~(OpenAtHead \/ ResumeScan \/ Scan \/ ScanDone \/ RecordFill \/ StopStart \/ InferNothing \/ AdjustPeak)
    BY <1>2 DEF OpenAtHead, ResumeScan, Scan, ScanDone, RecordFill, StopStart, Restart, Unread, InferNothing,
           AdjustPeak, Adjusting
  <2>2. /\ UNCHANGED <<seen, wrote>> /\ ~(stage = "landed" /\ waiter = "tick")
        /\ pc \notin {"adjustLast", "baseline"}
    <3>1. CASE Perform \/ MirrorMark \/ TickRead \/ TickEnd \/ Accrue \/ FlowFails
      BY <3>1 DEF Perform, MirrorMark, TickRead, TickEnd, Accrue, FlowFails, opVars, tickVars, memoryVars
    <3>2. CASE Submit \/ Drop \/ SettleStray
      BY <3>2 DEF Submit, Drop, SettleStray, tickVars, memoryVars
    <3> QED
      BY <1>4, <2>1, <3>1, <3>2 DEF Unbooking
  <2>3. PICK n \in 0 .. Executed : /\ seen.cash = Tally(n) /\ OwnersSince(n) /\ \A b \in B : b <= n
                                   /\ pc # "idle" => n <= read
    BY <1>1, <2>2 DEF BookedSet, SinceLook
  <2>4. pc' # "idle" => n <= read'
    <3>1. CASE TickRead
      BY <2>3, <3>1, <1>0, SMT DEF TickRead
    <3>2. CASE ~TickRead
      BY <1>4, <2>1, <2>3, <3>2
         DEF Unbooking, Perform, FlowFails, Accrue, TickEnd, Submit, Drop, SettleStray, MirrorMark, tickVars,
             readVars
    <3> QED
      BY <3>1, <3>2
  <2> QED
    BY <1>1, <2>2, <2>3, <2>4
<1> QED
  BY <1>3, <1>4

LEMMA LogsStay ==
  ASSUME Types, Types', Facts, CapitalNext, Unbooking, Clean',
         NEW B \in SUBSET CapitalMoves(Executed), BookedSet(B)
  PROVE  Unfound(B)'
<1>0. /\ Never(Overlaps)' /\ Executed \in Nat /\ cursor \in Nat /\ head \in Nat
      /\ \A b \in B : b \in 1 .. Executed
  <2>1. B \subseteq 1 .. Executed
    BY DEF CapitalMoves
  <2> QED
    BY <2>1, ExecutedMoves DEF Clean, Types, TickTypes, MemoryTypes
<1>1. /\ UNCHANGED <<receipts, hosted>> /\ explained \subseteq explained'
      /\ ~ResumeScan => UNCHANGED stale
      /\ queue' \subseteq queue \/ Scan
  BY <1>0, UnbookingLeaves
<1>2. /\ queue \cap B = {} /\ (~hosted => receipts \subseteq B)
      /\ cursor > 0 => \A b \in B : Block(b) < cursor \/ b \in receipts \cup explained
      /\ \A b \in B, k \in receipts : b < k \/ k <= stale \/ b \in receipts \cup explained
  BY DEF BookedSet, Unfound
<1>3. queue' \cap B = {}
  <2>1. CASE Scan
    <3>1. PICK h \in Heads : queue' = Found(h)
      BY <2>1 DEF Scan
    <3>2. cursor > 0
      BY <2>1 DEF Scan
    <3>3. \A m \in Found(h) : Block(m) >= cursor /\ m \notin receipts \cup explained /\ m \in Nat
      BY <1>0, <3>1, SMT DEF Found, Heads, Block
    <3>4. \A m \in Found(h) : ~(Block(m) < cursor)
      BY <1>0, <3>3, SMT DEF Block
    <3> QED
      BY <1>2, <3>1, <3>2, <3>3, <3>4
  <2> QED
    BY <1>1, <1>2, <2>1
<1>4. /\ cursor' > 0 => \A b \in B : Block(b) < cursor' \/ b \in receipts \cup explained'
      /\ \A b \in B, k \in receipts : b < k \/ k <= stale' \/ b \in receipts \cup explained'
  <2>1. CASE OpenAtHead
    <3>1. cursor' = 2 * Executed + 1 /\ UNCHANGED stale
      BY <1>0, <2>1, CleanSteps DEF OpenAtHead, configVars
    <3>2. \A b \in B : Block(b) < cursor'
      BY <1>0, <3>1, SMT DEF Block
    <3> QED
      BY <1>1, <1>2, <3>1, <3>2
  <2>2. CASE ResumeScan
    <3>1. PICK m \in receipts \ {stale} :
            /\ Last(receipts, m)
            /\ \/ cursor' = Block(m) /\ stale' = stale
               \/ cursor' = 2 * Executed + 1 /\ stale' = m
      BY <2>2 DEF ResumeScan
    <3>2. /\ \A k \in receipts : k <= m /\ k \in Nat
          /\ m \in Nat /\ stale \in Nat
      <4>1. receipts \subseteq 1 .. Executed /\ (stale = 0 \/ stale \in receipts)
        BY DEF Facts, Cursors
      <4>2. \A k : k \in 1 .. Executed => k \in Nat
        BY <1>0, SMT
      <4>3. \A k \in receipts : k \in Nat
        BY <4>1, <4>2
      <4>4. 0 \in Nat
        BY SMT
      <4>5. stale \in Nat
        BY <4>1, <4>3, <4>4
      <4> QED
        BY <3>1, <4>3, <4>5 DEF Last
    <3>3. CASE cursor' = Block(m) /\ stale' = stale
      <4>1. ~(m <= stale)
        <5>1. stale <= m /\ stale # m /\ m > 0
          <6>1. stale = 0 \/ stale \in receipts
            BY DEF Facts, Cursors
          <6>2. m \in 1 .. Executed
            BY DEF Facts, Cursors
          <6> QED
            BY <1>0, <3>1, <3>2, <6>1, <6>2, SMT
        <5> QED
          BY <3>2, <5>1, SMT
      <4>2. \A b \in B : b < m \/ b \in receipts \cup explained
        BY <1>2, <4>1
      <4>3. \A b \in B : b < m => Block(b) < Block(m)
        BY <1>0, <3>2, SMT DEF Block
      <4> QED
        BY <1>1, <1>2, <3>3, <4>2, <4>3
    <3>4. CASE cursor' = 2 * Executed + 1 /\ stale' = m
      <4>1. \A b \in B : Block(b) < cursor'
        BY <1>0, <3>4, SMT DEF Block
      <4> QED
        BY <3>2, <3>4, <4>1
    <3> QED
      BY <3>1, <3>3, <3>4
  <2>3. CASE ScanDone
    <3>1. cursor' = head /\ cursor > 0 /\ cursor <= head /\ UNCHANGED stale
      <4>1. cursor' = head /\ pc = "book" /\ UNCHANGED stale
        BY <2>3, <1>1 DEF ScanDone, configVars
      <4>2. cursor # 0 /\ cursor <= head
        BY <4>1 DEF Facts, Openings, Fresh, Cursors
      <4> QED
        BY <1>0, <4>1, <4>2, SMT
    <3>2. \A b \in B : Block(b) < cursor => Block(b) < cursor'
      BY <1>0, <3>1, SMT DEF Block
    <3> QED
      BY <1>1, <1>2, <3>1, <3>2
  <2>4. CASE ~(OpenAtHead \/ ResumeScan \/ ScanDone)
    <3>1. cursor' = cursor \/ cursor' = 0
      BY <2>4 DEF Unbooking, Perform, TickRead, Scan, InferNothing, FlowFails, AdjustPeak, Baseline, Accrue,
             TickEnd, Submit, Drop, RecordFill, SettleStray, MirrorMark, StopStart, Restart, memoryVars
    <3>2. ~(0 > 0)
      BY SMT
    <3> QED
      BY <1>1, <1>2, <2>4, <3>1, <3>2
  <2> QED
    BY <2>1, <2>2, <2>3, <2>4
<1> QED
  BY <1>1, <1>2, <1>3, <1>4 DEF Unfound

LEMMA WaitStays ==
  ASSUME Types, Unbooking, Never(Overlaps)', NEW B, Unrecorded(B)
  PROVE  Unrecorded(B)'
<1>1. UNCHANGED moves
  BY UnbookingLeaves
<1>2. ASSUME stage' = "landed", waiter' = "tick"
      PROVE  UNCHANGED <<stage, waiter, opKind>>
  <2>1. ~(Submit \/ Drop \/ RecordFill \/ SettleStray \/ StopStart)
    BY <1>2 DEF Submit, Drop, RecordFill, SettleStray, NoOp, StopStart, Restart
  <2> QED
    BY <2>1 DEF Unbooking, Perform, TickRead, OpenAtHead, ResumeScan, Scan, ScanDone, InferNothing, FlowFails,
           AdjustPeak, Baseline, Accrue, TickEnd, MirrorMark, opVars
<1>3. ASSUME stage' = "landed", waiter' = "tick", NEW m \in 1 .. Executed', Landed(m)'
      PROVE  m \notin B
  <2>1. UNCHANGED <<stage, waiter, opKind>>
    BY <1>2, <1>3
  <2>2. m \in 1 .. Executed /\ Landed(m)
    BY <1>1, <1>3, <2>1 DEF Landed, Last, Executed
  <2> QED
    BY <1>3, <2>1, <2>2 DEF Unrecorded
<1> QED
  BY <1>3 DEF Unrecorded

LEMMA BookedStays ==
  ASSUME Types, Types', Facts, CapitalNext, Unbooking, ~Redeploy, Clean',
         NEW B \in SUBSET CapitalMoves(Executed), BookedSet(B)
  PROVE  B \in SUBSET CapitalMoves(Executed)' /\ BookedSet(B)'
<1>0. /\ Never(Overlaps)' /\ Executed \in Nat /\ B \subseteq 1 .. Executed
  BY ExecutedMoves DEF Clean, CapitalMoves
<1>1. /\ UNCHANGED <<moves, net, receipts, hosted>> /\ Executed' = Executed
      /\ \A S : SumOf(S)' = SumOf(S)
  BY <1>0, UnbookingLeaves
<1>2. B \in SUBSET CapitalMoves(Executed)' /\ net' = SumOf(B)'
  BY <1>1 DEF BookedSet, CapitalMoves, Executed
<1>3. (hosted' /\ licence' = "new-account" /\ Fresh') => B = {}
  <2>1. ASSUME hosted', Fresh' PROVE Fresh /\ UNCHANGED licence
    <3>1. ~StopStart
      BY <1>1, <2>1 DEF StopStart
    <3> QED
      BY <1>0, <2>1, <3>1, FreshBefore DEF Facts
  <2> QED
    BY <1>1, <2>1 DEF BookedSet
<1>4. ASSUME pc' \notin {"idle", "intents"} PROVE Ahead(B, read)'
  <2>1. CASE TickRead
    <3>1. read' = Executed /\ \A b \in B : b <= Executed
      BY <1>0, <2>1, SMT DEF TickRead
    <3> QED
      BY <3>1 DEF Ahead
  <2>2. CASE ~TickRead
    <3>1. pc \notin {"idle", "intents"} /\ UNCHANGED read
      BY <1>4, <2>2
         DEF Unbooking, Perform, OpenAtHead, ResumeScan, Scan, ScanDone, InferNothing, FlowFails,
           AdjustPeak, Adjusting, Baseline, Accrue, TickEnd, Submit, Drop, RecordFill, SettleStray,
           MirrorMark, StopStart, Restart, tickVars, readVars
    <3>2. Never({"between"})' => Never({"between"})
      BY FaultsHappen, FaultsOnlyGrow DEF Types
    <3>3. Ahead(B, read)
      BY <3>1 DEF BookedSet
    <3> QED
      BY <1>1, <3>1, <3>2, <3>3 DEF Ahead
  <2> QED
    BY <2>1, <2>2
<1>5. Unrecorded(B)'
  BY <1>0, WaitStays DEF BookedSet
<1> QED
  BY <1>2, <1>3, <1>4, <1>5, RowStays, LookStays, LogsStay DEF BookedSet

LEMMA OwnersStay ==
  ASSUME Types, NEW k \in External, Moved(k), NEW n, OwnersSince(n)
  PROVE  OwnersSince(n)'
<1>1. /\ Executed \in Nat /\ Executed' = Executed + 1 /\ moves'[Executed + 1] = k
      /\ \A m \in 1 .. Executed : moves'[m] = moves[m]
  BY ChainGrows
<1>2. \A m \in 1 .. Executed' : m \in 1 .. Executed \/ m = Executed + 1
  BY <1>1, SMT
<1> QED
  BY <1>1, <1>2 DEF OwnersSince

LEMMA UnrecordedOnChain ==
  ASSUME Types, Deposit \/ Takeout \/ Mine, NEW B \in SUBSET (1 .. Executed), Unrecorded(B)
  PROVE  Unrecorded(B)'
<1>1. PICK k \in External \cup OpKinds :
           /\ Moved(k) /\ (~Mine => k \in External)
           /\ UNCHANGED <<opKind, waiter>> /\ (~Mine => UNCHANGED stage) /\ (Mine => k = opKind)
  BY OnChain
<1>2. /\ Executed \in Nat /\ Executed' = Executed + 1
      /\ \A m \in 1 .. Executed : moves'[m] = moves[m]
      /\ moves'[Executed + 1] = k
  BY <1>1, ChainGrows
<1>3. /\ 1 .. Executed \subseteq 1 .. Executed' /\ Executed + 1 \in 1 .. Executed'
      /\ \A m \in 1 .. Executed' : m \in 1 .. Executed \/ m = Executed + 1
      /\ \A m \in 1 .. Executed : ~(Executed + 1 <= m)
  BY <1>2, SMT
<1> SUFFICES ASSUME stage' = "landed", waiter' = "tick", NEW m \in 1 .. Executed', Landed(m)'
             PROVE  m \notin B
  BY DEF Unrecorded
<1>4. moves'[m] = opKind /\ \A q \in 1 .. Executed' : moves'[q] = opKind => q <= m
  BY <1>1 DEF Landed, Last, Executed
<1>5. CASE Mine
  <2>1. Executed + 1 <= m
    BY <1>1, <1>2, <1>3, <1>4, <1>5
  <2> QED
    BY <1>3, <2>1
<1>6. CASE ~Mine
  <2>1. stage = "landed" /\ waiter = "tick" /\ k \in External /\ opKind \in OpKinds
    BY <1>1, <1>6 DEF Types, ChainTypes
  <2>2. m \in 1 .. Executed
    BY <1>2, <1>3, <1>4, <2>1 DEF External, OpKinds
  <2>3. Landed(m)
    BY <1>2, <1>3, <1>4, <2>2 DEF Landed, Last
  <2> QED
    BY <2>1, <2>2, <2>3 DEF Unrecorded
<1> QED
  BY <1>5, <1>6

LEMMA BookedOnChain ==
  ASSUME Types, Types', Facts, CapitalNext, Deposit \/ Takeout \/ Mine, Clean',
         NEW B \in SUBSET CapitalMoves(Executed), BookedSet(B)
  PROVE  B \in SUBSET CapitalMoves(Executed)' /\ BookedSet(B)'
<1>1. PICK k \in External \cup OpKinds :
           /\ Moved(k) /\ (~Mine => k \in External)
           /\ UNCHANGED <<configVars, bookVars, tickVars, memoryVars, happened, opKind, waiter>>
           /\ Mine => k = opKind /\ stage = "submitted" /\ stage' = "landed"
           /\ ~Mine => UNCHANGED stage
  BY OnChain
<1>2. /\ UNCHANGED <<hosted, scanOn, stale, receipts, explained, net, row, pc, read, queue>>
      /\ UNCHANGED <<cursor, seen, wrote, traded, licence, happened, opKind, waiter>>
  BY <1>1 DEF configVars, bookVars, tickVars, readVars, memoryVars
<1>3. /\ Executed \in Nat /\ Executed' = Executed + 1
      /\ \A m \in 1 .. Executed : moves'[m] = moves[m]
      /\ moves'[Executed + 1] = k
      /\ \A S \in SUBSET (1 .. Executed) : SumOf(S)' = SumOf(S)
      /\ \A n \in 0 .. Executed : Tally(n)' = Tally(n)
  BY <1>1, ChainGrows
<1>4. /\ 1 .. Executed \subseteq 1 .. Executed' /\ 0 .. Executed \subseteq 0 .. Executed'
      /\ Executed + 1 \in 1 .. Executed'
      /\ \A m \in 1 .. Executed' : m \in 1 .. Executed \/ m = Executed + 1
      /\ \A m \in 1 .. Executed : ~(Executed + 1 <= m)
  BY <1>3, SMT
<1>5. B \in SUBSET (1 .. Executed) /\ \A b \in B : moves[b] # "fill"
  BY DEF CapitalMoves
<1>6. B \in SUBSET CapitalMoves(Executed)'
  BY <1>3, <1>4, <1>5 DEF CapitalMoves
<1>7. net' = SumOf(B)'
  BY <1>2, <1>3, <1>5 DEF BookedSet
<1>8. (hosted' /\ licence' = "new-account" /\ Fresh') => B = {}
  BY <1>2 DEF BookedSet, Fresh
<1>9. \A n : Ahead(B, n) => Ahead(B, n)'
  BY <1>2, AheadStays
<1>10. pc' \notin {"idle", "intents"} => Ahead(B, read)'
  BY <1>2, <1>9 DEF BookedSet, Ahead
<1>11. SinceRow(B)'
  <2> SUFFICES ASSUME ~hosted, ~traded, Early
               PROVE  \E n \in 0 .. Executed' : /\ row'.cash = Tally(n)' /\ OwnersSince(n)' /\ stale' <= n
                                                /\ Ahead(B, n)'
                                                /\ pc' \in {"flows", "infer"} => n <= read'
    BY <1>2 DEF SinceRow, Early
  <2>1. ~Mine
    BY <1>1 DEF Facts, Waits
  <2>2. PICK n \in 0 .. Executed : /\ row.cash = Tally(n) /\ OwnersSince(n) /\ stale <= n /\ Ahead(B, n)
                                   /\ pc \in {"flows", "infer"} => n <= read
    BY DEF BookedSet, SinceRow
  <2>3. OwnersSince(n)'
    BY <1>1, <2>1, <2>2, OwnersStay
  <2> QED
    BY <1>2, <1>3, <1>4, <1>9, <2>2, <2>3
<1>12. SinceLook(B)'
  <2> SUFFICES ASSUME ~scanOn, seen.known, ~wrote, ~(stage' = "landed" /\ waiter = "tick"),
                      pc \notin {"adjustLast", "baseline"}
               PROVE  \E n \in 0 .. Executed' : /\ seen'.cash = Tally(n)' /\ OwnersSince(n)'
                                                /\ \A b \in B : b <= n
                                                /\ pc' # "idle" => n <= read'
    BY <1>2 DEF SinceLook
  <2>1. ~Mine
    BY <1>1 DEF Facts, Waits
  <2>2. PICK n \in 0 .. Executed : /\ seen.cash = Tally(n) /\ OwnersSince(n) /\ \A b \in B : b <= n
                                   /\ pc # "idle" => n <= read
    BY <1>1, <2>1 DEF BookedSet, SinceLook
  <2>3. OwnersSince(n)'
    BY <1>1, <2>1, <2>2, OwnersStay
  <2> QED
    BY <1>2, <1>3, <1>4, <2>2, <2>3
<1>13. Unfound(B)'
  BY <1>2 DEF BookedSet, Unfound, Block
<1>14. Unrecorded(B)'
  BY <1>5, UnrecordedOnChain DEF BookedSet
<1> QED
  BY <1>6, <1>7, <1>8, <1>10, <1>11, <1>12, <1>13, <1>14 DEF BookedSet

LEMMA NotFreshHere ==
  ASSUME Types, Facts, CapitalNext, Never(Overlaps)', ~Redeploy, ~StopStart,
         pc \notin {"idle", "flows", "infer"}
  PROVE  ~Fresh'
  BY FreshBefore DEF Facts, Openings

LEMMA BookedReceipt ==
  ASSUME Types, Types', Facts, CapitalNext, BookReceipt, Clean',
         NEW B \in SUBSET CapitalMoves(Executed), BookedSet(B)
  PROVE  \E D \in SUBSET CapitalMoves(Executed)' : BookedSet(D)'
<1>1. PICK m \in queue : receipts' = receipts \cup {m} /\ net' = net + Signed(m) /\ queue' = queue \ {m}
  BY DEF BookReceipt
<1>2. /\ pc = "book" /\ pc' = "adjust" /\ UNCHANGED <<moves, hosted, scanOn, stale, stage, waiter>>
      /\ UNCHANGED <<read, cursor, explained, happened>>
  BY DEF BookReceipt, configVars, chainVars, opVars, readVars, memoryVars
<1>3. /\ Executed' = Executed /\ Executed \in Nat /\ CapitalMoves(Executed)' = CapitalMoves(Executed)
      /\ \A S : SumOf(S)' = SumOf(S)
  BY <1>2, ChainStill, ExecutedMoves DEF CapitalMoves
<1>4. /\ m \in CapitalMoves(Executed) /\ m \in 1 .. Executed /\ Block(m) >= cursor
      /\ Never({"between"}) => m <= read
  BY DEF Facts, Cursors, Queued, CapitalMoves
<1>5. B \in SUBSET (1 .. Executed) /\ m \notin B
  BY DEF BookedSet, Unfound, CapitalMoves
<1> DEFINE D == B \cup {m}
<1>6. D \in SUBSET CapitalMoves(Executed)'
  BY <1>3, <1>4
<1>7. net' = SumOf(D)'
  <2>1. SumOf(D) = SumOf(B) + Signed(m)
    BY <1>4, <1>5, SumOfMore
  <2> QED
    BY <1>1, <1>3, <2>1 DEF BookedSet
<1>8. ~Fresh'
  <2>1. ~Redeploy /\ ~StopStart /\ Never(Overlaps)'
    BY <1>2 DEF Redeploy, StopStart, Restart, Clean
  <2> QED
    BY <1>2, <2>1, NotFreshHere
<1>9. Ahead(D, read)'
  <2>1. Ahead(B, read) /\ (Never({"between"})' => Never({"between"}))
    BY <1>2 DEF BookedSet, Never
  <2> QED
    BY <1>1, <1>2, <1>4, <2>1 DEF Ahead
<1>10. SinceRow(D)' /\ SinceLook(D)'
  <2>1. scanOn
    BY <1>2 DEF Facts, Openings, Types, ChainTypes
  <2> QED
    BY <1>2, <2>1 DEF SinceRow, SinceLook, Early
<1>11. Unfound(D)'
  <2>1. cursor \in Nat /\ cursor > 0
    <3>1. cursor # 0
      BY <1>2 DEF Facts, Openings, Fresh
    <3> QED
      BY <3>1, SMT DEF Types, MemoryTypes
  <2>2. \A b \in B : Block(b) < cursor => b < m
    <3>1. \A b \in B : b \in Nat
      BY <1>5, SMT
    <3> QED
      BY <1>4, <2>1, <3>1, SMT DEF Block
  <2>3. /\ queue \cap B = {}
        /\ \A b \in B : Block(b) < cursor \/ b \in receipts \cup explained
        /\ \A b \in B, k \in receipts : b < k \/ k <= stale \/ b \in receipts \cup explained
        /\ ~hosted => receipts \subseteq B
    BY <2>1 DEF BookedSet, Unfound
  <2> QED
    BY <1>1, <1>2, <2>2, <2>3 DEF Unfound, Block
<1>12. Unrecorded(D)'
  BY <1>2 DEF Facts, Waits, Unrecorded
<1> HIDE DEF D
<1>13. BookedSet(D)'
  BY <1>2, <1>7, <1>8, <1>9, <1>10, <1>11, <1>12 DEF BookedSet
<1> QED
  BY <1>6, <1>13

(* An inferred flow books what the owner has moved since the balance it is *)
(* compared with.                                                          *)
LEMMA BookedUpTo ==
  ASSUME Types, Types', Facts, CapitalNext, InferFlow, Clean',
         NEW B \in SUBSET CapitalMoves(Executed), BookedSet(B),
         NEW n \in 0 .. Executed, OwnersSince(n), \A b \in B : b <= n, n <= read,
         Delta = readCash - Tally(n), \A k \in receipts : k <= stale
  PROVE  \E D \in SUBSET CapitalMoves(Executed)' : BookedSet(D)'
<1>1. /\ pc = "infer" /\ pc' = "adjustLast" /\ net' = net + Delta
      /\ UNCHANGED <<moves, hosted, scanOn, stale, stage, waiter, receipts>>
      /\ UNCHANGED <<read, cursor, explained, queue, happened>>
  BY DEF InferFlow, configVars, chainVars, opVars, readVars, memoryVars
<1>2. /\ Executed' = Executed /\ Executed \in Nat /\ CapitalMoves(Executed)' = CapitalMoves(Executed)
      /\ \A S : SumOf(S)' = SumOf(S)
  BY <1>1, ChainStill, ExecutedMoves DEF CapitalMoves
<1>3. PICK r \in 0 .. Executed : r = read /\ readCash = Tally(r)
  BY <1>1 DEF Facts, Readings
<1> DEFINE New == (n + 1) .. r
           D == B \cup New
<1>4. /\ r \in n .. Executed /\ n \in Nat /\ r \in Nat
      /\ \A m \in New : m \in Nat /\ ~(m <= n) /\ m <= r
  BY <1>2, <1>3, SMT
<1>5. /\ New \in SUBSET CapitalMoves(Executed) /\ SumOf(New) \in Int
      /\ Tally(r) - Tally(n) = SumOf(New)
  BY <1>4, OwnersMoney
<1>6. /\ B \in SUBSET (1 .. Executed) /\ New \in SUBSET (1 .. Executed) /\ B \cap New = {}
      /\ D \in SUBSET CapitalMoves(Executed)
  BY <1>4, <1>5 DEF CapitalMoves
<1>7. net' = SumOf(D)'
  <2>1. SumOf(D) = SumOf(B) + SumOf(New)
    BY <1>6, SumOfBoth
  <2> QED
    BY <1>1, <1>2, <1>3, <1>5, <2>1 DEF BookedSet
<1>8. \A b \in D : b \in Nat /\ b <= r
  <2>1. \A b \in B : b \in Nat
    BY <1>6, SMT
  <2>2. \A b \in B : b <= r
    BY <1>4, <2>1, SMT
  <2> QED
    BY <1>4, <2>1, <2>2
<1>9. scanOn => cursor = 2 * r + 1
  BY <1>1, <1>3 DEF Facts, Openings
<1>10. ~Fresh'
  <2>1. scanOn => cursor # 0
    BY <1>4, <1>9, SMT
  <2> QED
    BY <1>1, <2>1 DEF Fresh
<1>11. Ahead(D, read)'
  BY <1>1, <1>3, <1>8 DEF Ahead
<1>12. SinceRow(D)' /\ SinceLook(D)' /\ Unrecorded(D)'
  BY <1>1 DEF SinceRow, SinceLook, Early, Unrecorded, Facts, Waits
<1>13. Unfound(D)'
  <2>1. cursor > 0 => scanOn
    <3>1. ~scanOn => cursor = 0
      BY DEF Facts, Openings
    <3> QED
      BY <3>1, SMT
  <2>2. scanOn => \A b \in D : Block(b) < cursor
    BY <1>4, <1>8, <1>9, SMT DEF Block
  <2>3. queue = {} /\ (~hosted => receipts \subseteq B)
    BY <1>1 DEF Facts, Queued, BookedSet, Unfound
  <2> QED
    BY <1>1, <2>1, <2>2, <2>3 DEF Unfound, Block
<1> HIDE DEF D
<1>14. BookedSet(D)'
  BY <1>1, <1>7, <1>10, <1>11, <1>12, <1>13 DEF BookedSet
<1> QED
  BY <1>1, <1>2, <1>6, <1>14

(* What a first observation finds: the change since the last equity row.   *)
LEMMA FirstLook ==
  ASSUME Types, Paired, Facts, Never(Overlaps), pc = "infer", Fresh
  PROVE  /\ IF licence \in {"self-hosted-local", "new-account"} THEN FirstDelta = readCash - row.cash
                                                             ELSE FirstDelta = 0
         /\ hosted /\ licence = "new-account" => ~row.known
<1>1. /\ readCash \in Nat /\ readEquity \in Int /\ row.cash \in Int /\ hosted \in BOOLEAN
      /\ readEquity >= readCash /\ Early
  <2>1. readEquity >= readCash
    BY DEF Facts, Readings
  <2> QED
    BY <2>1 DEF Types, ChainTypes, TickTypes, BookTypes, Cells, Early
<1>2. peak = hwm
  <2>1. Never({"peak"})
    BY DEF Never, Overlaps
  <2> QED
    BY <2>1 DEF Paired
<1>3. ~row.known => row.cash = 0 /\ readEquity = readCash
  BY DEF Facts, NoRow
<1>4. CASE ~hosted
  <2>1. licence = "self-hosted-local" /\ ~traded
    BY <1>4 DEF Facts, Openings
  <2>2. row.known /\ hwm = 0 => row.cash = 0 /\ readEquity = readCash
    BY <1>1, <1>4, <2>1 DEF Facts, NoMark
  <2>3. CASE readEquity > 0 /\ peak = 0
    <3>1. row.cash = 0 /\ readEquity = readCash
      BY <1>2, <1>3, <2>2, <2>3
    <3>2. FirstDelta = readEquity
      BY <2>1, <2>3 DEF FirstDelta
    <3>3. FirstDelta = readCash - row.cash
      BY <1>1, <3>1, <3>2, SMT
    <3> QED
      BY <1>4, <2>1, <3>3
  <2>4. CASE ~(readEquity > 0 /\ peak = 0) /\ row.known
    BY <1>4, <2>1, <2>4 DEF FirstDelta
  <2>5. CASE ~(readEquity > 0 /\ peak = 0) /\ ~row.known
    <3>1. hwm = 0
      BY <1>4, <2>5 DEF Facts, NoRow
    <3>2. readCash - row.cash = 0
      BY <1>1, <1>2, <1>3, <2>5, <3>1, SMT
    <3>3. FirstDelta = 0
      BY <2>1, <2>5 DEF FirstDelta
    <3> QED
      BY <1>4, <2>1, <3>2, <3>3
  <2> QED
    BY <2>3, <2>4, <2>5
<1>5. CASE hosted
  <2>1. licence # "self-hosted-local" /\ (licence = "new-account" => ~row.known)
    BY <1>5 DEF Facts, Openings
  <2>2. FirstDelta = IF licence = "new-account" THEN readEquity ELSE 0
    BY <2>1 DEF FirstDelta
  <2>3. licence = "new-account" => readEquity = readCash - row.cash
    BY <1>1, <1>3, <2>1, SMT
  <2> QED
    BY <2>1, <2>2, <2>3
<1> QED
  BY <1>1, <1>4, <1>5

LEMMA BookedFlow ==
  ASSUME Types, Types', Paired, Facts, CapitalNext, InferFlow, Clean',
         NEW B \in SUBSET CapitalMoves(Executed), BookedSet(B)
  PROVE  \E D \in SUBSET CapitalMoves(Executed)' : BookedSet(D)'
<1>1. /\ pc = "infer" /\ Delta # 0 /\ Early /\ Never(Overlaps)
      /\ hosted \in BOOLEAN /\ scanOn \in BOOLEAN /\ Executed \in Nat /\ read \in Nat /\ stale \in Nat
  <2>1. pc = "infer" /\ Delta # 0 /\ UNCHANGED happened
    BY DEF InferFlow
  <2>2. read \in Nat /\ Executed \in Nat /\ hosted \in BOOLEAN /\ scanOn \in BOOLEAN
    BY ExecutedBound, SMT DEF Types, ChainTypes, TickTypes
  <2>3. stale \in Nat
    BY SMT DEF Types, ChainTypes, Moves
  <2> QED
    BY <2>1, <2>2, <2>3 DEF Early, Clean, Never
<1>2. /\ \A k \in receipts : k <= stale
      /\ ~scanOn => receipts = {}
  BY <1>1 DEF Facts, Openings
<1>3. seen.known => ~scanOn
  BY <1>1 DEF Facts, Openings, Fresh
<1>4. ~seen.known => Fresh
  BY <1>1 DEF Fresh
<1>5. CASE seen.known
  <2>1. ~wrote /\ Delta = readCash - seen.cash
    BY <1>1, <1>5 DEF Delta, Drift
  <2>2. ~(stage = "landed" /\ waiter = "tick")
    BY <1>1 DEF Facts, Waits
  <2>3. PICK n \in 0 .. Executed : /\ seen.cash = Tally(n) /\ OwnersSince(n) /\ \A b \in B : b <= n
                                   /\ n <= read
    BY <1>1, <1>3, <1>5, <2>1, <2>2 DEF BookedSet, SinceLook
  <2> QED
    BY <1>2, <2>1, <2>3, BookedUpTo
<1>6. CASE ~seen.known
  <2>1. Delta = FirstDelta /\ Delta = readCash - row.cash /\ (hosted => licence = "new-account" /\ ~row.known)
    <3>1. hosted => licence # "self-hosted-local"
      BY DEF Facts, Openings
    <3> QED
      BY <1>1, <1>4, <1>6, <3>1, FirstLook DEF Delta
  <2>2. CASE hosted
    <3>1. B = {} /\ row.cash = 0 /\ OwnersSince(0)
      BY <1>4, <1>6, <2>1, <2>2 DEF BookedSet, Facts, NoRow
    <3>2. 0 \in 0 .. Executed /\ 0 <= read
      BY <1>1, SMT
    <3>3. Tally(0) = 0
      <4>1. 1 .. 0 = {}
        BY SMT
      <4> QED
        BY <4>1, SumOfNone DEF Tally
    <3>4. PICK n \in 0 .. Executed : n = 0
      BY <3>2
    <3>5. OwnersSince(n) /\ Tally(n) = 0 /\ n <= read
      BY <3>1, <3>2, <3>3, <3>4
    <3> QED
      BY <1>2, <2>1, <3>1, <3>5, BookedUpTo
  <2>3. CASE ~hosted
    <3>1. ~traded
      BY <1>4, <1>6, <2>3 DEF Facts, Openings
    <3>2. PICK n \in 0 .. Executed : /\ row.cash = Tally(n) /\ OwnersSince(n) /\ stale <= n /\ Ahead(B, n)
                                     /\ n <= read
      BY <1>1, <2>3, <3>1 DEF BookedSet, SinceRow
    <3>3. \A k \in receipts : k \in Nat
      BY <1>1, SMT DEF Facts, Cursors
    <3>4. \A k \in receipts : k <= n
      BY <1>1, <1>2, <3>2, <3>3, SMT
    <3>5. \A b \in B : b <= n
      BY <3>2, <3>4 DEF Ahead
    <3> QED
      BY <1>2, <2>1, <3>2, <3>5, BookedUpTo
  <2> QED
    BY <1>1, <2>2, <2>3
<1> QED
  BY <1>5, <1>6

LEMMA BookedTransfer ==
  ASSUME Types, Types', Facts, CapitalNext, RecordTransfer, Clean',
         NEW B \in SUBSET CapitalMoves(Executed), BookedSet(B)
  PROVE  \E D \in SUBSET CapitalMoves(Executed)' : BookedSet(D)'
<1>1. PICK m \in 1 .. Executed : /\ Landed(m) /\ explained' = explained \cup {m}
                                 /\ net' = net + Signed(m) \/ net' = net
  BY DEF RecordTransfer
<1>2. /\ stage = "landed" /\ stage' = "none" /\ opKind = "transfer" /\ waiter # "nobody" /\ wrote'
      /\ UNCHANGED <<moves, hosted, scanOn, stale, receipts, pc, queue, cursor, traded>>
  BY DEF RecordTransfer, NoOp, configVars, chainVars, tickVars
<1>3. pc = "intents" /\ waiter = "tick" /\ traded /\ queue = {}
  BY <1>2 DEF Facts, Waits, Queued
<1>4. /\ Executed' = Executed /\ Executed \in Nat /\ CapitalMoves(Executed)' = CapitalMoves(Executed)
      /\ \A S : SumOf(S)' = SumOf(S)
  BY <1>2, ChainStill, ExecutedMoves DEF CapitalMoves
<1>5. m \in CapitalMoves(Executed) /\ m \notin B /\ B \in SUBSET (1 .. Executed)
  BY <1>1, <1>2, <1>3 DEF Landed, Last, CapitalMoves, BookedSet, Unrecorded
<1>6. PICK D \in {B, B \cup {m}} : net' = SumOf(D)
  <2>1. SumOf(B \cup {m}) = SumOf(B) + Signed(m)
    BY <1>5, SumOfMore
  <2> QED
    BY <1>1, <2>1 DEF BookedSet
<1>7. D \in SUBSET CapitalMoves(Executed)' /\ net' = SumOf(D)'
  BY <1>4, <1>5, <1>6
<1>8. ~Fresh'
  <2>1. ~Redeploy /\ ~StopStart /\ Never(Overlaps)'
    BY <1>2, <1>3 DEF Redeploy, StopStart, Restart, Clean
  <2> QED
    BY <1>3, <2>1, NotFreshHere
<1>9. SinceRow(D)' /\ SinceLook(D)' /\ Unrecorded(D)'
  BY <1>2, <1>3 DEF SinceRow, SinceLook, Unrecorded
<1>10. Unfound(D)'
  BY <1>1, <1>2, <1>3, <1>6 DEF BookedSet, Unfound, Block
<1>11. BookedSet(D)'
  BY <1>2, <1>3, <1>7, <1>8, <1>9, <1>10 DEF BookedSet
<1> QED
  BY <1>7, <1>11

LEMMA BookedRedeploy ==
  ASSUME Types, Types', Redeploy, Clean', NEW B \in SUBSET CapitalMoves(Executed), BookedSet(B)
  PROVE  \E D \in SUBSET CapitalMoves(Executed)' : BookedSet(D)'
<1>1. /\ UNCHANGED <<moves, hosted, net>> /\ hosted /\ pc' = "idle" /\ seen' = Unread
      /\ receipts' = {} /\ queue' = {} /\ cursor' = 0 /\ waiter' = "nobody"
  BY DEF Redeploy, Restart, configVars, chainVars
<1>2. licence' = "new-account" => net = 0
  BY DEF Redeploy, LicencesRead, HasAccounting
<1>3. /\ CapitalMoves(Executed)' = CapitalMoves(Executed) /\ \A S : SumOf(S)' = SumOf(S)
  BY <1>1, ChainStill DEF CapitalMoves
<1>0. PICK D : D = IF licence' = "new-account" THEN {} ELSE B
  OBVIOUS
<1>4. D \in SUBSET CapitalMoves(Executed)' /\ net' = SumOf(D)'
  BY <1>0, <1>1, <1>2, <1>3, SumOfNone DEF BookedSet
<1>5. (hosted' /\ licence' = "new-account" /\ Fresh') => D = {}
  BY <1>0
<1>6. SinceRow(D)' /\ SinceLook(D)' /\ Unrecorded(D)'
  BY <1>1 DEF SinceRow, SinceLook, Unrecorded, Unread
<1>7. Unfound(D)'
  <2>1. ~(0 > 0)
    BY SMT
  <2> QED
    BY <1>1, <2>1 DEF Unfound
<1>8. BookedSet(D)'
  BY <1>1, <1>4, <1>5, <1>6, <1>7 DEF BookedSet
<1> QED
  BY <1>4, <1>8

LEMMA BookedStutters ==
  ASSUME UNCHANGED capitalVars, NEW B \in SUBSET CapitalMoves(Executed), BookedSet(B)
  PROVE  B \in SUBSET CapitalMoves(Executed)' /\ BookedSet(B)'
<1>1. /\ UNCHANGED <<hosted, scanOn, stale, moves, stage, opKind, waiter, receipts, explained, net, row>>
      /\ UNCHANGED <<pc, read, queue, cursor, seen, wrote, traded, licence, happened>>
  BY DEF capitalVars, configVars, chainVars, opVars, bookVars, tickVars, readVars, memoryVars
<1>2. /\ \A S : SumOf(S)' = SumOf(S) /\ Executed' = Executed
      /\ \A n : Tally(n)' = Tally(n) /\ OwnersSince(n)' = OwnersSince(n)
      /\ \A n : CapitalMoves(n)' = CapitalMoves(n)
  BY <1>1, ChainStill
<1>3. CapitalMoves(Executed)' = CapitalMoves(Executed)
  BY <1>1 DEF CapitalMoves, Executed
<1>4. \A n : Ahead(B, n) => Ahead(B, n)'
  BY <1>1 DEF Ahead, Never
<1>5. pc' \notin {"idle", "intents"} => Ahead(B, read)'
  BY <1>1 DEF BookedSet, Ahead, Never
<1>6. SinceRow(B)'
  BY <1>1, <1>2, <1>4 DEF BookedSet, SinceRow, Early
<1>7. SinceLook(B)'
  BY <1>1, <1>2 DEF BookedSet, SinceLook
<1>8. Unfound(B)' /\ Unrecorded(B)'
  BY <1>1 DEF BookedSet, Unfound, Unrecorded, Block, Landed, Last, Executed
<1>9. net' = SumOf(B)' /\ ((hosted' /\ licence' = "new-account" /\ Fresh') => B = {})
  BY <1>1, <1>2 DEF BookedSet, Fresh
<1> QED
  BY <1>3, <1>5, <1>6, <1>7, <1>8, <1>9 DEF BookedSet

LEMMA BookedBegins == CapitalInit => BookedInv
<1> SUFFICES ASSUME CapitalInit PROVE BookedInv
  OBVIOUS
<1>1. Facts /\ Types
  BY FactsBegin, TypesBegin
<1>2. /\ net = 0 /\ pc = "idle" /\ seen = Unread /\ queue = {} /\ cursor = 0 /\ receipts = {}
      /\ stage = "none" /\ row = Unread /\ stale = 0 /\ moves = <<>>
  BY DEF CapitalInit
<1>3. net = SumOf({}) /\ {} \in SUBSET CapitalMoves(Executed)
  BY <1>1, <1>2, SumOfNone
<1>4. SinceRow({})
  <2>1. 0 \in 0 .. Executed /\ 0 <= 0 /\ 1 .. 0 = {}
    BY <1>1, ExecutedMoves, SMT
  <2>2. row.cash = Tally(0)
    BY <1>1, <1>2, <2>1, SumOfNone DEF Tally, Unread
  <2>3. OwnersSince(0)
    BY <1>1, <1>2 DEF Facts, NoRow, Unread
  <2>4. PICK n \in 0 .. Executed : n = 0
    BY <2>1
  <2>5. row.cash = Tally(n) /\ OwnersSince(n) /\ stale <= n /\ Ahead({}, n)
    BY <1>2, <2>1, <2>2, <2>3, <2>4 DEF Ahead
  <2> QED
    BY <1>2, <2>5 DEF SinceRow
<1>5. SinceLook({}) /\ Unrecorded({})
  BY <1>2 DEF SinceLook, Unrecorded, Unread
<1>6. Unfound({})
  BY <1>2 DEF Unfound
<1>7. BookedSet({})
  BY <1>2, <1>3, <1>4, <1>5, <1>6 DEF BookedSet
<1> QED
  BY <1>1, <1>3, <1>7 DEF BookedInv

LEMMA BookedStep ==
  ASSUME Types, Types', Paired, BookedInv, [CapitalNext]_capitalVars
  PROVE  BookedInv'
<1> SUFFICES ASSUME Clean' PROVE Facts' /\ \E D \in SUBSET CapitalMoves(Executed)' : BookedSet(D)'
  BY DEF BookedInv
<1>1. AnyFault
  BY FaultsHappen DEF AnyFault, capitalVars
<1>2. Clean
  BY <1>1, FaultsOnlyGrow, OrderOnlyGrows DEF Clean, Types
<1>3. PICK B \in SUBSET CapitalMoves(Executed) : Facts /\ BookedSet(B)
  BY <1>2 DEF BookedInv
<1>4. Facts'
  BY <1>3, FactsStep DEF Clean
<1>5. CASE UNCHANGED capitalVars
  BY <1>3, <1>4, <1>5, BookedStutters
<1>6. CASE CapitalNext
  <2>1. ~ScanRefused /\ ~Unresolve
    BY CleanSteps DEF Clean
  <2>2. CASE Deposit \/ Takeout \/ Mine
    BY <1>3, <1>4, <1>6, <2>2, BookedOnChain
  <2>3. CASE BookReceipt
    BY <1>3, <1>4, <1>6, <2>3, BookedReceipt
  <2>4. CASE InferFlow
    BY <1>3, <1>4, <1>6, <2>4, BookedFlow
  <2>5. CASE RecordTransfer
    BY <1>3, <1>4, <1>6, <2>5, BookedTransfer
  <2>6. CASE Redeploy
    BY <1>3, <1>4, <2>6, BookedRedeploy
  <2>7. CASE Unbooking /\ ~Redeploy
    BY <1>3, <1>4, <1>6, <2>7, BookedStays
  <2> QED
    BY <1>6, <2>1, <2>2, <2>3, <2>4, <2>5, <2>6, <2>7 DEF CapitalNext, TickStep, Unbooking
<1> QED
  BY <1>5, <1>6

(* A movement of money becomes a contribution once: whether the balances,  *)
(* the logs or the agent's own records show it first, and whatever         *)
(* restarts, stale watermarks and failed writes come between, as long as   *)
(* no fault has the two of them see the same movement.                     *)
THEOREM BookedOnceHolds == CapitalSpec => []BookedOnce
<1>1. CapitalInit => Types /\ Paired /\ BookedInv
  BY TypesBegin, PairedBegins, BookedBegins
<1>2. Types /\ Paired /\ BookedInv /\ [CapitalNext]_capitalVars => (Types /\ Paired /\ BookedInv)'
  BY TypesStep, PairedStep, BookedStep
<1>3. BookedInv => BookedOnce
  BY DEF BookedInv, Clean, BookedSet, BookedOnce, Booked
<1> QED
  BY <1>1, <1>2, <1>3, PTL DEF CapitalSpec

-----------------------------------------------------------------------------
(* What is not booked: nothing a balance reflects, as long as the faults   *)
(* leave a way to see it.                                                  *)

Trusted ==
  /\ Never(Overlaps \cup {"flow", "midway"})
  /\ ~Before("between", "gap") /\ ~Before("between", "redeploy")
  /\ Times("redeploy") + Times("anchor") <= 1

LEMMA FaultsFinite ==
  ASSUME NEW h, h \in Seq(CapitalFaults), NEW f
  PROVE  IsFiniteSet({i \in 1 .. Len(h) : h[i] = f})
<1>1. IsFiniteSet(1 .. Len(h))
  BY LenProperties, FS_Interval
<1> QED
  BY <1>1, FS_Subset

LEMMA TimesGrow ==
  ASSUME FaultTypes, AnyFault, NEW f
  PROVE  Times(f) \in Nat /\ Times(f)' \in Nat /\ Times(f) <= Times(f)'
<1>1. happened \in Seq(CapitalFaults) /\ happened' \in Seq(CapitalFaults)
      /\ 1 .. Len(happened) \subseteq 1 .. Len(happened')
      /\ \A i \in 1 .. Len(happened) : happened'[i] = happened[i]
  <2>1. CASE UNCHANGED happened
    BY <2>1 DEF FaultTypes
  <2>2. ASSUME NEW g, Hit(g)
        PROVE  /\ happened \in Seq(CapitalFaults) /\ happened' \in Seq(CapitalFaults)
               /\ 1 .. Len(happened) \subseteq 1 .. Len(happened')
               /\ \A i \in 1 .. Len(happened) : happened'[i] = happened[i]
    <3>1. happened' = Append(happened, g) /\ happened \in Seq(CapitalFaults) /\ g \in CapitalFaults
      BY <2>2 DEF Hit, FaultTypes
    <3>2. /\ happened' \in Seq(CapitalFaults)
          /\ Len(happened') = Len(happened) + 1 /\ Len(happened) \in Nat
          /\ \A i \in 1 .. Len(happened) : happened'[i] = happened[i]
      BY <3>1, AppendProperties, LenProperties
    <3>3. 1 .. Len(happened) \subseteq 1 .. Len(happened')
      BY <3>2, SMT
    <3> QED
      BY <3>1, <3>2, <3>3
  <2> QED
    BY <2>1, <2>2 DEF AnyFault
<1> DEFINE I == {i \in 1 .. Len(happened) : happened[i] = f}
           J == {i \in 1 .. Len(happened') : happened'[i] = f}
<1>2. IsFiniteSet(I) /\ IsFiniteSet(J) /\ I \subseteq J
  <2>1. IsFiniteSet(I)
    BY <1>1, FaultsFinite
  <2>2. IsFiniteSet(J)
    BY <1>1, FaultsFinite
  <2> QED
    BY <1>1, <2>1, <2>2
<1>3. Times(f) = Cardinality(I) /\ Times(f)' = Cardinality(J)
  BY DEF Times
<1> HIDE DEF I, J
<1> QED
  BY <1>2, <1>3, FS_Subset, FS_CardinalityType

LEMMA OnceOnly ==
  ASSUME FaultTypes, NEW g \in {"redeploy", "anchor"}, Hit(g),
         Times("redeploy")' + Times("anchor")' <= 1
  PROVE  Never({"redeploy", "anchor"})
<1>1. happened' = Append(happened, g) /\ happened \in Seq(CapitalFaults) /\ g \in CapitalFaults
  BY DEF Hit, FaultTypes
<1>2. /\ happened' \in Seq(CapitalFaults)
      /\ Len(happened') = Len(happened) + 1 /\ Len(happened) \in Nat
      /\ \A i \in 1 .. Len(happened) : happened'[i] = happened[i]
      /\ happened'[Len(happened) + 1] = g
  BY <1>1, AppendProperties, LenProperties
<1> SUFFICES ASSUME NEW i \in 1 .. Len(happened), happened[i] \in {"redeploy", "anchor"} PROVE FALSE
  BY DEF Never
<1> DEFINE R == {k \in 1 .. Len(happened') : happened'[k] = "redeploy"}
           A == {k \in 1 .. Len(happened') : happened'[k] = "anchor"}
           j == Len(happened) + 1
<1>3. IsFiniteSet(R) /\ IsFiniteSet(A) /\ R \cap A = {}
  <2>1. IsFiniteSet(R)
    BY <1>2, FaultsFinite
  <2>2. IsFiniteSet(A)
    BY <1>2, FaultsFinite
  <2> QED
    BY <2>1, <2>2
<1>4. Times("redeploy")' = Cardinality(R) /\ Times("anchor")' = Cardinality(A)
  BY DEF Times
<1>5. i \in R \cup A /\ j \in R \cup A /\ i # j
  <2>1. i \in 1 .. Len(happened') /\ j \in 1 .. Len(happened') /\ i # j
    BY <1>2, SMT
  <2> QED
    BY <1>2, <2>1
<1> HIDE DEF R, A, j
<1>6. /\ IsFiniteSet(R \cup A) /\ Cardinality(R) \in Nat /\ Cardinality(A) \in Nat
      /\ Cardinality(R \cup A) = Cardinality(R) + Cardinality(A)
  <2>1. /\ IsFiniteSet(R \cup A)
        /\ Cardinality(R \cup A) = Cardinality(R) + Cardinality(A) - Cardinality(R \cap A)
    BY <1>3, FS_Union
  <2>2. Cardinality(R) \in Nat /\ Cardinality(A) \in Nat /\ Cardinality(R \cap A) = 0
    BY <1>3, FS_CardinalityType, FS_EmptySet
  <2> QED
    BY <2>1, <2>2, SMT
<1>7. Cardinality({i} \cup {j}) = 2 /\ {i} \cup {j} \in SUBSET (R \cup A)
  <2>1. PICK S : S = {i}
    OBVIOUS
  <2>2. IsFiniteSet(S) /\ Cardinality(S) = 1 /\ j \notin S
    BY <1>5, <2>1, FS_Singleton
  <2>3. Cardinality(S \cup {j}) = Cardinality(S) + 1
    BY <2>2, FS_AddElement
  <2>4. Cardinality(S \cup {j}) = 2
    BY <2>2, <2>3, SMT
  <2> QED
    BY <1>5, <2>1, <2>4
<1>8. 2 <= Cardinality(R \cup A)
  BY <1>6, <1>7, FS_Subset
<1> QED
  BY <1>4, <1>6, <1>8, SMT

LEMMA TrustOnlyShrinks ==
  ASSUME FaultTypes, AnyFault, Trusted'
  PROVE  /\ Trusted /\ Never(Overlaps)' /\ Never(Overlaps)
         /\ \A f \in Overlaps \cup {"flow", "midway"} : ~Hit(f)
         /\ Hit("gap") => Never({"between"})
         /\ Hit("redeploy") => Never({"between"}) /\ Never({"redeploy", "anchor"})
         /\ Hit("anchor") => Never({"redeploy", "anchor"})
<1>1. \A F : Never(F)' => Never(F)
  BY FaultsOnlyGrow
<1>2. Times("redeploy") + Times("anchor") <= 1
  <2>1. /\ Times("redeploy") \in Nat /\ Times("redeploy")' \in Nat /\ Times("redeploy") <= Times("redeploy")'
        /\ Times("anchor") \in Nat /\ Times("anchor")' \in Nat /\ Times("anchor") <= Times("anchor")'
    BY TimesGrow
  <2>2. Times("redeploy")' + Times("anchor")' <= 1
    BY DEF Trusted
  <2> QED
    BY <2>1, <2>2, SMT
<1>3. Trusted
  BY <1>1, <1>2, OrderOnlyGrows DEF Trusted
<1>4. Never(Overlaps)' /\ Never(Overlaps)
  BY <1>3 DEF Trusted, Never
<1>5. \A f \in Overlaps \cup {"flow", "midway"} : ~Hit(f)
  BY AFaultIsKnown DEF Trusted
<1>6. /\ Hit("redeploy") => Never({"between"}) /\ Never({"redeploy", "anchor"})
      /\ Hit("gap") => Never({"between"})
  BY OrderOfFaults, OnceOnly DEF Trusted
<1>7. Hit("anchor") => Never({"redeploy", "anchor"})
  BY OnceOnly DEF Trusted
<1> QED
  BY <1>3, <1>4, <1>5, <1>6, <1>7

(* What holds besides, with the scan on: of the logs, of the account's     *)
(* accounting, and of books that are known to be whole.                    *)
Steady ==
  /\ Fresh => ~traded
  /\ pc = "flows" => cursor <= 2 * read + 1 /\ \A k \in receipts : k <= read
  /\ \A m \in explained : moves[m] \in OpKinds
  /\ (hosted /\ Never({"redeploy", "anchor"})) => known /\ licence = "new-account"

SteadyKnown ==
  known => /\ Never({"anchor"})
           /\ stage # "none" => waiter = "tick"
           /\ queue \cap (receipts \cup explained) = {}
           /\ (hosted /\ licence = "resume" /\ Fresh) => anchor = row /\ row.known

LEMMA NeverElse ==
  ASSUME FaultTypes, NEW f, Hit(f), NEW F, Never(F), f \notin F
  PROVE  Never(F)'
<1>1. happened' = Append(happened, f) /\ happened \in Seq(CapitalFaults) /\ f \in CapitalFaults
  BY DEF Hit, FaultTypes
<1>2. /\ Len(happened') = Len(happened) + 1 /\ Len(happened) \in Nat
      /\ \A i \in 1 .. Len(happened) : happened'[i] = happened[i]
      /\ happened'[Len(happened) + 1] = f
  BY <1>1, AppendProperties, LenProperties
<1>3. \A i \in 1 .. Len(happened') : i \in 1 .. Len(happened) \/ i = Len(happened) + 1
  BY <1>2, SMT
<1> QED
  BY <1>2, <1>3 DEF Never

(* A redeploy there is only one of.                                        *)
LEMMA TrustedRedeploy ==
  ASSUME FaultTypes, AnyFault, Trusted', Redeploy
  PROVE  /\ hosted /\ Never({"redeploy", "anchor"})
         /\ \/ Settled /\ Never({"between"}) /\ licence' \in LicencesRead /\ Never({"anchor"})'
            \/ licence' = "none"
         /\ ~Never({"redeploy", "anchor"})'
<1>1. /\ ~Hit("midway") /\ ~Hit("kill") /\ ~Hit("torn")
      /\ Hit("redeploy") => Never({"between"}) /\ Never({"redeploy", "anchor"})
      /\ Hit("anchor") => Never({"redeploy", "anchor"})
  BY TrustOnlyShrinks DEF Overlaps
<1>2. \/ Settled /\ Hit("redeploy") /\ licence' \in LicencesRead
      \/ Hit("anchor") /\ licence' = "none"
  BY <1>1 DEF Redeploy
<1>3. Hit("redeploy") => Never({"anchor"})'
  <2>1. Never({"redeploy", "anchor"}) => Never({"anchor"})
    BY DEF Never
  <2> QED
    BY <1>1, <2>1, NeverElse
<1>4. ~Never({"redeploy", "anchor"})'
  BY <1>2, AFaultIsKnown
<1> QED
  BY <1>1, <1>2, <1>3, <1>4 DEF Redeploy

LEMMA NoOtherAnchor ==
  ASSUME FaultTypes, CapitalNext, ~Redeploy, Never({"anchor"})
  PROVE  Never({"anchor"})'
<1>1. UNCHANGED happened \/ \E f \in AllCapitalFaults \ {"anchor"} : Hit(f)
  BY DEF CapitalNext, TickStep, AllCapitalFaults, Deposit, Takeout, Perform, TickRead, OpenAtHead,
         ResumeScan, Scan, ScanRefused, ScanDone, BookReceipt, InferNothing, InferFlow, FlowFails,
         AdjustPeak, Baseline, Accrue, TickEnd, Submit, Mine, Drop, RecordFill, RecordTransfer,
         Unresolve, SettleStray, MirrorMark, StopStart
<1>2. CASE UNCHANGED happened
  BY <1>2 DEF Never
<1> QED
  BY <1>1, <1>2, NeverElse

LEMMA ConfigStays == CapitalNext => UNCHANGED <<hosted, scanOn>>
  BY DEF CapitalNext, TickStep, Deposit, Takeout, Perform, TickRead, OpenAtHead, ResumeScan, Scan,
         ScanRefused, ScanDone, BookReceipt, InferNothing, InferFlow, FlowFails, AdjustPeak, Baseline, Accrue,
         TickEnd, Submit, Mine, Drop, RecordFill, RecordTransfer, Unresolve, SettleStray, MirrorMark,
         Redeploy, StopStart, Restart, configVars

LEMMA SteadyStep ==
  ASSUME Types, Types', Facts, Steady, CapitalNext, Trusted'
  PROVE  Steady'
<1>0. /\ FaultTypes /\ AnyFault /\ Never(Overlaps)' /\ UNCHANGED <<hosted, scanOn>>
      /\ \A F : Never(F)' => Never(F)
  BY FaultsHappen, FaultsOnlyGrow, TrustOnlyShrinks, ConfigStays DEF Types
<1>1. Fresh' => ~traded'
  <2>1. CASE Redeploy \/ StopStart
    BY <2>1 DEF Redeploy, StopStart, Restart
  <2>2. ASSUME ~Redeploy, ~StopStart, Fresh' PROVE ~traded'
    <3>1. Fresh /\ pc \in {"idle", "flows", "infer"} /\ ~traded
      BY <1>0, <2>2, FreshBefore DEF Facts, Openings, Steady
    <3>2. ~Submit /\ ~Accrue
      BY <1>0, <3>1, CleanSteps DEF Accrue
    <3> QED
      BY <2>2, <3>1, <3>2
         DEF CapitalNext, TickStep, Deposit, Takeout, Perform, TickRead, OpenAtHead, ResumeScan, Scan,
         ScanRefused, ScanDone, BookReceipt, InferNothing, InferFlow, FlowFails, AdjustPeak, Baseline,
         TickEnd, Mine, Drop, RecordFill, RecordTransfer, Unresolve, SettleStray, MirrorMark, memoryVars
  <2> QED
    BY <2>1, <2>2
<1>2. pc' = "flows" => cursor' <= 2 * read' + 1 /\ \A k \in receipts' : k <= read'
  <2>0. receipts \subseteq 1 .. Executed /\ Executed \in Nat /\ read \in Nat
    <3>1. read \in Nat
      BY ExecutedBound, SMT DEF Types, TickTypes
    <3> QED
      BY <3>1, ExecutedMoves DEF Facts, Cursors
  <2>1. CASE TickRead
    <3>1. UNCHANGED <<receipts, cursor>> /\ read' = Executed
      BY <2>1 DEF TickRead, bookVars, memoryVars
    <3>2. \A k \in receipts : k <= Executed
      <4>1. \A k \in 1 .. Executed : k <= Executed
        BY <2>0, SMT
      <4> QED
        BY <2>0, <4>1
    <3> QED
      BY <3>1, <3>2 DEF Facts, Cursors
  <2>2. CASE ResumeScan
    <3>1. UNCHANGED <<receipts, read>> /\ pc = "flows"
      BY <2>2 DEF ResumeScan, bookVars, readVars
    <3>2. PICK m \in receipts : pc' = "infer" \/ cursor' = Block(m)
      BY <2>2 DEF ResumeScan
    <3>3. m \in Nat /\ m <= read /\ \A k \in receipts : k <= read
      <4>1. m \in Nat
        BY <2>0, SMT
      <4> QED
        BY <3>1, <4>1 DEF Steady
    <3>4. pc' = "infer" \/ cursor' <= 2 * read + 1
      BY <2>0, <3>2, <3>3, SMT DEF Block
    <3> QED
      BY <3>1, <3>3, <3>4
  <2>3. CASE ~TickRead /\ ~ResumeScan
    <3>1. ASSUME pc' = "flows" PROVE pc = "flows" /\ UNCHANGED <<receipts, read, cursor>>
      BY <2>3, <3>1 DEF CapitalNext, TickStep, Deposit, Takeout, Perform, OpenAtHead, Scan,
         ScanRefused, ScanDone, BookReceipt, InferNothing, InferFlow, FlowFails, AdjustPeak, Adjusting, Baseline,
         Accrue, TickEnd, Submit, Mine, Drop, RecordFill, RecordTransfer, Unresolve, SettleStray, MirrorMark,
         Redeploy, StopStart, Restart, bookVars, tickVars, readVars, memoryVars
    <3> QED
      BY <3>1 DEF Steady
  <2> QED
    BY <2>1, <2>2, <2>3
<1>3. \A m \in explained' : moves'[m] \in OpKinds
  <2>1. CASE Deposit \/ Takeout \/ Mine
    <3>1. UNCHANGED explained /\ \A m \in 1 .. Executed : moves'[m] = moves[m]
      BY <2>1, OnChain, ChainGrows DEF bookVars
    <3> QED
      BY <3>1 DEF Steady, Facts, Cursors
  <2>2. CASE RecordFill \/ RecordTransfer \/ SettleStray
    <3>1. UNCHANGED moves /\ \E m \in 1 .. Executed : Landed(m) /\ explained' = explained \cup {m}
      BY <2>2 DEF RecordFill, RecordTransfer, SettleStray, chainVars
    <3> QED
      BY <3>1 DEF Landed, Last, Steady, Types, ChainTypes
  <2>3. CASE ~(Deposit \/ Takeout \/ Mine \/ RecordFill \/ RecordTransfer \/ SettleStray)
    <3>1. UNCHANGED moves /\ (UNCHANGED explained \/ explained' = {})
      BY <2>3 DEF CapitalNext, TickStep, Perform, TickRead, OpenAtHead, ResumeScan, Scan,
         ScanRefused, ScanDone, BookReceipt, InferNothing, InferFlow, FlowFails, AdjustPeak, Baseline, Accrue,
         TickEnd, Submit, Drop, Unresolve, MirrorMark, Redeploy, StopStart, Restart, chainVars, bookVars
    <3> QED
      BY <3>1 DEF Steady
  <2> QED
    BY <2>1, <2>2, <2>3
<1>4. (hosted' /\ Never({"redeploy", "anchor"})') => known' /\ licence' = "new-account"
  <2> SUFFICES ASSUME hosted, Never({"redeploy", "anchor"})' PROVE known' /\ licence' = "new-account"
    BY <1>0
  <2>1. ~Redeploy /\ known /\ licence = "new-account" /\ ~StopStart
    BY <1>0, TrustedRedeploy DEF Steady, StopStart
  <2>2. UNCHANGED licence /\ (UNCHANGED known \/ known' = StillKnown)
    BY <2>1 DEF CapitalNext, TickStep, Deposit, Takeout, Perform, TickRead, OpenAtHead, ResumeScan, Scan,
         ScanRefused, ScanDone, BookReceipt, InferNothing, InferFlow, FlowFails, AdjustPeak, Baseline, Accrue,
         TickEnd, Submit, Mine, Drop, RecordFill, RecordTransfer, Unresolve, SettleStray, MirrorMark, memoryVars
  <2> QED
    BY <2>1, <2>2 DEF StillKnown, Drifted
<1> QED
  BY <1>1, <1>2, <1>3, <1>4 DEF Steady

LEMMA SteadyKnownStep ==
  ASSUME Types, Types', Facts, Steady, SteadyKnown, CapitalNext, Trusted'
  PROVE  SteadyKnown'
<1> SUFFICES ASSUME known'
             PROVE  /\ Never({"anchor"})'
                    /\ stage' # "none" => waiter' = "tick"
                    /\ queue' \cap (receipts' \cup explained') = {}
                    /\ (hosted' /\ licence' = "resume" /\ Fresh') => anchor' = row' /\ row'.known
  BY DEF SteadyKnown
<1>0. FaultTypes /\ AnyFault /\ Never(Overlaps)' /\ UNCHANGED <<hosted, scanOn>>
  BY FaultsHappen, TrustOnlyShrinks, ConfigStays DEF Types
<1>1. CASE Redeploy
  <2>1. licence' # "none"
    BY <1>1 DEF Redeploy
  <2>2. /\ hosted /\ Never({"redeploy", "anchor"}) /\ Never({"anchor"})'
        /\ Settled /\ licence' \in LicencesRead
    BY <1>0, <1>1, <2>1, TrustedRedeploy
  <2>3. known
    BY <2>2 DEF Steady
  <2>4. stage = "none"
    BY <2>2, <2>3 DEF SteadyKnown, Facts, Waits, Settled
  <2>5. stage' = "none" /\ queue' = {} /\ row' = row /\ (licence' = "resume" => anchor' = row)
    BY <1>1, <2>4 DEF Redeploy, Restart
  <2>6. licence' = "resume" => row.known
    <3>1. ASSUME ~row.known PROVE ~HasAccounting
      <4>1. pc \in {"idle", "flows", "infer"}
        BY <2>2, <3>1 DEF Settled, Facts, Waits
      <4>2. Never({"redeploy", "midway", "anchor"})
        <5>1. Never({"midway"})
          <6>1. Trusted
            BY <1>0, TrustOnlyShrinks
          <6> QED
            BY <6>1 DEF Trusted, Never
        <5> QED
          BY <2>2, <5>1 DEF Never
      <4> QED
        BY <3>1, <4>1, <4>2 DEF Facts, NoRow
    <3> QED
      BY <2>2, <3>1 DEF LicencesRead
  <2> QED
    BY <2>2, <2>5, <2>6
<1>2. CASE ~Redeploy
  <2>1. known
    BY <1>2 DEF StillKnown, CapitalNext, TickStep, Deposit, Takeout, Perform, TickRead, OpenAtHead, ResumeScan, Scan,
         ScanRefused, ScanDone, BookReceipt, InferNothing, InferFlow, FlowFails, AdjustPeak, Baseline, Accrue,
         TickEnd, Submit, Mine, Drop, RecordFill, RecordTransfer, Unresolve, SettleStray, MirrorMark, StopStart,
         memoryVars
  <2>2. /\ Never({"anchor"}) /\ (stage # "none" => waiter = "tick") /\ queue \cap (receipts \cup explained) = {}
        /\ (hosted /\ licence = "resume" /\ Fresh) => anchor = row /\ row.known
    BY <2>1 DEF SteadyKnown
  <2>3. Never({"anchor"})'
    BY <1>0, <1>2, <2>2, NoOtherAnchor
  <2>4. stage' # "none" => waiter' = "tick"
    BY <1>0, <1>2, <2>2, CleanSteps
       DEF CapitalNext, TickStep, Deposit, Takeout, Perform, TickRead, OpenAtHead, ResumeScan, Scan,
         ScanRefused, ScanDone, BookReceipt, InferNothing, InferFlow, FlowFails, AdjustPeak, Baseline, Accrue,
         TickEnd, Mine, Drop, RecordFill, RecordTransfer, SettleStray, NoOp, MirrorMark, StopStart, Restart,
         opVars
  <2>5. queue' \cap (receipts' \cup explained') = {}
    <3>1. CASE Scan
      <4>1. PICK h \in Heads : queue' = Found(h)
        BY <3>1 DEF Scan
      <4>2. UNCHANGED <<receipts, explained>>
        BY <3>1 DEF Scan, bookVars
      <4> QED
        BY <4>1, <4>2 DEF Found
    <3>2. CASE BookReceipt
      <4>1. PICK m \in queue : receipts' = receipts \cup {m} /\ queue' = queue \ {m}
        BY <3>2 DEF BookReceipt
      <4>2. UNCHANGED explained
        BY <3>2 DEF BookReceipt
      <4> QED
        BY <2>2, <4>1, <4>2
    <3>3. CASE RecordFill \/ RecordTransfer \/ SettleStray
      <4>1. pc = "intents"
        BY <2>2, <3>3 DEF RecordFill, RecordTransfer, SettleStray, Facts, Waits
      <4>2. queue' = queue
        BY <3>3 DEF RecordFill, RecordTransfer, SettleStray, tickVars
      <4> QED
        BY <4>1, <4>2 DEF Facts, Queued
    <3>4. CASE ~(Scan \/ BookReceipt \/ RecordFill \/ RecordTransfer \/ SettleStray)
      <4>1. UNCHANGED <<receipts, explained>> \/ queue' = {}
        BY <1>2, <3>4 DEF CapitalNext, TickStep, Deposit, Takeout, Perform, TickRead, OpenAtHead, ResumeScan,
         ScanRefused, ScanDone, InferNothing, InferFlow, FlowFails, AdjustPeak, Baseline, Accrue,
         TickEnd, Submit, Mine, Drop, Unresolve, MirrorMark, StopStart, Restart, bookVars
      <4>2. UNCHANGED queue \/ queue' = {}
        BY <1>2, <3>4 DEF CapitalNext, TickStep, Deposit, Takeout, Perform, TickRead, OpenAtHead, ResumeScan,
         ScanRefused, ScanDone, InferNothing, InferFlow, FlowFails, AdjustPeak, Baseline, Accrue,
         TickEnd, Submit, Mine, Drop, Unresolve, MirrorMark, StopStart, Restart, tickVars
      <4> QED
        BY <2>2, <4>1, <4>2
    <3> QED
      BY <3>1, <3>2, <3>3, <3>4
  <2>6. ASSUME hosted', licence' = "resume", Fresh' PROVE anchor' = row' /\ row'.known
    <3>1. ~StopStart
      BY <1>0, <2>6 DEF StopStart
    <3>2. Fresh /\ licence = "resume" /\ pc # "accrue"
      BY <1>0, <1>2, <2>6, <3>1, FreshBefore DEF Facts, Openings
    <3>3. UNCHANGED <<anchor, row>>
      BY <1>2, <3>1, <3>2 DEF CapitalNext, TickStep, Deposit, Takeout, Perform, TickRead, OpenAtHead, ResumeScan, Scan,
         ScanRefused, ScanDone, BookReceipt, InferNothing, InferFlow, FlowFails, AdjustPeak, Baseline, Accrue,
         TickEnd, Submit, Mine, Drop, RecordFill, RecordTransfer, Unresolve, SettleStray, MirrorMark, bookVars,
         memoryVars
    <3> QED
      BY <1>0, <2>2, <2>6, <3>2, <3>3
  <2> QED
    BY <2>3, <2>4, <2>5, <2>6
<1> QED
  BY <1>1, <1>2

(* There is a receipt to resume the scan from.                             *)
News == \E k \in receipts : ~(k <= stale)

(* The movements that are booked, C, are all those the logs have shown and *)
(* will not show again.                                                    *)
Held(C) ==
  \A m \in CapitalMoves(Executed) :
    m \in C <=> Block(m) < cursor \/ m \in receipts \cup explained \/ \E k \in receipts : m < k

(* The logs are booked in order, so that the watermark of the next life is *)
(* where this one's cursor is.                                             *)
Ordered ==
  cursor > 0 =>
    /\ \A m \in CapitalMoves(Executed), k \in receipts :
         m < k => Block(m) < cursor \/ m \in receipts \cup explained
    /\ News => \A m \in CapitalMoves(Executed) :
                 Block(m) < cursor => m \in receipts \cup explained \/ \E k \in receipts : m < k

(* All that the last equity row reflects, for a life that has only the row *)
(* to go by.                                                               *)
FromRow(C) ==
  (Early /\ ~traded /\ (~News \/ Never({"between"}))) =>
    \E n \in 0 .. Executed : /\ row.cash = Tally(n) /\ OwnersSince(n) /\ C = CapitalMoves(n)
                             /\ pc \in {"flows", "infer"} => n <= read

(* With what is queued, all up to the head of the scan.                    *)
InTick(C) ==
  pc \notin {"idle", "intents", "flows", "infer"} =>
    \E h \in 0 .. Executed : /\ read <= h /\ C \cup queue = CapitalMoves(h)
                             /\ pc \in {"book", "adjust"} => head = 2 * h \/ head = 2 * h + 1
                             /\ Never({"between"}) => h = read
                             /\ h = read \/ \E k \in receipts \cup queue : ~(k <= stale)

Whole(C) ==
  /\ net = SumOf(C)
  /\ ((cursor > 0 \/ News) /\ pc # "infer") => Held(C)
  /\ Ordered /\ FromRow(C) /\ InTick(C) /\ Unrecorded(C)

(* The actions by which nothing becomes known or unknown, either.          *)
Quiet ==
  \/ Perform \/ TickRead \/ OpenAtHead \/ ResumeScan \/ Scan \/ ScanDone \/ AdjustPeak
  \/ Baseline \/ Accrue \/ TickEnd \/ Submit \/ Drop \/ RecordFill \/ MirrorMark \/ StopStart

LEMMA QuietLeaves ==
  ASSUME Types, Quiet, Never(Overlaps)'
  PROVE  /\ Unbooking /\ UNCHANGED <<moves, net, receipts, hosted, scanOn>>
         /\ ~ResumeScan => UNCHANGED stale /\ (News' <=> News)
         /\ Executed' = Executed /\ Executed \in Nat
         /\ CapitalMoves(Executed)' = CapitalMoves(Executed)
         /\ \A S : SumOf(S)' = SumOf(S)
         /\ \A n : /\ Tally(n)' = Tally(n) /\ CapitalMoves(n)' = CapitalMoves(n)
                   /\ OwnersSince(n)' = OwnersSince(n)
<1>1. Unbooking
  BY DEF Quiet, Unbooking
<1>2. /\ UNCHANGED <<moves, net, receipts, hosted, scanOn>> /\ Executed' = Executed
      /\ ~ResumeScan => UNCHANGED stale
  BY <1>1, UnbookingLeaves
<1>3. CapitalMoves(Executed)' = CapitalMoves(Executed)
  BY <1>2 DEF CapitalMoves, Executed
<1>4. UNCHANGED <<receipts, stale>> => (News' <=> News)
  BY DEF News
<1> QED
  BY <1>1, <1>2, <1>3, <1>4, ChainStill, ExecutedMoves

(* Opening a scan, or resuming it at the last receipt, or leaving what     *)
(* came after that to the balances.                                        *)
LEMMA Openers ==
  ASSUME Types, Facts, CapitalNext, Trusted'
  PROVE  /\ OpenAtHead => ~News /\ pc' = "infer" /\ cursor' = 2 * read + 1 /\ Executed = read
         /\ ResumeScan => /\ UNCHANGED <<receipts, explained, moves, read>> /\ cursor = 0 /\ pc = "flows"
                          /\ \/ /\ News /\ UNCHANGED <<pc, stale>>
                                /\ \E m \in receipts : Last(receipts, m) /\ cursor' = Block(m)
                             \/ /\ ~News' /\ pc' = "infer" /\ cursor' = 2 * read + 1 /\ Executed = read
                                /\ Never({"between"})
         /\ (pc = "infer" /\ scanOn) => ~News /\ cursor = 2 * read + 1
<1>1. Never(Overlaps)' /\ (Hit("gap") => Never({"between"}))
  BY FaultsHappen, TrustOnlyShrinks DEF Types
<1>2. /\ \A k \in receipts : k \in Nat /\ k > 0
      /\ stale \in Nat /\ (stale = 0 \/ stale \in receipts)
  <2>1. receipts \subseteq 1 .. Executed /\ Executed \in Nat /\ (stale = 0 \/ stale \in receipts)
    BY ExecutedMoves DEF Facts, Cursors
  <2>2. 0 \in Nat /\ \A k \in 1 .. Executed : k \in Nat /\ k > 0
    BY <2>1, SMT
  <2> QED
    BY <2>1, <2>2
<1>3. OpenAtHead => ~News /\ pc' = "infer" /\ cursor' = 2 * read + 1 /\ Executed = read
  BY <1>1, CleanSteps DEF OpenAtHead, Last, News
<1>4. ASSUME ResumeScan
      PROVE  /\ UNCHANGED <<receipts, explained, moves, read>> /\ cursor = 0 /\ pc = "flows"
             /\ \/ /\ News /\ UNCHANGED <<pc, stale>>
                   /\ \E m \in receipts : Last(receipts, m) /\ cursor' = Block(m)
                \/ /\ ~News' /\ pc' = "infer" /\ cursor' = 2 * read + 1 /\ Executed = read
                   /\ Never({"between"})
  <2>1. UNCHANGED <<receipts, explained, moves, read>> /\ cursor = 0 /\ pc = "flows"
    BY <1>4 DEF ResumeScan, bookVars, chainVars, readVars
  <2>2. PICK m \in receipts \ {stale} :
          /\ Last(receipts, m)
          /\ \/ cursor' = Block(m) /\ UNCHANGED <<stale, pc>>
             \/ /\ Hit("gap") /\ Executed = read /\ cursor' = 2 * Executed + 1
                /\ stale' = m /\ pc' = "infer"
    BY <1>4 DEF ResumeScan
  <2>3. ~(m <= stale)
    <3>1. stale <= m /\ m # stale /\ m \in Nat
      <4>1. stale \in receipts => stale <= m
        BY <2>2 DEF Last
      <4>2. m \in Nat /\ m > 0
        BY <1>2, <2>2
      <4> QED
        BY <1>2, <2>2, <4>1, <4>2, SMT
    <3> QED
      BY <1>2, <3>1, SMT
  <2>4. stale' = m => ~News'
    BY <2>1, <2>2 DEF News, Last
  <2> QED
    BY <1>1, <2>1, <2>2, <2>3, <2>4 DEF News
<1>5. (pc = "infer" /\ scanOn) => ~News /\ cursor = 2 * read + 1
  BY DEF Facts, Openings, News
<1> QED
  BY <1>3, <1>4, <1>5

LEMMA HeldStays ==
  ASSUME Types, Types', Facts, Steady, SteadyKnown, known, CapitalNext, Quiet, Trusted',
         NEW C \in SUBSET CapitalMoves(Executed), Whole(C),
         (cursor' > 0 \/ News') /\ pc' # "infer"
  PROVE  Held(C)'
<1>0. /\ Never(Overlaps)' /\ Executed \in Nat /\ cursor \in Nat /\ head \in Nat /\ ~(0 > 0)
      /\ CapitalMoves(Executed)' = CapitalMoves(Executed) /\ UNCHANGED receipts
      /\ ~ResumeScan => (News' <=> News)
      /\ \A m \in CapitalMoves(Executed) : m \in Nat
      /\ receipts \subseteq Nat
  <2>1. Never(Overlaps)'
    BY FaultsHappen, TrustOnlyShrinks DEF Types
  <2>2. /\ CapitalMoves(Executed)' = CapitalMoves(Executed) /\ UNCHANGED receipts /\ Executed \in Nat
        /\ ~ResumeScan => (News' <=> News)
    BY <2>1, QuietLeaves
  <2>3. \A m \in 1 .. Executed : m \in Nat
    BY <2>2, SMT
  <2>4. ~(0 > 0)
    BY SMT
  <2>5. cursor \in Nat /\ head \in Nat
    BY DEF Types, TickTypes, MemoryTypes
  <2> QED
    BY <2>1, <2>2, <2>3, <2>4, <2>5 DEF CapitalMoves, Facts, Cursors
<1>1. CASE /\ \/ Perform \/ TickRead \/ Scan \/ AdjustPeak \/ Baseline \/ Accrue \/ TickEnd \/ Submit \/ Drop
              \/ MirrorMark
           /\ ~ResumeScan
  <2>1. UNCHANGED <<cursor, explained>> /\ pc # "infer"
    BY <1>0, <1>1 DEF Perform, TickRead, Scan, AdjustPeak, Adjusting, Baseline, Accrue, TickEnd, Submit, Drop,
                      MirrorMark, bookVars, tickVars, memoryVars
  <2> QED
    BY <1>0, <1>1, <2>1 DEF Whole, Held, Block
<1>2. ~OpenAtHead
  BY Openers
<1>3. CASE ResumeScan
  <2>1. PICK w \in receipts : Last(receipts, w) /\ cursor' = Block(w)
    BY <1>3, Openers
  <2>2. /\ UNCHANGED explained /\ cursor = 0 /\ pc # "infer" /\ News
    BY <1>3, Openers
  <2>3. \A m \in CapitalMoves(Executed) : /\ ~(Block(m) < 0)
                                          /\ Block(m) < Block(w) <=> \E k \in receipts : m < k
    <3>1. w \in Nat /\ \A k \in receipts : k \in Nat /\ k <= w
      BY <1>0, <2>1 DEF Last
    <3> QED
      BY <1>0, <3>1, SMT DEF Block
  <2> QED
    BY <1>0, <2>1, <2>2, <2>3 DEF Whole, Held, Block
<1>4. CASE ScanDone
  <2>1. cursor' = head /\ pc = "book" /\ queue = {} /\ UNCHANGED explained
    BY <1>4 DEF ScanDone, bookVars
  <2>2. PICK h \in 0 .. Executed : C = CapitalMoves(h) /\ (head = 2 * h \/ head = 2 * h + 1)
    BY <2>1 DEF Whole, InTick
  <2>3. Held(C) /\ cursor <= head
    <3>1. cursor > 0
      <4>1. cursor # 0
        BY <2>1 DEF Facts, Openings, Fresh
      <4> QED
        BY <1>0, <4>1, SMT
    <3> QED
      BY <2>1, <3>1 DEF Whole, Facts, Cursors
  <2>4. \A m \in CapitalMoves(Executed) : /\ Block(m) < cursor => Block(m) < head
                                          /\ Block(m) < head => m \in CapitalMoves(h)
    <3>1. h \in Nat
      BY <1>0, SMT
    <3>2. \A m \in CapitalMoves(Executed) : /\ Block(m) < cursor => Block(m) < head
                                            /\ Block(m) < head => m <= h
      BY <1>0, <2>2, <2>3, <3>1, SMT DEF Block
    <3>3. \A m \in CapitalMoves(Executed) : m <= h => m \in CapitalMoves(h)
      BY <1>0, <3>1, SMT DEF CapitalMoves
    <3> QED
      BY <3>2, <3>3
  <2> QED
    BY <1>0, <2>1, <2>2, <2>3, <2>4 DEF Held, Block
<1>5. CASE RecordFill /\ ~ResumeScan
  <2>1. PICK m \in 1 .. Executed : Landed(m) /\ explained' = explained \cup {m} /\ opKind = "fill"
    BY <1>5 DEF RecordFill
  <2>2. UNCHANGED <<cursor, pc>> /\ pc = "intents" /\ m \notin CapitalMoves(Executed)
    BY <1>5, <2>1 DEF RecordFill, tickVars, Facts, Waits, SteadyKnown, Landed, Last, CapitalMoves
  <2> QED
    BY <1>0, <1>5, <2>1, <2>2 DEF Whole, Held, Block
<1>6. CASE StopStart
  <2>1. cursor' = 0 /\ pc = "idle" /\ UNCHANGED explained
    BY <1>0, <1>6, CleanSteps DEF StopStart, Restart
  <2>2. News /\ Held(C)
    <3>1. ~ResumeScan
      BY <2>1 DEF ResumeScan
    <3> QED
      BY <1>0, <2>1, <3>1 DEF Whole
  <2>3. \A m \in CapitalMoves(Executed) : ~(Block(m) < 0)
    BY <1>0, SMT DEF Block
  <2>4. CASE cursor > 0
    BY <1>0, <2>1, <2>2, <2>3, <2>4 DEF Whole, Held, Ordered, Block
  <2>5. CASE cursor = 0
    BY <1>0, <2>1, <2>2, <2>3, <2>5 DEF Held, Block
  <2> QED
    BY <1>0, <2>4, <2>5, SMT
<1> QED
  BY <1>1, <1>2, <1>3, <1>4, <1>5, <1>6 DEF Quiet

LEMMA OrderedStays ==
  ASSUME Types, Types', Facts, Steady, SteadyKnown, known, CapitalNext, Quiet, Trusted',
         NEW C \in SUBSET CapitalMoves(Executed), Whole(C)
  PROVE  Ordered'
<1>0. /\ Never(Overlaps)' /\ Executed \in Nat /\ cursor \in Nat /\ ~(0 > 0)
      /\ CapitalMoves(Executed)' = CapitalMoves(Executed) /\ UNCHANGED receipts
      /\ ~ResumeScan => (News' <=> News)
      /\ \A m \in CapitalMoves(Executed) : m \in Nat
      /\ receipts \subseteq Nat
  <2>1. Never(Overlaps)'
    BY FaultsHappen, TrustOnlyShrinks DEF Types
  <2>2. /\ CapitalMoves(Executed)' = CapitalMoves(Executed) /\ UNCHANGED receipts /\ Executed \in Nat
        /\ ~ResumeScan => (News' <=> News)
    BY <2>1, QuietLeaves
  <2>3. \A m \in 1 .. Executed : m \in Nat
    BY <2>2, SMT
  <2>4. ~(0 > 0)
    BY SMT
  <2>5. cursor \in Nat
    BY DEF Types, MemoryTypes
  <2> QED
    BY <2>1, <2>2, <2>3, <2>4, <2>5 DEF CapitalMoves, Facts, Cursors
<1>1. CASE /\ \/ Perform \/ TickRead \/ Scan \/ AdjustPeak \/ Baseline \/ Accrue \/ TickEnd \/ Submit \/ Drop
              \/ MirrorMark \/ RecordFill
           /\ ~ResumeScan
  <2>1. UNCHANGED cursor /\ explained \subseteq explained'
    BY <1>0, <1>1 DEF Perform, TickRead, Scan, AdjustPeak, Baseline, Accrue, TickEnd, Submit, Drop,
                      MirrorMark, RecordFill, bookVars, memoryVars
  <2> QED
    BY <1>0, <1>1, <2>1 DEF Whole, Ordered, Block
<1>2. CASE OpenAtHead \/ (ResumeScan /\ pc' = "infer")
  <2>1. ~News' /\ cursor' = 2 * read + 1 /\ Executed = read
    <3>1. CASE OpenAtHead
      BY <1>0, <3>1, Openers DEF OpenAtHead, ResumeScan
    <3>2. CASE ResumeScan /\ pc' = "infer"
      BY <3>2, Openers
    <3> QED
      BY <1>2, <3>1, <3>2
  <2>2. \A m \in CapitalMoves(Executed), k \in receipts : m < k => Block(m) < 2 * Executed + 1
    <3>1. \A k \in receipts : k <= Executed
      <4>1. \A k \in 1 .. Executed : k <= Executed
        BY <1>0, SMT
      <4> QED
        BY <4>1 DEF Facts, Cursors
    <3> QED
      BY <1>0, <3>1, SMT DEF Block
  <2> QED
    BY <1>0, <2>1, <2>2 DEF Ordered, Block
<1>3. CASE ResumeScan /\ pc' # "infer"
  <2>1. PICK w \in receipts : Last(receipts, w) /\ cursor' = Block(w)
    BY <1>3, Openers
  <2>2. \A m \in CapitalMoves(Executed) : /\ \A k \in receipts : m < k => Block(m) < Block(w)
                                          /\ Block(m) < Block(w) => m < w
    <3>1. w \in Nat /\ \A k \in receipts : k \in Nat /\ k <= w
      BY <1>0, <2>1 DEF Last
    <3> QED
      BY <1>0, <3>1, SMT DEF Block
  <2> QED
    BY <1>0, <2>1, <2>2 DEF Ordered, Block
<1>4. CASE ScanDone /\ ~ResumeScan
  <2>1. cursor' = head /\ pc = "book" /\ queue = {} /\ UNCHANGED explained /\ cursor > 0
    <3>1. cursor # 0 /\ cursor' = head /\ pc = "book" /\ queue = {} /\ UNCHANGED explained
      BY <1>4 DEF ScanDone, bookVars, Facts, Openings, Fresh
    <3> QED
      BY <1>0, <3>1, SMT
  <2>2. Held(C)' /\ Held(C)
    <3>1. head > 0 /\ pc' = "baseline"
      <4>1. cursor <= head
        BY <2>1 DEF Facts, Cursors
      <4> QED
        BY <1>0, <1>4, <2>1, <4>1, SMT DEF ScanDone, Types, TickTypes
    <3> QED
      BY <2>1, <3>1, HeldStays DEF Whole
  <2>3. \A m \in CapitalMoves(Executed) :
          Block(m) < cursor \/ m \in receipts \cup explained \/ (\E k \in receipts : m < k)
          <=> Block(m) < head \/ m \in receipts \cup explained \/ \E k \in receipts : m < k
    BY <1>0, <2>1, <2>2 DEF Held, Block
  <2>4. /\ \A m \in CapitalMoves(Executed), k \in receipts :
             m < k => Block(m) < cursor \/ m \in receipts \cup explained
        /\ News => \A m \in CapitalMoves(Executed) :
             Block(m) < cursor => m \in receipts \cup explained \/ \E k \in receipts : m < k
    BY <2>1 DEF Whole, Ordered
  <2>5. \A m \in CapitalMoves(Executed) : Block(m) < cursor => Block(m) < head
    <3>1. cursor <= head /\ head \in Nat
      BY <2>1 DEF Facts, Cursors, Types, TickTypes
    <3> QED
      BY <1>0, <3>1, SMT DEF Block
  <2> QED
    BY <1>0, <1>4, <2>1, <2>3, <2>4, <2>5 DEF Ordered, Block
<1>5. CASE StopStart
  <2>1. cursor' = 0
    BY <1>5 DEF StopStart, Restart
  <2> QED
    BY <1>0, <2>1 DEF Ordered
<1> QED
  BY <1>1, <1>2, <1>3, <1>4, <1>5 DEF Quiet

LEMMA FromRowStays ==
  ASSUME Types, Types', Facts, Steady, SteadyKnown, known, CapitalNext, Quiet, Trusted',
         NEW C \in SUBSET CapitalMoves(Executed), Whole(C)
  PROVE  FromRow(C)'
<1>0. /\ Never(Overlaps)' /\ Executed \in Nat /\ Executed' = Executed
      /\ UNCHANGED <<hosted, receipts>>
      /\ \A n : Tally(n)' = Tally(n) /\ OwnersSince(n)' = OwnersSince(n) /\ CapitalMoves(n)' = CapitalMoves(n)
      /\ Never({"between"})' => Never({"between"})
      /\ (~News' \/ Never({"between"})') => (~News \/ Never({"between"}))
  <2>1. Never(Overlaps)'
    BY FaultsHappen, TrustOnlyShrinks DEF Types
  <2>2. Never({"between"})' => Never({"between"})
    BY FaultsHappen, FaultsOnlyGrow DEF Types
  <2>3. (ResumeScan /\ ~News') => (~News \/ Never({"between"}))
    <3>1. UNCHANGED <<receipts, stale>> => (News' <=> News)
      BY DEF News
    <3> QED
      BY <3>1, Openers
  <2> QED
    BY <2>1, <2>2, <2>3, QuietLeaves
<1> SUFFICES ASSUME Early', ~traded', ~News \/ Never({"between"})
             PROVE  \E n \in 0 .. Executed : /\ row'.cash = Tally(n) /\ OwnersSince(n) /\ C = CapitalMoves(n)
                                             /\ pc' \in {"flows", "infer"} => n <= read'
  BY <1>0 DEF FromRow
<1>1. CASE Accrue
  <2>1. row'.cash = readCash /\ pc = "accrue" /\ pc' = "intents"
    BY <1>1 DEF Accrue, Reading
  <2>2. queue = {}
    BY <2>1 DEF Facts, Queued
  <2>3. PICK h \in 0 .. Executed : C = CapitalMoves(h) /\ h = read
    BY <2>1, <2>2 DEF Whole, InTick, News
  <2>4. readCash = Tally(h) /\ OwnersSince(h)
    <3>1. OwnersSince(read) /\ \E n \in 0 .. Executed : n = read /\ readCash = Tally(n)
      BY <2>1 DEF Facts, Readings
    <3> QED
      BY <2>3, <3>1
  <2> QED
    BY <2>1, <2>3, <2>4
<1>2. CASE ~Accrue
  <2>1. ~traded /\ Early /\ UNCHANGED row
    <3>1. ~Submit
      BY DEF Submit
    <3>2. ~(RecordFill \/ Drop)
      <4>1. stage # "none" => traded
        BY DEF Facts, Waits, SteadyKnown
      <4>2. RecordFill \/ Drop => stage # "none"
        BY DEF RecordFill, Drop
      <4>3. RecordFill \/ Drop => traded' = traded
        BY DEF RecordFill, Drop, memoryVars
      <4> QED
        BY <4>1, <4>2, <4>3
    <3>3. ~(Scan \/ ScanDone \/ AdjustPeak \/ Baseline)
      BY DEF Scan, ScanDone, AdjustPeak, Baseline, Early
    <3>4. CASE Perform \/ TickRead \/ OpenAtHead \/ ResumeScan \/ TickEnd \/ MirrorMark
      <4>1. Early
        BY <3>4 DEF Perform, TickRead, OpenAtHead, ResumeScan, TickEnd, MirrorMark, Early, tickVars
      <4>2. UNCHANGED <<traded, row>>
        BY <3>4 DEF Perform, TickRead, OpenAtHead, ResumeScan, TickEnd, MirrorMark, bookVars, memoryVars
      <4> QED
        BY <4>1, <4>2
    <3>5. CASE StopStart
      BY <1>0, <3>5, CleanSteps DEF StopStart, Early
    <3> QED
      BY <1>2, <3>1, <3>2, <3>3, <3>4, <3>5 DEF Quiet
  <2>2. PICK n \in 0 .. Executed : /\ row.cash = Tally(n) /\ OwnersSince(n) /\ C = CapitalMoves(n)
                                   /\ pc \in {"flows", "infer"} => n <= read
    BY <2>1 DEF Whole, FromRow
  <2>3. pc' \in {"flows", "infer"} => n <= read'
    <3>1. CASE TickRead
      BY <2>2, <3>1, <1>0, SMT DEF TickRead
    <3>2. CASE ~TickRead
      BY <1>0, <1>2, <2>1, <2>2, <3>2, CleanSteps
         DEF Quiet, Early, Perform, OpenAtHead, ResumeScan, Scan, ScanDone, AdjustPeak, Adjusting, Baseline,
           TickEnd, Submit, Drop, RecordFill, MirrorMark, StopStart, Restart, tickVars, readVars
    <3> QED
      BY <3>1, <3>2
  <2> QED
    BY <2>1, <2>2, <2>3
<1> QED
  BY <1>1, <1>2

LEMMA InTickStays ==
  ASSUME Types, Types', Facts, Steady, SteadyKnown, known, scanOn, CapitalNext, Quiet, Trusted',
         NEW C \in SUBSET CapitalMoves(Executed), Whole(C)
  PROVE  InTick(C)'
<1>0. /\ Never(Overlaps)' /\ FaultTypes /\ Executed \in Nat /\ Executed' = Executed /\ UNCHANGED receipts
      /\ \A n : CapitalMoves(n)' = CapitalMoves(n)
      /\ Never({"between"})' => Never({"between"})
  <2>1. Never(Overlaps)' /\ FaultTypes
    BY FaultsHappen, TrustOnlyShrinks DEF Types
  <2>2. Never({"between"})' => Never({"between"})
    BY FaultsHappen, FaultsOnlyGrow DEF Types
  <2> QED
    BY <2>1, <2>2, QuietLeaves
<1> SUFFICES ASSUME pc' \notin {"idle", "intents", "flows", "infer"}
             PROVE  \E h \in 0 .. Executed : /\ read' <= h /\ C \cup queue' = CapitalMoves(h)
                                             /\ pc' \in {"book", "adjust"} => head' = 2 * h \/ head' = 2 * h + 1
                                             /\ Never({"between"})' => h = read'
                                             /\ h = read' \/ \E k \in receipts \cup queue' : ~(k <= stale')
  BY <1>0 DEF InTick
<1>1. CASE Scan
  <2>1. PICK t \in Heads : head' = t /\ queue' = Found(t)
    BY <1>1 DEF Scan
  <2>2. /\ pc = "flows" /\ cursor > 0 /\ UNCHANGED read
        /\ \/ Executed = read
           \/ Executed > read /\ Hit("between")
        /\ UNCHANGED stale /\ stale <= read
    BY <1>1 DEF Scan, readVars, configVars, Facts, Cursors
  <2>3. PICK e \in Nat : e = Executed
    BY <1>0
  <2>4. /\ e \in 0 .. Executed /\ read <= e /\ read \in Nat /\ cursor \in Nat
        /\ t = 2 * e \/ t = 2 * e + 1
    <3>1. read \in Nat /\ cursor \in Nat
      BY ExecutedBound, SMT DEF Types, TickTypes, MemoryTypes
    <3>2. read <= e
      BY <2>2, <2>3, <3>1, SMT
    <3>3. e \in 0 .. Executed
      BY <2>3, SMT
    <3> QED
      BY <2>1, <2>3, <3>1, <3>2, <3>3 DEF Heads
  <2>5. Never({"between"})' => e = read
    BY <1>0, <2>2, <2>3, AFaultIsKnown
  <2>6. /\ \A m \in CapitalMoves(e) : m \in Nat /\ m <= e
        /\ \A k \in receipts : k \in Nat
    <3>1. \A m \in CapitalMoves(e) : m \in 1 .. e
      BY DEF CapitalMoves
    <3>2. \A k \in receipts : k \in 1 .. e
      BY <2>3 DEF Facts, Cursors
    <3>3. \A m \in 1 .. e : m \in Nat /\ m <= e
      BY <2>3, SMT
    <3> QED
      BY <3>1, <3>2, <3>3
  <2>7. \A m \in CapitalMoves(e) :
          m \in C <=> Block(m) < cursor \/ m \in receipts \cup explained
    BY <2>2, <2>3 DEF Whole, Held, Ordered
  <2>8. \A m \in CapitalMoves(e) : Block(m) < cursor \/ Block(m) \in cursor .. t
    BY <2>4, <2>6, SMT DEF Block
  <2>9. C \cup queue' = CapitalMoves(e)
    <3>1. \A m \in queue' : m \in CapitalMoves(e)
      BY <2>1, <2>3 DEF Found, CapitalMoves
    <3>2. \A m \in CapitalMoves(e) : m \in C \/ m \in queue'
      BY <2>1, <2>3, <2>7, <2>8 DEF Found, CapitalMoves
    <3> QED
      BY <2>3, <3>1, <3>2
  <2>10. e = read \/ \E k \in receipts \cup queue' : ~(k <= stale')
    <3>1. SUFFICES ASSUME e # read PROVE e \in receipts \cup queue' /\ ~(e <= stale')
      OBVIOUS
    <3>2. e > read /\ e \in 1 .. Executed /\ ~(Block(e) < cursor) /\ ~(e <= stale')
      <4>1. cursor <= 2 * read + 1
        BY <2>2 DEF Steady
      <4>2. stale \in Nat
        <5>1. \A k \in receipts : k \in Nat
          BY <2>6
        <5> QED
          BY <5>1 DEF Facts, Cursors
      <4> QED
        BY <2>2, <2>3, <2>4, <3>1, <4>1, <4>2, SMT DEF Block
    <3>3. moves[e] \in External
      BY <2>2, <3>2 DEF Facts, Readings, OwnersSince
    <3>4. moves[e] # "fill" /\ e \notin explained
      BY <3>3 DEF Steady, External, OpKinds
    <3>5. e \in CapitalMoves(e)
      BY <2>3, <3>2, <3>4 DEF CapitalMoves
    <3> QED
      BY <2>7, <2>9, <3>2, <3>4, <3>5
  <2> QED
    BY <2>1, <2>2, <2>4, <2>5, <2>9, <2>10
<1>2. CASE ~Scan
  <2>0. ~ResumeScan
    BY DEF ResumeScan
  <2>1. /\ pc \notin {"idle", "intents", "flows", "infer"} /\ UNCHANGED <<read, queue, head>>
        /\ pc' \in {"book", "adjust"} => pc \in {"book", "adjust"}
    BY <1>2, <2>0 DEF Quiet, Perform, TickRead, OpenAtHead, ResumeScan, ScanDone, AdjustPeak, Adjusting, Baseline,
                Accrue, TickEnd, Submit, Drop, RecordFill, MirrorMark, StopStart, Restart, tickVars, readVars
  <2>2. UNCHANGED stale
    BY <1>0, <2>0, QuietLeaves
  <2> QED
    BY <1>0, <2>1, <2>2 DEF Whole, InTick
<1> QED
  BY <1>1, <1>2

LEMMA WholeStays ==
  ASSUME Types, Types', Facts, Steady, SteadyKnown, known, scanOn, CapitalNext, Quiet, Trusted',
         NEW C \in SUBSET CapitalMoves(Executed), Whole(C)
  PROVE  C \in SUBSET CapitalMoves(Executed)' /\ Whole(C)'
<1>1. /\ CapitalMoves(Executed)' = CapitalMoves(Executed) /\ UNCHANGED <<net, receipts>>
      /\ SumOf(C)' = SumOf(C) /\ Unbooking /\ Never(Overlaps)'
  BY FaultsHappen, TrustOnlyShrinks, QuietLeaves DEF Types
<1>2. Unrecorded(C)'
  BY <1>1, WaitStays DEF Whole
<1>3. ((cursor' > 0 \/ News') /\ pc' # "infer") => Held(C)'
  BY <1>1, HeldStays
<1> QED
  BY <1>1, <1>2, <1>3, OrderedStays, FromRowStays, InTickStays DEF Whole

LEMMA WholeOnChain ==
  ASSUME Types, Types', Facts, Steady, SteadyKnown, known, CapitalNext, Deposit \/ Takeout \/ Mine, Trusted',
         NEW C \in SUBSET CapitalMoves(Executed), Whole(C)
  PROVE  C \in SUBSET CapitalMoves(Executed)' /\ Whole(C)'
<1>1. PICK o \in External \cup OpKinds :
           /\ Moved(o) /\ (~Mine => o \in External)
           /\ UNCHANGED <<configVars, bookVars, tickVars, memoryVars, happened, opKind, waiter>>
           /\ Mine => stage = "submitted"
  BY OnChain
<1>2. /\ UNCHANGED <<receipts, explained, net, row, pc, read, head, queue>>
      /\ UNCHANGED <<cursor, traded, happened, stale>> /\ (News' <=> News)
  BY <1>1 DEF configVars, bookVars, tickVars, readVars, memoryVars, News
<1>3. /\ Executed \in Nat /\ Executed' = Executed + 1
      /\ \A m \in 1 .. Executed : moves'[m] = moves[m]
      /\ \A S \in SUBSET (1 .. Executed) : SumOf(S)' = SumOf(S)
      /\ \A n \in 0 .. Executed : Tally(n)' = Tally(n) /\ CapitalMoves(n)' = CapitalMoves(n)
  BY <1>1, ChainGrows
<1>4. /\ 1 .. Executed \subseteq 1 .. Executed' /\ 0 .. Executed \subseteq 0 .. Executed'
      /\ \A m \in 1 .. Executed' : m \in 1 .. Executed \/ m = Executed + 1
      /\ \A m \in 1 .. Executed : m \in Nat /\ ~(Executed + 1 < m) /\ m # Executed + 1
  BY <1>3, SMT
<1>5. C \in SUBSET (1 .. Executed) /\ \A m \in C : moves[m] # "fill"
  BY DEF CapitalMoves
<1>6. C \in SUBSET CapitalMoves(Executed)'
  BY <1>3, <1>4, <1>5 DEF CapitalMoves
<1>7. net' = SumOf(C)'
  BY <1>2, <1>3, <1>5 DEF Whole
<1>8. /\ \A m \in CapitalMoves(Executed)' : m \in CapitalMoves(Executed) \/ m = Executed + 1
      /\ ~(Block(Executed + 1) < cursor)
      /\ Executed + 1 \notin receipts \cup explained \cup C
      /\ \A k \in receipts : ~(Executed + 1 < k)
  <2>1. \A m \in CapitalMoves(Executed)' : m \in CapitalMoves(Executed) \/ m = Executed + 1
    BY <1>3, <1>4 DEF CapitalMoves
  <2>2. cursor \in Nat /\ cursor <= 2 * Executed + 1
    BY DEF Facts, Cursors, Types, MemoryTypes
  <2>3. ~(Block(Executed + 1) < cursor)
    BY <1>3, <2>2, SMT DEF Block
  <2>4. receipts \cup explained \subseteq 1 .. Executed
    BY DEF Facts, Cursors
  <2> QED
    BY <1>4, <1>5, <2>1, <2>3, <2>4
<1>9. ((cursor' > 0 \/ News') /\ pc' # "infer") => Held(C)'
  <2> SUFFICES ASSUME Held(C) PROVE Held(C)'
    BY <1>2 DEF Whole
  <2> QED
    BY <1>2, <1>8 DEF Held, Block
<1>10. Ordered'
  <2> SUFFICES ASSUME cursor > 0
               PROVE  /\ \A m \in CapitalMoves(Executed)', k \in receipts :
                           m < k => Block(m) < cursor \/ m \in receipts \cup explained
                      /\ News => \A m \in CapitalMoves(Executed)' :
                             Block(m) < cursor => m \in receipts \cup explained \/ \E k \in receipts : m < k
    BY <1>2 DEF Ordered, Block
  <2> QED
    BY <1>8 DEF Whole, Ordered
<1>11. FromRow(C)'
  <2> SUFFICES ASSUME ~traded, Early, ~News \/ Never({"between"})
               PROVE  \E n \in 0 .. Executed' : /\ row'.cash = Tally(n)' /\ OwnersSince(n)'
                                                /\ C = CapitalMoves(n)'
                                                /\ pc' \in {"flows", "infer"} => n <= read'
    BY <1>2 DEF FromRow, Early, Never
  <2>1. ~Mine
    BY <1>1 DEF Facts, Waits
  <2>2. PICK n \in 0 .. Executed : /\ row.cash = Tally(n) /\ OwnersSince(n) /\ C = CapitalMoves(n)
                                   /\ pc \in {"flows", "infer"} => n <= read
    BY DEF Whole, FromRow
  <2>3. OwnersSince(n)'
    BY <1>1, <2>1, <2>2, OwnersStay
  <2> QED
    BY <1>2, <1>3, <1>4, <2>2, <2>3
<1>12. InTick(C)'
  <2> SUFFICES ASSUME pc \notin {"idle", "intents", "flows", "infer"}
               PROVE  \E h \in 0 .. Executed' :
                        /\ read' <= h /\ C \cup queue' = CapitalMoves(h)'
                        /\ pc' \in {"book", "adjust"} => head' = 2 * h \/ head' = 2 * h + 1
                        /\ Never({"between"})' => h = read'
                        /\ h = read' \/ \E k \in receipts' \cup queue' : ~(k <= stale')
    BY <1>2 DEF InTick
  <2>1. PICK h \in 0 .. Executed : /\ read <= h /\ C \cup queue = CapitalMoves(h)
                                   /\ pc \in {"book", "adjust"} => head = 2 * h \/ head = 2 * h + 1
                                   /\ Never({"between"}) => h = read
                                   /\ h = read \/ \E k \in receipts \cup queue : ~(k <= stale)
    BY DEF Whole, InTick
  <2>2. Never({"between"})' => Never({"between"})
    BY <1>2 DEF Never
  <2> QED
    BY <1>2, <1>3, <1>4, <2>1, <2>2
<1>13. Unrecorded(C)'
  BY <1>5, UnrecordedOnChain DEF Whole
<1> QED
  BY <1>6, <1>7, <1>9, <1>10, <1>11, <1>12, <1>13 DEF Whole

LEMMA WholeReceipt ==
  ASSUME Types, Types', Facts, Steady, SteadyKnown, known, BookReceipt, Trusted',
         NEW C \in SUBSET CapitalMoves(Executed), Whole(C)
  PROVE  \E D \in SUBSET CapitalMoves(Executed)' : Whole(D)'
<1>1. PICK m \in queue : /\ First(queue, m) /\ receipts' = receipts \cup {m} /\ net' = net + Signed(m)
                         /\ queue' = queue \ {m}
  BY DEF BookReceipt
<1>2. /\ pc = "book" /\ pc' = "adjust" /\ UNCHANGED <<moves, stage, waiter>>
      /\ UNCHANGED <<read, head, cursor, explained, happened, stale>>
  BY DEF BookReceipt, configVars, chainVars, opVars, readVars, memoryVars
<1>3. /\ Executed' = Executed /\ Executed \in Nat /\ CapitalMoves(Executed)' = CapitalMoves(Executed)
      /\ \A S : SumOf(S)' = SumOf(S)
      /\ \A n : CapitalMoves(n)' = CapitalMoves(n)
  BY <1>2, ChainStill, ExecutedMoves DEF CapitalMoves
<1>4. cursor \in Nat /\ cursor > 0
  <2>1. cursor # 0
    BY <1>2 DEF Facts, Openings, Fresh
  <2> QED
    BY <2>1, SMT DEF Types, MemoryTypes
<1>5. /\ m \in CapitalMoves(Executed) /\ m \in Nat /\ ~(Block(m) < cursor)
      /\ m \notin receipts \cup explained
      /\ \A q \in CapitalMoves(Executed) : q \in Nat
  <2>1. m \in 1 .. Executed /\ m \in CapitalMoves(Executed) /\ Block(m) >= cursor
    BY DEF Facts, Cursors, Queued, CapitalMoves
  <2>2. \A q \in 1 .. Executed : q \in Nat
    BY <1>3, SMT
  <2>3. ~(Block(m) < cursor)
    BY <1>4, <2>1, <2>2, SMT DEF Block
  <2> QED
    BY <2>1, <2>2, <2>3 DEF SteadyKnown, CapitalMoves
<1>6. /\ Held(C)
      /\ \A q \in CapitalMoves(Executed), k \in receipts : q < k => Block(q) < cursor \/ q \in receipts \cup explained
  BY <1>2, <1>4 DEF Whole, Ordered
<1>7. m \notin C
  BY <1>5, <1>6 DEF Held
<1>8. PICK h \in 0 .. Executed : /\ read <= h /\ C \cup queue = CapitalMoves(h)
                                 /\ head = 2 * h \/ head = 2 * h + 1
                                 /\ Never({"between"}) => h = read
                                 /\ h = read \/ \E k \in receipts \cup queue : ~(k <= stale)
  BY <1>2 DEF Whole, InTick
<1>9. \A q \in CapitalMoves(Executed) : q < m => q \in C
  <2>1. h \in Nat /\ m <= h
    <3>1. m \in CapitalMoves(h)
      BY <1>8
    <3> QED
      BY <1>3, <3>1, SMT DEF CapitalMoves
  <2>2. \A q \in CapitalMoves(Executed) : q < m => q \in CapitalMoves(h) /\ ~(m <= q)
    BY <1>3, <1>5, <2>1, SMT DEF CapitalMoves
  <2> QED
    BY <1>1, <1>8, <2>2 DEF First
<1> DEFINE D == C \cup {m}
<1>10. D \in SUBSET CapitalMoves(Executed)'
  BY <1>3, <1>5
<1>11. net' = SumOf(D)'
  <2>1. C \in SUBSET (1 .. Executed) /\ m \in 1 .. Executed
    BY <1>5 DEF CapitalMoves
  <2>2. SumOf(D) = SumOf(C) + Signed(m)
    BY <1>7, <2>1, SumOfMore
  <2> QED
    BY <1>1, <1>3, <2>2 DEF Whole
<1>12. Held(D)'
  BY <1>1, <1>2, <1>3, <1>6, <1>9 DEF Held, Block
<1>13. Ordered'
  <2>1. \A q \in CapitalMoves(Executed), k \in receipts' :
          q < k => Block(q) < cursor \/ q \in receipts' \cup explained
    BY <1>1, <1>6, <1>9 DEF Held
  <2>2. \A q \in CapitalMoves(Executed) : Block(q) < cursor => q < m
    BY <1>4, <1>5, SMT DEF Block
  <2> QED
    BY <1>1, <1>2, <1>3, <2>1, <2>2 DEF Ordered, Block
<1>14. FromRow(D)' /\ Unrecorded(D)'
  BY <1>2 DEF FromRow, Early, Unrecorded, Facts, Waits
<1>15. InTick(D)'
  <2>1. D \cup queue' = CapitalMoves(h)' /\ receipts' \cup queue' = receipts \cup queue
    BY <1>1, <1>3, <1>8
  <2>2. Never({"between"})' => Never({"between"})
    BY <1>2 DEF Never
  <2> HIDE DEF D
  <2> QED
    BY <1>2, <1>3, <1>8, <2>1, <2>2 DEF InTick
<1> HIDE DEF D
<1>16. Whole(D)'
  BY <1>11, <1>12, <1>13, <1>14, <1>15 DEF Whole
<1> QED
  BY <1>10, <1>16

(* The first observation of a life compares the cash with the last equity  *)
(* row's, whatever the licence, or gives the books up.                     *)
LEMMA LooksAtTheRow ==
  ASSUME Types, Paired, Facts, SteadyKnown, known, known', scanOn, Never(Overlaps),
         pc = "infer", InferNothing \/ InferFlow
  PROVE  Delta = readCash - row.cash
<1>1. ~seen.known /\ Fresh /\ Delta = FirstDelta
  <2>1. Fresh
    BY DEF Fresh
  <2> QED
    BY <2>1 DEF Facts, Openings, Delta
<1>2. CASE licence \in {"self-hosted-local", "new-account"}
  BY <1>1, <1>2, FirstLook
<1>3. CASE licence \notin {"self-hosted-local", "new-account"}
  <2>1. FirstDelta = 0
    BY <1>1, <1>3, FirstLook
  <2>2. hosted /\ licence \in {"resume", "none"}
    BY <1>3 DEF Facts, Openings, Types, MemoryTypes, Licences
  <2>3. StillKnown
    BY <1>1, <2>1 DEF InferNothing, InferFlow
  <2>4. licence = "resume" /\ ~Drifted
    BY <1>1, <2>2, <2>3 DEF StillKnown
  <2>5. anchor = row /\ row.known
    BY <1>1, <2>2, <2>4 DEF SteadyKnown
  <2>6. readCash = row.cash /\ readCash \in Nat
    BY <2>4, <2>5 DEF Drifted, Types, TickTypes
  <2>7. readCash - row.cash = 0
    BY <2>6, SMT
  <2> QED
    BY <1>1, <2>1, <2>7
<1> QED
  BY <1>2, <1>3

LEMMA WholeInfer ==
  ASSUME Types, Types', Paired, Facts, Steady, SteadyKnown, known, known', scanOn, CapitalNext,
         InferNothing \/ InferFlow, Trusted', NEW C \in SUBSET CapitalMoves(Executed), Whole(C)
  PROVE  \E D \in SUBSET CapitalMoves(Executed)' : Whole(D)'
<1>1. /\ pc = "infer" /\ pc' \in {"baseline", "adjustLast"}
      /\ UNCHANGED <<moves, stage, waiter, receipts>>
      /\ UNCHANGED <<read, queue, cursor, explained, happened, stale>>
      /\ InferNothing => Delta = 0 /\ UNCHANGED net
      /\ InferFlow => net' = net + Delta
  BY DEF InferNothing, InferFlow, configVars, chainVars, opVars, readVars, bookVars, memoryVars
<1>2. ~News /\ cursor = 2 * read + 1 /\ queue = {} /\ ~traded /\ Fresh
  <2>1. Fresh
    BY <1>1 DEF Fresh
  <2> QED
    BY <1>1, <2>1, Openers DEF Steady, Facts, Queued
<1>3. /\ Executed' = Executed /\ Executed \in Nat /\ CapitalMoves(Executed)' = CapitalMoves(Executed)
      /\ \A S : SumOf(S)' = SumOf(S)
      /\ \A n : CapitalMoves(n)' = CapitalMoves(n)
  BY <1>1, ChainStill, ExecutedMoves DEF CapitalMoves
<1>4. Delta = readCash - row.cash /\ Never(Overlaps)
  <2>1. Never(Overlaps)
    BY FaultsHappen, TrustOnlyShrinks DEF Types
  <2> QED
    BY <1>1, <2>1, LooksAtTheRow
<1>5. PICK n \in 0 .. Executed : row.cash = Tally(n) /\ OwnersSince(n) /\ C = CapitalMoves(n) /\ n <= read
  BY <1>1, <1>2 DEF Whole, FromRow, Early
<1>6. PICK r \in 0 .. Executed : r = read /\ readCash = Tally(r) /\ OwnersSince(r)
  <2>1. OwnersSince(read) /\ \E q \in 0 .. Executed : q = read /\ readCash = Tally(q)
    BY <1>1 DEF Facts, Readings
  <2> QED
    BY <2>1
<1>7. r \in n .. Executed /\ r \in Nat /\ n \in Nat
  BY <1>3, <1>5, <1>6, SMT
<1>8. \A k \in receipts : k <= r /\ k \in Nat
  <2>1. stale <= r /\ \A k \in receipts : k <= stale
    BY <1>1, <1>2, <1>6 DEF Facts, Cursors, News
  <2>2. \A k \in 1 .. Executed : k \in Nat
    BY <1>3, SMT
  <2>3. (\A k \in receipts : k \in Nat) /\ stale \in Nat
    BY <2>2 DEF Facts, Cursors
  <2> QED
    BY <1>7, <2>1, <2>3, SMT
<1>9. PICK D : D = CapitalMoves(r)
  OBVIOUS
<1>10. D \in SUBSET CapitalMoves(Executed)
  BY <1>3, <1>7, <1>9, SMT DEF CapitalMoves
<1>11. net' = SumOf(D)'
  <2>1. Tally(r) - Tally(n) = SumOf((n + 1) .. r) /\ Principal(r) - Principal(n) = SumOf((n + 1) .. r)
    BY <1>5, <1>7, OwnersMoney
  <2>2. Tally(r) \in Int /\ Tally(n) \in Int /\ Principal(r) \in Int /\ Principal(n) \in Int
    BY <1>6, TallyInt
  <2>3. net = Principal(n) /\ Principal(r) = SumOf(D) /\ Delta = Tally(r) - Tally(n)
    BY <1>4, <1>5, <1>6, <1>9 DEF Whole, Principal
  <2>4. net' = net + Delta
    <3>1. net \in Int
      BY DEF Types, BookTypes
    <3>2. net + 0 = net
      BY <3>1, SMT
    <3> QED
      BY <1>1, <3>2
  <2>5. net' = Principal(r)
    BY <2>1, <2>2, <2>3, <2>4, SMT
  <2> QED
    BY <1>3, <2>3, <2>5
<1>12. Held(D)'
  <2>1. \A m \in CapitalMoves(Executed) : m \in D <=> m <= r
    <3>1. \A m \in 1 .. Executed : m \in 1 .. r <=> m <= r
      BY <1>3, <1>7, SMT
    <3>2. 1 .. r \subseteq 1 .. Executed
      BY <1>3, <1>7, SMT
    <3> QED
      BY <1>9, <3>1, <3>2 DEF CapitalMoves
  <2>2. \A m \in CapitalMoves(Executed) : /\ Block(m) < cursor <=> m <= r
                                          /\ m > r \/ m <= r
    <3>1. \A m \in 1 .. Executed : 2 * m < 2 * r + 1 <=> m <= r
      BY <1>3, <1>7, SMT
    <3>2. \A m \in 1 .. Executed : m > r \/ m <= r
      BY <1>3, <1>7, SMT
    <3> QED
      BY <1>2, <1>6, <3>1, <3>2 DEF CapitalMoves, Block
  <2>3. \A m \in CapitalMoves(Executed) : m \in explained => m <= r
    <3> SUFFICES ASSUME NEW m \in CapitalMoves(Executed), m \in explained, m > r PROVE FALSE
      BY <2>2
    <3>1. moves[m] \in External
      BY <1>6 DEF OwnersSince, CapitalMoves
    <3> QED
      BY <3>1 DEF Steady, External, OpKinds
  <2>4. \A m \in CapitalMoves(Executed), k \in receipts : (m = k \/ m < k) => m <= r
    <3>1. \A k \in receipts : k <= r /\ k \in Nat
      BY <1>8
    <3>2. \A m \in CapitalMoves(Executed) : m \in Nat
      BY <1>3, SMT DEF CapitalMoves
    <3> QED
      BY <1>7, <3>1, <3>2, SMT
  <2> QED
    BY <1>1, <1>2, <1>3, <2>1, <2>2, <2>3, <2>4 DEF Held, Block
<1>13. Ordered' /\ FromRow(D)' /\ Unrecorded(D)'
  <2>1. Ordered'
    <3>1. \A m \in CapitalMoves(Executed), k \in receipts : m < k => Block(m) < cursor
      <4>1. \A m \in CapitalMoves(Executed) : m \in Nat
        BY <1>3, SMT DEF CapitalMoves
      <4> QED
        BY <1>2, <1>6, <1>7, <1>8, <4>1, SMT DEF Block
    <3>2. ~News'
      BY <1>1, <1>2 DEF News
    <3> QED
      BY <1>1, <1>3, <3>1, <3>2 DEF Ordered, Block
  <2>2. FromRow(D)'
    BY <1>1 DEF FromRow, Early
  <2>3. Unrecorded(D)'
    BY <1>1 DEF Unrecorded, Facts, Waits
  <2> QED
    BY <2>1, <2>2, <2>3
<1>14. InTick(D)'
  <2>1. D \cup queue' = CapitalMoves(r)' /\ read' = r /\ r \in 0 .. Executed' /\ pc' \notin {"book", "adjust"}
    BY <1>1, <1>2, <1>3, <1>6, <1>9
  <2>2. r <= r
    BY <1>7, SMT
  <2> QED
    BY <2>1, <2>2 DEF InTick
<1>15. Whole(D)'
  BY <1>11, <1>12, <1>13, <1>14 DEF Whole
<1> QED
  BY <1>3, <1>10, <1>15

LEMMA WholeTransfer ==
  ASSUME Types, Types', Facts, SteadyKnown, known, CapitalNext, RecordTransfer, Trusted',
         NEW C \in SUBSET CapitalMoves(Executed), Whole(C)
  PROVE  \E D \in SUBSET CapitalMoves(Executed)' : Whole(D)'
<1>0. ~Hit("flow")
  BY FaultsHappen, TrustOnlyShrinks DEF Types
<1>1. PICK m \in 1 .. Executed : Landed(m) /\ explained' = explained \cup {m} /\ net' = net + Signed(m)
  BY <1>0 DEF RecordTransfer
<1>2. /\ stage = "landed" /\ stage' = "none" /\ opKind = "transfer"
      /\ UNCHANGED <<moves, receipts, pc, cursor, traded, stale>>
  BY DEF RecordTransfer, NoOp, configVars, chainVars, tickVars
<1>3. pc = "intents" /\ waiter = "tick" /\ traded
  BY <1>2 DEF Facts, Waits, SteadyKnown
<1>4. /\ Executed' = Executed /\ CapitalMoves(Executed)' = CapitalMoves(Executed)
      /\ \A S : SumOf(S)' = SumOf(S)
  BY <1>2, ChainStill DEF CapitalMoves
<1>5. m \in CapitalMoves(Executed) /\ m \notin C /\ C \in SUBSET (1 .. Executed)
  BY <1>1, <1>2, <1>3 DEF Landed, Last, CapitalMoves, Whole, Unrecorded
<1> DEFINE D == C \cup {m}
<1>6. D \in SUBSET CapitalMoves(Executed)'
  BY <1>4, <1>5
<1>7. net' = SumOf(D)'
  <2>1. SumOf(D) = SumOf(C) + Signed(m)
    BY <1>5, SumOfMore
  <2> QED
    BY <1>1, <1>4, <2>1 DEF Whole
<1>8. ((cursor' > 0 \/ News') /\ pc' # "infer") => Held(D)'
  <2> SUFFICES ASSUME Held(C) PROVE Held(D)'
    BY <1>2 DEF Whole, News
  <2> QED
    BY <1>1, <1>2, <1>4 DEF Held, Block
<1>9. Ordered'
  BY <1>1, <1>2, <1>4 DEF Whole, Ordered, Block, News
<1> HIDE DEF D
<1>10. FromRow(D)' /\ InTick(D)' /\ Unrecorded(D)'
  BY <1>2, <1>3 DEF FromRow, InTick, Unrecorded
<1>11. Whole(D)'
  BY <1>7, <1>8, <1>9, <1>10 DEF Whole
<1> QED
  BY <1>6, <1>11

(* The next child has the last equity row, and that is enough.             *)
LEMMA WholeRedeploy ==
  ASSUME Types, Types', Facts, Steady, SteadyKnown, known, known', CapitalNext, Redeploy, Trusted',
         NEW C \in SUBSET CapitalMoves(Executed), Whole(C)
  PROVE  C \in SUBSET CapitalMoves(Executed)' /\ Whole(C)'
<1>1. /\ UNCHANGED <<moves, net, row>> /\ pc' = "idle"
      /\ receipts' = {} /\ queue' = {} /\ cursor' = 0 /\ waiter' = "nobody"
  BY DEF Redeploy, Restart, configVars, chainVars
<1>2. Settled /\ Never({"between"})
  <2>1. licence' # "none"
    BY DEF Redeploy
  <2> QED
    BY <2>1, FaultsHappen, TrustedRedeploy DEF Types
<1>3. /\ Executed' = Executed /\ CapitalMoves(Executed)' = CapitalMoves(Executed)
      /\ \A S : SumOf(S)' = SumOf(S)
      /\ \A n : Tally(n)' = Tally(n) /\ OwnersSince(n)' = OwnersSince(n) /\ CapitalMoves(n)' = CapitalMoves(n)
  BY <1>1, ChainStill DEF CapitalMoves
<1>4. PICK n \in 0 .. Executed : row.cash = Tally(n) /\ OwnersSince(n) /\ C = CapitalMoves(n)
  BY <1>2 DEF Settled, Early, Whole, FromRow
<1>5. FromRow(C)'
  BY <1>1, <1>3, <1>4 DEF FromRow
<1>6. ~(cursor' > 0) /\ ~News'
  <2>1. ~(0 > 0)
    BY SMT
  <2> QED
    BY <1>1, <2>1 DEF News
<1>7. Ordered' /\ InTick(C)' /\ Unrecorded(C)'
  BY <1>1, <1>6 DEF Ordered, InTick, Unrecorded
<1> QED
  BY <1>1, <1>3, <1>5, <1>6, <1>7 DEF Whole

LEMMA WholeStutters ==
  ASSUME UNCHANGED capitalVars, NEW C \in SUBSET CapitalMoves(Executed), Whole(C)
  PROVE  C \in SUBSET CapitalMoves(Executed)' /\ Whole(C)'
<1>1. /\ UNCHANGED <<moves, stage, opKind, waiter, receipts, explained, net, row>>
      /\ UNCHANGED <<pc, read, head, queue, cursor, traded, happened, stale>>
  BY DEF capitalVars, configVars, chainVars, opVars, bookVars, tickVars, readVars, memoryVars
<1>2. /\ Executed' = Executed /\ CapitalMoves(Executed)' = CapitalMoves(Executed)
      /\ \A S : SumOf(S)' = SumOf(S)
      /\ \A n : Tally(n)' = Tally(n) /\ OwnersSince(n)' = OwnersSince(n) /\ CapitalMoves(n)' = CapitalMoves(n)
  BY <1>1, ChainStill DEF CapitalMoves
<1>3. /\ \A F : Never(F)' <=> Never(F)
      /\ (Early' <=> Early) /\ (News' <=> News)
  BY <1>1 DEF Never, Early, News
<1>4. net' = SumOf(C)' /\ (((cursor' > 0 \/ News') /\ pc' # "infer") => Held(C)')
  BY <1>1, <1>2, <1>3 DEF Whole, Held, Block
<1>5. Ordered'
  BY <1>1, <1>2, <1>3 DEF Whole, Ordered, Block
<1>6. FromRow(C)'
  BY <1>1, <1>2, <1>3 DEF Whole, FromRow
<1>7. InTick(C)'
  BY <1>1, <1>2, <1>3 DEF Whole, InTick
<1>8. Unrecorded(C)'
  BY <1>1 DEF Whole, Unrecorded, Landed, Last, Executed
<1> QED
  BY <1>2, <1>4, <1>5, <1>6, <1>7, <1>8 DEF Whole

(* Nothing but a redeploy lifts the doubt.                                 *)
LEMMA KnownBefore ==
  ASSUME [CapitalNext]_capitalVars, ~Redeploy, known'
  PROVE  known
<1>1. UNCHANGED known \/ known' = StillKnown
  BY DEF capitalVars, memoryVars, CapitalNext, TickStep, Deposit, Takeout, Perform, TickRead, OpenAtHead,
         ResumeScan, Scan, ScanRefused, ScanDone, BookReceipt, InferNothing, InferFlow, FlowFails, AdjustPeak,
         Baseline, Accrue, TickEnd, Submit, Mine, Drop, RecordFill, RecordTransfer, Unresolve, SettleStray,
         MirrorMark, StopStart
<1> QED
  BY <1>1 DEF StillKnown

WholeInv ==
  (scanOn /\ Trusted) =>
    Facts /\ Steady /\ SteadyKnown /\ (known => \E C \in SUBSET CapitalMoves(Executed) : Whole(C))

LEMMA WholeBegins == CapitalInit => WholeInv
<1> SUFFICES ASSUME CapitalInit PROVE WholeInv
  OBVIOUS
<1>1. Facts /\ Types
  BY FactsBegin, TypesBegin
<1>2. /\ net = 0 /\ pc = "idle" /\ queue = {} /\ cursor = 0 /\ receipts = {} /\ explained = {} /\ stale = 0
      /\ stage = "none" /\ row = Unread /\ moves = <<>> /\ ~traded /\ known /\ happened = <<>>
      /\ licence = IF hosted THEN "new-account" ELSE "self-hosted-local"
  BY DEF CapitalInit
<1>3. \A F : Never(F)
  <2>1. \A i \in 1 .. Len(<<>>) : FALSE
    BY LenProperties, SMT
  <2> QED
    BY <1>2, <2>1 DEF Never
<1>4. Steady /\ SteadyKnown
  BY <1>2, <1>3 DEF Steady, SteadyKnown
<1>5. net = SumOf({}) /\ {} \in SUBSET CapitalMoves(Executed)
  BY <1>1, <1>2, SumOfNone
<1>6. FromRow({})
  <2>1. 0 \in 0 .. Executed /\ 1 .. 0 = {}
    BY <1>1, ExecutedMoves, SMT
  <2>2. row.cash = Tally(0) /\ CapitalMoves(0) = {}
    BY <1>1, <1>2, <2>1, SumOfNone DEF Tally, Unread, CapitalMoves
  <2>3. OwnersSince(0)
    BY <1>1, <1>2 DEF Facts, NoRow, Unread
  <2>4. PICK n \in 0 .. Executed : n = 0
    BY <2>1
  <2>5. row.cash = Tally(n) /\ OwnersSince(n) /\ {} = CapitalMoves(n)
    BY <2>2, <2>3, <2>4
  <2> QED
    BY <1>2, <2>5 DEF FromRow
<1>7. ~(cursor > 0) /\ ~News
  <2>1. ~(0 > 0)
    BY SMT
  <2> QED
    BY <1>2, <2>1 DEF News
<1>8. Ordered /\ InTick({}) /\ Unrecorded({})
  BY <1>2, <1>7 DEF Ordered, InTick, Unrecorded
<1>9. Whole({})
  BY <1>2, <1>5, <1>6, <1>7, <1>8 DEF Whole
<1> QED
  BY <1>1, <1>4, <1>5, <1>9 DEF WholeInv

LEMMA SteadyStutters ==
  ASSUME UNCHANGED capitalVars, Steady, SteadyKnown
  PROVE  Steady' /\ SteadyKnown'
<1>1. /\ UNCHANGED <<hosted, scanOn, stale, moves, stage, waiter, receipts, explained, row>>
      /\ UNCHANGED <<pc, read, queue, cursor, seen, traded, licence, anchor, known, happened>>
  BY DEF capitalVars, configVars, chainVars, opVars, bookVars, tickVars, readVars, memoryVars
<1>2. (\A F : Never(F)' <=> Never(F)) /\ (Fresh' <=> Fresh)
  BY <1>1 DEF Never, Fresh
<1>3. Steady'
  BY <1>1, <1>2 DEF Steady
<1>4. SteadyKnown'
  BY <1>1, <1>2 DEF SteadyKnown
<1> QED
  BY <1>3, <1>4

LEMMA WholeNext ==
  ASSUME Types, Types', Paired, Facts, Steady, SteadyKnown, known, known', scanOn, CapitalNext, Trusted',
         NEW C \in SUBSET CapitalMoves(Executed), Whole(C)
  PROVE  \E D \in SUBSET CapitalMoves(Executed)' : Whole(D)'
<1>1. Never(Overlaps)' /\ ~Hit("flow") /\ ~Hit("firstflow")
  BY FaultsHappen, TrustOnlyShrinks DEF Types, Overlaps
<1>2. ~ScanRefused /\ ~Unresolve
  BY <1>1, CleanSteps
<1>3. ~FlowFails
  BY <1>1 DEF FlowFails
<1>4. ~SettleStray
  BY DEF SettleStray, SteadyKnown
<1>5. CASE Quiet
  BY <1>5, WholeStays
<1>6. CASE Deposit \/ Takeout \/ Mine
  BY <1>6, WholeOnChain
<1>7. CASE BookReceipt
  BY <1>7, WholeReceipt
<1>8. CASE InferNothing \/ InferFlow
  BY <1>8, WholeInfer
<1>9. CASE RecordTransfer
  BY <1>9, WholeTransfer
<1>10. CASE Redeploy
  BY <1>10, WholeRedeploy
<1> QED
  BY <1>2, <1>3, <1>4, <1>5, <1>6, <1>7, <1>8, <1>9, <1>10 DEF CapitalNext, TickStep, Quiet

LEMMA WholeStep ==
  ASSUME Types, Types', Paired, WholeInv, [CapitalNext]_capitalVars
  PROVE  WholeInv'
<1> SUFFICES ASSUME scanOn', Trusted'
             PROVE  /\ Facts' /\ Steady' /\ SteadyKnown'
                    /\ known' => \E C \in SUBSET CapitalMoves(Executed)' : Whole(C)'
  BY DEF WholeInv
<1>1. AnyFault /\ scanOn
  BY FaultsHappen, ConfigStays DEF AnyFault, capitalVars, configVars
<1>2. Trusted /\ Never(Overlaps)'
  BY <1>1, TrustOnlyShrinks DEF Types
<1>3. Facts /\ Steady /\ SteadyKnown /\ (known => \E C \in SUBSET CapitalMoves(Executed) : Whole(C))
  BY <1>1, <1>2 DEF WholeInv
<1>4. Facts'
  BY <1>2, <1>3, FactsStep
<1>5. Steady' /\ SteadyKnown'
  BY <1>3, SteadyStep, SteadyKnownStep, SteadyStutters
<1>6. ASSUME known' PROVE \E C \in SUBSET CapitalMoves(Executed)' : Whole(C)'
  <2>1. known
    <3>1. CASE Redeploy
      <4>1. licence' # "none"
        BY <1>6, <3>1 DEF Redeploy
      <4>2. hosted /\ Never({"redeploy", "anchor"})
        BY <1>1, <3>1, <4>1, TrustedRedeploy DEF Types
      <4> QED
        BY <1>3, <4>2 DEF Steady
    <3> QED
      BY <1>6, <3>1, KnownBefore
  <2>2. PICK C \in SUBSET CapitalMoves(Executed) : Whole(C)
    BY <1>3, <2>1
  <2>3. CASE CapitalNext
    BY <1>1, <1>3, <1>6, <2>1, <2>2, <2>3, WholeNext
  <2>4. CASE UNCHANGED capitalVars
    BY <2>2, <2>4, WholeStutters
  <2> QED
    BY <2>3, <2>4
<1> QED
  BY <1>4, <1>5, <1>6

LEMMA NothingIsMissed == ASSUME Types, WholeInv PROVE NothingMissed
<1> SUFFICES ASSUME scanOn, known, pc = "accrue", Trusted
             PROVE  \E n \in read .. Executed : net = SumOf(CapitalMoves(n))
  BY DEF NothingMissed, Trusted
<1>1. PICK C \in SUBSET CapitalMoves(Executed) : Facts /\ Whole(C)
  BY DEF WholeInv
<1>2. queue = {}
  BY <1>1 DEF Facts, Queued
<1>3. PICK h \in 0 .. Executed : read <= h /\ C = CapitalMoves(h)
  BY <1>1, <1>2 DEF Whole, InTick
<1>4. h \in read .. Executed
  <2>1. read \in Nat /\ Executed \in Nat
    BY ExecutedBound, SMT DEF Types, TickTypes
  <2> QED
    BY <1>3, <2>1, SMT
<1> QED
  BY <1>1, <1>3, <1>4 DEF Whole

(* With the scan on, no fee is judged by books that lack a movement which  *)
(* the balances reflect: whatever restarts, redeploys and reads that lag   *)
(* come between, as long as the faults leave the logs or the last equity   *)
(* row to tell it by.                                                      *)
THEOREM NothingMissedHolds == CapitalSpec => []NothingMissed
<1>1. CapitalInit => Types /\ Paired /\ WholeInv
  BY TypesBegin, PairedBegins, WholeBegins
<1>2. Types /\ Paired /\ WholeInv /\ [CapitalNext]_capitalVars => (Types /\ Paired /\ WholeInv)'
  BY TypesStep, PairedStep, WholeStep
<1>3. Types /\ WholeInv => NothingMissed
  BY NothingIsMissed
<1> QED
  BY <1>1, <1>2, <1>3, PTL DEF CapitalSpec

(* The fee.  What was charged so far is on the mark, and what equity is    *)
(* above the contributions was earned.                                     *)
FeeInv == (scanOn /\ Trusted /\ Never({"between"})) => charged <= best

LEMMA FeeStays ==
  ASSUME Types, CapitalNext, ~Accrue
  PROVE  charged' = charged /\ best' >= best
<1>1. charged' = charged
  BY DEF CapitalNext, TickStep, Deposit, Takeout, Perform, TickRead, OpenAtHead, ResumeScan, Scan,
         ScanRefused, ScanDone, BookReceipt, InferNothing, InferFlow, FlowFails, AdjustPeak, Baseline,
         TickEnd, Submit, Mine, Drop, RecordFill, RecordTransfer, Unresolve, SettleStray, MirrorMark,
         Redeploy, StopStart, Restart, bookVars
<1>2. gain \in Int /\ best \in Nat /\ best >= best
  BY SMT DEF Types, ChainTypes
<1>3. CASE Perform
  <2>1. PICK g \in {gain - 1, gain + 1} : best' = IF g > best THEN g ELSE best
    BY <1>3 DEF Perform
  <2> QED
    BY <1>1, <1>2, <2>1, SMT
<1>4. CASE ~Perform
  <2>1. UNCHANGED best
    BY <1>4 DEF CapitalNext, TickStep, Deposit, Takeout, Moved, TickRead, OpenAtHead, ResumeScan, Scan,
         ScanRefused, ScanDone, BookReceipt, InferNothing, InferFlow, FlowFails, AdjustPeak, Baseline, Accrue,
         TickEnd, Submit, Mine, Drop, RecordFill, RecordTransfer, Unresolve, SettleStray, MirrorMark,
         Redeploy, StopStart, Restart, chainVars
  <2> QED
    BY <1>1, <1>2, <2>1
<1> QED
  BY <1>3, <1>4

LEMMA FeeIsEarned ==
  ASSUME Types, Paired, WholeInv, Accrue, scanOn, Trusted, Never({"between"}), charged <= best
  PROVE  charged' <= best'
<1>1. pc = "accrue" /\ charged' = charged + Feeable /\ UNCHANGED best
  BY DEF Accrue, chainVars
<1>2. CASE ~known
  <2>1. Feeable = 0
    BY <1>2 DEF Feeable
  <2> QED
    BY <1>1, <2>1, Figures, SMT
<1>3. CASE known
  <2>1. PICK C \in SUBSET CapitalMoves(Executed) : Facts /\ SteadyKnown /\ Whole(C)
    BY <1>3 DEF WholeInv
  <2>2. queue = {}
    BY <1>1, <2>1 DEF Facts, Queued
  <2>3. PICK h \in 0 .. Executed : h = read /\ C = CapitalMoves(h)
    BY <1>1, <2>1, <2>2 DEF Whole, InTick
  <2>4. net = Principal(h)
    BY <2>1, <2>3 DEF Whole, Principal
  <2>5. readEquity <= Principal(h) + best
    <3>1. \E n \in 0 .. Executed : n = read /\ readEquity <= Principal(n) + best
      BY <1>1, <2>1 DEF Facts, Readings
    <3> QED
      BY <2>3, <3>1
  <2>6. peak = hwm /\ hwm >= net + charged
    <3>1. Never({"anchor"})
      BY <1>3, <2>1 DEF SteadyKnown
    <3>2. Never({"peak"}) /\ Never({"peak", "torn", "anchor"})
      BY <3>1 DEF Trusted, Never, Overlaps
    <3> QED
      BY <1>1, <3>2 DEF Paired, PeakCarries, Adjusting
  <2>7. Feeable = IF readEquity > peak THEN readEquity - peak ELSE 0
    BY <1>3 DEF Feeable, Above
  <2>8. best \in Nat
    BY DEF Types, ChainTypes
  <2> QED
    BY <1>1, <2>4, <2>5, <2>6, <2>7, <2>8, Figures, SMT
<1> QED
  BY <1>2, <1>3

LEMMA FeeStep ==
  ASSUME Types, Types', Paired, WholeInv, FeeInv, [CapitalNext]_capitalVars
  PROVE  FeeInv'
<1> SUFFICES ASSUME scanOn', Trusted', Never({"between"})' PROVE charged' <= best'
  BY DEF FeeInv
<1>1. AnyFault /\ scanOn
  BY FaultsHappen, ConfigStays DEF AnyFault, capitalVars, configVars
<1>2. Trusted /\ Never({"between"})
  BY <1>1, TrustOnlyShrinks, FaultsOnlyGrow DEF Types
<1>3. charged <= best
  BY <1>1, <1>2 DEF FeeInv
<1>4. CASE Accrue
  BY <1>1, <1>2, <1>3, <1>4, FeeIsEarned
<1>5. CASE CapitalNext /\ ~Accrue
  <2>1. charged' = charged /\ best' >= best
    BY <1>5, FeeStays
  <2>2. charged \in Nat /\ best \in Nat /\ best' \in Nat
    BY DEF Types, ChainTypes, BookTypes
  <2> QED
    BY <1>3, <2>1, <2>2, SMT
<1>6. CASE UNCHANGED capitalVars
  BY <1>3, <1>6 DEF capitalVars, chainVars, bookVars
<1> QED
  BY <1>4, <1>5, <1>6

(* No fee is taken of the owner's own money, nor twice of the same profit: *)
(* all that was ever charged is within the most the agent has ever earned. *)
THEOREM NoFeeOnPrincipalHolds == CapitalSpec => []NoFeeOnPrincipal
<1>1. CapitalInit => Types /\ Paired /\ WholeInv /\ FeeInv
  <2>1. CapitalInit => FeeInv
    <3>1. 0 <= 0
      BY SMT
    <3> QED
      BY <3>1 DEF CapitalInit, FeeInv
  <2> QED
    BY <2>1, TypesBegin, PairedBegins, WholeBegins
<1>2. Types /\ Paired /\ WholeInv /\ FeeInv /\ [CapitalNext]_capitalVars
      => (Types /\ Paired /\ WholeInv /\ FeeInv)'
  BY TypesStep, PairedStep, WholeStep, FeeStep
<1>3. FeeInv => NoFeeOnPrincipal
  <2>1. \A f : ~Before("between", f) \/ ~Never({"between"})
    BY DEF Before, Never
  <2>2. Never(Overlaps \cup {"flow", "midway", "between"})
        => Never(Overlaps \cup {"flow", "midway"}) /\ Never({"between"})
    BY DEF Never
  <2> QED
    BY <2>1, <2>2 DEF FeeInv, NoFeeOnPrincipal, Trusted
<1> QED
  BY <1>1, <1>2, <1>3, PTL DEF CapitalSpec
=============================================================================
