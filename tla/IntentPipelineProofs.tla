------------------------ MODULE IntentPipelineProofs ------------------------
(***************************************************************************)
(* Theorems of IntentPipeline for every set of intents, every cap, every   *)
(* number of crashes and re-arms.                                          *)
(***************************************************************************)
EXTENDS IntentPipeline, Sums, TLAPS

RowTable == [Ops -> [Statuses -> Nat]]

-----------------------------------------------------------------------------
(* The ledger operators.                                                   *)

(* addTrade with a hash settles the submitted row or inserts one, and      *)
(* touches no other operation and no other status.                         *)
LEMMA AddTradeFacts ==
  ASSUME NEW led \in RowTable, NEW o \in Ops, NEW st \in Outcomes
  PROVE  /\ AddTrade(led, o, st) \in RowTable
         /\ \A p \in Ops \ {o} : AddTrade(led, o, st)[p] = led[p]
         /\ AddTrade(led, o, st)[o]["submitted"] = 0
         /\ AddTrade(led, o, st)[o][st] > 0
         /\ \A s \in Statuses \ {"submitted", st} : AddTrade(led, o, st)[o][s] = led[o][s]
         /\ AddTrade(led, o, st)[o][st] >= led[o][st] + led[o]["submitted"]
<1>0. st \in Statuses /\ st # "submitted" /\ "submitted" \in Statuses
  BY DEF Outcomes, Statuses
<1>1. CASE led[o]["submitted"] > 0
  <2>1. AddTrade(led, o, st) =
          [led EXCEPT ![o]["submitted"] = 0, ![o][st] = @ + led[o]["submitted"]]
    BY <1>1 DEF AddTrade
  <2>2. led[o] \in [Statuses -> Nat] BY DEF RowTable
  <2> DEFINE row == [led[o] EXCEPT !["submitted"] = 0, ![st] = @ + led[o]["submitted"]]
  <2>3. /\ row \in [Statuses -> Nat] /\ row["submitted"] = 0
        /\ row[st] = led[o][st] + led[o]["submitted"]
        /\ \A s \in Statuses \ {"submitted", st} : row[s] = led[o][s]
    BY <1>0, <2>2
  <2>4. AddTrade(led, o, st) = [led EXCEPT ![o] = row] BY <2>1, <1>0, <2>2
  <2>5. /\ [led EXCEPT ![o] = row] \in RowTable
        /\ [led EXCEPT ![o] = row][o] = row
        /\ \A p \in Ops \ {o} : [led EXCEPT ![o] = row][p] = led[p]
    BY <2>3 DEF RowTable
  <2>6. led[o][st] \in Nat /\ led[o]["submitted"] \in Nat BY <2>2, <1>0
  <2> HIDE DEF row
  <2>7. AddTrade(led, o, st)[o] = row BY <2>4, <2>5
  <2>8. row[st] > 0 /\ row[st] >= led[o][st] + led[o]["submitted"]
    BY <2>3, <2>6, <1>1
  <2> QED BY <2>3, <2>4, <2>5, <2>7, <2>8
<1>2. CASE ~(led[o]["submitted"] > 0)
  <2>1. AddTrade(led, o, st) = [led EXCEPT ![o][st] = @ + 1]
    BY <1>2 DEF AddTrade
  <2>2. led[o] \in [Statuses -> Nat] BY DEF RowTable
  <2> DEFINE row == [led[o] EXCEPT ![st] = @ + 1]
  <2>3. /\ row \in [Statuses -> Nat]
        /\ row[st] = led[o][st] + 1
        /\ \A s \in Statuses \ {st} : row[s] = led[o][s]
    BY <1>0, <2>2
  <2>4. AddTrade(led, o, st) = [led EXCEPT ![o] = row] BY <2>1
  <2>5. /\ [led EXCEPT ![o] = row] \in RowTable
        /\ [led EXCEPT ![o] = row][o] = row
        /\ \A p \in Ops \ {o} : [led EXCEPT ![o] = row][p] = led[p]
    BY <2>3 DEF RowTable
  <2>6. led[o][st] \in Nat /\ led[o]["submitted"] = 0 BY <2>2, <1>0, <1>2
  <2> QED BY <2>3, <2>4, <2>5, <2>6, <1>0
<1> QED BY <1>1, <1>2

(* The pre-broadcast row and the paper row add one row and nothing else.   *)
LEMMA InsertTradeFacts ==
  ASSUME NEW led \in RowTable, NEW o \in Ops, NEW st \in Statuses
  PROVE  /\ InsertTrade(led, o, st) \in RowTable
         /\ \A p \in Ops \ {o} : InsertTrade(led, o, st)[p] = led[p]
         /\ InsertTrade(led, o, st)[o][st] = led[o][st] + 1
         /\ \A s \in Statuses \ {st} : InsertTrade(led, o, st)[o][s] = led[o][s]
<1> DEFINE row == [led[o] EXCEPT ![st] = @ + 1]
<1>1. led[o] \in [Statuses -> Nat] BY DEF RowTable
<1>2. /\ row \in [Statuses -> Nat]
      /\ row[st] = led[o][st] + 1
      /\ \A s \in Statuses \ {st} : row[s] = led[o][s]
  BY <1>1
<1>3. InsertTrade(led, o, st) = [led EXCEPT ![o] = row] BY DEF InsertTrade
<1>4. /\ [led EXCEPT ![o] = row] \in RowTable
      /\ [led EXCEPT ![o] = row][o] = row
      /\ \A p \in Ops \ {o} : [led EXCEPT ![o] = row][p] = led[p]
  BY <1>2 DEF RowTable
<1> QED BY <1>2, <1>3, <1>4

(* What a rail charges is a natural number per operation.                  *)
LEMMA RailChargeType ==
  ASSUME NEW led \in RowTable, NEW r
  PROVE  RailCharge(led, r) \in [Ops -> Nat]
BY DEF RailCharge, RowTable, Statuses

(* A charge added to or taken from one operation leaves charges integers.  *)
LEMMA ReleasedType ==
  ASSUME inFlight \in [Ops -> Int], reserved => cur \in Ops
  PROVE  Released \in [Ops -> Int]
<1>1. CASE reserved
  <2>1. cur \in Ops /\ inFlight[cur] - 1 \in Int BY <1>1
  <2> QED BY <1>1, <2>1 DEF Released
<1> QED BY <1>1 DEF Released

-----------------------------------------------------------------------------
(* Types.                                                                  *)

(* The intent lock: held exactly by an operation that was proposed, and    *)
(* the reservation lives exactly as long as the lock.                      *)
LockInv ==
  /\ pc = "free" <=> cur = NoOp
  /\ cur \in Ops => cur \in proposed
  /\ reserved <=> pc # "free"

TypeInv == TypeOK /\ LockInv

LEMMA TypeInit == Init => TypeInv
<1> SUFFICES ASSUME Init PROVE TypeInv OBVIOUS
<1>1. rows \in [Ops -> [Statuses -> Nat]] /\ settled \in [Ops -> Int] /\ inFlight \in [Ops -> Int]
  BY DEF Init, NoRows, NoCharge
<1>2. chain \in [Ops -> ChainStates] BY DEF Init, ChainStates
<1>3. sweep \in [Sweeps -> SUBSET (Ops \X Outcomes)] BY DEF Init
<1>4. rail \in Rails BY DEF Init, Rails
<1>5. LockInv BY ConstantsAssumption DEF Init, LockInv
<1> QED BY <1>1, <1>2, <1>3, <1>4, <1>5 DEF Init, TypeInv, TypeOK

(* The two ways an intent ends keep the types.                             *)
LEMMA TypeRecordTrade ==
  ASSUME TypeInv, NEW led \in RowTable, RecordTrade(led)
  PROVE  TypeInv'
<1>1. reserved => cur \in Ops BY DEF TypeInv, TypeOK, LockInv
<1>2. Released \in [Ops -> Int] BY <1>1, ReleasedType DEF TypeInv, TypeOK
<1>3. RailCharge(led, rail) \in [Ops -> Int]
  <2>1. RailCharge(led, rail) \in [Ops -> Nat] BY RailChargeType
  <2> QED BY <2>1
<1>4. rows' \in [Ops -> [Statuses -> Nat]] /\ settled' \in [Ops -> Int] /\ inFlight' \in [Ops -> Int]
  BY <1>2, <1>3 DEF RecordTrade, RowTable
<1> QED
  BY <1>4, ConstantsAssumption DEF RecordTrade, Unlock, TypeInv, TypeOK, LockInv, tickVars, histVars, bounds

LEMMA TypeRecordFails == TypeInv /\ pc # "free" /\ RecordFails => TypeInv'
<1> SUFFICES ASSUME TypeInv, pc # "free", RecordFails PROVE TypeInv' OBVIOUS
<1>1. reserved /\ cur \in Ops BY DEF TypeInv, TypeOK, LockInv
<1>2. Released \in [Ops -> Int] BY <1>1, ReleasedType DEF TypeInv, TypeOK
<1>3. settled' \in [Ops -> Int] BY <1>1 DEF RecordFails, TypeInv, TypeOK
<1> QED
  BY <1>1, <1>2, <1>3, ConstantsAssumption DEF RecordFails, Unlock, TypeInv, TypeOK, LockInv, ledgerVars,
     tickVars, bounds

(* Every step of an intent keeps the types and the lock discipline.        *)
LEMMA TypeIntent == TypeInv /\ IntentStep => TypeInv'
<1> SUFFICES ASSUME TypeInv, IntentStep PROVE TypeInv' OBVIOUS
<1>0. rows \in RowTable /\ inFlight \in [Ops -> Int] /\ settled \in [Ops -> Int]
  BY DEF TypeInv, TypeOK, RowTable
<1>1. pc # "free" => cur \in Ops /\ reserved BY DEF TypeInv, TypeOK, LockInv
<1>2. Released \in [Ops -> Int] BY <1>0, <1>1, ReleasedType DEF TypeInv, TypeOK, LockInv
<1>3. RailCharge(rows, rail) \in [Ops -> Int]
  <2>1. RailCharge(rows, rail) \in [Ops -> Nat] BY <1>0, RailChargeType
  <2> QED BY <2>1
<1>4. pc # "free" =>
        /\ InsertTrade(rows, cur, "paper") \in RowTable
        /\ InsertTrade(rows, cur, "submitted") \in RowTable
        /\ AddTrade(rows, cur, "landed") \in RowTable
  BY <1>0, <1>1, InsertTradeFacts, AddTradeFacts DEF Statuses, Outcomes
<1>5. ASSUME LeaveSubmitted PROVE
        /\ settled' \in [Ops -> Int] /\ inFlight' \in [Ops -> Int]
        /\ pc' = "free" /\ cur' = NoOp /\ reserved' = FALSE
  BY <1>2, <1>3, <1>5 DEF LeaveSubmitted, Unlock
<1>6. NoOp \notin Ops BY ConstantsAssumption
<1> USE DEF TypeInv, TypeOK, LockInv, ledgerVars, budgetVars, tickVars, histVars, bounds
<1>11. ASSUME NEW o \in Ops, Reject(o) PROVE TypeInv'
  BY <1>3, <1>11 DEF Reject
<1>12. ASSUME NEW o \in Ops, AdmitLive(o) PROVE TypeInv'
  <2>1. inFlight' \in [Ops -> Int] BY <1>0, <1>12 DEF AdmitLive
  <2> QED BY <2>1, <1>6, <1>12 DEF AdmitLive
<1>13. ASSUME NEW o \in Ops, AdmitPaper(o) PROVE TypeInv'
  <2>1. inFlight' \in [Ops -> Int] BY <1>0, <1>13 DEF AdmitPaper
  <2> QED BY <2>1, <1>6, <1>13 DEF AdmitPaper
<1>14. CASE PaperRecord BY <1>4, <1>14, TypeRecordTrade DEF PaperRecord
<1>15. CASE PaperRecordFails BY <1>15, TypeRecordFails DEF PaperRecordFails
<1>26. CASE PaperThrows BY <1>2, <1>6, <1>26 DEF PaperThrows, Unlock
<1>16. CASE BuildRefused BY <1>0, <1>16, TypeRecordTrade DEF BuildRefused
<1>17. CASE OnSubmitted BY <1>4, <1>17 DEF OnSubmitted, RowTable
<1>18. CASE NotRecorded BY <1>0, <1>18, TypeRecordTrade DEF NotRecorded
<1>19. CASE SendUserOperation BY <1>19 DEF SendUserOperation, ChainStates
<1>20. CASE SendUnresolved
  <2>1. chain' \in [Ops -> ChainStates] BY <1>20 DEF SendUnresolved, ChainStates
  <2> QED BY <2>1, <1>5, <1>6, <1>20 DEF SendUnresolved
<1>21. CASE ReceiptSuccess BY <1>21 DEF ReceiptSuccess
<1>22. CASE ReceiptReverted BY <1>1, <1>5, <1>6, <1>22 DEF ReceiptReverted
<1>23. CASE Unresolved BY <1>5, <1>6, <1>23 DEF Unresolved
<1>24. CASE RecordLanded BY <1>4, <1>24, TypeRecordTrade DEF RecordLanded
<1>25. CASE RecordLandedFails BY <1>25, TypeRecordFails DEF RecordLandedFails
<1> QED
  BY <1>11, <1>12, <1>13, <1>14, <1>15, <1>16, <1>17, <1>18, <1>19, <1>20, <1>21,
     <1>22, <1>23, <1>24, <1>25, <1>26 DEF IntentStep

(* Every step of a sweep, of the tick, of the chain, and a crash.          *)
LEMMA TypeSweep == TypeInv /\ SweepStep => TypeInv'
<1> SUFFICES ASSUME TypeInv, SweepStep PROVE TypeInv' OBVIOUS
<1>0. rows \in RowTable BY DEF TypeInv, TypeOK, RowTable
<1>1. /\ Resolvable \subseteq Ops \X Outcomes
      /\ Orphans \subseteq Ops \X Outcomes
      /\ "arm" \in Sweeps /\ "tick" \in Sweeps
  BY DEF Resolvable, Orphans, Outcomes, Sweeps
<1> USE DEF TypeInv, TypeOK, LockInv, ledgerVars, budgetVars, tickVars, intentVars, histVars, bounds
<1>2. CASE ArmResolve BY <1>1, <1>2 DEF ArmResolve
<1>3. CASE ArmOrphans BY <1>1, <1>3 DEF ArmOrphans
<1>4. CASE ArmSkip BY <1>4 DEF ArmSkip
<1>5. ASSUME NEW found \in SUBSET Resolvable, StrandedResolve(found) PROVE TypeInv'
  BY <1>1, <1>5 DEF StrandedResolve
<1>6. ASSUME NEW k \in Sweeps, SweepWrite(k) PROVE TypeInv'
  <2>1. PICK p \in sweep[k] : /\ rows' = AddTrade(rows, p[1], p[2])
                              /\ sweep' = [sweep EXCEPT ![k] = @ \ {p}]
    BY <1>6 DEF SweepWrite
  <2>2. p[1] \in Ops /\ p[2] \in Outcomes BY <1>6
  <2>3. rows' \in RowTable BY <1>0, <2>1, <2>2, AddTradeFacts
  <2> QED BY <2>1, <2>3, <1>6 DEF SweepWrite, RowTable
<1>7. ASSUME NEW k \in Sweeps, SweepWriteFails(k) PROVE TypeInv'
  BY <1>7 DEF SweepWriteFails
<1> QED BY <1>2, <1>3, <1>4, <1>5, <1>6, <1>7 DEF SweepStep

LEMMA TypeTick == TypeInv /\ TickStep => TypeInv'
<1> SUFFICES ASSUME TypeInv, TickStep PROVE TypeInv' OBVIOUS
<1>1. RailCharge(rows, rail) \in [Ops -> Int]
  <2>1. RailCharge(rows, rail) \in [Ops -> Nat]
    BY RailChargeType DEF TypeInv, TypeOK, RowTable
  <2> QED BY <2>1
<1>2. NoCharge \in [Ops -> Int] BY DEF NoCharge
<1> USE DEF TypeInv, TypeOK, LockInv, ledgerVars, budgetVars, tickVars, intentVars, histVars, bounds
<1>3. CASE TickStart
  <2>0. /\ tick' = "sync"
        /\ UNCHANGED <<ledgerVars, chain, budgetVars, ready, rail, intentVars, sweep, histVars, crashes>>
    BY <1>3 DEF TickStart
  <2>1. CASE UNCHANGED <<active, rearms>>
    <3>1. TypeOK' BY <2>0, <2>1
    <3>2. LockInv' BY <2>0
    <3> QED BY <3>1, <3>2
  <2>2. CASE active' = FALSE /\ rearms' = rearms + 1
    <3>1. active' \in BOOLEAN BY <2>2
    <3>2. rearms' \in Nat
      <4>1. rearms \in Nat OBVIOUS
      <4> QED BY <4>1, <2>2
    <3>3. TypeOK' BY <2>0, <3>1, <3>2
    <3>4. LockInv' BY <2>0
    <3> QED BY <3>3, <3>4
  <2> QED BY <1>3, <2>1, <2>2 DEF TickStart
<1>4. CASE GrantUnchanged BY <1>4 DEF GrantUnchanged
<1>11. CASE GrantGone
  <2>1. /\ tick' = "sleep" /\ active' = FALSE /\ rearms' = rearms + 1 /\ rearms \in Nat
        /\ UNCHANGED <<ledgerVars, chain, budgetVars, ready, rail, intentVars, sweep, histVars, crashes>>
    BY <1>11 DEF GrantGone
  <2>2. rearms' \in Nat BY <2>1
  <2>3. active' \in BOOLEAN BY <2>1
  <2>4. TypeOK' BY <2>1, <2>2, <2>3
  <2>5. LockInv' BY <2>1
  <2> QED BY <2>4, <2>5
<1>5. CASE Arm
  <2>1. rearms' \in Nat BY <1>5 DEF Arm
  <2> QED BY <1>2, <1>5, <2>1 DEF Arm
<1>6. CASE Seed BY <1>1, <1>6 DEF Seed
<1>7. CASE RefreshBudget BY <1>1, <1>7 DEF RefreshBudget
<1>8. CASE ReadBook BY <1>8 DEF ReadBook
<1>9. CASE HoldTick BY <1>9 DEF HoldTick
<1>10. CASE TickEnd BY <1>10 DEF TickEnd
<1> QED BY <1>3, <1>4, <1>5, <1>6, <1>7, <1>8, <1>9, <1>10, <1>11 DEF TickStep

LEMMA TypeEnvironment == TypeInv /\ (ChainStep \/ Crash) => TypeInv'
<1> SUFFICES ASSUME TypeInv, ChainStep \/ Crash PROVE TypeInv' OBVIOUS
<1> USE DEF TypeInv, TypeOK, LockInv, ledgerVars, budgetVars, tickVars, intentVars, histVars, bounds
<1>1. CASE ChainStep BY <1>1 DEF ChainStep, ChainStates
<1>2. CASE Crash
  <2>1. NoCharge \in [Ops -> Int] /\ NoRows \in [Ops -> [Statuses -> Nat]]
    BY DEF NoCharge, NoRows
  <2>2. rows' \in [Ops -> [Statuses -> Nat]] /\ paperBook' \subseteq Ops
    BY <1>2, <2>1 DEF Crash
  <2>3. rail' \in Rails BY <1>2 DEF Crash, Rails
  <2>4. sweep' \in [Sweeps -> SUBSET (Ops \X Outcomes)] BY <1>2 DEF Crash
  <2>5. /\ settled' = NoCharge /\ inFlight' = NoCharge
        /\ active' = FALSE /\ ready' = FALSE /\ tick' = "sleep"
        /\ refused' = {} /\ unrecorded' = {} /\ crashes' \in Nat
        /\ UNCHANGED <<chain, proposed, rearms>>
        /\ pc' = "free" /\ cur' = NoOp /\ reserved' = FALSE
    BY <1>2 DEF Crash, Unlock
  <2>6. LockInv' BY <2>5, ConstantsAssumption DEF LockInv
  <2>7. TypeOK' BY <2>1, <2>2, <2>3, <2>4, <2>5 DEF TypeOK
  <2> QED BY <2>6, <2>7
<1> QED BY <1>1, <1>2

LEMMA TypeStep == TypeInv /\ [Next]_vars => TypeInv'
<1>1. TypeInv /\ UNCHANGED vars => TypeInv'
  BY DEF vars, TypeInv, TypeOK, LockInv, ledgerVars, budgetVars, tickVars, intentVars, histVars, bounds
<1> QED BY <1>1, TypeIntent, TypeSweep, TypeTick, TypeEnvironment DEF Next

(* Every reachable state is typed and its intent lock consistent.          *)
LEMMA TypeAlways == Spec => []TypeInv
BY TypeInit, TypeStep, PTL DEF Spec

(* The types hold in every reachable state, for every set of intents and   *)
(* every set of faults.                                                    *)
THEOREM TypeCorrect == Spec => []TypeOK
<1>1. TypeInv => TypeOK BY DEF TypeInv
<1> QED BY <1>1, TypeAlways, PTL


-----------------------------------------------------------------------------
(* The ledger is truthful.                                                 *)

(* What the chain's word on an operation has to be for a row to say so.    *)
Fate(st) == IF st = "landed" THEN "success" ELSE "reverted"

(* The chain knows only proposed operations, and the lock holder's phase   *)
(* says what the chain can have done with its operation.                   *)
PhaseInv ==
  /\ \A o \in Ops \ proposed : chain[o] = "none" /\ rows[o]["submitted"] = 0
  /\ pc \in {"paper", "build"} => chain[cur] = "none" /\ rows[cur]["submitted"] = 0
  /\ pc = "send" => chain[cur] = "none"
  /\ pc = "record" => chain[cur] = "success"

(* What a sweep read from the chain stays true until it is written: an     *)
(* outcome is final.                                                       *)
SweepInv == \A k \in Sweeps : \A p \in sweep[k] : chain[p[1]] = Fate(p[2])

LedgerInv == PhaseInv /\ SweepInv /\ LedgerTruthful

LEMMA LedgerInit == Init => LedgerInv
<1> SUFFICES ASSUME Init PROVE LedgerInv OBVIOUS
<1>1. \A o \in Ops : \A st \in Statuses : rows[o][st] = 0 /\ chain[o] = "none"
  BY DEF Init, NoRows
<1>2. \A k \in Sweeps : sweep[k] = {} BY DEF Init
<1>3. pc = "free" BY DEF Init
<1> QED BY <1>1, <1>2, <1>3 DEF LedgerInv, PhaseInv, SweepInv, LedgerTruthful, Statuses

(* Settling an operation with the outcome the chain gave it keeps the      *)
(* ledger truthful and leaves no new submitted row.                        *)
LEMMA AddTradeTruthful ==
  ASSUME TypeInv, LedgerInv, NEW o \in Ops, NEW st \in Outcomes,
         chain[o] = Fate(st), rows' = AddTrade(rows, o, st), chain' = chain
  PROVE  /\ LedgerTruthful'
         /\ \A p \in Ops : rows[p]["submitted"] = 0 => rows'[p]["submitted"] = 0
<1>1. rows \in RowTable BY DEF TypeInv, TypeOK, RowTable
<1>2. /\ rows' \in RowTable
      /\ \A p \in Ops \ {o} : rows'[p] = rows[p]
      /\ rows'[o]["submitted"] = 0
      /\ \A s \in Statuses \ {"submitted", st} : rows'[o][s] = rows[o][s]
  BY <1>1, AddTradeFacts
<1>3. st \in {"landed", "reverted"} BY DEF Outcomes
<1>4. LedgerTruthful'
  BY <1>2, <1>3 DEF LedgerInv, LedgerTruthful, Fate, Statuses
<1>5. \A p \in Ops : rows[p]["submitted"] = 0 => rows'[p]["submitted"] = 0
  BY <1>2
<1> QED BY <1>4, <1>5

(* Writing a row that is neither 'landed' nor 'reverted' asserts nothing.  *)
LEMMA InsertTradeTruthful ==
  ASSUME TypeInv, LedgerTruthful, NEW o \in Ops, NEW st \in {"submitted", "paper"},
         rows' = InsertTrade(rows, o, st), chain' = chain
  PROVE  LedgerTruthful'
<1>1. rows \in RowTable /\ st \in Statuses
  BY DEF TypeInv, TypeOK, RowTable, Statuses
<1>2. /\ \A p \in Ops \ {o} : rows'[p] = rows[p]
      /\ \A s \in Statuses \ {st} : rows'[o][s] = rows[o][s]
  BY <1>1, InsertTradeFacts
<1> QED BY <1>2 DEF LedgerTruthful, Statuses

LEMMA LedgerIntent == TypeInv /\ LedgerInv /\ IntentStep => LedgerInv'
<1> SUFFICES ASSUME TypeInv, LedgerInv, IntentStep PROVE LedgerInv' OBVIOUS
<1>1. /\ pc # "free" => cur \in Ops /\ cur \in proposed
      /\ rows \in RowTable /\ chain \in [Ops -> ChainStates]
  BY DEF TypeInv, TypeOK, LockInv, RowTable
<1> DEFINE KeepsLedger == UNCHANGED <<rows, chain, sweep>> /\ proposed \subseteq proposed'
<1>2. ASSUME KeepsLedger, pc' = "free" PROVE LedgerInv'
  BY <1>2 DEF LedgerInv, PhaseInv, SweepInv, LedgerTruthful
<1> USE DEF ledgerVars, budgetVars, tickVars, histVars, bounds
<1>11. ASSUME NEW o \in Ops, Reject(o) PROVE LedgerInv'
  BY <1>2, <1>11 DEF Reject, MaySubmit
<1>12. ASSUME NEW o \in Ops, AdmitLive(o) \/ AdmitPaper(o) PROVE LedgerInv'
  <2>1. /\ UNCHANGED <<rows, chain, sweep>> /\ proposed' = proposed \cup {o}
        /\ cur' = o /\ pc' \in {"build", "paper"} /\ o \notin proposed
    BY <1>12 DEF AdmitLive, AdmitPaper, MaySubmit
  <2> QED BY <2>1 DEF LedgerInv, PhaseInv, SweepInv, LedgerTruthful
<1>13. ASSUME NEW led, RecordTrade(led), pc # "free",
              \/ led = rows
              \/ pc = "paper" /\ led = InsertTrade(rows, cur, "paper")
              \/ pc = "record" /\ led = AddTrade(rows, cur, "landed")
       PROVE  LedgerInv'
  <2>1. rows' = led /\ pc' = "free" /\ UNCHANGED <<chain, sweep, proposed>>
    BY <1>13 DEF RecordTrade, Unlock
  <2>2. CASE led = rows BY <1>2, <2>1, <2>2
  <2>3. CASE pc = "paper" /\ led = InsertTrade(rows, cur, "paper")
    <3>1. LedgerTruthful' BY <1>1, <2>1, <2>3, InsertTradeTruthful DEF LedgerInv
    <3>2. \A p \in Ops : rows'[p]["submitted"] = rows[p]["submitted"]
      <4>1. cur \in Ops /\ "paper" \in Statuses /\ "submitted" \in Statuses \ {"paper"}
        BY <1>1, <2>3 DEF Statuses
      <4>2. /\ \A p \in Ops \ {cur} : rows'[p] = rows[p]
            /\ rows'[cur]["submitted"] = rows[cur]["submitted"]
        BY <1>1, <2>1, <2>3, <4>1, InsertTradeFacts
      <4> QED BY <4>2
    <3> QED BY <2>1, <3>1, <3>2 DEF LedgerInv, PhaseInv, SweepInv
  <2>4. CASE pc = "record" /\ led = AddTrade(rows, cur, "landed")
    <3>1. cur \in Ops /\ "landed" \in Outcomes /\ chain[cur] = Fate("landed")
      BY <1>1, <2>4 DEF LedgerInv, PhaseInv, Fate, Outcomes
    <3>2. /\ LedgerTruthful'
          /\ \A p \in Ops : rows[p]["submitted"] = 0 => rows'[p]["submitted"] = 0
      BY <2>1, <2>4, <3>1, AddTradeTruthful
    <3> QED BY <2>1, <3>2 DEF LedgerInv, PhaseInv, SweepInv
  <2> QED BY <1>13, <2>2, <2>3, <2>4
<1>14. CASE PaperRecord BY <1>13, <1>14 DEF PaperRecord
<1>15. CASE PaperRecordFails \/ PaperThrows \/ RecordLandedFails
  BY <1>2, <1>15 DEF PaperRecordFails, PaperThrows, RecordLandedFails, RecordFails, Unlock
<1>16. CASE BuildRefused \/ NotRecorded
  BY <1>13, <1>16 DEF BuildRefused, NotRecorded
<1>17. CASE OnSubmitted
  <2>1. /\ pc = "build" /\ pc' = "send" /\ rows' = InsertTrade(rows, cur, "submitted")
        /\ UNCHANGED <<chain, sweep, proposed, cur>>
    BY <1>17 DEF OnSubmitted
  <2>2. LedgerTruthful' BY <1>1, <2>1, InsertTradeTruthful DEF LedgerInv
  <2>3. \A p \in Ops \ {cur} : rows'[p] = rows[p]
    BY <1>1, <2>1, InsertTradeFacts DEF Statuses
  <2> QED BY <1>1, <2>1, <2>2, <2>3 DEF LedgerInv, PhaseInv, SweepInv
<1>18. ASSUME NEW fate \in {"none", "pending"}, pc = "send",
              chain' = [chain EXCEPT ![cur] = fate], pc' \in {"free", "wait"},
              UNCHANGED <<rows, proposed, sweep>>
       PROVE  LedgerInv'
  <2>1. cur \in Ops /\ chain[cur] = "none" BY <1>1, <1>18 DEF LedgerInv, PhaseInv
  <2>2. chain'[cur] = fate /\ \A p \in Ops \ {cur} : chain'[p] = chain[p]
    BY <1>1, <1>18
  <2>3. LedgerTruthful' BY <1>18, <2>1, <2>2 DEF LedgerInv, LedgerTruthful
  <2>4. SweepInv'
    <3> SUFFICES ASSUME NEW k \in Sweeps, NEW p \in sweep[k] PROVE chain'[p[1]] = Fate(p[2])
      BY <1>18 DEF SweepInv
    <3>1. chain[p[1]] = Fate(p[2]) /\ p[1] \in Ops
      BY DEF LedgerInv, SweepInv, TypeInv, TypeOK
    <3>2. p[1] # cur BY <2>1, <3>1 DEF Fate
    <3> QED BY <2>2, <3>1, <3>2
  <2>5. PhaseInv' BY <1>1, <1>18, <2>1, <2>2 DEF LedgerInv, PhaseInv
  <2> QED BY <2>3, <2>4, <2>5 DEF LedgerInv
<1>19. CASE SendUserOperation BY <1>18, <1>19 DEF SendUserOperation
<1>20. CASE SendUnresolved
  BY <1>18, <1>20 DEF SendUnresolved, LeaveSubmitted, Unlock
<1>21. CASE ReceiptSuccess
  BY <1>21 DEF ReceiptSuccess, LedgerInv, PhaseInv, SweepInv, LedgerTruthful
<1>22. CASE ReceiptReverted \/ Unresolved
  BY <1>2, <1>22 DEF ReceiptReverted, Unresolved, LeaveSubmitted, Unlock
<1>23. CASE RecordLanded BY <1>13, <1>23 DEF RecordLanded
<1> QED
  BY <1>11, <1>12, <1>14, <1>15, <1>16, <1>17, <1>19, <1>20, <1>21, <1>22, <1>23
  DEF IntentStep

LEMMA LedgerSweep == TypeInv /\ LedgerInv /\ SweepStep => LedgerInv'
<1> SUFFICES ASSUME TypeInv, LedgerInv, SweepStep PROVE LedgerInv' OBVIOUS
<1> USE DEF ledgerVars, budgetVars, intentVars, histVars, bounds
<1>1. /\ \A p \in Resolvable : chain[p[1]] = Fate(p[2])
      /\ \A p \in Orphans : chain[p[1]] = Fate(p[2])
  BY DEF Resolvable, Orphans, Fate, Outcomes
<1>2. sweep \in [Sweeps -> SUBSET (Ops \X Outcomes)] BY DEF TypeInv, TypeOK
<1>3. ASSUME NEW found, NEW k \in Sweeps, \A p \in found : chain[p[1]] = Fate(p[2]),
             sweep' = [sweep EXCEPT ![k] = found],
             UNCHANGED <<rows, chain, pc, cur, proposed>>
      PROVE  LedgerInv'
  <2>1. SweepInv' BY <1>2, <1>3 DEF LedgerInv, SweepInv
  <2> QED BY <1>3, <2>1 DEF LedgerInv, PhaseInv, LedgerTruthful
<1>4. "arm" \in Sweeps /\ "tick" \in Sweeps BY DEF Sweeps
<1>5. CASE ArmResolve BY <1>1, <1>3, <1>4, <1>5 DEF ArmResolve
<1>6. CASE ArmOrphans BY <1>1, <1>3, <1>4, <1>6 DEF ArmOrphans
<1>7. CASE ArmSkip
  BY <1>7 DEF ArmSkip, LedgerInv, PhaseInv, SweepInv, LedgerTruthful
<1>8. ASSUME NEW found \in SUBSET Resolvable, StrandedResolve(found) PROVE LedgerInv'
  BY <1>1, <1>3, <1>4, <1>8 DEF StrandedResolve
<1>9. ASSUME NEW k \in Sweeps, SweepWrite(k) PROVE LedgerInv'
  <2>1. PICK p \in sweep[k] : /\ rows' = AddTrade(rows, p[1], p[2])
                              /\ sweep' = [sweep EXCEPT ![k] = @ \ {p}]
    BY <1>9 DEF SweepWrite
  <2>2. UNCHANGED <<chain, pc, cur, proposed>> BY <1>9 DEF SweepWrite
  <2>3. p[1] \in Ops /\ p[2] \in Outcomes /\ chain[p[1]] = Fate(p[2])
    BY <1>2 DEF LedgerInv, SweepInv
  <2>4. /\ LedgerTruthful'
        /\ \A q \in Ops : rows[q]["submitted"] = 0 => rows'[q]["submitted"] = 0
    BY <2>1, <2>2, <2>3, AddTradeTruthful
  <2>5. SweepInv' BY <1>2, <2>1, <2>2 DEF LedgerInv, SweepInv
  <2>6. pc # "free" => cur \in Ops BY DEF TypeInv, TypeOK, LockInv
  <2> QED BY <2>2, <2>4, <2>5, <2>6 DEF LedgerInv, PhaseInv
<1>10. ASSUME NEW k \in Sweeps, SweepWriteFails(k) PROVE LedgerInv'
  <2>1. PICK p \in sweep[k] : sweep' = [sweep EXCEPT ![k] = @ \ {p}]
    BY <1>10 DEF SweepWriteFails
  <2>2. sweep' = [sweep EXCEPT ![k] = sweep[k] \ {p}] BY <2>1
  <2>3. \A q \in sweep[k] \ {p} : chain[q[1]] = Fate(q[2]) BY DEF LedgerInv, SweepInv
  <2> QED BY <1>3, <1>10, <2>2, <2>3 DEF SweepWriteFails
<1> QED BY <1>5, <1>6, <1>7, <1>8, <1>9, <1>10 DEF SweepStep

LEMMA LedgerOther == TypeInv /\ LedgerInv /\ (TickStep \/ ChainStep \/ Crash) => LedgerInv'
<1> SUFFICES ASSUME TypeInv, LedgerInv, TickStep \/ ChainStep \/ Crash PROVE LedgerInv'
  OBVIOUS
<1> USE DEF ledgerVars, budgetVars, tickVars, intentVars, histVars, bounds
<1>1. CASE TickStep
  <2>1. UNCHANGED <<rows, chain, pc, cur, proposed, sweep>>
    BY <1>1 DEF TickStep, TickStart, GrantGone, GrantUnchanged, Arm, Seed, RefreshBudget,
       ReadBook, HoldTick, TickEnd
  <2> QED BY <2>1 DEF LedgerInv, PhaseInv, SweepInv, LedgerTruthful
<1>2. CASE ChainStep
  <2>1. PICK o \in Ops, fate \in {"success", "reverted", "dropped"} :
          /\ chain[o] = "pending" /\ chain' = [chain EXCEPT ![o] = fate]
          /\ UNCHANGED <<rows, pc, cur, proposed, sweep>>
    BY <1>2 DEF ChainStep
  <2>2. \A p \in Ops : chain[p] # "pending" => chain'[p] = chain[p]
    BY <2>1 DEF TypeInv, TypeOK
  <2>3. pc # "free" => cur \in Ops BY DEF TypeInv, TypeOK, LockInv
  <2>4. PhaseInv' BY <2>1, <2>2, <2>3 DEF LedgerInv, PhaseInv
  <2>5. \A k \in Sweeps : \A p \in sweep[k] : p[1] \in Ops BY DEF TypeInv, TypeOK
  <2>6. SweepInv' BY <2>1, <2>2, <2>5 DEF LedgerInv, SweepInv, Fate
  <2>7. LedgerTruthful' BY <2>1, <2>2 DEF LedgerInv, LedgerTruthful
  <2> QED BY <2>4, <2>6, <2>7 DEF LedgerInv
<1>3. CASE Crash
  <2>1. /\ rows' = rows \/ rows' = NoRows
        /\ UNCHANGED <<chain, proposed>> /\ pc' = "free"
        /\ \A k \in Sweeps : sweep'[k] = {}
    BY <1>3 DEF Crash, Unlock
  <2>2. \A o \in Ops, st \in Statuses : NoRows[o][st] = 0 BY DEF NoRows
  <2> QED BY <2>1, <2>2 DEF LedgerInv, PhaseInv, SweepInv, LedgerTruthful, Statuses
<1> QED BY <1>1, <1>2, <1>3

LEMMA LedgerStep == TypeInv /\ LedgerInv /\ [Next]_vars => LedgerInv'
<1>1. TypeInv /\ LedgerInv /\ UNCHANGED vars => LedgerInv'
  BY DEF vars, LedgerInv, PhaseInv, SweepInv, LedgerTruthful, ledgerVars, budgetVars,
     tickVars, intentVars, histVars, bounds
<1> QED BY <1>1, LedgerIntent, LedgerSweep, LedgerOther DEF Next

LEMMA LedgerAlways == Spec => [](TypeInv /\ LedgerInv)
<1>1. Init => TypeInv /\ LedgerInv BY TypeInit, LedgerInit
<1>2. TypeInv /\ LedgerInv /\ [Next]_vars => (TypeInv /\ LedgerInv)'
  BY TypeStep, LedgerStep
<1> QED BY <1>1, <1>2, PTL DEF Spec

(* Whatever crashes, whichever write fails, however often the agent is     *)
(* re-armed and whatever a redeploy throws away: no row of the ledger says *)
(* 'landed' or 'reverted' of an operation the chain says otherwise about.  *)
THEOREM LedgerIsTruthful == Spec => []LedgerTruthful
<1>1. TypeInv /\ LedgerInv => LedgerTruthful BY DEF LedgerInv
<1> QED BY <1>1, LedgerAlways, PTL


-----------------------------------------------------------------------------
(* No blind broadcast.                                                     *)

LiveRow(o) == \E s \in {"submitted", "landed", "reverted"} : rows[o][s] > 0

SendInv == pc = "send" => LiveRow(cur)

DurableInv == NoBlindBroadcast /\ SendInv

(* Only a redeploy takes the last live row of an operation away.           *)
LEMMA RowsStay ==
  ASSUME TypeInv, LedgerInv, Next, "redeploy" \notin Faults, NEW o \in Ops, LiveRow(o)
  PROVE  LiveRow(o)'
<1>1. rows \in RowTable /\ (pc # "free" => cur \in Ops)
  BY DEF TypeInv, TypeOK, LockInv, RowTable
<1>2. ASSUME NEW c \in Ops, NEW st \in {"submitted", "paper"}, rows' = InsertTrade(rows, c, st)
      PROVE  LiveRow(o)'
  <2>1. st \in Statuses BY DEF Statuses
  <2>2. /\ \A p \in Ops \ {c} : rows'[p] = rows[p]
        /\ rows'[c][st] = rows[c][st] + 1
        /\ \A s \in Statuses \ {st} : rows'[c][s] = rows[c][s]
    BY <1>1, <1>2, <2>1, InsertTradeFacts
  <2>3. rows[c][st] \in Nat BY <1>1, <2>1 DEF RowTable
  <2> QED BY <2>1, <2>2, <2>3 DEF LiveRow, Statuses
<1>3. ASSUME NEW c \in Ops, NEW st \in Outcomes, rows' = AddTrade(rows, c, st)
      PROVE  LiveRow(o)'
  <2>1. /\ \A p \in Ops \ {c} : rows'[p] = rows[p]
        /\ rows'[c][st] > 0
    BY <1>1, <1>3, AddTradeFacts
  <2> QED BY <2>1 DEF LiveRow, Outcomes
<1>4. CASE UNCHANGED rows BY <1>4 DEF LiveRow
<1> USE DEF ledgerVars
<1>5. CASE IntentStep
  <2>1. ASSUME NEW p \in Ops, Reject(p) \/ AdmitLive(p) \/ AdmitPaper(p) PROVE UNCHANGED rows
    BY <2>1 DEF Reject, AdmitLive, AdmitPaper
  <2>2. CASE PaperRecord BY <1>1, <1>2, <2>2 DEF PaperRecord, RecordTrade
  <2>3. CASE OnSubmitted BY <1>1, <1>2, <2>3 DEF OnSubmitted
  <2>4. CASE RecordLanded
    BY <1>1, <1>3, <2>4 DEF RecordLanded, RecordTrade, Outcomes
  <2>5. CASE BuildRefused \/ NotRecorded
    BY <1>4, <2>5 DEF BuildRefused, NotRecorded, RecordTrade
  <2>6. CASE PaperRecordFails \/ PaperThrows \/ RecordLandedFails \/ SendUserOperation \/ SendUnresolved
               \/ ReceiptSuccess \/ ReceiptReverted \/ Unresolved
    BY <1>4, <2>6 DEF PaperRecordFails, PaperThrows, RecordLandedFails, RecordFails, SendUserOperation,
       SendUnresolved, ReceiptSuccess, ReceiptReverted, Unresolved
  <2> QED BY <1>4, <1>5, <2>1, <2>2, <2>3, <2>4, <2>5, <2>6 DEF IntentStep
<1>6. CASE SweepStep
  <2>1. ASSUME NEW k \in Sweeps, SweepWrite(k) PROVE LiveRow(o)'
    <3>1. PICK p \in sweep[k] : rows' = AddTrade(rows, p[1], p[2])
      BY <2>1 DEF SweepWrite
    <3>2. p[1] \in Ops /\ p[2] \in Outcomes BY DEF TypeInv, TypeOK
    <3> QED BY <1>3, <3>1, <3>2
  <2>2. ASSUME NEW found \in SUBSET Resolvable, StrandedResolve(found) PROVE UNCHANGED rows
    BY <2>2 DEF StrandedResolve
  <2>3. ASSUME NEW k \in Sweeps, SweepWriteFails(k) PROVE UNCHANGED rows
    BY <2>3 DEF SweepWriteFails
  <2>4. CASE ArmResolve \/ ArmOrphans \/ ArmSkip
    BY <1>4, <2>4 DEF ArmResolve, ArmOrphans, ArmSkip
  <2> QED BY <1>4, <1>6, <2>1, <2>2, <2>3, <2>4 DEF SweepStep
<1>7. CASE TickStep
  BY <1>4, <1>7 DEF TickStep, TickStart, GrantGone, GrantUnchanged, Arm, Seed, RefreshBudget,
     ReadBook, HoldTick, TickEnd
<1>8. CASE ChainStep BY <1>4, <1>8 DEF ChainStep
<1>9. CASE Crash BY <1>4, <1>9 DEF Crash
<1> QED BY <1>5, <1>6, <1>7, <1>8, <1>9 DEF Next

(* An operation leaves the "none" state of the chain only when it is sent, *)
(* and it is sent only from the phase its row was written in.              *)
LEMMA ChainLeavesNone ==
  ASSUME TypeInv, LedgerInv, Next, NEW o \in Ops, chain[o] = "none", chain'[o] # "none"
  PROVE  /\ SendUserOperation \/ SendUnresolved
         /\ o = cur /\ pc = "send" /\ chain'[o] = "pending"
<1> USE DEF ledgerVars, budgetVars, tickVars, intentVars, histVars, bounds
<1>1. chain \in [Ops -> ChainStates] BY DEF TypeInv, TypeOK
<1>2. ~UNCHANGED chain OBVIOUS
<1>3. ~SweepStep
  BY <1>2 DEF SweepStep, ArmResolve, ArmOrphans, ArmSkip, StrandedResolve, SweepWrite, SweepWriteFails
<1>4. ~TickStep
  BY <1>2 DEF TickStep, TickStart, GrantGone, GrantUnchanged, Arm, Seed, RefreshBudget,
     ReadBook, HoldTick, TickEnd
<1>5. ~Crash BY <1>2 DEF Crash
<1>6. ~ChainStep BY <1>1 DEF ChainStep
<1>7. IntentStep BY <1>3, <1>4, <1>5, <1>6 DEF Next
<1>8. SendUserOperation \/ SendUnresolved
  BY <1>2, <1>7 DEF IntentStep, Reject, AdmitLive, AdmitPaper, PaperRecord, PaperRecordFails, PaperThrows,
     RecordTrade, RecordFails, BuildRefused, OnSubmitted, NotRecorded, ReceiptSuccess,
     ReceiptReverted, Unresolved, RecordLanded, RecordLandedFails
<1> QED BY <1>1, <1>8 DEF SendUserOperation, SendUnresolved

LEMMA DurableStep ==
  TypeInv /\ LedgerInv /\ "redeploy" \notin Faults /\ DurableInv /\ [Next]_vars => DurableInv'
<1> SUFFICES ASSUME TypeInv, LedgerInv, "redeploy" \notin Faults, DurableInv, [Next]_vars
             PROVE  DurableInv'
  OBVIOUS
<1>1. CASE UNCHANGED vars
  BY <1>1 DEF vars, DurableInv, NoBlindBroadcast, SendInv, LiveRow, ledgerVars, budgetVars,
     tickVars, intentVars, histVars, bounds
<1>2. CASE Next
  <2>1. NoBlindBroadcast'
    <3> SUFFICES ASSUME NEW o \in Ops, chain'[o] # "none" PROVE LiveRow(o)'
      BY DEF NoBlindBroadcast, LiveRow
    <3>1. LiveRow(o)
      <4>1. CASE chain[o] = "none"
        BY <1>2, <4>1, ChainLeavesNone DEF DurableInv, SendInv
      <4>2. CASE chain[o] # "none" BY <4>2 DEF DurableInv, NoBlindBroadcast, LiveRow
      <4> QED BY <4>1, <4>2
    <3> QED BY <1>2, <3>1, RowsStay
  <2>2. SendInv'
    <3> SUFFICES ASSUME pc' = "send" PROVE LiveRow(cur)' BY DEF SendInv
    <3>1. (pc = "send" /\ UNCHANGED cur) \/ OnSubmitted
      BY <1>2 DEF Next, IntentStep, Reject, AdmitLive, AdmitPaper, PaperRecord, PaperRecordFails, PaperThrows,
         RecordTrade, RecordFails, BuildRefused, NotRecorded, SendUserOperation, SendUnresolved,
         ReceiptSuccess, ReceiptReverted, Unresolved, LeaveSubmitted, Unlock, RecordLanded,
         RecordLandedFails, SweepStep, ArmResolve, ArmOrphans, ArmSkip, StrandedResolve,
         SweepWrite, SweepWriteFails, TickStep, TickStart, GrantGone, GrantUnchanged, Arm, Seed,
         RefreshBudget, ReadBook, HoldTick, TickEnd, ChainStep, Crash, intentVars
    <3>2. pc # "free" => cur \in Ops BY DEF TypeInv, TypeOK, LockInv
    <3>3. CASE pc = "send" /\ UNCHANGED cur
      <4>1. LiveRow(cur) BY <3>3 DEF DurableInv, SendInv
      <4>2. \A o \in Ops : LiveRow(o) => LiveRow(o)' BY <1>2, RowsStay
      <4> QED BY <3>2, <3>3, <4>1, <4>2 DEF LiveRow
    <3>4. CASE OnSubmitted
      <4>1. cur \in Ops /\ cur' = cur /\ rows' = InsertTrade(rows, cur, "submitted")
        BY <3>2, <3>4 DEF OnSubmitted
      <4>2. rows \in RowTable /\ "submitted" \in Statuses
        BY DEF TypeInv, TypeOK, RowTable, Statuses
      <4>3. rows'[cur]["submitted"] = rows[cur]["submitted"] + 1 /\ rows[cur]["submitted"] \in Nat
        BY <4>1, <4>2, InsertTradeFacts DEF RowTable
      <4>4. rows'[cur]["submitted"] > 0 BY <4>3
      <4> QED BY <4>1, <4>4 DEF LiveRow
    <3> QED BY <3>1, <3>3, <3>4
  <2> QED BY <2>1, <2>2 DEF DurableInv
<1> QED BY <1>1, <1>2

(* Without a redeploy, no operation is ever out without a ledger row that  *)
(* a sweep can find it by: not after a crash between the row and the send, *)
(* a failed write, a lost answer of the bundler, or a sweep's own writes.  *)
THEOREM NothingIsBroadcastBlind ==
  ASSUME "redeploy" \notin Faults
  PROVE  Spec => []NoBlindBroadcast
<1>1. Init => DurableInv
  <2> SUFFICES ASSUME Init PROVE DurableInv OBVIOUS
  <2>1. pc = "free" /\ \A o \in Ops : chain[o] = "none" BY DEF Init
  <2> QED BY <2>1 DEF DurableInv, NoBlindBroadcast, SendInv
<1>2. (TypeInv /\ LedgerInv) /\ DurableInv /\ [Next]_vars => DurableInv'
  BY DurableStep
<1>3. DurableInv => NoBlindBroadcast BY DEF DurableInv
<1> QED BY <1>1, <1>2, <1>3, LedgerAlways, PTL DEF Spec


-----------------------------------------------------------------------------
(* The reservation balances.                                               *)

(* A disarmed agent has nothing in flight, so arming clears nothing.       *)
ReserveInv == ReservationBalanced /\ (~active => pc = "free")

LEMMA ReleasedEmpty == ReservationBalanced => Released = NoCharge
<1> SUFFICES ASSUME ReservationBalanced PROVE Released = NoCharge OBVIOUS
<1>1. CASE reserved
  <2>1. inFlight = [o \in Ops |-> IF o = cur THEN 1 ELSE 0]
    BY <1>1 DEF ReservationBalanced
  <2>2. Released = [inFlight EXCEPT ![cur] = inFlight[cur] - 1] BY <1>1 DEF Released
  <2>3. [inFlight EXCEPT ![cur] = inFlight[cur] - 1]
          = [o \in Ops |-> IF o = cur THEN inFlight[cur] - 1 ELSE inFlight[o]]
    BY <2>1
  <2>4. \A o \in Ops : (IF o = cur THEN inFlight[cur] - 1 ELSE inFlight[o]) = 0
    BY <2>1
  <2> QED BY <2>2, <2>3, <2>4 DEF NoCharge
<1>2. CASE ~reserved BY <1>2 DEF Released, ReservationBalanced, NoCharge
<1> QED BY <1>1, <1>2

LEMMA ReserveStep ==
  TypeInv /\ "late-rearm" \notin Faults /\ ReserveInv /\ [Next]_vars => ReserveInv'
<1> SUFFICES ASSUME TypeInv, "late-rearm" \notin Faults, ReserveInv, [Next]_vars
             PROVE  ReserveInv'
  OBVIOUS
<1> USE DEF ledgerVars, budgetVars, tickVars, intentVars, histVars, bounds
<1>1. ASSUME UNCHANGED <<inFlight, reserved, cur>>, active' = active, pc' = pc \/ active
      PROVE  ReserveInv'
  BY <1>1 DEF ReserveInv, ReservationBalanced
<1>2. ASSUME inFlight' = NoCharge, reserved' = FALSE, pc' = "free" PROVE ReserveInv'
  BY <1>2 DEF ReserveInv, ReservationBalanced, NoCharge
<1>3. Released = NoCharge BY ReleasedEmpty DEF ReserveInv
<1>4. pc # "free" => active BY DEF ReserveInv
<1>5. ASSUME RecordFails \/ (\E led : RecordTrade(led)) PROVE ReserveInv'
  BY <1>2, <1>3, <1>5 DEF RecordFails, RecordTrade, Unlock
<1>6. CASE IntentStep
  <2>1. ASSUME NEW o \in Ops, Reject(o) PROVE ReserveInv' BY <1>1, <2>1 DEF Reject
  <2>2. ASSUME NEW o \in Ops, AdmitLive(o) \/ AdmitPaper(o) PROVE ReserveInv'
    <3>1. /\ pc = "free" /\ active /\ UNCHANGED active
          /\ cur' = o /\ reserved' = TRUE /\ inFlight' = [inFlight EXCEPT ![o] = @ + 1]
      BY <2>2 DEF AdmitLive, AdmitPaper, MaySubmit
    <3>2. inFlight = [p \in Ops |-> 0]
      BY <3>1 DEF TypeInv, LockInv, ReserveInv, ReservationBalanced
    <3>3. inFlight' = [p \in Ops |-> IF p = o THEN 1 ELSE 0] BY <3>1, <3>2
    <3> QED BY <3>1, <3>3 DEF ReserveInv, ReservationBalanced
  <2>3. CASE PaperRecord \/ PaperRecordFails \/ BuildRefused \/ NotRecorded
               \/ RecordLanded \/ RecordLandedFails
    BY <1>5, <2>3 DEF PaperRecord, PaperRecordFails, BuildRefused, NotRecorded, RecordLanded,
       RecordLandedFails
  <2>4. CASE OnSubmitted \/ SendUserOperation \/ ReceiptSuccess
    BY <1>1, <1>4, <2>4 DEF OnSubmitted, SendUserOperation, ReceiptSuccess
  <2>5. CASE SendUnresolved \/ ReceiptReverted \/ Unresolved
    BY <1>2, <1>3, <2>5 DEF SendUnresolved, ReceiptReverted, Unresolved, LeaveSubmitted, Unlock
  <2>6. CASE PaperThrows BY <1>2, <1>3, <2>6 DEF PaperThrows, Unlock
  <2> QED BY <1>6, <2>1, <2>2, <2>3, <2>4, <2>5, <2>6 DEF IntentStep
<1>7. CASE SweepStep
  <2>1. UNCHANGED <<inFlight, reserved, cur, pc>> /\ active' = active
    BY <1>7 DEF SweepStep, ArmResolve, ArmOrphans, ArmSkip, StrandedResolve, SweepWrite,
       SweepWriteFails
  <2> QED BY <1>1, <2>1
<1>8. CASE TickStep
  <2>1. CASE TickStart \/ GrantGone
    <3>1. UNCHANGED <<inFlight, reserved, cur, pc>> BY <2>1 DEF TickStart, GrantGone
    <3>2. active' = active \/ pc = "free" BY <2>1 DEF TickStart, GrantGone, MayRearm
    <3> QED BY <3>1, <3>2 DEF ReserveInv, ReservationBalanced
  <2>2. CASE Arm
    <3>1. pc = "free" BY <2>2, <1>4 DEF Arm, MayRearm
    <3>2. inFlight' = NoCharge /\ reserved' = FALSE /\ pc' = "free"
      BY <2>2, <3>1 DEF Arm, TypeInv, TypeOK, LockInv
    <3> QED BY <1>2, <3>2
  <2>3. CASE GrantUnchanged \/ Seed \/ RefreshBudget \/ ReadBook \/ HoldTick \/ TickEnd
    BY <1>1, <2>3 DEF GrantUnchanged, Seed, RefreshBudget, ReadBook, HoldTick, TickEnd
  <2> QED BY <1>8, <2>1, <2>2, <2>3 DEF TickStep
<1>9. CASE ChainStep BY <1>1, <1>9 DEF ChainStep
<1>10. CASE Crash BY <1>2, <1>10 DEF Crash, Unlock
<1>11. CASE UNCHANGED vars BY <1>1, <1>11 DEF vars
<1> QED BY <1>6, <1>7, <1>8, <1>9, <1>10, <1>11 DEF Next

(* While the agent is only re-armed with no intent in flight, the in-flight *)
(* half of the budget is at every moment exactly the holder's reservation:  *)
(* no return path leaks one and none is released twice.                     *)
THEOREM ReservationIsBalanced ==
  ASSUME "late-rearm" \notin Faults
  PROVE  Spec => []ReservationBalanced
<1>1. Init => ReserveInv
  BY DEF Init, ReserveInv, ReservationBalanced, NoCharge
<1>2. TypeInv /\ ReserveInv /\ [Next]_vars => ReserveInv' BY ReserveStep
<1>3. ReserveInv => ReservationBalanced BY DEF ReserveInv
<1> QED BY <1>1, <1>2, <1>3, TypeAlways, PTL DEF Spec


-----------------------------------------------------------------------------
(* Nothing that is out is missing from the budget.                         *)

Out(o) == chain[o] \in {"pending", "success"}

BudgetInv ==
  /\ rail = "live" /\ pc # "paper"
  /\ settled \in [Ops -> Nat]
  /\ CountedBeforeTrading
  /\ \A o \in unrecorded : chain[o] = "success" /\ settled[o] >= 1

(* A ledger that has a live row for every operation the chain took, and    *)
(* says 'reverted' of none of them, charges each of them on the live rail. *)
LEMMA RereadCounts ==
  ASSUME NEW led \in RowTable, NEW o \in Ops,
         \E s \in {"submitted", "landed", "reverted"} : led[o][s] > 0,
         ~(led[o]["reverted"] > 0)
  PROVE  RailCharge(led, "live")[o] >= 1
<1>1. led[o]["landed"] \in Nat /\ led[o]["submitted"] \in Nat BY DEF RowTable, Statuses
<1>2. RailCharge(led, "live")[o] = led[o]["landed"] + led[o]["submitted"] BY DEF RailCharge
<1> QED BY <1>1, <1>2

LEMMA BudgetStep ==
  ASSUME TypeInv, LedgerInv, DurableInv, ReserveInv, BudgetInv, [Next]_vars,
         TypeInv', LedgerInv', DurableInv', ReserveInv', Faults \subseteq {"ledger"}
  PROVE  BudgetInv'
<1> USE DEF ledgerVars, budgetVars, tickVars, intentVars, histVars, bounds
<1>1. /\ rail = "live" /\ pc # "paper" /\ settled \in [Ops -> Nat]
      /\ chain \in [Ops -> ChainStates] /\ (pc # "free" => cur \in Ops /\ reserved)
      /\ inFlight \in [Ops -> Nat] /\ inFlight' \in [Ops -> Nat]
  BY DEF BudgetInv, TypeInv, TypeOK, LockInv, ReserveInv, ReservationBalanced
<1>2. Released = NoCharge /\ (~reserved => inFlight = NoCharge)
  BY ReleasedEmpty DEF ReserveInv, ReservationBalanced, NoCharge
(* A step that re-reads the ledger counts everything that is out.          *)
<1>3. ASSUME settled' = RailCharge(rows', "live"), rail' = "live", pc' # "paper",
             unrecorded' \subseteq unrecorded,
             \A o \in Ops : chain[o] = "success" => chain'[o] = "success"
      PROVE  BudgetInv'
  <2>1. rows' \in RowTable BY DEF TypeInv, TypeOK, RowTable
  <2>2. settled' \in [Ops -> Nat] BY <1>3, <2>1, RailChargeType
  <2>3. ASSUME NEW o \in Ops, Out(o)' PROVE settled'[o] >= 1
    <3>1. LiveRow(o)' /\ ~(rows'[o]["reverted"] > 0)
      BY <2>3 DEF Out, DurableInv, NoBlindBroadcast, LiveRow, LedgerInv, LedgerTruthful
    <3> QED BY <1>3, <2>1, <3>1, RereadCounts DEF LiveRow
  <2>4. \A o \in Ops : Out(o)' => settled'[o] + inFlight'[o] >= 1
    BY <1>1, <2>2, <2>3
  <2>5. \A o \in unrecorded' : o \in Ops /\ chain'[o] = "success" /\ Out(o)'
    BY <1>3 DEF BudgetInv, TypeInv, TypeOK, Out
  <2> QED BY <1>3, <2>2, <2>3, <2>4, <2>5 DEF BudgetInv, CountedBeforeTrading, Out
(* A step that leaves the budget alone, or only adds to it.                *)
<1>4. ASSUME UNCHANGED <<settled, rail>>, pc' # "paper", unrecorded' = unrecorded,
             \A o \in Ops : inFlight'[o] >= inFlight[o],
             \A o \in Ops : Out(o)' => Out(o) \/ inFlight'[o] >= 1,
             \A o \in Ops : chain[o] = "success" => chain'[o] = "success",
             ready' \/ tick' = "book" => ready \/ tick = "book"
      PROVE  BudgetInv'
  <2>1. \A o \in Ops : settled[o] \in Nat /\ inFlight[o] \in Nat /\ inFlight'[o] \in Nat
    BY <1>1
  <2>2. CountedBeforeTrading'
    BY <1>4, <2>1 DEF BudgetInv, CountedBeforeTrading, Out
  <2>3. unrecorded \subseteq Ops BY DEF TypeInv, TypeOK
  <2> QED BY <1>1, <1>4, <2>2, <2>3 DEF BudgetInv
<1>5. ASSUME UNCHANGED <<settled, inFlight, rail, chain, ready, tick, unrecorded>>, pc' # "paper"
      PROVE  BudgetInv'
  BY <1>5 DEF BudgetInv, CountedBeforeTrading
<1>6. ASSUME RecordFails, pc # "free", pc = "record" PROVE BudgetInv'
  <2>1. /\ cur \in Ops /\ reserved /\ chain[cur] = "success"
        /\ settled' = [settled EXCEPT ![cur] = @ + 1]
        /\ inFlight' = NoCharge /\ unrecorded' = unrecorded \cup {cur}
        /\ UNCHANGED <<chain, rail, ready, tick>> /\ pc' = "free"
    BY <1>1, <1>2, <1>6 DEF RecordFails, Unlock, LedgerInv, PhaseInv
  <2>2. inFlight = [o \in Ops |-> IF o = cur THEN 1 ELSE 0]
    BY <2>1 DEF ReserveInv, ReservationBalanced
  <2>3. \A o \in Ops : /\ settled[o] \in Nat /\ settled'[o] \in Nat
                       /\ settled'[o] + inFlight'[o] = settled[o] + inFlight[o]
                       /\ settled'[o] >= settled[o]
    BY <1>1, <2>1, <2>2 DEF NoCharge
  <2>4. settled' \in [Ops -> Nat] /\ settled'[cur] >= 1 BY <1>1, <2>1
  <2>5. CountedBeforeTrading' BY <2>1, <2>3 DEF BudgetInv, CountedBeforeTrading
  <2>6. unrecorded \subseteq Ops BY DEF TypeInv, TypeOK
  <2>7. \A o \in unrecorded' : chain'[o] = "success" /\ settled'[o] >= 1
    BY <2>1, <2>3, <2>4, <2>6 DEF BudgetInv
  <2> QED BY <1>1, <2>1, <2>4, <2>5, <2>7 DEF BudgetInv
<1>7. CASE IntentStep
  <2>1. ASSUME NEW o \in Ops, Reject(o) PROVE BudgetInv'
    BY <1>1, <1>3, <2>1 DEF Reject
  <2>2. ASSUME NEW o \in Ops, AdmitLive(o) PROVE BudgetInv'
    <3>1. /\ UNCHANGED <<settled, rail, chain, ready, tick, unrecorded>> /\ pc' = "build"
          /\ inFlight' = [inFlight EXCEPT ![o] = @ + 1]
      BY <2>2 DEF AdmitLive
    <3>2. \A p \in Ops : inFlight'[p] >= inFlight[p] BY <1>1, <3>1
    <3> QED BY <1>4, <3>1, <3>2 DEF Out
  <2>3. ASSUME NEW o \in Ops, AdmitPaper(o) PROVE FALSE BY <1>1, <2>3 DEF AdmitPaper
  <2>4. CASE PaperRecord \/ PaperRecordFails \/ PaperThrows
    BY <1>1, <2>4 DEF PaperRecord, PaperRecordFails, PaperThrows
  <2>5. ASSUME NEW led, RecordTrade(led) PROVE BudgetInv'
    BY <1>1, <1>3, <2>5 DEF RecordTrade, Unlock
  <2>6. CASE BuildRefused \/ NotRecorded \/ RecordLanded
    BY <2>5, <2>6 DEF BuildRefused, NotRecorded, RecordLanded
  <2>7. CASE OnSubmitted \/ ReceiptSuccess BY <1>5, <2>7 DEF OnSubmitted, ReceiptSuccess
  <2>8. CASE SendUserOperation
    <3>1. /\ pc = "send" /\ chain' = [chain EXCEPT ![cur] = "pending"] /\ pc' = "wait"
          /\ UNCHANGED <<settled, inFlight, rail, ready, tick, unrecorded>>
      BY <2>8 DEF SendUserOperation
    <3>2. cur \in Ops /\ inFlight'[cur] >= 1 /\ chain[cur] = "none"
      BY <1>1, <3>1 DEF ReserveInv, ReservationBalanced, LedgerInv, PhaseInv
    <3>3. \A o \in Ops : inFlight'[o] >= inFlight[o] BY <1>1, <3>1
    <3>4. \A o \in Ops : o # cur => chain'[o] = chain[o] BY <1>1, <3>1
    <3> QED BY <1>4, <3>1, <3>2, <3>3, <3>4 DEF Out
  <2>9. CASE SendUnresolved
    <3>1. /\ pc = "send" /\ settled' = RailCharge(rows, rail) /\ pc' = "free"
          /\ UNCHANGED <<rows, rail, ready, tick, unrecorded>>
          /\ \E fate \in {"none", "pending"} : chain' = [chain EXCEPT ![cur] = fate]
      BY <2>9 DEF SendUnresolved, LeaveSubmitted, Unlock
    <3>2. cur \in Ops /\ chain[cur] = "none" BY <1>1, <3>1 DEF LedgerInv, PhaseInv
    <3>3. \A o \in Ops : chain[o] = "success" => chain'[o] = "success" BY <1>1, <3>1, <3>2
    <3> QED BY <1>1, <1>3, <3>1, <3>3
  <2>10. CASE ReceiptReverted \/ Unresolved
    BY <1>1, <1>3, <2>10 DEF ReceiptReverted, Unresolved, LeaveSubmitted, Unlock
  <2>11. CASE RecordLandedFails BY <1>6, <2>11 DEF RecordLandedFails
  <2> QED
    BY <1>7, <2>1, <2>2, <2>3, <2>4, <2>6, <2>7, <2>8, <2>9, <2>10, <2>11 DEF IntentStep
<1>8. CASE SweepStep
  <2>1. CASE ArmResolve \/ ArmOrphans \/ ArmSkip
    <3>1. /\ UNCHANGED <<settled, inFlight, rail, chain, ready, unrecorded, pc>>
          /\ tick' # "book"
      BY <2>1 DEF ArmResolve, ArmOrphans, ArmSkip
    <3> QED BY <1>1, <3>1 DEF BudgetInv, CountedBeforeTrading
  <2>2. ASSUME NEW found, StrandedResolve(found) PROVE BudgetInv'
    BY <1>1, <1>5, <2>2 DEF StrandedResolve
  <2>3. ASSUME NEW k \in Sweeps, SweepWrite(k) \/ SweepWriteFails(k) PROVE BudgetInv'
    BY <1>1, <1>5, <2>3 DEF SweepWrite, SweepWriteFails
  <2> QED BY <1>8, <2>1, <2>2, <2>3 DEF SweepStep
<1>9. CASE TickStep
  <2>1. CASE Seed \/ RefreshBudget BY <1>1, <1>3, <2>1 DEF Seed, RefreshBudget
  <2>2. CASE Arm
    <3>1. inFlight = NoCharge BY <2>2, <1>1, <1>2 DEF Arm, MayRearm, ReserveInv, TypeInv, LockInv
    <3>2. /\ UNCHANGED <<settled, inFlight, rail, chain, ready, pc>> /\ unrecorded' = {}
          /\ tick' # "book"
      BY <2>2, <3>1 DEF Arm
    <3> QED BY <1>1, <3>2 DEF BudgetInv, CountedBeforeTrading
  <2>3. CASE ReadBook
    <3>1. /\ UNCHANGED <<settled, inFlight, chain, pc, unrecorded>> /\ rail' = rail
          /\ tick = "book"
      BY <2>3 DEF ReadBook
    <3> QED BY <1>1, <3>1 DEF BudgetInv, CountedBeforeTrading
  <2>4. CASE TickStart \/ GrantGone \/ GrantUnchanged \/ HoldTick \/ TickEnd
    <3>1. /\ UNCHANGED <<settled, inFlight, rail, chain, ready, unrecorded, pc>>
          /\ tick' # "book"
      BY <2>4 DEF TickStart, GrantGone, GrantUnchanged, HoldTick, TickEnd
    <3> QED BY <1>1, <3>1 DEF BudgetInv, CountedBeforeTrading
  <2> QED BY <1>9, <2>1, <2>2, <2>3, <2>4 DEF TickStep
<1>10. CASE ChainStep
  <2>1. PICK o \in Ops, fate \in {"success", "reverted", "dropped"} :
          /\ chain[o] = "pending" /\ chain' = [chain EXCEPT ![o] = fate]
          /\ UNCHANGED <<settled, inFlight, rail, ready, tick, pc, unrecorded>>
    BY <1>10 DEF ChainStep
  <2>2. \A p \in Ops : /\ Out(p)' => Out(p)
                       /\ chain[p] = "success" => chain'[p] = "success"
                       /\ inFlight'[p] >= inFlight[p]
    BY <1>1, <2>1 DEF Out
  <2> QED BY <1>1, <1>4, <2>1, <2>2
<1>11. CASE Crash
  <2>1. /\ settled' = NoCharge /\ ready' = FALSE /\ tick' = "sleep" /\ pc' = "free"
        /\ rail' = rail /\ unrecorded' = {}
    BY <1>11 DEF Crash, Unlock
  <2>2. NoCharge \in [Ops -> Nat] BY DEF NoCharge
  <2> QED BY <1>1, <2>1, <2>2 DEF BudgetInv, CountedBeforeTrading
<1>12. CASE UNCHANGED vars BY <1>1, <1>5, <1>12 DEF vars
<1> QED BY <1>7, <1>8, <1>9, <1>10, <1>11, <1>12 DEF Next

LEMMA BudgetAlways ==
  ASSUME Faults \subseteq {"ledger"}
  PROVE  Spec => []BudgetInv
<1> DEFINE All == TypeInv /\ LedgerInv /\ DurableInv /\ ReserveInv /\ BudgetInv
<1>1. Init => All
  <2> SUFFICES ASSUME Init PROVE All OBVIOUS
  <2>1. /\ pc = "free" /\ rail = "live" /\ settled = NoCharge /\ inFlight = NoCharge
        /\ ready = FALSE /\ tick = "sleep" /\ unrecorded = {} /\ reserved = FALSE
        /\ \A o \in Ops : chain[o] = "none"
    BY DEF Init
  <2>2. DurableInv BY <2>1 DEF DurableInv, NoBlindBroadcast, SendInv
  <2>3. ReserveInv BY <2>1 DEF ReserveInv, ReservationBalanced, NoCharge
  <2>4. NoCharge \in [Ops -> Nat] BY DEF NoCharge
  <2>5. BudgetInv BY <2>1, <2>4 DEF BudgetInv, CountedBeforeTrading
  <2> QED BY <2>2, <2>3, <2>5, TypeInit, LedgerInit
<1>2. All /\ [Next]_vars => All'
  <2> SUFFICES ASSUME All, [Next]_vars PROVE All' OBVIOUS
  <2>1. "redeploy" \notin Faults /\ "late-rearm" \notin Faults OBVIOUS
  <2>2. TypeInv' /\ LedgerInv' /\ DurableInv' /\ ReserveInv'
    BY <2>1, TypeStep, LedgerStep, DurableStep, ReserveStep
  <2> QED BY <2>2, BudgetStep
<1>3. All => BudgetInv OBVIOUS
<1> QED BY <1>1, <1>2, <1>3, PTL DEF Spec

(* Whatever dies between two steps and whichever ledger write fails, an    *)
(* intent is only ever judged against counters that hold every operation   *)
(* the chain may have executed.                                            *)
THEOREM CountedBeforeJudged ==
  ASSUME Faults \subseteq {"ledger"}
  PROVE  Spec => []CountedBeforeTrading
<1>1. BudgetInv => CountedBeforeTrading BY DEF BudgetInv
<1> QED BY <1>1, BudgetAlways, PTL

(* A real fill whose row could not be written stays charged for the rest   *)
(* of the arm.                                                             *)
THEOREM UnrecordedStaysCounted ==
  ASSUME Faults \subseteq {"ledger"}
  PROVE  Spec => []SpendStaysCounted
<1>1. TypeInv /\ ReserveInv /\ BudgetInv => SpendStaysCounted
  <2> SUFFICES ASSUME TypeInv, ReserveInv, BudgetInv, NEW o \in unrecorded
               PROVE  settled[o] + inFlight[o] >= 1
    BY DEF SpendStaysCounted
  <2>1. o \in Ops BY DEF TypeInv, TypeOK
  <2>2. settled[o] \in Nat /\ settled[o] >= 1 /\ inFlight[o] \in Nat
    BY <2>1 DEF BudgetInv, ReserveInv, ReservationBalanced
  <2> QED BY <2>2
<1>2. Spec => []ReserveInv
  <2>1. Init => ReserveInv BY DEF Init, ReserveInv, ReservationBalanced, NoCharge
  <2>2. TypeInv /\ ReserveInv /\ [Next]_vars => ReserveInv' BY ReserveStep
  <2> QED BY <2>1, <2>2, TypeAlways, PTL DEF Spec
<1> QED BY <1>1, <1>2, TypeAlways, BudgetAlways, PTL


-----------------------------------------------------------------------------
(* What the chain executes stays within the caps.                          *)

(* The operations the chain has executed or may still execute, and the one *)
(* an admitted intent is about to become.                                  *)
Executing == {"build", "send", "wait", "record"}
Committed == [o \in Ops |-> IF Out(o) \/ (o = cur /\ pc \in Executing) THEN 1 ELSE 0]

SpendInv ==
  /\ tick = "trade" => ready
  /\ Spent(Committed) <= DailyCap
  /\ Count(Committed) <= MaxOpsPerDay

Weighed(charge) == [o \in Ops |-> Notional[o] * charge[o]]

LEMMA TimesMonotone ==
  ASSUME NEW n \in Nat, NEW a \in Int, NEW b \in Int, a <= b
  PROVE  n * a \in Int /\ n * b \in Int /\ n * a <= n * b
<1>1. n * (b - a) >= 0 BY SMT
<1>2. n * (b - a) = n * b - n * a BY SMT
<1> QED BY <1>1, <1>2

(* A spend counter that charges every operation at least as much holds at  *)
(* least as much.                                                          *)
LEMMA ChargesMonotone ==
  ASSUME NEW f \in [Ops -> Int], NEW g \in [Ops -> Int], \A o \in Ops : f[o] <= g[o]
  PROVE  /\ Spent(f) \in Int /\ Spent(g) \in Int /\ Spent(f) <= Spent(g)
         /\ Count(f) \in Int /\ Count(g) \in Int /\ Count(f) <= Count(g)
<1>1. IsFiniteSet(Ops) BY ConstantsAssumption
<1>2. Count(f) \in Int /\ Count(g) \in Int /\ Count(f) <= Count(g)
  <2>1. WholeOn(f, Ops) /\ WholeOn(g, Ops) BY DEF WholeOn
  <2> QED BY <1>1, <2>1, SumType, SumMonotone DEF Count
<1>3. \A o \in Ops : /\ Weighed(f)[o] \in Int /\ Weighed(g)[o] \in Int
                     /\ Weighed(f)[o] <= Weighed(g)[o]
  BY ConstantsAssumption, TimesMonotone DEF Weighed
<1>4. Spent(f) \in Int /\ Spent(g) \in Int /\ Spent(f) <= Spent(g)
  <2>1. Spent(f) = SumFunctionOnSet(Weighed(f), Ops) /\ Spent(g) = SumFunctionOnSet(Weighed(g), Ops)
    BY DEF Spent, Weighed
  <2>2. WholeOn(Weighed(f), Ops) /\ WholeOn(Weighed(g), Ops) BY <1>3 DEF WholeOn
  <2> QED BY <1>1, <1>3, <2>1, <2>2, SumType, SumMonotone
<1> QED BY <1>2, <1>4

(* One operation more costs one notional and one place. *)
LEMMA OneChargeMore ==
  ASSUME NEW f \in [Ops -> Int], NEW o \in Ops
  PROVE  /\ Spent([f EXCEPT ![o] = @ + 1]) = Spent(f) + Notional[o]
         /\ Count([f EXCEPT ![o] = @ + 1]) = Count(f) + 1
<1>1. PICK g : g = [f EXCEPT ![o] = @ + 1] OBVIOUS
<1>2. g \in [Ops -> Int] /\ g[o] = f[o] + 1 /\ \A p \in Ops : p # o => g[p] = f[p]
  BY <1>1
<1>3. IsFiniteSet(Ops) /\ Notional[o] \in Int BY ConstantsAssumption
<1>4. Count(g) = Count(f) + 1
  <2>1. WholeOn(f, Ops) /\ g[o] \in Int BY <1>2 DEF WholeOn
  <2>2. SumFunctionOnSet(g, Ops) = SumFunctionOnSet(f, Ops) + (g[o] - f[o])
    BY <1>2, <1>3, <2>1, SumShift
  <2>3. g[o] - f[o] = 1 BY <1>2
  <2> QED BY <2>2, <2>3 DEF Count
<1>5. Spent(g) = Spent(f) + Notional[o]
  <2>1. Weighed(g)[o] - Weighed(f)[o] = Notional[o] /\ Weighed(g)[o] \in Int
    <3>1. Weighed(g)[o] = Notional[o] * (f[o] + 1) /\ Weighed(f)[o] = Notional[o] * f[o]
      BY <1>2 DEF Weighed
    <3>2. \A n, a \in Int : n * (a + 1) - n * a = n /\ n * (a + 1) \in Int BY SMT
    <3> QED BY <1>3, <3>1, <3>2
  <2>2. WholeOn(Weighed(f), Ops) /\ \A p \in Ops : p # o => Weighed(g)[p] = Weighed(f)[p]
    BY <1>2, ConstantsAssumption DEF WholeOn, Weighed
  <2>3. SumFunctionOnSet(Weighed(g), Ops)
          = SumFunctionOnSet(Weighed(f), Ops) + (Weighed(g)[o] - Weighed(f)[o])
    BY <1>3, <2>1, <2>2, SumShift
  <2> QED BY <2>1, <2>3 DEF Spent, Weighed
<1> QED BY <1>1, <1>4, <1>5

(* A step after which nothing new is committed. *)
LEMMA SpendKept ==
  ASSUME SpendInv, Committed' \in [Ops -> Int], tick' = "trade" => ready',
         \A o \in Ops : Committed'[o] <= Committed[o]
  PROVE  SpendInv'
<1>1. PICK new : new = Committed' OBVIOUS
<1>2. Committed \in [Ops -> Int] BY DEF Committed
<1>3. Spent(new) <= Spent(Committed) /\ Count(new) <= Count(Committed)
      /\ Spent(new) \in Int /\ Count(new) \in Int
      /\ Spent(Committed) \in Int /\ Count(Committed) \in Int
  BY <1>1, <1>2, ChargesMonotone
<1>4. Spent(Committed)' = Spent(new) /\ Count(Committed)' = Count(new)
  BY <1>1 DEF Spent, Count
<1>5. DailyCap \in Int /\ MaxOpsPerDay \in Int BY ConstantsAssumption
<1> QED BY <1>3, <1>4, <1>5 DEF SpendInv

(* The cap is checked against counters that hold everything committed, so  *)
(* one admitted operation more is still within it.                         *)
LEMMA SpendAdmitted ==
  ASSUME TypeInv, ReserveInv, BudgetInv, SpendInv, NEW o \in Ops, AdmitLive(o)
  PROVE  SpendInv'
<1> USE DEF tickVars
<1>1. /\ pc = "free" /\ cur = NoOp /\ ready /\ UNCHANGED <<chain, tick, ready>>
      /\ cur' = o /\ o \in Ops /\ PolicyOk(o)
  BY DEF AdmitLive, MaySubmit, TypeInv, LockInv, SpendInv
<1>2. settled \in [Ops -> Nat] /\ inFlight \in [Ops -> Nat]
  BY DEF BudgetInv, ReserveInv, ReservationBalanced
<1>3. PICK f : f = Plus(settled, inFlight) OBVIOUS
<1>4. f \in [Ops -> Int] /\ \A p \in Ops : f[p] >= 0 /\ f[p] = settled[p] + inFlight[p]
  BY <1>2, <1>3 DEF Plus
<1>5. Count(f) < MaxOpsPerDay /\ Spent(f) + Notional[o] <= DailyCap
  BY <1>1, <1>3 DEF PolicyOk, OpsToday, SpentToday
<1>6. PICK g : g = [f EXCEPT ![o] = @ + 1] OBVIOUS
<1>7. Spent(g) = Spent(f) + Notional[o] /\ Count(g) = Count(f) + 1
  BY <1>4, <1>6, OneChargeMore
<1>8. PICK new : new = Committed' OBVIOUS
<1>9. ASSUME NEW p \in Ops PROVE new[p] \in Int /\ new[p] <= g[p]
  <2>1. new[p] = IF Out(p)' \/ (p = cur' /\ pc' \in Executing) THEN 1 ELSE 0
    BY <1>8 DEF Committed
  <2>2. Out(p)' <=> Out(p) BY <1>1 DEF Out
  <2>3. Out(p) => f[p] >= 1
    BY <1>1, <1>4 DEF BudgetInv, CountedBeforeTrading, Out
  <2>4. g[p] = IF p = o THEN f[p] + 1 ELSE f[p] BY <1>4, <1>6
  <2> QED BY <1>1, <1>4, <2>1, <2>2, <2>3, <2>4
<1>10. new \in [Ops -> Int] /\ g \in [Ops -> Int]
  BY <1>4, <1>6, <1>8, <1>9 DEF Committed
<1>11. /\ Spent(new) <= Spent(g) /\ Count(new) <= Count(g)
       /\ Spent(new) \in Int /\ Count(new) \in Int /\ Spent(g) \in Int /\ Count(g) \in Int
  BY <1>9, <1>10, ChargesMonotone
<1>12. Spent(f) \in Int /\ Count(f) \in Int BY <1>4, ChargesMonotone
<1>13. Notional[o] \in Int /\ DailyCap \in Int /\ MaxOpsPerDay \in Int BY ConstantsAssumption
<1>14. Spent(new) <= DailyCap /\ Count(new) <= MaxOpsPerDay
  BY <1>5, <1>7, <1>11, <1>12, <1>13
<1>15. Spent(Committed)' = Spent(new) /\ Count(Committed)' = Count(new)
  BY <1>8 DEF Spent, Count
<1> QED BY <1>1, <1>14, <1>15 DEF SpendInv

LEMMA SpendStep ==
  ASSUME TypeInv, LedgerInv, ReserveInv, BudgetInv, SpendInv, [Next]_vars
  PROVE  SpendInv'
<1> USE DEF ledgerVars, budgetVars, tickVars, intentVars, histVars, bounds
<1>1. chain \in [Ops -> ChainStates] /\ (pc # "free" => cur \in Ops) /\ rail = "live" /\ pc # "paper"
  BY DEF TypeInv, TypeOK, LockInv, BudgetInv
<1>2. ASSUME tick' = "trade" => ready',
             \A o \in Ops : Out(o)' => Out(o) \/ (o = cur /\ pc \in Executing),
             \A o \in Ops : o = cur' /\ pc' \in Executing => o = cur /\ pc \in Executing
      PROVE  SpendInv'
  <2>1. Committed' \in [Ops -> Int] BY DEF Committed
  <2>2. \A o \in Ops : Committed'[o] <= Committed[o] BY <1>2 DEF Committed
  <2> QED BY <1>2, <2>1, <2>2, SpendKept
<1>3. tick = "trade" => ready BY DEF SpendInv
<1>4. ASSUME UNCHANGED <<chain, pc, cur>>, tick' = "trade" => ready' PROVE SpendInv'
  BY <1>2, <1>4 DEF Out
<1>5. ASSUME UNCHANGED <<chain, tick, ready>>, pc' = "free" \/ (pc \in Executing /\ cur' = cur)
      PROVE  SpendInv'
  BY <1>2, <1>3, <1>5 DEF Out, Executing
<1>6. CASE IntentStep
  <2>1. ASSUME NEW o \in Ops, Reject(o) PROVE SpendInv' BY <1>3, <1>4, <2>1 DEF Reject
  <2>2. ASSUME NEW o \in Ops, AdmitLive(o) PROVE SpendInv' BY <2>2, SpendAdmitted
  <2>3. ASSUME NEW o \in Ops, AdmitPaper(o) PROVE FALSE BY <1>1, <2>3 DEF AdmitPaper
  <2>4. CASE PaperRecord \/ PaperRecordFails \/ PaperThrows
    BY <1>1, <2>4 DEF PaperRecord, PaperRecordFails, PaperThrows
  <2>5. ASSUME RecordFails \/ (\E led : RecordTrade(led)) PROVE SpendInv'
    BY <1>5, <2>5 DEF RecordFails, RecordTrade, Unlock
  <2>6. CASE BuildRefused \/ NotRecorded \/ RecordLanded \/ RecordLandedFails
    BY <2>5, <2>6 DEF BuildRefused, NotRecorded, RecordLanded, RecordLandedFails
  <2>7. CASE OnSubmitted \/ ReceiptSuccess
    BY <1>5, <2>7 DEF OnSubmitted, ReceiptSuccess, Executing
  <2>8. CASE SendUserOperation \/ SendUnresolved
    <3>1. /\ pc = "send" /\ cur \in Ops /\ UNCHANGED <<tick, ready>>
          /\ pc' = "free" \/ cur' = cur
          /\ \E fate : chain' = [chain EXCEPT ![cur] = fate]
      BY <1>1, <2>8 DEF SendUserOperation, SendUnresolved, LeaveSubmitted, Unlock
    <3>2. \A o \in Ops : o # cur => chain'[o] = chain[o] BY <1>1, <3>1
    <3> QED BY <1>2, <1>3, <3>1, <3>2 DEF Out, Executing
  <2>9. CASE ReceiptReverted \/ Unresolved
    BY <1>5, <2>9 DEF ReceiptReverted, Unresolved, LeaveSubmitted, Unlock
  <2> QED BY <1>6, <2>1, <2>2, <2>3, <2>4, <2>6, <2>7, <2>8, <2>9 DEF IntentStep
<1>7. CASE SweepStep
  <2>1. UNCHANGED <<chain, pc, cur, ready>> /\ (tick' = "trade" => tick = "trade")
    BY <1>7 DEF SweepStep, ArmResolve, ArmOrphans, ArmSkip, StrandedResolve, SweepWrite,
       SweepWriteFails
  <2> QED BY <1>3, <1>4, <2>1
<1>8. CASE TickStep
  <2>1. UNCHANGED <<chain, pc, cur>> /\ (tick' = "trade" => ready')
    BY <1>8 DEF TickStep, TickStart, GrantGone, GrantUnchanged, Arm, Seed, RefreshBudget,
       ReadBook, HoldTick, TickEnd
  <2> QED BY <1>4, <2>1
<1>9. CASE ChainStep
  <2>1. UNCHANGED <<pc, cur, tick, ready>> /\ \A o \in Ops : Out(o)' => Out(o)
    BY <1>1, <1>9 DEF ChainStep, Out
  <2> QED BY <1>2, <1>3, <2>1
<1>10. CASE Crash
  <2>1. chain' = chain /\ pc' = "free" /\ tick' = "sleep" BY <1>10 DEF Crash, Unlock
  <2> QED BY <1>2, <2>1 DEF Out, Executing
<1>11. CASE UNCHANGED vars BY <1>3, <1>4, <1>11 DEF vars
<1> QED BY <1>6, <1>7, <1>8, <1>9, <1>10, <1>11 DEF Next

(* "Budgets may under-spend, never over-spend": whatever dies between two  *)
(* steps, is lost, lands late or fails to be written, what the chain       *)
(* executed stays within the day's caps, for every number of intents and   *)
(* every notional.                                                         *)
THEOREM NothingOverSpends ==
  ASSUME Faults \subseteq {"ledger"}
  PROVE  Spec => []NeverOverSpend
<1>1. Init => SpendInv
  <2> SUFFICES ASSUME Init PROVE SpendInv OBVIOUS
  <2>1. tick = "sleep" /\ pc = "free" /\ \A o \in Ops : chain[o] = "none" BY DEF Init
  <2>2. Committed = [o \in Ops |-> 0] BY <2>1 DEF Committed, Out, Executing
  <2>3. IsFiniteSet(Ops) /\ DailyCap \in Nat /\ MaxOpsPerDay \in Nat /\ Notional \in [Ops -> Nat]
    BY ConstantsAssumption
  <2>4. \A o \in Ops : Weighed(Committed)[o] = 0 /\ Committed[o] = 0
    BY <2>2, <2>3 DEF Weighed
  <2>5. Spent(Committed) = 0 /\ Count(Committed) = 0
    BY <2>3, <2>4, SumZero DEF Spent, Count, Weighed
  <2> QED BY <2>1, <2>3, <2>5 DEF SpendInv
<1>2. SpendInv => NeverOverSpend
  <2> SUFFICES ASSUME SpendInv PROVE NeverOverSpend OBVIOUS
  <2>1. ChainSpend \in [Ops -> Int] /\ Committed \in [Ops -> Int]
    BY DEF ChainSpend, Committed
  <2>2. \A o \in Ops : ChainSpend[o] <= Committed[o] BY DEF ChainSpend, Committed, Out
  <2>3. /\ Spent(ChainSpend) <= Spent(Committed) /\ Count(ChainSpend) <= Count(Committed)
        /\ Spent(ChainSpend) \in Int /\ Count(ChainSpend) \in Int
        /\ Spent(Committed) \in Int /\ Count(Committed) \in Int
    BY <2>1, <2>2, ChargesMonotone
  <2>4. DailyCap \in Int /\ MaxOpsPerDay \in Int BY ConstantsAssumption
  <2> QED BY <2>3, <2>4 DEF SpendInv, NeverOverSpend
<1>3. Spec => []LedgerInv
  BY TypeAlways, TypeInit, LedgerInit, LedgerStep, TypeStep, PTL DEF Spec
<1>4. Spec => []ReserveInv
  <2>1. Init => ReserveInv BY DEF Init, ReserveInv, ReservationBalanced, NoCharge
  <2>2. TypeInv /\ ReserveInv /\ [Next]_vars => ReserveInv' BY ReserveStep
  <2> QED BY <2>1, <2>2, TypeAlways, PTL DEF Spec
<1>5. TypeInv /\ LedgerInv /\ ReserveInv /\ BudgetInv /\ SpendInv /\ [Next]_vars => SpendInv'
  BY SpendStep
<1> QED BY <1>1, <1>2, <1>3, <1>4, <1>5, TypeAlways, BudgetAlways, PTL DEF Spec


-----------------------------------------------------------------------------
(* The rails stay apart.                                                   *)

(* A simulated fill was proposed, holds the lock only on the paper path,   *)
(* and neither the chain nor a live row knows it.                          *)
PaperInv ==
  \A o \in paperBook :
    /\ o \in proposed /\ (o = cur => pc = "paper")
    /\ chain[o] = "none" /\ rows[o]["submitted"] = 0

LEMMA PaperStep ==
  ASSUME TypeInv, LedgerInv, PaperInv, [Next]_vars
  PROVE  PaperInv'
<1> USE DEF ledgerVars, budgetVars, tickVars, intentVars, histVars, bounds
<1>1. /\ rows \in RowTable /\ chain \in [Ops -> ChainStates] /\ paperBook \subseteq Ops
      /\ (pc # "free" => cur \in Ops) /\ NoOp \notin Ops
  BY ConstantsAssumption DEF TypeInv, TypeOK, LockInv, RowTable
<1>2. ASSUME UNCHANGED <<rows, chain, proposed>>, paperBook' \subseteq paperBook,
             (cur' = cur /\ pc' = pc) \/ cur' = NoOp
      PROVE  PaperInv'
  BY <1>1, <1>2 DEF PaperInv
<1>3. ASSUME UNCHANGED <<rows, chain, proposed, paperBook, cur>>, pc # "paper" PROVE PaperInv'
  BY <1>3 DEF PaperInv
<1>4. ASSUME NEW o \in Ops, NEW st \in Outcomes, chain[o] # "none",
             rows' = AddTrade(rows, o, st),
             UNCHANGED <<chain, proposed, paperBook>>, (cur' = cur /\ pc' = pc) \/ cur' = NoOp
      PROVE  PaperInv'
  <2>1. \A p \in Ops \ {o} : rows'[p] = rows[p] BY <1>1, <1>4, AddTradeFacts
  <2>2. o \notin paperBook BY <1>4 DEF PaperInv
  <2> QED BY <1>1, <1>4, <2>1, <2>2 DEF PaperInv
<1>5. CASE IntentStep
  <2>1. ASSUME NEW o \in Ops, Reject(o) PROVE PaperInv' BY <2>1 DEF Reject, PaperInv
  <2>2. ASSUME NEW o \in Ops, AdmitLive(o) PROVE PaperInv'
    BY <2>2 DEF AdmitLive, MaySubmit, PaperInv
  <2>3. ASSUME NEW o \in Ops, AdmitPaper(o) PROVE PaperInv'
    BY <2>3 DEF AdmitPaper, MaySubmit, PaperInv, LedgerInv, PhaseInv
  <2>4. CASE PaperRecord
    <3>1. /\ rows' = InsertTrade(rows, cur, "paper") /\ cur' = NoOp
          /\ UNCHANGED <<chain, proposed, paperBook>> /\ cur \in Ops
      BY <1>1, <2>4 DEF PaperRecord, RecordTrade, Unlock
    <3>2. "paper" \in Statuses /\ "submitted" \in Statuses \ {"paper"} BY DEF Statuses
    <3>3. \A p \in Ops : rows'[p]["submitted"] = rows[p]["submitted"]
      <4>1. /\ \A p \in Ops \ {cur} : rows'[p] = rows[p]
            /\ rows'[cur]["submitted"] = rows[cur]["submitted"]
        BY <1>1, <3>1, <3>2, InsertTradeFacts
      <4> QED BY <4>1
    <3> QED BY <1>1, <3>1, <3>3 DEF PaperInv
  <2>5. CASE BuildRefused \/ NotRecorded
    BY <1>2, <2>5 DEF BuildRefused, NotRecorded, RecordTrade, Unlock
  <2>6. CASE PaperRecordFails \/ PaperThrows \/ RecordLandedFails
    BY <1>2, <2>6 DEF PaperRecordFails, PaperThrows, RecordLandedFails, RecordFails, Unlock
  <2>7. CASE OnSubmitted
    <3>1. /\ rows' = InsertTrade(rows, cur, "submitted") /\ cur \in Ops /\ pc = "build"
          /\ UNCHANGED <<chain, proposed, paperBook, cur>> /\ cur \notin paperBook
      BY <1>1, <2>7 DEF OnSubmitted, PaperInv
    <3>2. \A p \in Ops \ {cur} : rows'[p] = rows[p]
      BY <1>1, <3>1, InsertTradeFacts DEF Statuses
    <3> QED BY <1>1, <3>1, <3>2 DEF PaperInv
  <2>8. CASE SendUserOperation \/ SendUnresolved
    <3>1. /\ pc = "send" /\ UNCHANGED <<rows, proposed, paperBook>> /\ cur' \in {cur, NoOp}
          /\ \E fate \in ChainStates : chain' = [chain EXCEPT ![cur] = fate]
      BY <2>8 DEF SendUserOperation, SendUnresolved, LeaveSubmitted, Unlock, ChainStates
    <3>2. cur \notin paperBook BY <3>1 DEF PaperInv
    <3>3. \A p \in paperBook : chain'[p] = chain[p] BY <1>1, <3>1, <3>2
    <3> QED BY <1>1, <3>1, <3>2, <3>3 DEF PaperInv
  <2>9. CASE ReceiptSuccess BY <1>3, <2>9 DEF ReceiptSuccess
  <2>10. CASE ReceiptReverted \/ Unresolved
    BY <1>2, <2>10 DEF ReceiptReverted, Unresolved, LeaveSubmitted, Unlock
  <2>11. CASE RecordLanded
    <3>1. chain[cur] # "none" /\ cur \in Ops /\ "landed" \in Outcomes
      BY <1>1, <2>11 DEF RecordLanded, LedgerInv, PhaseInv, Outcomes
    <3> QED BY <1>4, <2>11, <3>1 DEF RecordLanded, RecordTrade, Unlock
  <2> QED
    BY <1>5, <2>1, <2>2, <2>3, <2>4, <2>5, <2>6, <2>7, <2>8, <2>9, <2>10, <2>11
    DEF IntentStep
<1>6. CASE SweepStep
  <2>1. ASSUME NEW k \in Sweeps, SweepWrite(k) PROVE PaperInv'
    <3>1. PICK p \in sweep[k] : rows' = AddTrade(rows, p[1], p[2]) BY <2>1 DEF SweepWrite
    <3>2. p[1] \in Ops /\ p[2] \in Outcomes BY DEF TypeInv, TypeOK
    <3>3. chain[p[1]] # "none" BY DEF LedgerInv, SweepInv, Fate
    <3> QED BY <1>4, <2>1, <3>1, <3>2, <3>3 DEF SweepWrite
  <2>2. ASSUME NEW found, StrandedResolve(found) PROVE PaperInv'
    BY <1>2, <2>2 DEF StrandedResolve
  <2>3. ASSUME NEW k \in Sweeps, SweepWriteFails(k) PROVE PaperInv'
    BY <1>2, <2>3 DEF SweepWriteFails
  <2>4. CASE ArmResolve \/ ArmOrphans \/ ArmSkip
    BY <1>2, <2>4 DEF ArmResolve, ArmOrphans, ArmSkip
  <2> QED BY <1>6, <2>1, <2>2, <2>3, <2>4 DEF SweepStep
<1>7. CASE TickStep
  BY <1>2, <1>7 DEF TickStep, TickStart, GrantGone, GrantUnchanged, Arm, Seed, RefreshBudget,
     ReadBook, HoldTick, TickEnd
<1>8. CASE ChainStep
  <2>1. \A p \in Ops : chain[p] = "none" => chain'[p] = "none" BY <1>1, <1>8 DEF ChainStep
  <2> QED BY <1>1, <1>8, <2>1 DEF ChainStep, PaperInv
<1>9. CASE Crash
  <2>1. /\ cur' = NoOp /\ UNCHANGED <<chain, proposed>>
        /\ UNCHANGED <<rows, paperBook>> \/ paperBook' = {}
    BY <1>9 DEF Crash, Unlock
  <2> QED BY <1>1, <2>1 DEF PaperInv
<1>10. CASE UNCHANGED vars BY <1>2, <1>10 DEF vars
<1> QED BY <1>5, <1>6, <1>7, <1>8, <1>9, <1>10 DEF Next

(* However the rail flips under a running intent, a fill of the simulated  *)
(* book never becomes a real operation and never charges the live rail.    *)
THEOREM RailsStayApart == Spec => []RailsApart
<1>1. Init => PaperInv BY DEF Init, PaperInv
<1>2. (TypeInv /\ LedgerInv) /\ PaperInv /\ [Next]_vars => PaperInv' BY PaperStep
<1>3. TypeInv /\ LedgerInv /\ PaperInv => RailsApart
  <2> SUFFICES ASSUME TypeInv, LedgerInv, PaperInv, NEW o \in paperBook
               PROVE  chain[o] = "none" /\ RailCharge(rows, "live")[o] = 0
    BY DEF RailsApart
  <2>1. o \in Ops /\ rows[o]["landed"] \in Nat BY DEF TypeInv, TypeOK, Statuses
  <2>2. /\ chain[o] = "none" /\ rows[o]["submitted"] = 0 /\ ~(rows[o]["landed"] > 0)
    BY <2>1 DEF PaperInv, LedgerInv, LedgerTruthful
  <2> QED BY <2>1, <2>2 DEF RailCharge
<1> QED BY <1>1, <1>2, <1>3, LedgerAlways, PTL DEF Spec


-----------------------------------------------------------------------------
(* The pipeline implements OpLifecycle.                                    *)

(* The claim depends on the three live statuses alone.                     *)
LEMMA ClaimUnchanged ==
  ASSUME NEW o \in Ops,
         \A s \in {"submitted", "landed", "reverted"} : rows'[o][s] = rows[o][s]
  PROVE  ClaimOf'[o] = ClaimOf[o]
BY DEF ClaimOf, Claimed

(* Two claims that agree everywhere, or everywhere but in one place.       *)
LEMMA ClaimEq ==
  /\ (\A p \in Ops : ClaimOf'[p] = ClaimOf[p]) => ClaimOf' = ClaimOf
  /\ \A o \in Ops : \A c :
       (\A p \in Ops : ClaimOf'[p] = IF p = o THEN c ELSE ClaimOf[p])
         => ClaimOf' = [ClaimOf EXCEPT ![o] = c]
<1>1. (\A p \in Ops : ClaimOf'[p] = ClaimOf[p]) => ClaimOf' = ClaimOf
  BY DEF ClaimOf
<1>2. ASSUME NEW o \in Ops, NEW c,
             \A p \in Ops : ClaimOf'[p] = IF p = o THEN c ELSE ClaimOf[p]
      PROVE  ClaimOf' = [ClaimOf EXCEPT ![o] = c]
  BY <1>2 DEF ClaimOf
<1> QED BY <1>1, <1>2

LEMMA LifecycleSettle ==
  ASSUME TypeInv, LedgerInv, DurableInv, NEW o \in Ops, NEW st \in Outcomes,
         chain[o] = Fate(st), rows' = AddTrade(rows, o, st), UNCHANGED chain
  PROVE  [Lifecycle!Next]_<<ClaimOf, chain>>
<1>1. rows \in RowTable BY DEF TypeInv, TypeOK, RowTable
<1>2. /\ rows' \in RowTable
      /\ \A p \in Ops \ {o} : rows'[p] = rows[p]
      /\ rows'[o]["submitted"] = 0 /\ rows'[o][st] > 0
      /\ \A s \in Statuses \ {"submitted", st} : rows'[o][s] = rows[o][s]
  BY <1>1, AddTradeFacts
<1>3. /\ st \in {"landed", "reverted"}
      /\ chain[o] = IF st = "landed" THEN "success" ELSE "reverted"
  BY DEF Outcomes, Fate
<1>4. LiveRow(o) BY <1>3 DEF DurableInv, NoBlindBroadcast, LiveRow
<1>5. /\ rows[o]["landed"] > 0 => st = "landed"
      /\ rows[o]["reverted"] > 0 => st = "reverted"
  BY <1>3 DEF LedgerInv, LedgerTruthful
<1>6. ClaimOf'[o] = st
  <2>1. \A s \in {"landed", "reverted"} \ {st} : ~(rows'[o][s] > 0)
    BY <1>2, <1>3, <1>5 DEF Statuses
  <2> QED BY <1>2, <1>3, <2>1 DEF ClaimOf, Claimed
<1>7. \A p \in Ops : ClaimOf'[p] = IF p = o THEN st ELSE ClaimOf[p]
  <2> SUFFICES ASSUME NEW p \in Ops, p # o PROVE ClaimOf'[p] = ClaimOf[p] BY <1>6
  <2> QED BY <1>2, ClaimUnchanged
<1>8. ClaimOf' = [ClaimOf EXCEPT ![o] = st] BY <1>7, ClaimEq
<1>9. CASE ClaimOf[o] = "claimed"
  <2>1. Lifecycle!Settle(o) BY <1>3, <1>8, <1>9 DEF Lifecycle!Settle
  <2> QED BY <2>1 DEF Lifecycle!Next
<1>10. CASE ClaimOf[o] # "claimed"
  <2>1. ClaimOf[o] = st BY <1>3, <1>4, <1>5, <1>10 DEF ClaimOf, Claimed, LiveRow
  <2>2. ClaimOf' = ClaimOf BY <1>7, <2>1, ClaimEq
  <2> QED BY <2>2
<1> QED BY <1>9, <1>10

LEMMA LifecycleStep ==
  ASSUME TypeInv, LedgerInv, DurableInv, [Next]_vars, "redeploy" \notin Faults
  PROVE  [Lifecycle!Next]_<<ClaimOf, chain>>
<1> USE DEF ledgerVars, budgetVars, tickVars, intentVars, histVars, bounds
<1>1. /\ rows \in RowTable /\ chain \in [Ops -> ChainStates]
      /\ (pc # "free" => cur \in Ops)
  BY DEF TypeInv, TypeOK, LockInv, RowTable
<1>2. ASSUME UNCHANGED <<rows, chain>> PROVE [Lifecycle!Next]_<<ClaimOf, chain>>
  BY <1>2 DEF ClaimOf
<1>3. ASSUME NEW fate \in {"none", "pending"}, pc = "send", UNCHANGED rows,
             chain' = [chain EXCEPT ![cur] = fate]
      PROVE  [Lifecycle!Next]_<<ClaimOf, chain>>
  <2>1. cur \in Ops /\ chain[cur] = "none" BY <1>1, <1>3 DEF LedgerInv, PhaseInv
  <2>2. CASE fate = "none"
    <3>1. chain' = chain BY <1>1, <1>3, <2>1, <2>2
    <3> QED BY <1>2, <1>3, <3>1
  <2>3. CASE fate = "pending"
    <3>1. ~(rows[cur]["landed"] > 0) /\ ~(rows[cur]["reverted"] > 0) /\ LiveRow(cur)
      BY <1>3, <2>1 DEF DurableInv, SendInv, LedgerInv, LedgerTruthful
    <3>2. ClaimOf[cur] = "claimed" BY <2>1, <3>1 DEF ClaimOf, Claimed, LiveRow
    <3>3. ClaimOf' = ClaimOf BY <1>3 DEF ClaimOf
    <3>4. Lifecycle!Broadcast(cur)
      BY <1>3, <2>1, <2>3, <3>2, <3>3 DEF Lifecycle!Broadcast
    <3> QED BY <2>1, <3>4 DEF Lifecycle!Next
  <2> QED BY <2>2, <2>3
<1>4. CASE IntentStep
  <2>1. ASSUME NEW o \in Ops, Reject(o) \/ AdmitLive(o) \/ AdmitPaper(o)
        PROVE  UNCHANGED <<rows, chain>>
    BY <2>1 DEF Reject, AdmitLive, AdmitPaper
  <2>2. CASE PaperRecord
    <3>1. /\ rows' = InsertTrade(rows, cur, "paper") /\ UNCHANGED chain /\ cur \in Ops
      BY <1>1, <2>2 DEF PaperRecord, RecordTrade
    <3>2. /\ \A p \in Ops \ {cur} : rows'[p] = rows[p]
          /\ \A s \in Statuses \ {"paper"} : rows'[cur][s] = rows[cur][s]
      BY <1>1, <3>1, InsertTradeFacts DEF Statuses
    <3>3. \A p \in Ops : \A s \in {"submitted", "landed", "reverted"} : rows'[p][s] = rows[p][s]
      BY <3>2 DEF Statuses
    <3>4. ClaimOf' = ClaimOf BY <3>3, ClaimUnchanged, ClaimEq
    <3> QED BY <3>1, <3>4
  <2>3. CASE PaperRecordFails \/ PaperThrows \/ RecordLandedFails \/ BuildRefused \/ NotRecorded
               \/ ReceiptSuccess \/ ReceiptReverted \/ Unresolved
    <3>1. UNCHANGED <<rows, chain>>
      BY <2>3 DEF PaperRecordFails, PaperThrows, RecordLandedFails, RecordFails, BuildRefused, NotRecorded,
         RecordTrade, ReceiptSuccess, ReceiptReverted, Unresolved
    <3> QED BY <1>2, <3>1
  <2>4. CASE OnSubmitted
    <3>1. /\ rows' = InsertTrade(rows, cur, "submitted") /\ UNCHANGED chain /\ cur \in Ops
          /\ chain[cur] = "none" /\ rows[cur]["submitted"] = 0
      BY <1>1, <2>4 DEF OnSubmitted, LedgerInv, PhaseInv
    <3>2. /\ \A p \in Ops \ {cur} : rows'[p] = rows[p]
          /\ rows'[cur]["submitted"] = 1
          /\ \A s \in Statuses \ {"submitted"} : rows'[cur][s] = rows[cur][s]
      <4>1. "submitted" \in Statuses BY DEF Statuses
      <4>2. /\ \A p \in Ops \ {cur} : rows'[p] = rows[p]
            /\ rows'[cur]["submitted"] = rows[cur]["submitted"] + 1
            /\ \A s \in Statuses \ {"submitted"} : rows'[cur][s] = rows[cur][s]
        BY <1>1, <3>1, <4>1, InsertTradeFacts
      <4> QED BY <3>1, <4>2
    <3>3. ~(rows[cur]["landed"] > 0) /\ ~(rows[cur]["reverted"] > 0)
      BY <3>1 DEF LedgerInv, LedgerTruthful
    <3>4. ClaimOf[cur] = "none" BY <3>1, <3>3 DEF ClaimOf, Claimed
    <3>5. ClaimOf'[cur] = "claimed" BY <3>1, <3>2, <3>3 DEF ClaimOf, Claimed, Statuses
    <3>6. \A p \in Ops : ClaimOf'[p] = IF p = cur THEN "claimed" ELSE ClaimOf[p]
      <4> SUFFICES ASSUME NEW p \in Ops, p # cur PROVE ClaimOf'[p] = ClaimOf[p] BY <3>5
      <4> QED BY <3>2, ClaimUnchanged
    <3>7. ClaimOf' = [ClaimOf EXCEPT ![cur] = "claimed"] BY <3>1, <3>6, ClaimEq
    <3>8. Lifecycle!Claim(cur) BY <3>1, <3>4, <3>7 DEF Lifecycle!Claim
    <3> QED BY <3>1, <3>8 DEF Lifecycle!Next
  <2>5. CASE SendUserOperation \/ SendUnresolved
    BY <1>3, <2>5 DEF SendUserOperation, SendUnresolved
  <2>6. CASE RecordLanded
    <3>1. /\ cur \in Ops /\ "landed" \in Outcomes /\ chain[cur] = Fate("landed")
          /\ rows' = AddTrade(rows, cur, "landed") /\ UNCHANGED chain
      BY <1>1, <2>6 DEF RecordLanded, RecordTrade, LedgerInv, PhaseInv, Fate, Outcomes
    <3> QED BY <3>1, LifecycleSettle
  <2> QED BY <1>2, <1>4, <2>1, <2>2, <2>3, <2>4, <2>5, <2>6 DEF IntentStep
<1>5. CASE SweepStep
  <2>1. ASSUME NEW k \in Sweeps, SweepWrite(k) PROVE [Lifecycle!Next]_<<ClaimOf, chain>>
    <3>1. PICK p \in sweep[k] : rows' = AddTrade(rows, p[1], p[2]) BY <2>1 DEF SweepWrite
    <3>2. p[1] \in Ops /\ p[2] \in Outcomes /\ chain[p[1]] = Fate(p[2])
      BY DEF TypeInv, TypeOK, LedgerInv, SweepInv
    <3>3. UNCHANGED chain BY <2>1 DEF SweepWrite
    <3> QED BY <3>1, <3>2, <3>3, LifecycleSettle
  <2>2. ASSUME NEW found, StrandedResolve(found) PROVE UNCHANGED <<rows, chain>>
    BY <2>2 DEF StrandedResolve
  <2>3. ASSUME NEW k \in Sweeps, SweepWriteFails(k) PROVE UNCHANGED <<rows, chain>>
    BY <2>3 DEF SweepWriteFails
  <2>4. CASE ArmResolve \/ ArmOrphans \/ ArmSkip
    BY <1>2, <2>4 DEF ArmResolve, ArmOrphans, ArmSkip
  <2> QED BY <1>2, <1>5, <2>1, <2>2, <2>3, <2>4 DEF SweepStep
<1>6. CASE TickStep
  BY <1>2, <1>6 DEF TickStep, TickStart, GrantGone, GrantUnchanged, Arm, Seed, RefreshBudget,
     ReadBook, HoldTick, TickEnd
<1>7. CASE ChainStep
  <2>1. PICK o \in Ops, fate \in {"success", "reverted", "dropped"} :
          /\ chain[o] = "pending" /\ chain' = [chain EXCEPT ![o] = fate]
          /\ UNCHANGED rows
    BY <1>7 DEF ChainStep
  <2>2. ClaimOf' = ClaimOf BY <2>1 DEF ClaimOf
  <2>3. Lifecycle!Execute(o) BY <2>1, <2>2 DEF Lifecycle!Execute
  <2> QED BY <2>3 DEF Lifecycle!Next
<1>8. CASE Crash BY <1>2, <1>8 DEF Crash
<1>9. CASE UNCHANGED vars BY <1>2, <1>9 DEF vars
<1> QED BY <1>4, <1>5, <1>6, <1>7, <1>8, <1>9 DEF Next

(* Without a redeploy, whatever crashes, fails or is lost, each operation  *)
(* goes through the life OpLifecycle gives it: claimed in the ledger, then *)
(* broadcast once, then settled as the chain decided, for good.            *)
THEOREM PipelineImplementsLifecycle ==
  ASSUME "redeploy" \notin Faults
  PROVE  Spec => ImplementsLifecycle
<1>1. Init => Lifecycle!Init
  <2> SUFFICES ASSUME Init PROVE Lifecycle!Init OBVIOUS
  <2>1. \A o \in Ops : \A st \in Statuses : rows[o][st] = 0
    BY DEF Init, NoRows
  <2>2. chain = [o \in Ops |-> "none"] BY DEF Init
  <2>3. \A o \in Ops : ClaimOf[o] = "none" BY <2>1 DEF ClaimOf, Claimed, Statuses
  <2>4. ClaimOf = [o \in Ops |-> "none"] BY <2>3 DEF ClaimOf
  <2> QED BY <2>2, <2>4 DEF Lifecycle!Init
<1>2. Init => DurableInv
  <2> SUFFICES ASSUME Init PROVE DurableInv OBVIOUS
  <2>1. pc = "free" /\ \A o \in Ops : chain[o] = "none" BY DEF Init
  <2> QED BY <2>1 DEF DurableInv, NoBlindBroadcast, SendInv
<1>3. (TypeInv /\ LedgerInv) /\ DurableInv /\ [Next]_vars => DurableInv'
  BY DurableStep
<1>4. (TypeInv /\ LedgerInv) /\ DurableInv /\ [Next]_vars
        => [Lifecycle!Next]_<<ClaimOf, chain>>
  BY LifecycleStep
<1> QED
  BY <1>1, <1>2, <1>3, <1>4, LedgerAlways, PTL DEF Spec, ImplementsLifecycle, Lifecycle!Spec


-----------------------------------------------------------------------------
(* One row for an operation.                                               *)

(* Without a second arm the two sweeps never overlap, and the sweep of the *)
(* arm and an intent do not.                                               *)
OneWriter ==
  /\ ~active => sweep["tick"] = {} /\ pc = "free"
  /\ tick \in {"resolve", "write", "orphans", "seed"} => sweep["tick"] = {} /\ pc = "free"
  /\ tick \notin {"write", "orphans"} => sweep["arm"] = {}
  /\ pc # "free" => tick = "trade"

(* What anybody is about to settle has not been settled.                   *)
Unsettled ==
  /\ \A k \in Sweeps : \A p \in sweep[k] :
       p[1] # cur /\ rows[p[1]]["landed"] = 0 /\ rows[p[1]]["reverted"] = 0
  /\ pc # "free" => rows[cur]["landed"] = 0

RowInv == OneRowPerOp /\ OneWriter /\ Unsettled

LEMMA OneWriterStep ==
  ASSUME ChatOps = {}, MaxRearms = 0, TypeInv, OneWriter, [Next]_vars
  PROVE  OneWriter'
<1>1. ~MayRearm BY DEF MayRearm, TypeInv, TypeOK
<1>2. pc = "free" <=> cur = NoOp BY DEF TypeInv, LockInv
<1>3. sweep \in [Sweeps -> SUBSET (Ops \X Outcomes)] /\ "arm" \in Sweeps /\ "tick" \in Sweeps
  BY DEF TypeInv, TypeOK, Sweeps
<1> USE DEF OneWriter, ledgerVars, tickVars, intentVars
<1>4. CASE IntentStep
  <2>1. UNCHANGED <<active, tick, sweep>>
    BY <1>4 DEF IntentStep, Reject, AdmitLive, AdmitPaper, PaperRecord, PaperRecordFails, PaperThrows,
       BuildRefused, OnSubmitted, NotRecorded, SendUserOperation, SendUnresolved, ReceiptSuccess,
       ReceiptReverted, Unresolved, RecordLanded, RecordLandedFails, RecordTrade, RecordFails
  <2>2. CASE pc # "free" BY <2>1, <2>2
  <2>3. CASE pc = "free"
    <3>1. PICK o \in Ops : Reject(o) \/ AdmitLive(o) \/ AdmitPaper(o)
      BY <1>4, <2>3 DEF IntentStep, PaperRecord, PaperRecordFails, PaperThrows,
         BuildRefused, OnSubmitted, NotRecorded, SendUserOperation, SendUnresolved, ReceiptSuccess,
         ReceiptReverted, Unresolved, RecordLanded, RecordLandedFails
    <3>2. active /\ tick = "trade"
      BY <3>1 DEF Reject, AdmitLive, AdmitPaper, MaySubmit
    <3> QED BY <2>1, <3>2
  <2> QED BY <2>2, <2>3
<1>5. CASE SweepStep
  <2>1. ASSUME NEW k \in Sweeps, SweepWrite(k) \/ SweepWriteFails(k) PROVE OneWriter'
    <3>1. PICK p \in sweep[k] : sweep' = [sweep EXCEPT ![k] = @ \ {p}]
      BY <2>1 DEF SweepWrite, SweepWriteFails
    <3>2. \A j \in Sweeps : sweep'[j] \subseteq sweep[j] BY <1>3, <3>1
    <3>3. UNCHANGED <<active, tick, pc>> BY <2>1 DEF SweepWrite, SweepWriteFails
    <3> QED BY <1>3, <3>2, <3>3
  <2>2. ASSUME NEW found, StrandedResolve(found) PROVE OneWriter'
    BY <1>3, <2>2 DEF StrandedResolve
  <2>3. CASE ArmResolve BY <1>3, <2>3 DEF ArmResolve
  <2>4. CASE ArmOrphans BY <1>3, <2>4 DEF ArmOrphans
  <2>5. CASE ArmSkip BY <2>5 DEF ArmSkip
  <2> QED BY <1>5, <2>1, <2>2, <2>3, <2>4, <2>5 DEF SweepStep
<1>6. CASE TickStep
  <2>1. CASE TickStart \/ GrantGone BY <1>1, <2>1 DEF TickStart, GrantGone
  <2>2. CASE Arm BY <1>1, <2>2 DEF Arm
  <2>3. CASE GrantUnchanged \/ Seed \/ RefreshBudget \/ ReadBook \/ HoldTick
    BY <2>3 DEF GrantUnchanged, Seed, RefreshBudget, ReadBook, HoldTick
  <2>4. CASE TickEnd BY <1>2, <2>4 DEF TickEnd
  <2> QED BY <1>6, <2>1, <2>2, <2>3, <2>4 DEF TickStep
<1>7. CASE ChainStep BY <1>7 DEF ChainStep
<1>8. CASE Crash BY <1>3, <1>8 DEF Crash, Unlock
<1>9. CASE UNCHANGED vars BY <1>9 DEF vars
<1> QED BY <1>4, <1>5, <1>6, <1>7, <1>8, <1>9 DEF Next

(* Settling an operation that has no outcome leaves it with one row.       *)
LEMMA AddTradeTotal ==
  ASSUME NEW led \in RowTable, NEW o \in Ops, NEW st \in Outcomes,
         led[o]["submitted"] <= 1, led[o]["landed"] = 0, led[o]["reverted"] = 0
  PROVE  AddTrade(led, o, st)[o]["submitted"] + AddTrade(led, o, st)[o]["landed"]
           + AddTrade(led, o, st)[o]["reverted"] <= 1
<1> DEFINE new == AddTrade(led, o, st)[o]
<1>1. st \in {"landed", "reverted"} /\ st \in Statuses /\ "submitted" \in Statuses
  BY DEF Outcomes, Statuses
<1>2. led[o] \in [Statuses -> Nat] /\ led[o]["submitted"] \in Nat BY <1>1 DEF RowTable
<1>3. new[st] = 1
  <2>1. CASE led[o]["submitted"] > 0
    <3>1. AddTrade(led, o, st) =
            [led EXCEPT ![o] = [led[o] EXCEPT !["submitted"] = 0, ![st] = @ + led[o]["submitted"]]]
      BY <1>1, <1>2, <2>1 DEF AddTrade
    <3>2. new = [led[o] EXCEPT !["submitted"] = 0, ![st] = @ + led[o]["submitted"]]
      BY <3>1 DEF RowTable
    <3>3. led[o][st] = 0 /\ led[o]["submitted"] = 1 BY <1>1, <1>2, <2>1
    <3> HIDE DEF new
    <3> QED BY <1>1, <1>2, <3>2, <3>3
  <2>2. CASE ~(led[o]["submitted"] > 0)
    <3>1. new = [led[o] EXCEPT ![st] = @ + 1] BY <2>2 DEF AddTrade, RowTable
    <3>2. led[o][st] = 0 BY <1>1
    <3> HIDE DEF new
    <3> QED BY <1>1, <1>2, <3>1, <3>2
  <2> QED BY <2>1, <2>2
<1>4. new["submitted"] = 0 /\ \A s \in Statuses \ {"submitted", st} : new[s] = led[o][s]
  BY AddTradeFacts
<1> HIDE DEF new
<1>5. new["submitted"] + new["landed"] + new["reverted"] <= 1
  BY <1>1, <1>3, <1>4 DEF Statuses
<1> QED BY <1>5 DEF new


LEMMA RowIntent ==
  ASSUME TypeInv, LedgerInv, RowInv, IntentStep
  PROVE  OneRowPerOp' /\ Unsettled'
<1>0. rows \in RowTable /\ NoOp \notin Ops /\ (pc # "free" => cur \in Ops)
  BY ConstantsAssumption DEF TypeInv, TypeOK, RowTable, LockInv
<1>1. \A k \in Sweeps : \A p \in sweep[k] : p[1] \in Ops /\ chain[p[1]] # "none"
  BY DEF TypeInv, TypeOK, LedgerInv, SweepInv, Fate
<1>2. UNCHANGED sweep
  BY DEF IntentStep, Reject, AdmitLive, AdmitPaper, PaperRecord, PaperRecordFails, PaperThrows,
     BuildRefused, OnSubmitted, NotRecorded, SendUserOperation, SendUnresolved, ReceiptSuccess,
     ReceiptReverted, Unresolved, RecordLanded, RecordLandedFails, RecordTrade, RecordFails
<1>3. CASE /\ UNCHANGED rows
           /\ \/ cur' = NoOp /\ pc' = "free"
              \/ UNCHANGED cur /\ (pc' # "free" => pc # "free")
  BY <1>0, <1>1, <1>2, <1>3 DEF RowInv, OneRowPerOp, Unsettled
<1>4. ASSUME NEW o \in Ops, Reject(o) PROVE OneRowPerOp' /\ Unsettled'
  BY <1>3, <1>4 DEF Reject, ledgerVars
<1>5. ASSUME NEW o \in Ops, AdmitLive(o) \/ AdmitPaper(o) PROVE OneRowPerOp' /\ Unsettled'
  <2>1. o \notin proposed /\ cur' = o /\ UNCHANGED rows
    BY <1>5 DEF AdmitLive, AdmitPaper, MaySubmit, ledgerVars
  <2>2. chain[o] = "none" BY <2>1 DEF LedgerInv, PhaseInv
  <2>3. rows[o]["landed"] = 0
    <3>1. ~(rows[o]["landed"] > 0) BY <2>2 DEF LedgerInv, LedgerTruthful
    <3>2. rows[o]["landed"] \in Nat BY <1>0 DEF RowTable, Statuses
    <3> QED BY <3>1, <3>2
  <2> QED BY <1>1, <1>2, <2>1, <2>2, <2>3 DEF RowInv, OneRowPerOp, Unsettled
<1>6. CASE PaperRecord
  <2>1. pc = "paper" /\ cur' = NoOp /\ pc' = "free" /\ rows' = InsertTrade(rows, cur, "paper")
    BY <1>6 DEF PaperRecord, RecordTrade, Unlock
  <2>2. \A o \in Ops : \A s \in {"submitted", "landed", "reverted"} : rows'[o][s] = rows[o][s]
    <3>1. cur \in Ops /\ "paper" \in Statuses BY <1>0, <2>1 DEF Statuses
    <3>2. /\ \A o \in Ops \ {cur} : rows'[o] = rows[o]
          /\ \A s \in Statuses \ {"paper"} : rows'[cur][s] = rows[cur][s]
      BY <1>0, <2>1, <3>1, InsertTradeFacts
    <3> QED BY <3>1, <3>2 DEF Statuses
  <2> QED BY <1>0, <1>1, <1>2, <2>1, <2>2 DEF RowInv, OneRowPerOp, Unsettled
<1>7. CASE OnSubmitted
  <2>1. /\ pc = "build" /\ pc' = "send" /\ UNCHANGED cur /\ rows' = InsertTrade(rows, cur, "submitted")
        /\ cur \in Ops
    BY <1>0, <1>7 DEF OnSubmitted
  <2>2. /\ \A o \in Ops \ {cur} : rows'[o] = rows[o]
        /\ rows'[cur]["submitted"] = rows[cur]["submitted"] + 1
        /\ rows'[cur]["landed"] = rows[cur]["landed"] /\ rows'[cur]["reverted"] = rows[cur]["reverted"]
    <3>1. "submitted" \in Statuses BY DEF Statuses
    <3>2. /\ \A o \in Ops \ {cur} : rows'[o] = rows[o]
          /\ rows'[cur]["submitted"] = rows[cur]["submitted"] + 1
          /\ \A s \in Statuses \ {"submitted"} : rows'[cur][s] = rows[cur][s]
      BY <1>0, <2>1, <3>1, InsertTradeFacts
    <3> QED BY <3>2 DEF Statuses
  <2>3. rows[cur]["submitted"] = 0 /\ rows[cur]["landed"] = 0 /\ rows[cur]["reverted"] = 0
    <3>1. chain[cur] = "none" /\ rows[cur]["submitted"] = 0 BY <2>1 DEF LedgerInv, PhaseInv
    <3>2. ~(rows[cur]["landed"] > 0) /\ ~(rows[cur]["reverted"] > 0)
      BY <2>1, <3>1 DEF LedgerInv, LedgerTruthful
    <3>3. rows[cur]["landed"] \in Nat /\ rows[cur]["reverted"] \in Nat
      BY <1>0, <2>1 DEF RowTable, Statuses
    <3> QED BY <3>1, <3>2, <3>3
  <2>4. OneRowPerOp'
    <3> SUFFICES ASSUME NEW o \in Ops
                 PROVE  rows'[o]["submitted"] + rows'[o]["landed"] + rows'[o]["reverted"] <= 1
      BY DEF OneRowPerOp
    <3>1. CASE o = cur BY <2>2, <2>3, <3>1
    <3>2. CASE o # cur BY <2>2, <3>2 DEF RowInv, OneRowPerOp
    <3> QED BY <3>1, <3>2
  <2>5. Unsettled' BY <1>1, <1>2, <2>1, <2>2, <2>3 DEF RowInv, Unsettled
  <2> QED BY <2>4, <2>5
<1>8. CASE RecordLanded
  <2>1. /\ pc = "record" /\ pc' = "free" /\ cur' = NoOp /\ rows' = AddTrade(rows, cur, "landed")
        /\ cur \in Ops /\ "landed" \in Outcomes
    BY <1>0, <1>8 DEF RecordLanded, RecordTrade, Unlock, Outcomes
  <2>2. \A o \in Ops \ {cur} : rows'[o] = rows[o] BY <1>0, <2>1, AddTradeFacts
  <2>3. rows[cur]["submitted"] <= 1 /\ rows[cur]["landed"] = 0 /\ rows[cur]["reverted"] = 0
    <3>1. /\ rows[cur]["submitted"] \in Nat /\ rows[cur]["landed"] \in Nat
          /\ rows[cur]["reverted"] \in Nat
      BY <1>0, <2>1 DEF RowTable, Statuses
    <3>2. ~(rows[cur]["reverted"] > 0)
      BY <2>1 DEF LedgerInv, PhaseInv, LedgerTruthful
    <3>3. rows[cur]["landed"] = 0 BY <2>1 DEF RowInv, Unsettled
    <3>4. rows[cur]["submitted"] + rows[cur]["landed"] + rows[cur]["reverted"] <= 1
      BY <2>1 DEF RowInv, OneRowPerOp
    <3> QED BY <3>1, <3>2, <3>3, <3>4
  <2>4. OneRowPerOp'
    <3> SUFFICES ASSUME NEW o \in Ops
                 PROVE  rows'[o]["submitted"] + rows'[o]["landed"] + rows'[o]["reverted"] <= 1
      BY DEF OneRowPerOp
    <3>1. CASE o = cur BY <1>0, <2>1, <2>3, <3>1, AddTradeTotal
    <3>2. CASE o # cur BY <2>2, <3>2 DEF RowInv, OneRowPerOp
    <3> QED BY <3>1, <3>2
  <2>5. Unsettled' BY <1>0, <1>1, <1>2, <2>1, <2>2 DEF RowInv, Unsettled
  <2> QED BY <2>4, <2>5
<1>9. CASE \/ PaperRecordFails \/ PaperThrows \/ BuildRefused \/ NotRecorded \/ SendUnresolved
           \/ ReceiptReverted \/ Unresolved \/ RecordLandedFails
  <2>1. UNCHANGED rows /\ cur' = NoOp /\ pc' = "free"
    BY <1>9 DEF PaperRecordFails, PaperThrows, BuildRefused, NotRecorded, SendUnresolved, ReceiptReverted,
       Unresolved, RecordLandedFails, RecordTrade, RecordFails, LeaveSubmitted, Unlock, ledgerVars
  <2> QED BY <1>3, <2>1
<1>10. CASE SendUserOperation \/ ReceiptSuccess
  <2>1. UNCHANGED <<rows, cur>> /\ pc # "free"
    BY <1>10 DEF SendUserOperation, ReceiptSuccess, ledgerVars
  <2> QED BY <1>3, <2>1
<1> QED BY <1>4, <1>5, <1>6, <1>7, <1>8, <1>9, <1>10 DEF IntentStep

LEMMA RowSweep ==
  ASSUME ChatOps = {}, TypeInv, LedgerInv, RowInv, SweepStep
  PROVE  OneRowPerOp' /\ Unsettled'
<1>0. /\ rows \in RowTable /\ NoOp \notin Ops /\ "arm" \in Sweeps /\ "tick" \in Sweeps
      /\ sweep \in [Sweeps -> SUBSET (Ops \X Outcomes)] /\ (pc = "free" <=> cur = NoOp)
  BY ConstantsAssumption DEF TypeInv, TypeOK, RowTable, LockInv, Sweeps
<1>1. \A o \in Ops : /\ rows[o]["submitted"] \in Nat /\ rows[o]["landed"] \in Nat
                     /\ rows[o]["reverted"] \in Nat
                     /\ rows[o]["submitted"] + rows[o]["landed"] + rows[o]["reverted"] <= 1
  BY <1>0 DEF RowTable, Statuses, RowInv, OneRowPerOp
<1>2. \A p \in Resolvable \cup Orphans : /\ p[1] \in Ops
                                         /\ rows[p[1]]["landed"] = 0 /\ rows[p[1]]["reverted"] = 0
  <2>1. \A p \in Resolvable : p[1] \in Ops /\ rows[p[1]]["submitted"] > 0 BY DEF Resolvable
  <2>2. \A p \in Resolvable : rows[p[1]]["landed"] = 0 /\ rows[p[1]]["reverted"] = 0
    BY <1>1, <2>1
  <2> QED BY <2>1, <2>2 DEF Orphans
<1>3. ASSUME NEW k \in Sweeps, SweepWrite(k) PROVE OneRowPerOp' /\ Unsettled'
  <2>1. PICK p \in sweep[k] : rows' = AddTrade(rows, p[1], p[2]) /\ sweep' = [sweep EXCEPT ![k] = @ \ {p}]
    BY <1>3 DEF SweepWrite
  <2>2. p[1] \in Ops /\ p[2] \in Outcomes /\ p = <<p[1], p[2]>> /\ chain[p[1]] = Fate(p[2])
    BY <1>0 DEF LedgerInv, SweepInv
  <2>3. p[1] # cur /\ rows[p[1]]["landed"] = 0 /\ rows[p[1]]["reverted"] = 0
    BY DEF RowInv, Unsettled
  <2>4. \A o \in Ops \ {p[1]} : rows'[o] = rows[o] BY <1>0, <2>1, <2>2, AddTradeFacts
  <2>5. OneRowPerOp'
    <3> SUFFICES ASSUME NEW o \in Ops
                 PROVE  rows'[o]["submitted"] + rows'[o]["landed"] + rows'[o]["reverted"] <= 1
      BY DEF OneRowPerOp
    <3>1. CASE o = p[1]
      <4>1. rows[p[1]]["submitted"] <= 1 BY <1>1, <2>2, <2>3
      <4> QED BY <1>0, <2>1, <2>2, <2>3, <3>1, <4>1, AddTradeTotal
    <3>2. CASE o # p[1] BY <1>1, <2>4, <3>2
    <3> QED BY <3>1, <3>2
  <2>6. ASSUME NEW j \in Sweeps, NEW q \in sweep'[j] PROVE q \in sweep[j] /\ q[1] # p[1] /\ q[1] \in Ops
    <3>1. q \in sweep[j] /\ (j = k => q # p) BY <1>0, <2>1, <2>6
    <3>2. j = k
      <4>1. sweep[k] # {} /\ sweep[j] # {} BY <3>1
      <4>2. sweep["tick"] = {} \/ sweep["arm"] = {} BY DEF RowInv, OneWriter
      <4> QED BY <4>1, <4>2 DEF Sweeps
    <3>3. /\ q[1] \in Ops /\ q[2] \in Outcomes /\ q = <<q[1], q[2]>>
          /\ chain[q[1]] = Fate(q[2])
      BY <1>0, <3>1 DEF LedgerInv, SweepInv
    <3>4. q[1] = p[1] => q[2] = p[2] BY <2>2, <3>3 DEF Fate, Outcomes
    <3> QED BY <2>2, <3>1, <3>2, <3>3, <3>4
  <2>7. UNCHANGED <<cur, pc>> /\ (pc # "free" => cur \in Ops)
    BY <1>0, <1>3 DEF SweepWrite, intentVars, TypeInv, TypeOK
  <2> QED BY <2>3, <2>4, <2>5, <2>6, <2>7 DEF RowInv, Unsettled
<1>4. ASSUME NEW k \in Sweeps, SweepWriteFails(k) PROVE OneRowPerOp' /\ Unsettled'
  <2>1. PICK p \in sweep[k] : sweep' = [sweep EXCEPT ![k] = @ \ {p}] BY <1>4 DEF SweepWriteFails
  <2>2. UNCHANGED <<rows, cur, pc>> BY <1>4 DEF SweepWriteFails, ledgerVars, intentVars
  <2>3. \A j \in Sweeps : sweep'[j] \subseteq sweep[j] BY <1>0, <2>1
  <2> QED BY <2>2, <2>3 DEF RowInv, OneRowPerOp, Unsettled
<1>5. ASSUME NEW k \in Sweeps, NEW found \in SUBSET (Resolvable \cup Orphans),
             sweep' = [sweep EXCEPT ![k] = found], UNCHANGED <<rows, cur, pc>>, cur = NoOp
      PROVE  OneRowPerOp' /\ Unsettled'
  <2>1. \A j \in Sweeps : \A q \in sweep'[j] : q \in sweep[j] \/ q \in Resolvable \cup Orphans
    BY <1>0, <1>5
  <2> QED BY <1>0, <1>2, <1>5, <2>1 DEF RowInv, OneRowPerOp, Unsettled
<1>6. CASE ArmResolve
  <2>1. cur = NoOp /\ UNCHANGED <<rows, cur, pc>>
    BY <1>0, <1>6 DEF ArmResolve, ledgerVars, intentVars, RowInv, OneWriter
  <2>2. PICK found \in SUBSET Resolvable : sweep' = [sweep EXCEPT !["arm"] = found]
    BY <1>6 DEF ArmResolve
  <2> QED BY <1>0, <1>5, <2>1, <2>2
<1>7. CASE ArmOrphans
  <2>1. cur = NoOp /\ UNCHANGED <<rows, cur, pc>>
    BY <1>0, <1>7 DEF ArmOrphans, ledgerVars, intentVars, RowInv, OneWriter
  <2>2. PICK found \in SUBSET Orphans : sweep' = [sweep EXCEPT !["arm"] = found]
    BY <1>7 DEF ArmOrphans
  <2> QED BY <1>0, <1>5, <2>1, <2>2
<1>8. CASE ArmSkip
  BY <1>8 DEF ArmSkip, ledgerVars, intentVars, RowInv, OneRowPerOp, Unsettled
<1>9. ASSUME NEW found \in SUBSET Resolvable, StrandedResolve(found) PROVE OneRowPerOp' /\ Unsettled'
  <2>1. cur = NoOp /\ UNCHANGED <<rows, cur, pc>> /\ sweep' = [sweep EXCEPT !["tick"] = found]
    BY <1>9 DEF StrandedResolve, ledgerVars, intentVars
  <2> QED BY <1>0, <1>5, <2>1
<1> QED BY <1>3, <1>4, <1>6, <1>7, <1>8, <1>9 DEF SweepStep

LEMMA RowStep ==
  ASSUME ChatOps = {}, MaxRearms = 0, TypeInv, LedgerInv, RowInv, [Next]_vars
  PROVE  RowInv'
<1>1. OneWriter' BY OneWriterStep DEF RowInv
<1>2. CASE UNCHANGED <<rows, sweep, cur, pc>>
  BY <1>2, <1>1 DEF RowInv, OneRowPerOp, Unsettled
<1>3. CASE IntentStep BY <1>1, <1>3, RowIntent DEF RowInv
<1>4. CASE SweepStep BY <1>1, <1>4, RowSweep DEF RowInv
<1>5. CASE TickStep \/ ChainStep \/ UNCHANGED vars
  <2>1. UNCHANGED <<rows, sweep, cur, pc>>
    BY <1>5 DEF TickStep, TickStart, GrantGone, GrantUnchanged, Arm, Seed, RefreshBudget, ReadBook,
       HoldTick, TickEnd, ChainStep, vars, ledgerVars, intentVars
  <2> QED BY <1>2, <2>1
<1>6. CASE Crash
  <2>1. /\ rows' = rows \/ rows' = NoRows
        /\ pc' = "free" /\ sweep' = [k \in Sweeps |-> {}]
    BY <1>6 DEF Crash, ledgerVars, Unlock
  <2>2. CASE rows' = rows BY <1>1, <2>1, <2>2 DEF RowInv, OneRowPerOp, Unsettled
  <2>3. CASE rows' = NoRows
    <3>1. \A o \in Ops : \A s \in Statuses : rows'[o][s] = 0 BY <2>3 DEF NoRows
    <3>2. OneRowPerOp' BY <3>1 DEF OneRowPerOp, Statuses
    <3> QED BY <1>1, <2>1, <3>2 DEF RowInv, Unsettled
  <2> QED BY <2>1, <2>2, <2>3
<1> QED BY <1>3, <1>4, <1>5, <1>6 DEF Next

(* An operation never has two rows, whatever is lost, crashes or is        *)
(* deployed anew, as long as no intent runs beside the tick and the worker *)
(* arms once: addTrade looks only for a submitted row, so that two writers *)
(* of one outcome would each leave one.                                    *)
THEOREM OneRowHolds ==
  ASSUME ChatOps = {}, MaxRearms = 0
  PROVE  Spec => []OneRowPerOp
<1>1. Init => RowInv
  <2> SUFFICES ASSUME Init PROVE RowInv OBVIOUS
  <2>1. \A o \in Ops : \A s \in Statuses : rows[o][s] = 0 BY DEF Init, NoRows
  <2>2. OneRowPerOp BY <2>1 DEF OneRowPerOp, Statuses
  <2>3. pc = "free" /\ tick = "sleep" /\ \A k \in Sweeps : sweep[k] = {} BY DEF Init
  <2> QED BY <2>2, <2>3 DEF RowInv, OneWriter, Unsettled, Sweeps
<1>2. (TypeInv /\ LedgerInv) /\ RowInv /\ [Next]_vars => RowInv' BY RowStep
<1>3. RowInv => OneRowPerOp BY DEF RowInv
<1> QED BY <1>1, <1>2, <1>3, LedgerAlways, PTL DEF Spec

=============================================================================
