-------------------------- MODULE LedgerMirrorProofs --------------------------
(***************************************************************************)
(* Proofs about LedgerMirror, for every number of rows, containers and     *)
(* faults and every batch size: the tape is truthful and implements        *)
(* TradeTape whatever fails; no trade is on it twice unless a container    *)
(* comes back with an old ledger; and no row is skipped unless, besides,   *)
(* a new ledger reaches the old watermark unnoticed.                       *)
(***************************************************************************)
EXTENDS LedgerMirror, TLAPS

-----------------------------------------------------------------------------
(* Types.                                                                  *)

Cells == Statuses \cup {"absent"}
Places == {"idle", "marked", "rows", "resync", "resolved"}

StatusTypes == status \in [Rows -> Cells]
IdTypes     == id \in [Homes \X Rows -> Nat] /\ size \in [Homes -> Nat] /\ holder \in Homes
FlagTypes   == reborn \in BOOLEAN /\ aged \subseteq Rows
TapeTypes   == tape \in [Rows \X Statuses -> Nat] /\ mark \in Nat
PassTypes   == pass \in Places /\ from \in Nat /\ top \in Nat
BatchTypes  == batch \in [Rows -> Cells] /\ resolved \in [Rows -> Outcomes \cup {"absent"}]
CountTypes  == failures \in Nat

Types ==
  /\ StatusTypes /\ IdTypes /\ FlagTypes /\ TapeTypes /\ PassTypes /\ BatchTypes /\ CountTypes

LEMMA TypesAreTypeOK == Types <=> MirrorTypeOK
  BY DEF Types, StatusTypes, IdTypes, FlagTypes, TapeTypes, PassTypes, BatchTypes, CountTypes,
         MirrorTypeOK, Cells, Places

LEMMA MayFailCounts == ASSUME CountTypes, NEW f, MayFail(f) PROVE CountTypes'
  BY SMT DEF CountTypes, MayFail

LEMMA NoBatchTypes == NoBatch \in [Rows -> Cells] /\ NoBatch \in [Rows -> Outcomes \cup {"absent"}]
  BY DEF NoBatch, Cells

(* The two ways in which a step leaves the pass.                           *)
LEMMA IdleTypes == ASSUME Idle PROVE PassTypes' /\ BatchTypes'
  BY NoBatchTypes DEF Idle, PassTypes, BatchTypes, Places

LEMMA ToResyncTypes == ASSUME BatchTypes, ToResync PROVE PassTypes' /\ BatchTypes'
  BY NoBatchTypes DEF ToResync, PassTypes, BatchTypes, Places

LEMMA LedgerFrame ==
  ASSUME StatusTypes, IdTypes, FlagTypes, UNCHANGED ledgerVars
  PROVE  StatusTypes' /\ IdTypes' /\ FlagTypes'
  BY DEF StatusTypes, IdTypes, FlagTypes, ledgerVars

LEMMA SharedFrame == ASSUME TapeTypes, UNCHANGED sharedVars PROVE TapeTypes'
  BY DEF TapeTypes, sharedVars

LEMMA PassFrame ==
  ASSUME PassTypes, BatchTypes, UNCHANGED passVars PROVE PassTypes' /\ BatchTypes'
  BY DEF PassTypes, BatchTypes, passVars

LEMMA CountFrame == ASSUME CountTypes, UNCHANGED failures PROVE CountTypes'
  BY DEF CountTypes

(* What a commit makes of one cell of the tape.                            *)
LEMMA InsertedAt ==
  ASSUME TapeTypes, BatchTypes
  PROVE  /\ Inserted \in [Rows \X Statuses -> Nat]
         /\ \A r \in Rows, st \in Statuses :
              Inserted[<<r, st>>] = tape[<<r, st>>] + IF batch[r] = st THEN 1 ELSE 0
<1>1. ASSUME NEW p \in Rows \X Statuses
      PROVE  tape[p] + (IF batch[p[1]] = p[2] THEN 1 ELSE 0) \in Nat
  BY SMT DEF TapeTypes
<1>2. Inserted \in [Rows \X Statuses -> Nat]
  BY <1>1 DEF Inserted
<1>3. ASSUME NEW r \in Rows, NEW st \in Statuses
      PROVE  Inserted[<<r, st>>] = tape[<<r, st>>] + IF batch[r] = st THEN 1 ELSE 0
  BY DEF Inserted
<1> QED
  BY <1>2, <1>3

LEMMA UpdatedAt ==
  ASSUME TapeTypes, BatchTypes
  PROVE  /\ Updated \in [Rows \X Statuses -> Nat]
         /\ \A r \in Rows, st \in Statuses :
              /\ resolved[r] = "absent" => Updated[<<r, st>>] = tape[<<r, st>>]
              /\ resolved[r] # "absent" => Updated[<<r, "submitted">>] = 0
              /\ (resolved[r] # "absent" /\ st # "submitted" /\ st # resolved[r])
                   => Updated[<<r, st>>] = tape[<<r, st>>]
         /\ \A r \in Rows : resolved[r] # "absent" =>
              Updated[<<r, resolved[r]>>] = tape[<<r, resolved[r]>>] + tape[<<r, "submitted">>]
<1>0. \A r \in Rows : <<r, "submitted">> \in Rows \X Statuses
  BY DEF Statuses
<1>1. ASSUME NEW p \in Rows \X Statuses
      PROVE  (IF resolved[p[1]] = "absent" THEN tape[p]
              ELSE IF p[2] = "submitted" THEN 0
              ELSE IF p[2] = resolved[p[1]] THEN tape[p] + tape[<<p[1], "submitted">>]
              ELSE tape[p]) \in Nat
  <2>1. tape[p] \in Nat /\ tape[<<p[1], "submitted">>] \in Nat
    BY <1>0 DEF TapeTypes
  <2> QED
    BY <2>1, SMT
<1>2. Updated \in [Rows \X Statuses -> Nat]
  BY <1>1 DEF Updated
<1>3. ASSUME NEW r \in Rows, NEW st \in Statuses
      PROVE  Updated[<<r, st>>] =
               IF resolved[r] = "absent" THEN tape[<<r, st>>]
               ELSE IF st = "submitted" THEN 0
               ELSE IF st = resolved[r] THEN tape[<<r, st>>] + tape[<<r, "submitted">>]
               ELSE tape[<<r, st>>]
  BY DEF Updated
<1>4. "submitted" \in Statuses /\ "submitted" \notin Outcomes
  BY DEF Statuses, Outcomes
<1>5. \A r \in Rows : resolved[r] # "absent" => resolved[r] \in Outcomes /\ resolved[r] \in Statuses
  BY DEF BatchTypes, Statuses
<1> QED
  BY <1>2, <1>3, <1>4, <1>5, Zenon

LEMMA TypesBegin == MirrorInit => Types
<1> SUFFICES ASSUME MirrorInit PROVE Types
  OBVIOUS
<1>1. StatusTypes /\ FlagTypes
  BY DEF MirrorInit, StatusTypes, FlagTypes, Cells
<1>2. IdTypes
  BY MirrorAssumption DEF MirrorInit, IdTypes
<1>3. TapeTypes
  BY DEF MirrorInit, TapeTypes
<1>4. PassTypes /\ BatchTypes
  BY NoBatchTypes DEF MirrorInit, PassTypes, BatchTypes, Places
<1>5. CountTypes
  BY DEF MirrorInit, CountTypes
<1> QED
  BY <1>1, <1>2, <1>3, <1>4, <1>5 DEF Types

(* The worker writes its ledger and nothing else.                          *)
LEMMA WorkerTypes ==
  Types /\ (\E r \in Rows : Insert(r) \/ Resolve(r) \/ Age(r)) => Types'
<1> SUFFICES ASSUME Types, NEW r \in Rows, Insert(r) \/ Resolve(r) \/ Age(r) PROVE Types'
  OBVIOUS
<1> USE DEF Types
<1>1. TapeTypes' /\ PassTypes' /\ BatchTypes'
  BY SharedFrame, PassFrame DEF Insert, Resolve, Age
<1>2. StatusTypes'
  BY DEF StatusTypes, Cells, Statuses, Insert, Resolve, Age
<1>3. FlagTypes'
  BY DEF FlagTypes, Insert, Resolve, Age
<1>4. IdTypes'
  <2>1. CASE Insert(r)
    <3>1. size[holder] + 1 \in Nat
      BY SMT DEF IdTypes
    <3> QED
      BY <2>1, <3>1 DEF IdTypes, Insert
  <2>2. CASE Resolve(r) \/ Age(r)
    BY <2>2 DEF IdTypes, Resolve, Age
  <2> QED
    BY <2>1, <2>2
<1>5. CountTypes'
  BY CountFrame, MayFailCounts DEF Insert, Resolve, Age
<1> QED
  BY <1>1, <1>2, <1>3, <1>4, <1>5

LEMMA StartIsNat == ASSUME PassTypes PROVE Start \in Nat
  BY SMT DEF Start, PassTypes

LEMMA PassStepTypes == Types /\ PassStep => Types'
<1> SUFFICES ASSUME Types, PassStep PROVE Types'
  OBVIOUS
<1> USE DEF Types
<1>1. CASE ReadMark
  <2>1. PassTypes' /\ BatchTypes'
    BY <1>1 DEF ReadMark, PassTypes, BatchTypes, TapeTypes, Places
  <2> QED
    BY <1>1, <2>1, LedgerFrame, SharedFrame, CountFrame DEF ReadMark
<1>2. CASE ReadRows
  <2> DEFINE last == IF Start + Batch < size[holder] THEN Start + Batch ELSE size[holder]
             read == [r \in Rows |-> IF r \in Fresh(Start + 1, last) THEN status[r] ELSE "absent"]
  <2>1. last \in Nat
    BY StartIsNat, MirrorAssumption, SMT DEF IdTypes
  <2>2. read \in [Rows -> Cells]
    BY DEF StatusTypes, Cells
  <2>3. CASE last = Start
    BY <1>2, <2>3, ToResyncTypes, LedgerFrame, SharedFrame, CountFrame DEF ReadRows
  <2>4. CASE last # Start
    <3>1. pass' = "rows" /\ top' = last /\ batch' = read /\ UNCHANGED <<from, resolved>>
      BY <1>2, <2>4 DEF ReadRows
    <3>2. PassTypes' /\ BatchTypes'
      BY <2>1, <2>2, <3>1 DEF PassTypes, BatchTypes, Places
    <3> QED
      BY <1>2, <3>2, LedgerFrame, SharedFrame, CountFrame DEF ReadRows
  <2> QED
    BY <2>3, <2>4
<1>3. CASE CommitRows
  <2>1. TapeTypes'
    BY <1>3, InsertedAt DEF CommitRows, TapeTypes, PassTypes
  <2>2. PassTypes' /\ BatchTypes'
    BY <1>3, ToResyncTypes DEF CommitRows
  <2>3. StatusTypes' /\ IdTypes' /\ FlagTypes'
    BY <1>3 DEF CommitRows, StatusTypes, IdTypes, FlagTypes
  <2> QED
    BY <1>3, <2>1, <2>2, <2>3, CountFrame DEF CommitRows
<1>4. CASE ReadResolved
  <2>1. \A r \in Rows : r \in Newest(Settled) => status[r] \in Outcomes
    BY DEF Newest, Settled
  <2>2. PassTypes' /\ BatchTypes'
    BY <1>4, <2>1 DEF ReadResolved, PassTypes, BatchTypes, Places
  <2> QED
    BY <1>4, <2>2, LedgerFrame, SharedFrame, CountFrame DEF ReadResolved
<1>5. CASE CommitResolved
  <2>1. TapeTypes'
    BY <1>5, UpdatedAt DEF CommitResolved, TapeTypes
  <2> QED
    BY <1>5, <2>1, IdleTypes, LedgerFrame, CountFrame DEF CommitResolved
<1> QED
  BY <1>1, <1>2, <1>3, <1>4, <1>5 DEF PassStep

LEMMA FaultTypes ==
  Types /\ (LogFails \/ ResyncFails \/ Crash \/ Rebuild \/ \E h \in Homes : Handover(h)) => Types'
<1> SUFFICES ASSUME Types, LogFails \/ ResyncFails \/ Crash \/ Rebuild \/ \E h \in Homes : Handover(h)
             PROVE  Types'
  OBVIOUS
<1> USE DEF Types
<1>1. CASE LogFails
  BY <1>1, ToResyncTypes, LedgerFrame, SharedFrame, MayFailCounts DEF LogFails
<1>2. CASE ResyncFails \/ Crash
  BY <1>2, IdleTypes, LedgerFrame, SharedFrame, MayFailCounts DEF ResyncFails, Crash
<1>3. CASE Rebuild
  <2>1. [p \in Homes \X Rows |-> IF p[1] = holder THEN 0 ELSE id[p]] \in [Homes \X Rows -> Nat]
    BY DEF IdTypes
  <2>2. IdTypes'
    BY <1>3, <2>1 DEF Rebuild, IdTypes
  <2>3. StatusTypes' /\ FlagTypes'
    BY <1>3 DEF Rebuild, StatusTypes, FlagTypes
  <2> QED
    BY <1>3, <2>2, <2>3, IdleTypes, SharedFrame, MayFailCounts DEF Rebuild
<1>4. ASSUME NEW h \in Homes, Handover(h) PROVE Types'
  <2>1. IdTypes' /\ StatusTypes' /\ FlagTypes'
    BY <1>4 DEF Handover, IdTypes, StatusTypes, FlagTypes
  <2> QED
    BY <1>4, <2>1, IdleTypes, SharedFrame, MayFailCounts DEF Handover
<1> QED
  BY <1>1, <1>2, <1>3, <1>4

LEMMA TypesStep == Types /\ [MirrorNext]_mirrorVars => Types'
<1> SUFFICES ASSUME Types, [MirrorNext]_mirrorVars PROVE Types'
  OBVIOUS
<1>1. CASE UNCHANGED mirrorVars
  BY <1>1, LedgerFrame, SharedFrame, PassFrame, CountFrame DEF mirrorVars, Types
<1> QED
  BY <1>1, WorkerTypes, PassStepTypes, FaultTypes DEF MirrorNext

LEMMA TypesHold == MirrorSpec => []Types
  BY TypesBegin, TypesStep, PTL DEF MirrorSpec

(* Every variable of the mirror keeps its type.                            *)
THEOREM MirrorTypeCorrect == MirrorSpec => []MirrorTypeOK
  BY TypesHold, TypesAreTypeOK, PTL

-----------------------------------------------------------------------------
(* The tape is truthful.                                                   *)

(* An outcome is final, so what was read of one stays true while it waits  *)
(* to be written.                                                          *)
Truth ==
  \A r \in Rows :
    /\ \A st \in Outcomes : tape[<<r, st>>] > 0 => status[r] = st
    /\ batch[r] \in Outcomes => status[r] = batch[r]
    /\ resolved[r] # "absent" => status[r] = resolved[r]

LEMMA NoBatchIsEmpty == \A r \in Rows : NoBatch[r] = "absent" /\ NoBatch[r] \notin Outcomes
  BY DEF NoBatch, Outcomes

LEMMA TruthBegins == MirrorInit => Truth
<1> SUFFICES ASSUME MirrorInit, NEW r \in Rows
             PROVE  /\ \A st \in Outcomes : tape[<<r, st>>] > 0 => status[r] = st
                    /\ batch[r] \in Outcomes => status[r] = batch[r]
                    /\ resolved[r] # "absent" => status[r] = resolved[r]
  BY DEF Truth
<1>1. \A st \in Outcomes : tape[<<r, st>>] = 0
  BY DEF MirrorInit, Statuses
<1> QED
  BY <1>1, NoBatchIsEmpty, SMT DEF MirrorInit

(* What is settled is never written again by the worker.                   *)
LEMMA OutcomesAreFinal ==
  ASSUME Types, [MirrorNext]_mirrorVars, NEW r \in Rows, status[r] \in Outcomes
  PROVE  status'[r] = status[r]
<1>1. status[r] # "absent" /\ status[r] # "submitted"
  BY DEF Outcomes
<1>2. ASSUME NEW q \in Rows, Insert(q) \/ Resolve(q) PROVE status'[r] = status[r]
  <2>1. q # r
    BY <1>1, <1>2 DEF Insert, Resolve
  <2> QED
    BY <1>2, <2>1 DEF Insert, Resolve, Types, StatusTypes
<1>3. CASE UNCHANGED status
  BY <1>3
<1> QED
  BY <1>2, <1>3 DEF MirrorNext, Age, PassStep, ReadMark, ReadRows, CommitRows, ReadResolved,
     CommitResolved, LogFails, ResyncFails, Crash, Rebuild, Handover, mirrorVars, ledgerVars

LEMMA TruthOfTape ==
  ASSUME Types, Truth, [MirrorNext]_mirrorVars, NEW r \in Rows, NEW st \in Outcomes,
         tape'[<<r, st>>] > 0
  PROVE  status[r] = st
<1> USE DEF Types
<1>0. st \in Statuses /\ st # "submitted" /\ "absent" \notin Outcomes /\ tape[<<r, st>>] \in Nat
  BY DEF Statuses, Outcomes, TapeTypes
<1>1. CASE CommitRows
  <2>1. tape'[<<r, st>>] = tape[<<r, st>>] + IF batch[r] = st THEN 1 ELSE 0
    BY <1>0, <1>1, InsertedAt DEF CommitRows
  <2>2. CASE batch[r] = st
    BY <2>2 DEF Truth
  <2>3. CASE batch[r] # st
    <3>1. tape[<<r, st>>] > 0
      BY <1>0, <2>1, <2>3, SMT
    <3> QED
      BY <3>1 DEF Truth
  <2> QED
    BY <2>2, <2>3
<1>2. CASE CommitResolved
  <2>1. CASE resolved[r] = st
    BY <1>0, <2>1 DEF Truth
  <2>2. CASE resolved[r] # st
    <3>1. tape'[<<r, st>>] = tape[<<r, st>>]
      BY <1>0, <1>2, <2>2, UpdatedAt DEF CommitResolved
    <3> QED
      BY <3>1 DEF Truth
  <2> QED
    BY <2>1, <2>2
<1>3. CASE UNCHANGED tape
  BY <1>3 DEF Truth
<1> QED
  BY <1>1, <1>2, <1>3 DEF MirrorNext, Insert, Resolve, Age, PassStep, ReadMark, ReadRows,
     ReadResolved, LogFails, ResyncFails, Crash, Rebuild, Handover, mirrorVars, sharedVars

LEMMA TruthOfReads ==
  ASSUME Types, Truth, [MirrorNext]_mirrorVars, NEW r \in Rows
  PROVE  /\ batch'[r] \in Outcomes => status[r] = batch'[r]
         /\ resolved'[r] # "absent" => status[r] = resolved'[r]
<1>1. CASE ReadRows
  <2> DEFINE last == IF Start + Batch < size[holder] THEN Start + Batch ELSE size[holder]
  <2>1. CASE last = Start
    BY <1>1, <2>1, NoBatchIsEmpty DEF ReadRows, ToResync, Truth
  <2>2. CASE last # Start
    <3>1. batch'[r] = status[r] \/ batch'[r] = "absent"
      BY <1>1, <2>2 DEF ReadRows
    <3> QED
      BY <1>1, <2>2, <3>1 DEF ReadRows, Truth, Outcomes
  <2> QED
    BY <2>1, <2>2
<1>2. CASE ReadResolved
  <2>1. resolved'[r] = status[r] \/ resolved'[r] = "absent"
    BY <1>2 DEF ReadResolved
  <2> QED
    BY <1>2, <2>1 DEF ReadResolved, Truth
<1>3. CASE Idle
  BY <1>3, NoBatchIsEmpty DEF Idle
<1>4. CASE ToResync
  BY <1>4, NoBatchIsEmpty DEF ToResync, Truth
<1>5. CASE UNCHANGED <<batch, resolved>>
  BY <1>5 DEF Truth
<1> QED
  BY <1>1, <1>2, <1>3, <1>4, <1>5 DEF MirrorNext, Insert, Resolve, Age, PassStep, ReadMark,
     CommitRows, CommitResolved, LogFails, ResyncFails, Crash, Rebuild, Handover, mirrorVars,
     passVars

LEMMA TruthStep == Types /\ Truth /\ [MirrorNext]_mirrorVars => Truth'
<1> SUFFICES ASSUME Types, Truth, [MirrorNext]_mirrorVars, NEW r \in Rows
             PROVE  /\ \A st \in Outcomes : tape'[<<r, st>>] > 0 => status'[r] = st
                    /\ batch'[r] \in Outcomes => status'[r] = batch'[r]
                    /\ resolved'[r] # "absent" => status'[r] = resolved'[r]
  BY DEF Truth
<1>1. \A st \in Outcomes : tape'[<<r, st>>] > 0 => status[r] = st
  BY TruthOfTape
<1>2. /\ batch'[r] \in Outcomes => status[r] = batch'[r]
      /\ resolved'[r] # "absent" => status[r] = resolved'[r]
  BY TruthOfReads
<1>3. Types'
  BY TypesStep
<1>4. resolved'[r] # "absent" => resolved'[r] \in Outcomes
  BY <1>3 DEF Types, BatchTypes
<1> QED
  BY <1>1, <1>2, <1>4, OutcomesAreFinal

LEMMA TruthHolds == MirrorSpec => []Truth
  BY TypesHold, TruthBegins, TruthStep, PTL DEF MirrorSpec

LEMMA TruthIsOnTape == Truth => TapeTruthful
  BY DEF Truth, TapeTruthful

(* Whatever fails, dies, is rebuilt or comes back: the tape shows an       *)
(* outcome only of a trade that had it.                                    *)
THEOREM TapeIsTruthful == MirrorSpec => []TapeTruthful
  BY TruthHolds, TruthIsOnTape, PTL

-----------------------------------------------------------------------------
(* The mirror implements TradeTape.                                        *)

LEMMA ViewBegins == MirrorInit => Tape!Init
<1> SUFFICES ASSUME MirrorInit, NEW r \in Rows PROVE View(r) = "absent"
  BY DEF Tape!Init
<1>1. \A st \in Statuses : tape[<<r, st>>] = 0
  BY DEF MirrorInit
<1>2. \A st \in Statuses : ~(tape[<<r, st>>] > 0)
  BY <1>1, SMT
<1> QED
  BY <1>2 DEF View, Statuses, Outcomes

(* No step takes an outcome off the tape, and a placeholder leaves it for  *)
(* an outcome.                                                             *)
LEMMA CellsMove ==
  ASSUME Types, [MirrorNext]_mirrorVars, NEW r \in Rows
  PROVE  /\ \A st \in Outcomes : tape[<<r, st>>] > 0 => tape'[<<r, st>>] > 0
         /\ tape[<<r, "submitted">>] > 0 =>
              \E st \in Statuses : tape'[<<r, st>>] > 0
<1> USE DEF Types
<1>0. /\ \A st \in Statuses : tape[<<r, st>>] \in Nat
      /\ \A st \in Outcomes : st \in Statuses /\ st # "submitted"
      /\ "submitted" \in Statuses
  BY DEF Statuses, Outcomes, TapeTypes
<1>1. CASE CommitRows
  <2>1. \A st \in Statuses : tape'[<<r, st>>] = tape[<<r, st>>] + IF batch[r] = st THEN 1 ELSE 0
    BY <1>1, InsertedAt DEF CommitRows
  <2>2. \A st \in Statuses : tape[<<r, st>>] > 0 => tape'[<<r, st>>] > 0
    BY <1>0, <2>1, SMT
  <2> QED
    BY <1>0, <2>2
<1>2. CASE CommitResolved
  <2>1. CASE resolved[r] = "absent"
    <3>1. \A st \in Statuses : tape'[<<r, st>>] = tape[<<r, st>>]
      BY <1>2, <2>1, UpdatedAt DEF CommitResolved
    <3> QED
      BY <1>0, <3>1
  <2>2. CASE resolved[r] # "absent"
    <3>1. resolved[r] \in Outcomes
      BY <2>2 DEF BatchTypes
    <3>2. tape'[<<r, resolved[r]>>] = tape[<<r, resolved[r]>>] + tape[<<r, "submitted">>]
      BY <1>2, <2>2, UpdatedAt DEF CommitResolved
    <3>3. \A st \in Outcomes : st # resolved[r] => tape'[<<r, st>>] = tape[<<r, st>>]
      BY <1>0, <1>2, <2>2, UpdatedAt DEF CommitResolved
    <3>4. tape[<<r, resolved[r]>>] \in Nat /\ tape[<<r, "submitted">>] \in Nat
      BY <1>0, <3>1
    <3>5. (tape[<<r, resolved[r]>>] > 0 \/ tape[<<r, "submitted">>] > 0)
             => tape'[<<r, resolved[r]>>] > 0
      BY <3>2, <3>4, SMT
    <3> QED
      BY <1>0, <3>1, <3>3, <3>5
  <2> QED
    BY <2>1, <2>2
<1>3. CASE UNCHANGED tape
  BY <1>0, <1>3
<1> QED
  BY <1>1, <1>2, <1>3 DEF MirrorNext, Insert, Resolve, Age, PassStep, ReadMark, ReadRows,
     ReadResolved, LogFails, ResyncFails, Crash, Rebuild, Handover, mirrorVars, sharedVars

LEMMA ViewMoves ==
  ASSUME Types, Truth', [MirrorNext]_mirrorVars, NEW r \in Rows
  PROVE  Tape!MayBecome(View(r), View(r)')
<1>1. ~(tape'[<<r, "landed">>] > 0 /\ tape'[<<r, "reverted">>] > 0)
  BY DEF Truth, Outcomes
<1>2. /\ tape[<<r, "landed">>] > 0 => tape'[<<r, "landed">>] > 0
      /\ tape[<<r, "reverted">>] > 0 => tape'[<<r, "reverted">>] > 0
      /\ tape[<<r, "submitted">>] > 0 =>
           tape'[<<r, "submitted">>] > 0 \/ tape'[<<r, "landed">>] > 0 \/ tape'[<<r, "reverted">>] > 0
  BY CellsMove DEF Outcomes, Statuses
<1> QED
  BY <1>1, <1>2 DEF View, Tape!MayBecome, Tape!Outcomes

LEMMA ViewSteps ==
  ASSUME Types, Truth', [MirrorNext]_mirrorVars
  PROVE  [Tape!Publish]_([r \in Rows |-> View(r)])
<1> DEFINE shown == [r \in Rows |-> View(r)]
<1>1. shown' \in [Rows -> Tape!Views]
  BY DEF View, Tape!Views, Tape!Outcomes
<1>2. \A r \in Rows : Tape!MayBecome(shown[r], shown'[r])
  BY ViewMoves
<1> QED
  BY <1>1, <1>2 DEF Tape!Publish

(* What the readers of the shared table see behaves like a TradeTape,      *)
(* under every fault: shown stays shown, settled stays settled.            *)
THEOREM MirrorImplementsTape == MirrorSpec => ImplementsTape
  BY TypesHold, TruthHolds, ViewBegins, ViewSteps, PTL DEF MirrorSpec, ImplementsTape, Tape!Spec

-----------------------------------------------------------------------------
(* No trade is on the tape twice.                                          *)

(* The ids of a ledger are 1..size, one for each of its rows, and a trade  *)
(* that was never written has neither an id nor a copy.                    *)
Ids ==
  /\ \A h \in Homes, r \in Rows : id[<<h, r>>] <= size[h]
  /\ \A h \in Homes, n \in Nat \ {0} : n <= size[h] => \E r \in Rows : id[<<h, r>>] = n
  /\ \A r \in Rows : status[r] = "absent" =>
       /\ \A h \in Homes : id[<<h, r>>] = 0
       /\ Copies(r) = 0

(* A row is copied at most once; not yet when its id is above the          *)
(* watermark, or when its ledger is younger than that.                     *)
Once ==
  /\ \A r \in Rows : Copies(r) <= 1
  /\ \A r \in Rows : (id[<<holder, r>>] > 0 /\ (reborn \/ id[<<holder, r>>] > mark)) => Copies(r) = 0
  /\ ~reborn => mark <= size[holder]

(* The rows a pass carries are in the ledger, below its new watermark, and *)
(* not copied yet.                                                         *)
Carried ==
  /\ pass \in {"marked", "rows"} => from = mark
  /\ pass = "rows" =>
       /\ top <= size[holder] /\ (~reborn => mark <= top)
       /\ \A r \in Rows : batch[r] # "absent" =>
            id[<<holder, r>>] > 0 /\ id[<<holder, r>>] <= top /\ Copies(r) = 0

CopyInv == Ids /\ Once /\ Carried

NoReturn == "return" \notin MirrorFaults

(* The three cells of a row as the tape's type has them.                   *)
LEMMA CopiesIsNat == ASSUME TapeTypes, NEW r \in Rows PROVE Copies(r) \in Nat
<1>1. \A st \in Statuses : tape[<<r, st>>] \in Nat
  BY DEF TapeTypes
<1>2. /\ tape[<<r, "submitted">>] \in Nat /\ tape[<<r, "landed">>] \in Nat
      /\ tape[<<r, "reverted">>] \in Nat
  BY <1>1 DEF Statuses, Outcomes
<1> QED
  BY <1>2, SMT DEF Copies

LEMMA CommitAdds ==
  ASSUME TapeTypes, BatchTypes, NEW r \in Rows, tape' = Inserted
  PROVE  Copies(r)' = Copies(r) + IF batch[r] # "absent" THEN 1 ELSE 0
<1>1. \A st \in Statuses : tape[<<r, st>>] \in Nat
  BY DEF TapeTypes
<1>2. \A st \in Statuses : tape'[<<r, st>>] = tape[<<r, st>>] + IF batch[r] = st THEN 1 ELSE 0
  BY InsertedAt
<1>3. /\ tape'[<<r, "submitted">>] =
           tape[<<r, "submitted">>] + IF batch[r] = "submitted" THEN 1 ELSE 0
      /\ tape'[<<r, "landed">>] = tape[<<r, "landed">>] + IF batch[r] = "landed" THEN 1 ELSE 0
      /\ tape'[<<r, "reverted">>] =
           tape[<<r, "reverted">>] + IF batch[r] = "reverted" THEN 1 ELSE 0
      /\ tape[<<r, "submitted">>] \in Nat /\ tape[<<r, "landed">>] \in Nat
      /\ tape[<<r, "reverted">>] \in Nat
  BY <1>1, <1>2 DEF Statuses, Outcomes
<1>4. batch[r] \in {"absent", "submitted", "landed", "reverted"}
  BY DEF BatchTypes, Cells, Statuses, Outcomes
<1> QED
  BY <1>3, <1>4, SMT DEF Copies

LEMMA ResyncMoves ==
  ASSUME TapeTypes, BatchTypes, NEW r \in Rows, tape' = Updated
  PROVE  Copies(r)' = Copies(r)
<1>1. /\ tape[<<r, "submitted">>] \in Nat /\ tape[<<r, "landed">>] \in Nat
      /\ tape[<<r, "reverted">>] \in Nat
  BY DEF TapeTypes, Statuses, Outcomes
<1>2. CASE resolved[r] = "absent"
  <2>1. \A st \in Statuses : tape'[<<r, st>>] = tape[<<r, st>>]
    BY <1>2, UpdatedAt
  <2> QED
    BY <2>1 DEF Copies, Statuses, Outcomes
<1>3. CASE resolved[r] = "landed"
  <2>1. /\ tape'[<<r, "submitted">>] = 0
        /\ tape'[<<r, "landed">>] = tape[<<r, "landed">>] + tape[<<r, "submitted">>]
        /\ tape'[<<r, "reverted">>] = tape[<<r, "reverted">>]
    BY <1>3, UpdatedAt DEF Statuses, Outcomes
  <2> QED
    BY <1>1, <2>1, SMT DEF Copies
<1>4. CASE resolved[r] = "reverted"
  <2>1. /\ tape'[<<r, "submitted">>] = 0
        /\ tape'[<<r, "reverted">>] = tape[<<r, "reverted">>] + tape[<<r, "submitted">>]
        /\ tape'[<<r, "landed">>] = tape[<<r, "landed">>]
    BY <1>4, UpdatedAt DEF Statuses, Outcomes
  <2> QED
    BY <1>1, <2>1, SMT DEF Copies
<1> QED
  BY <1>2, <1>3, <1>4 DEF BatchTypes, Outcomes

LEMMA CopiesStay == ASSUME NEW r \in Rows, UNCHANGED tape PROVE Copies(r)' = Copies(r)
  BY DEF Copies

LEMMA CopyBegins == MirrorInit => CopyInv
<1> SUFFICES ASSUME MirrorInit PROVE CopyInv
  OBVIOUS
<1>1. ASSUME NEW r \in Rows PROVE Copies(r) = 0
  <2>1. /\ tape[<<r, "submitted">>] = 0 /\ tape[<<r, "landed">>] = 0
        /\ tape[<<r, "reverted">>] = 0
    BY DEF MirrorInit, Statuses, Outcomes
  <2> QED
    BY <2>1, SMT DEF Copies
<1>2. \A h \in Homes, r \in Rows : id[<<h, r>>] = 0 /\ size[h] = 0
  BY DEF MirrorInit
<1>3. holder \in Homes /\ mark = 0 /\ pass = "idle"
  BY MirrorAssumption DEF MirrorInit
<1>4. Ids
  BY <1>1, <1>2, SMT DEF Ids, MirrorInit
<1>5. Once
  BY <1>1, <1>2, <1>3, SMT DEF Once, MirrorInit
<1>6. Carried
  BY <1>3 DEF Carried
<1> QED
  BY <1>4, <1>5, <1>6 DEF CopyInv

(* A step that moves neither ledger nor tape nor watermark.                *)
LEMMA CopyFrame ==
  ASSUME CopyInv, UNCHANGED <<ledgerVars, sharedVars>>, Carried'
  PROVE  CopyInv'
<1>1. \A r \in Rows : Copies(r)' = Copies(r)
  BY CopiesStay DEF sharedVars
<1>2. Ids'
  BY <1>1 DEF CopyInv, Ids, ledgerVars
<1>3. Once'
  BY <1>1 DEF CopyInv, Once, ledgerVars, sharedVars
<1> QED
  BY <1>2, <1>3 DEF CopyInv

(* A pass that is not in these places carries nothing.                     *)
LEMMA CarriedElsewhere ==
  ASSUME pass' \notin {"marked", "rows"} PROVE Carried'
  BY DEF Carried

LEMMA InsertKeepsCopies ==
  ASSUME Types, CopyInv, NEW r \in Rows, Insert(r) PROVE CopyInv'
<1> USE DEF Types, CopyInv
<1>1. holder \in Homes /\ size[holder] \in Nat /\ \A h \in Homes, q \in Rows : id[<<h, q>>] \in Nat
  BY DEF IdTypes
<1>2. /\ status[r] = "absent" /\ \A h \in Homes : id[<<h, r>>] = 0
      /\ Copies(r) = 0 /\ status'[r] # "absent"
  BY DEF Insert, Ids, StatusTypes, Statuses, Outcomes
<1>3. \A q \in Rows : Copies(q)' = Copies(q)
  BY CopiesStay DEF Insert, sharedVars
<1>4. /\ \A q \in Rows : q # r => status'[q] = status[q]
      /\ \A h \in Homes, q \in Rows : (h # holder \/ q # r) => id'[<<h, q>>] = id[<<h, q>>]
      /\ id'[<<holder, r>>] = size[holder] + 1
      /\ \A h \in Homes : h # holder => size'[h] = size[h]
      /\ size'[holder] = size[holder] + 1
      /\ holder' = holder /\ reborn' = reborn /\ mark' = mark
      /\ UNCHANGED passVars
  BY <1>1 DEF Insert, StatusTypes, IdTypes, sharedVars
<1>5. Ids'
  <2>1. \A h \in Homes, q \in Rows : id'[<<h, q>>] <= size'[h]
    <3> SUFFICES ASSUME NEW h \in Homes, NEW q \in Rows PROVE id'[<<h, q>>] <= size'[h]
      OBVIOUS
    <3>1. id[<<h, q>>] <= size[h] /\ id[<<h, q>>] \in Nat /\ size[h] \in Nat
      BY DEF Ids, IdTypes
    <3> QED
      BY <1>1, <1>4, <3>1, SMT
  <2>2. ASSUME NEW h \in Homes, NEW n \in Nat \ {0}, n <= size'[h]
        PROVE  \E q \in Rows : id'[<<h, q>>] = n
    <3>1. CASE h = holder /\ n = size[holder] + 1
      BY <1>4, <3>1
    <3>2. CASE ~(h = holder /\ n = size[holder] + 1)
      <4>1. size[h] \in Nat
        BY DEF IdTypes
      <4>2. n <= size[h]
        BY <1>4, <2>2, <3>2, <4>1, SMT
      <4>3. PICK q \in Rows : id[<<h, q>>] = n
        BY <4>2 DEF Ids
      <4>4. q # r
        BY <1>2, <4>3
      <4> QED
        BY <1>4, <4>3, <4>4
    <3> QED
      BY <3>1, <3>2
  <2>3. \A q \in Rows : status'[q] = "absent" =>
          (\A h \in Homes : id'[<<h, q>>] = 0) /\ Copies(q)' = 0
    BY <1>2, <1>3, <1>4 DEF Ids
  <2> QED
    BY <2>1, <2>2, <2>3 DEF Ids
<1>6. Once'
  <2>1. \A q \in Rows : Copies(q)' <= 1
    BY <1>3 DEF Once
  <2>2. ASSUME NEW q \in Rows, id'[<<holder', q>>] > 0, reborn' \/ id'[<<holder', q>>] > mark'
        PROVE  Copies(q)' = 0
    <3>1. CASE q = r
      BY <1>2, <1>3, <3>1
    <3>2. CASE q # r
      BY <1>1, <1>3, <1>4, <2>2, <3>2 DEF Once
    <3> QED
      BY <3>1, <3>2
  <2>3. ~reborn' => mark' <= size'[holder']
    BY <1>1, <1>4, SMT DEF Once, TapeTypes
  <2> QED
    BY <2>1, <2>2, <2>3 DEF Once
<1>7. Carried'
  <2>1. pass' = pass /\ from' = from /\ top' = top /\ batch' = batch
    BY <1>4 DEF passVars
  <2>2. top <= size[holder] => top' <= size'[holder']
    BY <1>1, <1>4, <2>1, SMT DEF PassTypes
  <2>3. ASSUME pass = "rows", NEW q \in Rows, batch[q] # "absent" PROVE q # r
    <3>1. id[<<holder, q>>] > 0
      BY <2>3 DEF Carried
    <3>2. id[<<holder, r>>] = 0
      BY <1>1, <1>2
    <3> QED
      BY <3>1, <3>2, SMT
  <2> QED
    BY <1>1, <1>3, <1>4, <2>1, <2>2, <2>3 DEF Carried
<1> QED
  BY <1>5, <1>6, <1>7

LEMMA ResolveKeepsCopies ==
  ASSUME Types, CopyInv, NEW r \in Rows, Resolve(r) \/ Age(r) PROVE CopyInv'
<1> USE DEF Types, CopyInv
<1>1. UNCHANGED <<id, size, holder, reborn, sharedVars, passVars>>
  BY DEF Resolve, Age
<1>2. \A q \in Rows : status'[q] = "absent" => status[q] = "absent"
  BY DEF Resolve, Age, StatusTypes, Outcomes
<1>3. \A q \in Rows : Copies(q)' = Copies(q)
  BY <1>1, CopiesStay DEF sharedVars
<1>4. Ids'
  BY <1>1, <1>2, <1>3 DEF Ids
<1>5. Once'
  BY <1>1, <1>3 DEF Once, sharedVars
<1>6. Carried'
  BY <1>1, <1>3 DEF Carried, sharedVars, passVars
<1> QED
  BY <1>4, <1>5, <1>6

(* Where a pass starts: after the watermark, unless the ledger is younger. *)
LEMMA StartsAtMark ==
  ASSUME Types, CopyInv, pass = "marked", ~reborn PROVE Start = mark
<1>1. from = mark /\ mark \in Nat /\ mark <= size[holder] /\ holder \in Homes
  BY DEF CopyInv, Carried, Once, Types, TapeTypes, IdTypes
<1>2. CASE mark = 0
  BY <1>1, <1>2, SMT DEF Start
<1>3. CASE mark # 0
  <2>1. HasRow(from)
    BY <1>1, <1>3 DEF CopyInv, Ids, HasRow
  <2> QED
    BY <1>1, <2>1 DEF Start
<1> QED
  BY <1>2, <1>3

LEMMA ReadKeepsCopies == ASSUME Types, CopyInv, ReadRows PROVE CopyInv'
<1> USE DEF Types, CopyInv
<1> DEFINE last == IF Start + Batch < size[holder] THEN Start + Batch ELSE size[holder]
<1>0. /\ Start \in Nat /\ holder \in Homes /\ size[holder] \in Nat /\ last \in Nat
      /\ \A r \in Rows : id[<<holder, r>>] \in Nat
  BY StartIsNat, MirrorAssumption, SMT DEF IdTypes
<1>1. CASE last = Start
  <2>1. Carried'
    BY <1>1, CarriedElsewhere DEF ReadRows, ToResync
  <2> QED
    BY <2>1, CopyFrame DEF ReadRows
<1>2. CASE last # Start
  <2>1. /\ pass = "marked" /\ pass' = "rows" /\ top' = last /\ from' = from
        /\ \A r \in Rows : batch'[r] # "absent" => r \in Fresh(Start + 1, last)
        /\ UNCHANGED <<ledgerVars, sharedVars>>
    BY <1>2 DEF ReadRows
  <2>2. last <= size[holder]
    BY <1>0, MirrorAssumption, SMT
  <2>3. ASSUME ~reborn PROVE mark <= last
    <3>1. Start = mark /\ mark <= size[holder]
      BY <2>1, <2>3, StartsAtMark DEF Once
    <3> QED
      BY <1>0, <3>1, MirrorAssumption, SMT
  <2>4. ASSUME NEW r \in Rows, batch'[r] # "absent"
        PROVE  id[<<holder, r>>] > 0 /\ id[<<holder, r>>] <= last /\ Copies(r) = 0
    <3>1. id[<<holder, r>>] \in Start + 1 .. last
      BY <2>1, <2>4 DEF Fresh
    <3>2. id[<<holder, r>>] > 0 /\ id[<<holder, r>>] <= last /\ id[<<holder, r>>] > Start
      BY <1>0, <3>1, SMT
    <3>3. CASE reborn
      BY <3>2, <3>3 DEF Once
    <3>4. CASE ~reborn
      <4>1. Start = mark
        BY <2>1, <3>4, StartsAtMark
      <4> QED
        BY <3>2, <4>1 DEF Once
    <3> QED
      BY <3>2, <3>3, <3>4
  <2>5. \A r \in Rows : Copies(r)' = Copies(r)
    BY <2>1, CopiesStay DEF sharedVars
  <2>6. UNCHANGED <<id, holder, size, reborn, mark>> /\ from' = mark'
    BY <2>1 DEF ledgerVars, sharedVars, Carried
  <2>7. Carried'
    BY <2>1, <2>2, <2>3, <2>4, <2>5, <2>6, Zenon DEF Carried
  <2> QED
    BY <2>1, <2>7, CopyFrame
<1> QED
  BY <1>1, <1>2

LEMMA CommitKeepsCopies == ASSUME Types, CopyInv, CommitRows PROVE CopyInv'
<1> USE DEF Types, CopyInv
<1>0. /\ pass = "rows" /\ tape' = Inserted /\ mark' = top /\ reborn' = FALSE
      /\ pass' = "resync" /\ UNCHANGED <<status, id, size, holder>>
  BY DEF CommitRows, ToResync
<1>1. \A r \in Rows : Copies(r)' = Copies(r) + IF batch[r] # "absent" THEN 1 ELSE 0
  BY <1>0, CommitAdds
<1>2. \A r \in Rows : Copies(r) \in Nat
  BY CopiesIsNat
<1>3. holder \in Homes /\ \A h \in Homes, r \in Rows : id[<<h, r>>] \in Nat
  BY DEF IdTypes
<1>4. Ids'
  <2>1. ASSUME NEW r \in Rows, status[r] = "absent" PROVE Copies(r)' = 0
    <3>1. Copies(r) = 0 /\ id[<<holder, r>>] = 0
      BY <1>3, <2>1 DEF Ids
    <3>2. batch[r] = "absent"
      BY <1>0, <3>1, SMT DEF Carried
    <3> QED
      BY <1>1, <3>1, <3>2
  <2> QED
    BY <1>0, <2>1 DEF Ids
<1>5. Once'
  <2>1. ASSUME NEW r \in Rows PROVE Copies(r)' <= 1
    <3>1. Copies(r) <= 1 /\ (batch[r] # "absent" => Copies(r) = 0)
      BY <1>0 DEF Once, Carried
    <3> QED
      BY <1>1, <1>2, <3>1, SMT
  <2>2. ASSUME NEW r \in Rows, id[<<holder, r>>] > 0, id[<<holder, r>>] > top
        PROVE  Copies(r)' = 0
    <3>1. batch[r] = "absent"
      BY <1>0, <1>3, <2>2, SMT DEF Carried, PassTypes
    <3>2. reborn \/ id[<<holder, r>>] > mark
      BY <1>0, <1>3, <2>2, SMT DEF Carried, PassTypes, TapeTypes
    <3>3. Copies(r) = 0
      BY <2>2, <3>2 DEF Once
    <3> QED
      BY <1>1, <3>1, <3>3
  <2>3. top <= size[holder]
    BY <1>0 DEF Carried
  <2> QED
    BY <1>0, <2>1, <2>2, <2>3 DEF Once
<1>6. Carried'
  BY <1>0, CarriedElsewhere
<1> QED
  BY <1>4, <1>5, <1>6

LEMMA ResyncKeepsCopies == ASSUME Types, CopyInv, CommitResolved PROVE CopyInv'
<1> USE DEF Types, CopyInv
<1>1. \A r \in Rows : Copies(r)' = Copies(r)
  BY ResyncMoves DEF CommitResolved
<1>2. UNCHANGED <<status, id, size, holder, reborn, mark>> /\ pass' = "idle"
  BY DEF CommitResolved, Idle, ledgerVars
<1>3. Ids' /\ Once'
  BY <1>1, <1>2 DEF Ids, Once
<1> QED
  BY <1>2, <1>3, CarriedElsewhere

(* A ledger that is lost, and a container that never held one.             *)
LEMMA LossKeepsCopies ==
  ASSUME Types, CopyInv, Rebuild \/ (NoReturn /\ \E h \in Homes : Handover(h))
  PROVE  CopyInv'
<1> USE DEF Types, CopyInv
<1>1. \A r \in Rows : Copies(r)' = Copies(r)
  BY CopiesStay DEF Rebuild, Handover, sharedVars
<1>2. /\ UNCHANGED <<status, mark>> /\ pass' = "idle" /\ reborn' = (mark > 0)
      /\ mark \in Nat
  BY DEF Rebuild, Handover, Idle, sharedVars, TapeTypes
<1>3. /\ holder' \in Homes /\ size'[holder'] = 0 /\ \A r \in Rows : id'[<<holder', r>>] = 0
      /\ Ids'
  <2>1. CASE Rebuild
    <3>1. /\ holder' = holder /\ holder \in Homes /\ size'[holder] = 0
          /\ \A h \in Homes : h # holder => size'[h] = size[h]
          /\ \A r \in Rows : id'[<<holder, r>>] = 0
          /\ \A h \in Homes, r \in Rows : h # holder => id'[<<h, r>>] = id[<<h, r>>]
      BY <2>1 DEF Rebuild, IdTypes
    <3>2. \A n \in Nat \ {0} : ~(n <= 0)
      BY SMT
    <3>3. \A h \in Homes, n \in Nat \ {0} : n <= size'[h] => \E r \in Rows : id'[<<h, r>>] = n
      BY <3>1, <3>2 DEF Ids
    <3>4. ASSUME NEW h \in Homes, NEW r \in Rows PROVE id'[<<h, r>>] <= size'[h]
      <4>1. CASE h = holder
        <5>1. id'[<<h, r>>] = 0 /\ size'[h] = 0
          BY <3>1, <4>1
        <5> QED
          BY <5>1, SMT
      <4>2. CASE h # holder
        BY <3>1, <4>2 DEF Ids
      <4> QED
        BY <4>1, <4>2
    <3>5. \A r \in Rows : status'[r] = "absent" =>
            (\A h \in Homes : id'[<<h, r>>] = 0) /\ Copies(r)' = 0
      BY <1>1, <1>2, <3>1 DEF Ids
    <3> QED
      BY <3>1, <3>3, <3>4, <3>5 DEF Ids
  <2>2. ASSUME NEW h \in Homes, NoReturn, Handover(h)
        PROVE  /\ holder' \in Homes /\ size'[holder'] = 0
               /\ \A r \in Rows : id'[<<holder', r>>] = 0
               /\ Ids'
    <3>1. holder' = h /\ UNCHANGED <<id, size>> /\ size[h] \in Nat /\ ~(size[h] > 0)
      BY <2>2 DEF Handover, NoReturn, IdTypes
    <3>2. size[h] = 0
      BY <3>1, SMT
    <3>3. ASSUME NEW r \in Rows PROVE id[<<h, r>>] = 0
      <4>1. id[<<h, r>>] <= size[h] /\ id[<<h, r>>] \in Nat
        BY DEF Ids, IdTypes
      <4> QED
        BY <3>2, <4>1, SMT
    <3> QED
      BY <1>1, <1>2, <3>1, <3>2, <3>3 DEF Ids
  <2> QED
    BY <2>1, <2>2
<1>4. Once'
  <2>1. ASSUME NEW r \in Rows PROVE ~(id'[<<holder', r>>] > 0)
    <3>1. id'[<<holder', r>>] = 0
      BY <1>3
    <3> QED
      BY <3>1, SMT
  <2>2. ASSUME ~reborn' PROVE mark' <= size'[holder']
    <3>1. mark' = mark /\ mark \in Nat /\ ~(mark > 0) /\ size'[holder'] = 0
      BY <1>2, <1>3, <2>2, Zenon
    <3> QED
      BY <3>1, SMT
  <2> QED
    BY <1>1, <2>1, <2>2 DEF Once
<1> QED
  BY <1>2, <1>3, <1>4, CarriedElsewhere

LEMMA CopyStep == NoReturn /\ Types /\ CopyInv /\ [MirrorNext]_mirrorVars => CopyInv'
<1> SUFFICES ASSUME NoReturn, Types, CopyInv, [MirrorNext]_mirrorVars PROVE CopyInv'
  OBVIOUS
<1>1. CASE \E r \in Rows : Insert(r) \/ Resolve(r) \/ Age(r)
  BY <1>1, InsertKeepsCopies, ResolveKeepsCopies
<1>2. CASE ReadMark
  <2>1. Carried'
    BY <1>2 DEF ReadMark, Carried, sharedVars
  <2> QED
    BY <1>2, <2>1, CopyFrame DEF ReadMark
<1>3. CASE LogFails \/ ReadResolved \/ ResyncFails \/ Crash
  <2>1. Carried'
    BY <1>3, CarriedElsewhere DEF LogFails, ReadResolved, ResyncFails, Crash, ToResync, Idle
  <2> QED
    BY <1>3, <2>1, CopyFrame DEF LogFails, ReadResolved, ResyncFails, Crash
<1>4. CASE UNCHANGED mirrorVars
  <2>1. \A r \in Rows : Copies(r)' = Copies(r)
    BY <1>4, CopiesStay DEF mirrorVars, sharedVars
  <2>2. Carried'
    BY <1>4, <2>1 DEF Carried, CopyInv, mirrorVars, ledgerVars, sharedVars, passVars
  <2> QED
    BY <1>4, <2>2, CopyFrame DEF mirrorVars
<1> QED
  BY <1>1, <1>2, <1>3, <1>4, ReadKeepsCopies, CommitKeepsCopies, ResyncKeepsCopies,
     LossKeepsCopies DEF MirrorNext, PassStep

LEMMA CopyHolds == NoReturn => (MirrorSpec => []CopyInv)
<1> SUFFICES ASSUME NoReturn PROVE MirrorSpec => []CopyInv
  OBVIOUS
<1>1. Types /\ CopyInv /\ [MirrorNext]_mirrorVars => CopyInv'
  BY CopyStep
<1> QED
  BY <1>1, TypesHold, CopyBegins, PTL DEF MirrorSpec

LEMMA CopyIsExact == Truth /\ CopyInv => TapeExact
  BY TruthIsOnTape DEF CopyInv, Once, TapeExact

(* As long as no container comes back with a ledger it left behind, no     *)
(* trade is on the tape twice: through every failure of the store, death   *)
(* of the pass, loss of the ledger and move of the tenant.                 *)
THEOREM TapeIsExact == NoReturn => (MirrorSpec => []TapeExact)
  BY CopyHolds, TruthHolds, CopyIsExact, PTL

-----------------------------------------------------------------------------
(* Nothing is skipped.                                                     *)

NoRegrow == "regrow" \notin MirrorFaults

(* Everything below the watermark has a copy, or is about to get one; and  *)
(* a younger ledger is recognised because its ids do not reach that far.   *)
Copied ==
  /\ \A r \in Rows : (~reborn /\ id[<<holder, r>>] > 0 /\ id[<<holder, r>>] <= mark) => Copies(r) > 0
  /\ reborn => size[holder] < mark
  /\ pass = "rows" =>
       \A r \in Rows : (id[<<holder, r>>] > 0 /\ id[<<holder, r>>] <= top) =>
         batch[r] # "absent" \/ (~reborn /\ id[<<holder, r>>] <= mark)

SkipInv == CopyInv /\ Copied

LEMMA CopiedBegins == MirrorInit => Copied
<1> SUFFICES ASSUME MirrorInit PROVE Copied
  OBVIOUS
<1>1. holder \in Homes /\ reborn = FALSE /\ pass = "idle"
  BY MirrorAssumption DEF MirrorInit
<1>2. ASSUME NEW r \in Rows PROVE ~(id[<<holder, r>>] > 0)
  <2>1. id[<<holder, r>>] = 0
    BY <1>1 DEF MirrorInit
  <2> QED
    BY <2>1, SMT
<1> QED
  BY <1>1, <1>2 DEF Copied

(* A step that moves neither ledger nor watermark, takes nothing off the   *)
(* tape, and begins no batch.                                              *)
LEMMA CopiedFrame ==
  ASSUME Copied, UNCHANGED <<ledgerVars, mark>>, \A r \in Rows : Copies(r)' = Copies(r),
         pass' # "rows" \/ UNCHANGED <<pass, top, batch>>
  PROVE  Copied'
  BY DEF Copied, ledgerVars

LEMMA InsertKeepsCopied ==
  ASSUME NoRegrow, Types, SkipInv, NEW r \in Rows, Insert(r) PROVE Copied'
<1> USE DEF Types, SkipInv, CopyInv
<1>1. /\ holder \in Homes /\ size[holder] \in Nat /\ mark \in Nat /\ top \in Nat
      /\ \A q \in Rows : id[<<holder, q>>] \in Nat
  BY DEF IdTypes, TapeTypes, PassTypes
<1>2. \A q \in Rows : Copies(q)' = Copies(q)
  BY CopiesStay DEF Insert, sharedVars
<1>3. /\ \A q \in Rows : q # r => id'[<<holder, q>>] = id[<<holder, q>>]
      /\ id'[<<holder, r>>] = size[holder] + 1 /\ size'[holder] = size[holder] + 1
      /\ holder' = holder /\ reborn' = reborn /\ mark' = mark
      /\ pass' = pass /\ top' = top /\ batch' = batch
  BY <1>1 DEF Insert, IdTypes, sharedVars, passVars
<1>4. ~reborn => ~(size[holder] + 1 <= mark)
  BY <1>1, SMT DEF Once
<1>5. reborn => size[holder] + 1 < mark
  BY DEF Insert, NoRegrow
<1>6. pass = "rows" => ~(size[holder] + 1 <= top)
  BY <1>1, SMT DEF Carried
<1>7. ASSUME NEW q \in Rows, ~reborn', id'[<<holder', q>>] > 0, id'[<<holder', q>>] <= mark'
      PROVE  Copies(q)' > 0
  <2>1. q # r
    BY <1>3, <1>4, <1>7
  <2> QED
    BY <1>2, <1>3, <1>7, <2>1 DEF Copied
<1>8. ASSUME pass' = "rows", NEW q \in Rows, id'[<<holder', q>>] > 0, id'[<<holder', q>>] <= top'
      PROVE  batch'[q] # "absent" \/ (~reborn' /\ id'[<<holder', q>>] <= mark')
  <2>1. q # r
    BY <1>3, <1>6, <1>8
  <2> QED
    BY <1>3, <1>8, <2>1 DEF Copied
<1> QED
  BY <1>3, <1>5, <1>7, <1>8 DEF Copied

LEMMA ReadKeepsCopied == ASSUME Types, SkipInv, ReadRows PROVE Copied'
<1> USE DEF Types, SkipInv, CopyInv
<1> DEFINE last == IF Start + Batch < size[holder] THEN Start + Batch ELSE size[holder]
<1>0. /\ Start \in Nat /\ holder \in Homes /\ last \in Nat /\ size[holder] \in Nat
      /\ from = mark /\ mark \in Nat
      /\ \A r \in Rows : id[<<holder, r>>] \in Nat
  BY StartIsNat, MirrorAssumption, SMT DEF IdTypes, ReadRows, Carried, TapeTypes
<1>1. \A r \in Rows : Copies(r)' = Copies(r)
  BY CopiesStay DEF ReadRows, sharedVars
<1>2. CASE last = Start
  BY <1>1, <1>2, CopiedFrame DEF ReadRows, ToResync, sharedVars
<1>3. CASE last # Start
  <2>1. /\ pass = "marked" /\ pass' = "rows" /\ top' = last
        /\ \A r \in Rows : r \in Fresh(Start + 1, last) => batch'[r] = status[r]
        /\ UNCHANGED <<ledgerVars, sharedVars>>
    BY <1>3 DEF ReadRows
  <2>2. ASSUME NEW r \in Rows, id[<<holder, r>>] > 0, id[<<holder, r>>] <= last
        PROVE  batch'[r] # "absent" \/ (~reborn /\ id[<<holder, r>>] <= mark)
    <3>1. CASE id[<<holder, r>>] > Start
      <4>1. r \in Fresh(Start + 1, last)
        BY <1>0, <2>2, <3>1, SMT DEF Fresh
      <4>2. status[r] # "absent"
        <5>1. id[<<holder, r>>] # 0
          BY <1>0, <2>2, SMT
        <5> QED
          BY <1>0, <5>1 DEF Ids
      <4> QED
        BY <2>1, <4>1, <4>2
    <3>2. CASE ~(id[<<holder, r>>] > Start)
      <4>1. id[<<holder, r>>] <= Start
        BY <1>0, <3>2, SMT
      <4>2. CASE reborn
        <5>1. size[holder] < mark
          BY <4>2 DEF Copied
        <5>2. \A q \in Rows : id[<<holder, q>>] # from
          <6>1. ASSUME NEW q \in Rows PROVE id[<<holder, q>>] # from
            <7>1. id[<<holder, q>>] <= size[holder] /\ id[<<holder, q>>] \in Nat
              BY <1>0 DEF Ids
            <7> QED
              BY <1>0, <5>1, <7>1, SMT
          <6> QED
            BY <6>1
        <5>3. Start = 0
          <6>1. ~HasRow(from)
            BY <5>2 DEF HasRow
          <6>2. from > 0
            BY <1>0, <5>1, SMT
          <6> QED
            BY <6>1, <6>2 DEF Start
        <5> QED
          BY <1>0, <2>2, <4>1, <5>3, SMT
      <4>3. CASE ~reborn
        BY <2>1, <4>1, <4>3, StartsAtMark
      <4> QED
        BY <4>2, <4>3
    <3> QED
      BY <3>1, <3>2
  <2>3. UNCHANGED <<id, size, holder, reborn, mark>>
    BY <2>1 DEF ledgerVars, sharedVars
  <2>4. \A r \in Rows : (~reborn /\ id[<<holder, r>>] > 0 /\ id[<<holder, r>>] <= mark) => Copies(r) > 0
    BY DEF Copied
  <2>5. reborn => size[holder] < mark
    BY DEF Copied
  <2> QED
    BY <1>1, <2>1, <2>2, <2>3, <2>4, <2>5, Zenon DEF Copied
<1> QED
  BY <1>2, <1>3

(* What the watermark moves past has its copy when it moves.               *)
LEMMA CommitCarries ==
  ASSUME Types, SkipInv, CommitRows, NEW r \in Rows, id[<<holder, r>>] > 0, id[<<holder, r>>] <= top
  PROVE  Copies(r)' > 0
<1> USE DEF Types, SkipInv, CopyInv
<1>1. Copies(r)' = Copies(r) + IF batch[r] # "absent" THEN 1 ELSE 0
  BY CommitAdds DEF CommitRows
<1>2. Copies(r) \in Nat
  BY CopiesIsNat
<1>3. CASE batch[r] # "absent"
  BY <1>1, <1>2, <1>3, SMT
<1>4. CASE batch[r] = "absent"
  <2>1. ~reborn /\ id[<<holder, r>>] <= mark
    BY <1>4 DEF Copied, CommitRows
  <2>2. Copies(r) > 0
    BY <2>1 DEF Copied
  <2>3. Copies(r)' = Copies(r) + 0
    BY <1>1, <1>4
  <2> QED
    BY <1>2, <2>2, <2>3, SMT
<1> QED
  BY <1>3, <1>4

LEMMA CommitKeepsCopied == ASSUME Types, SkipInv, CommitRows PROVE Copied'
<1>1. /\ UNCHANGED <<id, holder>> /\ reborn' = FALSE /\ mark' = top /\ pass' = "resync"
  BY DEF CommitRows, ToResync
<1>2. \A r \in Rows : (id[<<holder, r>>] > 0 /\ id[<<holder, r>>] <= top) => Copies(r)' > 0
  BY CommitCarries
<1> QED
  BY <1>1, <1>2 DEF Copied

LEMMA LossKeepsCopied ==
  ASSUME Types, SkipInv, Rebuild \/ (NoReturn /\ \E h \in Homes : Handover(h))
  PROVE  Copied'
<1> USE DEF Types, SkipInv, CopyInv
<1>1. /\ pass' = "idle" /\ reborn' = (mark > 0) /\ mark' = mark /\ mark \in Nat
  BY DEF Rebuild, Handover, Idle, sharedVars, TapeTypes
<1>2. size'[holder'] = 0 /\ \A r \in Rows : id'[<<holder', r>>] = 0
  <2>1. CASE Rebuild
    BY <2>1 DEF Rebuild, IdTypes
  <2>2. ASSUME NEW h \in Homes, NoReturn, Handover(h)
        PROVE  size'[holder'] = 0 /\ \A r \in Rows : id'[<<holder', r>>] = 0
    <3>1. holder' = h /\ UNCHANGED <<id, size>> /\ size[h] \in Nat /\ ~(size[h] > 0)
      BY <2>2 DEF Handover, NoReturn, IdTypes
    <3>2. size[h] = 0
      BY <3>1, SMT
    <3>3. ASSUME NEW r \in Rows PROVE id[<<h, r>>] = 0
      <4>1. id[<<h, r>>] <= size[h] /\ id[<<h, r>>] \in Nat
        BY DEF Ids, IdTypes
      <4> QED
        BY <3>2, <4>1, SMT
    <3> QED
      BY <3>1, <3>2, <3>3
  <2> QED
    BY <2>1, <2>2
<1>3. \A r \in Rows : ~(id'[<<holder', r>>] > 0)
  <2>1. ASSUME NEW r \in Rows PROVE ~(id'[<<holder', r>>] > 0)
    <3>1. id'[<<holder', r>>] = 0
      BY <1>2
    <3> QED
      BY <3>1, SMT
  <2> QED
    BY <2>1
<1>4. reborn' => size'[holder'] < mark'
  <2>1. reborn' => mark' > 0 /\ size'[holder'] = 0 /\ mark' \in Nat
    BY <1>1, <1>2, Zenon
  <2> QED
    BY <2>1, SMT
<1> QED
  BY <1>1, <1>3, <1>4 DEF Copied

LEMMA CopiedStep ==
  NoReturn /\ NoRegrow /\ Types /\ SkipInv /\ [MirrorNext]_mirrorVars => Copied'
<1> SUFFICES ASSUME NoReturn, NoRegrow, Types, SkipInv, [MirrorNext]_mirrorVars PROVE Copied'
  OBVIOUS
<1>1. CASE \E r \in Rows : Insert(r)
  BY <1>1, InsertKeepsCopied
<1>2. CASE \E r \in Rows : Resolve(r) \/ Age(r)
  <2>1. UNCHANGED <<id, size, holder, reborn, sharedVars, passVars>>
    BY <1>2 DEF Resolve, Age
  <2>2. \A r \in Rows : Copies(r)' = Copies(r)
    BY <2>1, CopiesStay DEF sharedVars
  <2> QED
    BY <2>1, <2>2 DEF SkipInv, Copied, sharedVars, passVars
<1>3. CASE ReadMark \/ LogFails \/ ReadResolved \/ ResyncFails \/ Crash \/ UNCHANGED mirrorVars
  <2>1. UNCHANGED <<ledgerVars, sharedVars>> /\ (pass' # "rows" \/ UNCHANGED passVars)
    BY <1>3 DEF ReadMark, LogFails, ReadResolved, ResyncFails, Crash, ToResync, Idle, mirrorVars
  <2>2. \A r \in Rows : Copies(r)' = Copies(r)
    BY <2>1, CopiesStay DEF sharedVars
  <2> QED
    BY <2>1, <2>2, CopiedFrame DEF SkipInv, sharedVars, passVars
<1>4. CASE CommitResolved
  <2>1. \A r \in Rows : Copies(r)' = Copies(r)
    BY <1>4, ResyncMoves DEF CommitResolved, Types
  <2> QED
    BY <1>4, <2>1, CopiedFrame DEF SkipInv, CommitResolved, Idle
<1> QED
  BY <1>1, <1>2, <1>3, <1>4, ReadKeepsCopied, CommitKeepsCopied, LossKeepsCopied
     DEF MirrorNext, PassStep

LEMMA SkipHolds == NoReturn /\ NoRegrow => (MirrorSpec => []SkipInv)
<1> SUFFICES ASSUME NoReturn, NoRegrow PROVE MirrorSpec => []SkipInv
  OBVIOUS
<1>1. Types /\ SkipInv /\ [MirrorNext]_mirrorVars => SkipInv'
  BY CopyStep, CopiedStep DEF SkipInv
<1>2. MirrorInit => SkipInv
  BY CopyBegins, CopiedBegins DEF SkipInv
<1> QED
  BY <1>1, <1>2, TypesHold, PTL DEF MirrorSpec

(* As long as, besides, every younger ledger is seen by a pass before its  *)
(* ids reach the old watermark, a watermark that moves has carried every   *)
(* row it moves past.                                                      *)
THEOREM NothingIsSkipped == NoReturn /\ NoRegrow => (MirrorSpec => NothingSkipped)
<1> SUFFICES ASSUME NoReturn, NoRegrow PROVE MirrorSpec => NothingSkipped
  OBVIOUS
<1> DEFINE Moves == mark' # mark => \A r \in Rows : id[<<holder, r>>] \in 1 .. mark' => Copies(r)' > 0
<1>1. ASSUME Types, SkipInv, [MirrorNext]_mirrorVars PROVE Moves
  <2> SUFFICES ASSUME mark' # mark, NEW r \in Rows, id[<<holder, r>>] \in 1 .. mark'
               PROVE  Copies(r)' > 0
    OBVIOUS
  <2>1. CommitRows
    BY <1>1 DEF MirrorNext, Insert, Resolve, Age, PassStep, ReadMark, ReadRows, ReadResolved,
       CommitResolved, LogFails, ResyncFails, Crash, Rebuild, Handover, mirrorVars, sharedVars
  <2>2. mark' = top /\ top \in Nat
    BY <1>1, <2>1 DEF CommitRows, Types, PassTypes
  <2>3. id[<<holder, r>>] > 0 /\ id[<<holder, r>>] <= top
    BY <2>2, SMT
  <2> QED
    BY <1>1, <2>1, <2>3, CommitCarries
<1> HIDE DEF Moves
<1>2. MirrorSpec => [][Moves]_mirrorVars
  BY <1>1, TypesHold, SkipHolds, PTL DEF MirrorSpec
<1> QED
  BY <1>2 DEF NothingSkipped, Moves
=============================================================================
