--------------------------- MODULE ChainEdgeProofs ---------------------------
(***************************************************************************)
(* Proofs about the two places where the worker meets the chain directly.  *)
(* LogScan: what a scan returns is true of every window, every mix of      *)
(* answers, and every span and retry budget.  Breaker: for every set of    *)
(* callers, every equity that may be reported and every threshold, the     *)
(* breaker trips in time and only in earnest, and no operation runs beyond *)
(* it whatever the worker saw.                                             *)
(***************************************************************************)
EXTENDS LogScan, Breaker, TLAPS

-----------------------------------------------------------------------------
(* LogScan.                                                                *)

(* What has been read is what lies behind the cursor.                      *)
ScanShape ==
  /\ from \in Blocks /\ to \in Blocks /\ at \in Int /\ span \in Nat \ {0}
  /\ attempt \in 0 .. SpanRetries
  /\ reads \in [Blocks -> Nat]
  /\ result \in {"scanning", "complete", "short"} /\ scannedTo \in Int

ScanProgress ==
  /\ from <= at /\ (at = from \/ at <= to + 1)
  /\ \A b \in Blocks : reads[b] = IF b \in from .. (at - 1) THEN 1 ELSE 0

ScanOutcome ==
  /\ result = "complete" => scannedTo = to /\ at > to
  /\ result = "short" => scannedTo = at - 1 /\ at <= to

ScanInv == ScanShape /\ ScanProgress /\ ScanOutcome

LEMMA ScanBegins == ScanInit => ScanInv
  BY ScanAssumption, SMT DEF ScanInit, ScanInv, ScanShape, ScanProgress, ScanOutcome, Blocks

(* The end of a request is in the window and not before its start.         *)
LEMMA EndInWindow ==
  ASSUME ScanInv, at <= to
  PROVE  End \in Int /\ at <= End /\ End <= to /\ to <= LastBlock
  BY ScanAssumption, SMT
     DEF ScanInv, ScanShape, ScanProgress, End, Lesser, NextSpan, Blocks

LEMMA ScanStep == ScanInv /\ [ScanNext]_scanVars => ScanInv'
<1> SUFFICES ASSUME ScanInv, [ScanNext]_scanVars PROVE ScanInv'
  OBVIOUS
<1> USE DEF ScanInv, ScanShape
<1>1. CASE Answered
  <2>1. End \in Int /\ at <= End /\ End <= to /\ to <= LastBlock
    BY <1>1, EndInWindow DEF Answered, Asking
  <2> DEFINE e == End
  <2> HIDE DEF e
  <2>2. /\ reads' = [b \in Blocks |-> IF b \in at .. e THEN reads[b] + 1 ELSE reads[b]]
        /\ at' = e + 1 /\ attempt' = 0
        /\ UNCHANGED <<from, to, span, result, scannedTo>> /\ result = "scanning"
    BY <1>1 DEF Answered, Asking, e
  <2>3. e \in Int /\ at <= e /\ e <= to
    BY <2>1 DEF e
  <2>4. ScanShape'
    BY <2>2, <2>3, ScanAssumption, SMT
  <2>5. ScanProgress'
    <3>1. from <= at /\ \A b \in Blocks : reads[b] = IF b \in from .. (at - 1) THEN 1 ELSE 0
      BY DEF ScanProgress
    <3>2. \A b \in Blocks : reads'[b] = IF b \in from .. (at' - 1) THEN 1 ELSE 0
      BY <2>2, <2>3, <3>1, ScanAssumption, SMT DEF Blocks
    <3> QED
      BY <2>2, <2>3, <3>1, <3>2, SMT DEF ScanProgress, Blocks
  <2>6. ScanOutcome'
    BY <2>2, SMT DEF ScanOutcome
  <2> QED
    BY <2>4, <2>5, <2>6
<1>2. CASE Halved
  BY <1>2, SMT DEF Halved, Asking, ScanProgress, ScanOutcome
<1>3. CASE AskAgain
  BY <1>3, ScanAssumption, SMT DEF AskAgain, Asking, ScanProgress, ScanOutcome
<1>4. CASE GiveUp
  BY <1>4, SMT DEF GiveUp, Asking, Return, ScanProgress, ScanOutcome
<1>5. CASE Covered
  BY <1>5, SMT DEF Covered, Return, ScanProgress, ScanOutcome, Blocks
<1>6. CASE UNCHANGED scanVars
  BY <1>6, SMT DEF scanVars, ScanProgress, ScanOutcome
<1> QED
  BY <1>1, <1>2, <1>3, <1>4, <1>5, <1>6 DEF ScanNext

LEMMA ScanHolds == ScanSpec => []ScanInv
  BY ScanBegins, ScanStep, PTL DEF ScanSpec

(* No block of a window is stepped over, read twice, or claimed unread.    *)
THEOREM CoverageHolds == ScanSpec => []CoverageIsTrue
<1>1. ScanInv => CoverageIsTrue
  BY SMT DEF ScanInv, ScanShape, ScanProgress, ScanOutcome, CoverageIsTrue, Blocks
<1> QED
  BY <1>1, ScanHolds, PTL

LEMMA ScanInBounds == ScanInv => InBounds
<1> SUFFICES ASSUME ScanInv PROVE InBounds
  OBVIOUS
<1>1. from \in Blocks /\ to \in Blocks /\ at \in Int /\ span \in Nat \ {0}
  BY DEF ScanInv, ScanShape
<1>2. (at = from \/ at <= to + 1) /\ attempt \in 0 .. SpanRetries
  BY DEF ScanInv, ScanShape, ScanProgress
<1> QED
  BY <1>1, <1>2, ScanAssumption, SMT DEF InBounds, Blocks

(* Each step brings the scan nearer its end, whatever is answered.         *)
THEOREM ScanTerminates == ScanSpec => ScanEnds
<1>1. ScanInv /\ ScanInv' /\ ScanNext => MovesOn /\ InBounds'
  <2> SUFFICES ASSUME ScanInv, ScanInv', ScanNext PROVE MovesOn /\ InBounds'
    OBVIOUS
  <2>1. InBounds'
    BY ScanInBounds, PTL
  <2>2. MovesOn
    <3>1. CASE Answered
      BY <3>1, EndInWindow, SMT DEF Answered, Asking, ScanInv, ScanShape, MovesOn
    <3>2. CASE Halved
      BY <3>2, SMT DEF Halved, ScanInv, ScanShape, MovesOn
    <3>3. CASE AskAgain
      BY <3>3, SMT DEF AskAgain, ScanInv, ScanShape, MovesOn
    <3>4. CASE GiveUp \/ Covered
      BY <3>4, SMT DEF GiveUp, Covered, Return, MovesOn
    <3> QED
      BY <3>1, <3>2, <3>3, <3>4 DEF ScanNext
  <2> QED
    BY <2>1, <2>2
<1>2. ScanInv /\ ScanInv' /\ [ScanNext]_scanVars => [MovesOn /\ InBounds']_scanVars
  BY <1>1
<1> QED
  BY <1>2, ScanHolds, PTL DEF ScanSpec, ScanEnds

-----------------------------------------------------------------------------
(* Breaker.                                                                *)

(* Rounding down loses nothing at the limit: the quotient reaches a limit  *)
(* exactly when the loss does, without a division.                         *)
LEMMA QuotientReaches ==
  ASSUME NEW p \in Nat, p > 0, NEW n \in Int, NEW limit \in Nat
  PROVE  n \div p >= limit <=> n >= limit * p
<1> DEFINE q == n \div p
           r == n % p
<1>1. q \in Int /\ r \in 0 .. p - 1 /\ n = p * q + r
  BY SMT
<1>2. CASE q >= limit
  <2>1. p * q >= p * limit
    BY <1>1, <1>2, SMT
  <2> QED
    BY <1>1, <1>2, <2>1, SMT
<1>3. CASE q < limit
  <2>1. p * (q + 1) <= p * limit
    BY <1>1, <1>3, SMT
  <2>2. p * (q + 1) = p * q + p
    BY <1>1, SMT
  <2> QED
    BY <1>1, <1>3, <2>1, <2>2, SMT
<1> QED
  BY <1>1, <1>2, <1>3, SMT

Limits == 1 .. 10000

(* The registry's drawdown reaches a threshold when the loss does.         *)
LEMMA DrawdownReaches ==
  ASSUME NEW peak \in Nat, NEW equity \in Nat, NEW limit \in Limits
  PROVE  Drawdown(peak, equity) >= limit <=> Reached(limit, peak, equity)
<1> USE DEF Limits
<1> DEFINE loss == (peak - equity) * 10000
           due == limit * peak
<1>0. loss \in Int /\ due \in Int /\ limit \in Nat
  BY SMT
<1>1. CASE peak = 0
  BY <1>1, SMT DEF Drawdown, Reached
<1>2. CASE peak > 0 /\ equity >= peak
  <2>1. loss <= 0 /\ due > 0
    BY <1>2, SMT
  <2>2. ~(loss >= due)
    <3> HIDE DEF loss, due
    <3> QED
      BY <1>0, <2>1, SMT
  <2>3. Drawdown(peak, equity) = 0
    BY <1>2 DEF Drawdown
  <2>4. ~Reached(limit, peak, equity)
    BY <2>2 DEF Reached
  <2> QED
    BY <2>3, <2>4, SMT
<1>3. CASE peak > 0 /\ ~(equity >= peak)
  <2>2. loss \div peak >= limit <=> loss >= due
    <3> HIDE DEF loss
    <3> QED
      BY <1>0, <1>3, QuotientReaches, SMT
  <2>3. Drawdown(peak, equity) = loss \div peak
    BY <1>3 DEF Drawdown
  <2> QED
    BY <1>3, <2>2, <2>3 DEF Reached
<1> QED
  BY <1>1, <1>2, <1>3, SMT

(* A proposal, before the wall has answered.                               *)
Judged ==
  [limit : Limits, peak : Nat, equity : Nat, exit : BOOLEAN, known : BOOLEAN, ok : BOOLEAN]

(* So does the worker's rule, where it applies at all.                     *)
LEMMA WallReaches ==
  ASSUME NEW v \in Judged
  PROVE  Refuses(v) <=> Judgeable(v) /\ Reached(v.limit, v.peak, v.equity)
<1>1. v.limit \in Nat /\ v.peak \in Nat /\ v.equity \in Nat
  <2>1. v.limit \in Limits /\ v.peak \in Nat /\ v.equity \in Nat
    BY DEF Judged
  <2>2. Limits \subseteq Nat
    BY SMT DEF Limits
  <2> QED
    BY <2>1, <2>2, Zenon
<1> DEFINE loss == (v.peak - v.equity) * 10000
<1>2. CASE v.peak = 0
  BY <1>2, SMT DEF Refuses, Reached
<1>3. CASE v.peak > 0
  <2>1. loss \in Int
    BY <1>1, SMT
  <2>2. loss \div v.peak >= v.limit <=> loss >= v.limit * v.peak
    <3> HIDE DEF loss
    <3> QED
      BY <1>1, <1>3, <2>1, QuotientReaches, SMT
  <2> QED
    BY <1>3, <2>2 DEF Refuses, Reached, Judgeable
<1> QED
  BY <1>1, <1>2, <1>3, SMT

-----------------------------------------------------------------------------
(* Types.                                                                  *)

AddressTypes == owner \in Callers \cup {NoOne} /\ keeper \in Callers \cup {NoOne}

NumberTypes ==
  /\ threshold \in 0 .. 10000 /\ (Armed => threshold \in Thresholds)
  /\ mark \in Nat /\ last \in Nat /\ highest \in Nat

FlagTypes == tripped \in BOOLEAN /\ unjudged \in BOOLEAN /\ halts \in BOOLEAN

StructTypes == AddressTypes /\ NumberTypes /\ FlagTypes

WorkerTypes ==
  /\ sight \in {"none", "clear", "tripped"} /\ op \in {"none", "sent"}
  /\ verdict \in Judged

ChainTypes ==
  /\ policy \in {"NA", "Live", "Deprecated"}
  /\ outcome \in {"none", "ran", "refused"}

BreakerTypes == StructTypes /\ WorkerTypes /\ ChainTypes

LEMMA TypesAreTypeOK == BreakerTypes <=> BreakerTypeOK
  BY DEF BreakerTypes, StructTypes, AddressTypes, NumberTypes, FlagTypes, WorkerTypes, ChainTypes, Judged, Limits, BreakerTypeOK

LEMMA StructFrame == ASSUME StructTypes, UNCHANGED structVars PROVE StructTypes'
  BY DEF StructTypes, AddressTypes, NumberTypes, FlagTypes, structVars, Armed

LEMMA WorkerFrame == ASSUME WorkerTypes, UNCHANGED workerVars PROVE WorkerTypes'
  BY DEF WorkerTypes, workerVars

LEMMA TypesBegin == BreakerInit => BreakerTypes
<1> SUFFICES ASSUME BreakerInit PROVE BreakerTypes
  OBVIOUS
<1>1. Unasked \in Judged
  BY SMT DEF Unasked, Judged, Limits
<1>2. StructTypes
  <2>1. AddressTypes /\ FlagTypes
    BY DEF BreakerInit, AddressTypes, FlagTypes
  <2>2. NumberTypes
    BY SMT DEF BreakerInit, NumberTypes, Armed
  <2> QED
    BY <2>1, <2>2 DEF StructTypes
<1>3. WorkerTypes /\ ChainTypes
  BY <1>1, Zenon DEF BreakerInit, WorkerTypes, ChainTypes
<1> QED
  BY <1>2, <1>3 DEF BreakerTypes

(* Transactions on the registry leave the worker and the policy alone.     *)
RegistryStep ==
  \/ Arm \/ SetKeeper \/ SetThreshold \/ Trip \/ Halt \/ Reset
  \/ \E c \in Callers : ReportEquity(c)

LEMMA RegistryLeaves ==
  RegistryStep => UNCHANGED <<policy, workerVars, outcome>>
  BY DEF RegistryStep, Arm, SetKeeper, SetThreshold, Trip, Halt, Reset, ReportEquity

LEMMA RegistryTypes == StructTypes /\ RegistryStep => StructTypes'
<1> SUFFICES ASSUME StructTypes, RegistryStep PROVE StructTypes'
  OBVIOUS
<1> USE DEF StructTypes
<1>1. CASE Arm
  <2>1. AddressTypes' /\ FlagTypes'
    BY <1>1 DEF AddressTypes, FlagTypes, Arm
  <2>2. NumberTypes'
    BY <1>1, BreakerAssumption, SMT DEF NumberTypes, Armed, Arm
  <2> QED
    BY <2>1, <2>2 DEF StructTypes
<1>2. CASE SetKeeper
  <2>1. AddressTypes' /\ FlagTypes'
    BY <1>2 DEF AddressTypes, FlagTypes, SetKeeper
  <2>2. NumberTypes'
    BY <1>2, BreakerAssumption, SMT DEF NumberTypes, Armed, SetKeeper
  <2> QED
    BY <2>1, <2>2 DEF StructTypes
<1>3. CASE SetThreshold
  <2>1. AddressTypes' /\ FlagTypes'
    BY <1>3 DEF AddressTypes, FlagTypes, SetThreshold
  <2>2. NumberTypes'
    BY <1>3, BreakerAssumption, SMT DEF NumberTypes, Armed, SetThreshold
  <2> QED
    BY <2>1, <2>2 DEF StructTypes
<1>4. CASE Trip
  <2>1. AddressTypes' /\ FlagTypes'
    BY <1>4 DEF AddressTypes, FlagTypes, Trip, MaybeTrip
  <2>2. NumberTypes'
    BY <1>4, BreakerAssumption, SMT DEF NumberTypes, Armed, Trip, MaybeTrip
  <2> QED
    BY <2>1, <2>2 DEF StructTypes
<1>5. CASE Halt
  <2>1. AddressTypes' /\ FlagTypes'
    BY <1>5 DEF AddressTypes, FlagTypes, Halt
  <2>2. NumberTypes'
    BY <1>5, BreakerAssumption, SMT DEF NumberTypes, Armed, Halt
  <2> QED
    BY <2>1, <2>2 DEF StructTypes
<1>6. CASE Reset
  <2>1. AddressTypes' /\ FlagTypes'
    BY <1>6 DEF AddressTypes, FlagTypes, Reset
  <2>2. NumberTypes'
    <3>1. UNCHANGED <<threshold, owner, last>>
      BY <1>6 DEF Reset
    <3>2. mark' \in Nat /\ highest' \in Nat
      BY <1>6 DEF Reset, NumberTypes
    <3> QED
      BY <3>1, <3>2 DEF NumberTypes, Armed
  <2> QED
    BY <2>1, <2>2 DEF StructTypes
<1>7. ASSUME NEW c \in Callers, ReportEquity(c) PROVE StructTypes'
  <2>1. AddressTypes' /\ FlagTypes'
    BY <1>7 DEF AddressTypes, FlagTypes, ReportEquity, MaybeTrip, Ratcheted
  <2>2. NumberTypes'
    <3>1. UNCHANGED <<threshold, owner>> /\ last' \in Nat
      <4>1. UNCHANGED <<threshold, owner>> /\ last' \in Levels
        BY <1>7, Zenon DEF ReportEquity
      <4>2. last' \in Nat
        <5>1. last' \in Levels BY <4>1
        <5> QED BY <5>1, BreakerAssumption, SMTT(30)
      <4> QED
        BY <4>1, <4>2
    <3>2. mark' \in Nat /\ highest' \in Nat
      BY <1>7, <3>1 DEF ReportEquity, Ratcheted, NumberTypes
    <3> QED
      BY <3>1, <3>2 DEF NumberTypes, Armed
  <2> QED
    BY <2>1, <2>2 DEF StructTypes
<1> QED
  BY <1>1, <1>2, <1>3, <1>4, <1>5, <1>6, <1>7 DEF RegistryStep

LEMMA ChosenInRange == Thresholds \subseteq Limits /\ Levels \subseteq Nat
<1>1. Levels \subseteq Nat
  BY BreakerAssumption
<1>2. ASSUME NEW x \in Thresholds PROVE x \in Limits
  <2>1. x \in 1 .. 10000
    BY BreakerAssumption
  <2> QED
    BY <2>1 DEF Limits
<1> QED
  BY <1>1, <1>2

(* What the wall answers is what its rule says of the proposal.            *)
LEMMA ProposalIsJudged ==
  ASSUME Propose
  PROVE  /\ verdict' \in Judged
         /\ \E v \in Judged :
              /\ verdict'.ok = ~Refuses(v)
              /\ \A f \in {"limit", "peak", "equity", "exit", "known"} : verdict'[f] = v[f]
<1>1. PICK v \in [limit : Thresholds, peak : Levels, equity : Levels, exit : BOOLEAN,
                  known : BOOLEAN, ok : {TRUE}] :
        verdict' = [v EXCEPT !.ok = ~Refuses(v)]
  BY DEF Propose
<1>2. /\ v.limit \in Thresholds /\ v.peak \in Levels /\ v.equity \in Levels
      /\ v = [limit |-> v.limit, peak |-> v.peak, equity |-> v.equity, exit |-> v.exit,
              known |-> v.known, ok |-> v.ok]
      /\ v.exit \in BOOLEAN /\ v.known \in BOOLEAN /\ v.ok \in BOOLEAN
  OBVIOUS
<1>3. v \in Judged
  <2>1. v.limit \in Limits /\ v.peak \in Nat /\ v.equity \in Nat
    BY <1>2, ChosenInRange, Zenon
  <2> QED
    BY <1>2, <2>1 DEF Judged
<1> DEFINE ok == ~Refuses(v)
<1>4. ok \in BOOLEAN /\ verdict' = [v EXCEPT !.ok = ok]
  BY <1>1
<1> HIDE DEF ok
<1>5. verdict' \in Judged /\ verdict'.ok = ok
  BY <1>3, <1>4 DEF Judged
<1>6. \A f \in {"limit", "peak", "equity", "exit", "known"} : verdict'[f] = v[f]
  BY <1>3, <1>4 DEF Judged
<1> QED
  BY <1>3, <1>5, <1>6 DEF ok

LEMMA TypesStep == BreakerTypes /\ [BreakerNext]_breakerVars => BreakerTypes'
<1> SUFFICES ASSUME BreakerTypes, [BreakerNext]_breakerVars PROVE BreakerTypes'
  OBVIOUS
<1> USE DEF BreakerTypes
<1>1. CASE RegistryStep
  <2>1. UNCHANGED <<policy, workerVars, outcome>>
    BY <1>1, RegistryLeaves
  <2> QED
    BY <1>1, <2>1, RegistryTypes, WorkerFrame DEF ChainTypes
<1>2. CASE OnInstall \/ OnUninstall
  BY <1>2, StructFrame, WorkerFrame DEF OnInstall, OnUninstall, ChainTypes
<1>3. CASE TickReads
  BY <1>3, StructFrame DEF TickReads, ChainTypes, WorkerTypes, workerVars
<1>4. CASE Propose
  <2>1. verdict' \in Judged
    BY <1>4, ProposalIsJudged
  <2>2. op' \in {"none", "sent"} /\ sight' \in {sight, "none"}
    BY <1>4 DEF Propose
  <2>3. WorkerTypes'
    BY <2>1, <2>2 DEF WorkerTypes
  <2> QED
    BY <1>4, <2>3, StructFrame DEF Propose, ChainTypes
<1>5. CASE Validate
  <2>1. Unasked \in Judged
    BY SMT DEF Unasked, Judged, Limits
  <2> QED
    BY <1>5, <2>1, StructFrame DEF Validate, WorkerTypes, ChainTypes
<1>6. CASE UNCHANGED breakerVars
  BY <1>6, StructFrame, WorkerFrame DEF breakerVars, ChainTypes
<1> QED
  BY <1>1, <1>2, <1>3, <1>4, <1>5, <1>6 DEF BreakerNext, RegistryStep

LEMMA TypesHold == BreakerSpec => []BreakerTypes
  BY TypesBegin, TypesStep, PTL DEF BreakerSpec

(* Every variable of the breaker keeps its type.                           *)
THEOREM BreakerTypeCorrect == BreakerSpec => []BreakerTypeOK
  BY TypesHold, TypesAreTypeOK, PTL

-----------------------------------------------------------------------------
(* The breaker trips in time and in earnest.                               *)

(* The ratchet is the highest report, and whatever was judged since the    *)
(* owner's last intervention was judged by the registry's own quotient.    *)
RegistryJudges ==
  /\ mark = highest
  /\ (Armed /\ ~unjudged /\ Drawdown(mark, last) >= threshold) => tripped

(* The wall refused exactly what it may judge and what reached its limit.  *)
WallJudges ==
  verdict.ok <=>
    ~(Judgeable(verdict) /\ Reached(verdict.limit, verdict.peak, verdict.equity))

LEMMA JudgedAtFirst == BreakerInit => RegistryJudges /\ WallJudges
<1> SUFFICES ASSUME BreakerInit PROVE RegistryJudges /\ WallJudges
  OBVIOUS
<1>1. RegistryJudges
  BY DEF BreakerInit, RegistryJudges, Armed
<1>2. verdict.ok = TRUE /\ verdict.peak = 0
  BY DEF BreakerInit, Unasked
<1>3. ~Reached(verdict.limit, verdict.peak, verdict.equity)
  BY <1>2, SMT DEF Reached
<1> QED
  BY <1>1, <1>2, <1>3 DEF WallJudges

LEMMA NoLossAtFirst == \A limit \in Limits : ~(Drawdown(0, 0) >= limit)
  BY SMT DEF Drawdown, Limits

(* One case for each transaction.                                          *)
LEMMA RegistryJudgesOn ==
  BreakerTypes /\ RegistryJudges /\ RegistryStep => RegistryJudges'
<1> SUFFICES ASSUME BreakerTypes, RegistryJudges, RegistryStep PROVE RegistryJudges'
  OBVIOUS
<1> USE DEF RegistryJudges
<1>1. CASE Arm
  <2>1. threshold' \in Limits
    BY <1>1, BreakerAssumption DEF Arm, Limits
  <2>2. ~(Drawdown(mark', last') >= threshold')
    BY <1>1, <2>1, NoLossAtFirst, Zenon DEF Arm
  <2> QED
    BY <1>1, <2>2 DEF Arm
<1>2. CASE SetKeeper
  BY <1>2 DEF SetKeeper, Armed
<1>3. CASE SetThreshold
  BY <1>3 DEF SetThreshold
<1>4. CASE Trip
  BY <1>4 DEF Trip
<1>5. CASE Halt
  BY <1>5 DEF Halt
<1>6. CASE Reset
  BY <1>6 DEF Reset
<1>7. ASSUME NEW c \in Callers, ReportEquity(c) PROVE RegistryJudges'
  <2>1. mark' = highest'
    BY <1>7 DEF ReportEquity, Ratcheted
  <2> QED
    BY <1>7, <2>1 DEF ReportEquity, MaybeTrip
<1> QED
  BY <1>1, <1>2, <1>3, <1>4, <1>5, <1>6, <1>7 DEF RegistryStep

LEMMA WallJudgesOn ==
  ASSUME BreakerTypes, WallJudges, [BreakerNext]_breakerVars
  PROVE  WallJudges'
<1>1. CASE Propose
  <2>1. PICK v \in Judged :
          /\ verdict'.ok = ~Refuses(v)
          /\ \A f \in {"limit", "peak", "equity", "exit", "known"} : verdict'[f] = v[f]
    BY <1>1, ProposalIsJudged
  <2>2. Refuses(v) <=> Judgeable(v) /\ Reached(v.limit, v.peak, v.equity)
    BY WallReaches
  <2>3. /\ verdict'.limit = v.limit /\ verdict'.peak = v.peak /\ verdict'.equity = v.equity
        /\ verdict'.exit = v.exit /\ verdict'.known = v.known
    BY <2>1
  <2>4. verdict'.ok <=> ~(Judgeable(v) /\ Reached(v.limit, v.peak, v.equity))
    BY <2>1, <2>2
  <2> QED
    BY <2>3, <2>4, Zenon DEF WallJudges, Judgeable
<1>2. CASE Validate
  <2>1. verdict'.ok = TRUE /\ verdict'.peak = 0
    BY <1>2 DEF Validate, Unasked
  <2>2. ~Reached(verdict'.limit, verdict'.peak, verdict'.equity)
    BY <2>1, SMT DEF Reached
  <2> QED
    BY <2>1, <2>2 DEF WallJudges
<1>3. CASE RegistryStep \/ OnInstall \/ OnUninstall \/ TickReads \/ UNCHANGED breakerVars
  <2>1. verdict' = verdict
    BY <1>3, RegistryLeaves DEF OnInstall, OnUninstall, TickReads, workerVars, breakerVars
  <2> QED
    BY <2>1 DEF WallJudges
<1> QED
  BY <1>1, <1>2, <1>3 DEF BreakerNext, RegistryStep

LEMMA JudgesStep ==
  BreakerTypes /\ RegistryJudges /\ WallJudges /\ [BreakerNext]_breakerVars
    => RegistryJudges' /\ WallJudges'
<1> SUFFICES ASSUME BreakerTypes, RegistryJudges, WallJudges, [BreakerNext]_breakerVars
             PROVE  RegistryJudges'
  BY WallJudgesOn
<1>1. CASE RegistryStep
  BY <1>1, RegistryJudgesOn
<1>2. CASE ~RegistryStep
  <2>1. UNCHANGED structVars
    BY <1>2 DEF BreakerNext, RegistryStep, OnInstall, OnUninstall, TickReads, Propose,
                Validate, breakerVars
  <2> QED
    BY <2>1 DEF RegistryJudges, structVars, Armed
<1> QED
  BY <1>1, <1>2

LEMMA JudgesHold == BreakerSpec => [](RegistryJudges /\ WallJudges)
  BY JudgedAtFirst, TypesHold, JudgesStep, PTL DEF BreakerSpec

LEMMA ArmedThreshold == ASSUME NumberTypes, Armed PROVE threshold \in Limits
<1>1. threshold \in Thresholds
  BY DEF NumberTypes
<1> QED
  BY <1>1, BreakerAssumption DEF Limits

LEMMA JudgedIsInTime == BreakerTypes /\ RegistryJudges /\ WallJudges => BreaksInTime
<1> SUFFICES ASSUME BreakerTypes, RegistryJudges, WallJudges PROVE BreaksInTime
  OBVIOUS
<1>1. ASSUME Armed, ~unjudged, Reached(threshold, highest, last) PROVE tripped
  <2>1. threshold \in Limits
    BY <1>1, ArmedThreshold DEF BreakerTypes, StructTypes
  <2>2. mark \in Nat /\ last \in Nat
    BY DEF BreakerTypes, StructTypes, NumberTypes
  <2>3. Drawdown(mark, last) >= threshold
    BY <1>1, <2>1, <2>2, DrawdownReaches, Zenon DEF RegistryJudges
  <2> QED
    BY <1>1, <2>3 DEF RegistryJudges
<1> QED
  BY <1>1, Zenon DEF WallJudges, BreaksInTime

(* Whatever is reported and whatever the threshold, the report that brings *)
(* the loss to the threshold trips the registry, and the wall refuses what *)
(* it may judge and reaches its limit: the rounding never costs a unit.    *)
THEOREM BreaksInTimeHolds == BreakerSpec => []BreaksInTime
  BY TypesHold, JudgesHold, JudgedIsInTime, PTL

(* A halt in force is a trip in force.                                     *)
HaltTrips == halts => tripped

LEMMA HaltTripsHolds == BreakerSpec => []HaltTrips
<1>1. BreakerInit => HaltTrips
  BY DEF BreakerInit, HaltTrips
<1>2. HaltTrips /\ [BreakerNext]_breakerVars => HaltTrips'
  BY DEF HaltTrips, BreakerNext, Arm, SetKeeper, SetThreshold, Trip, MaybeTrip, Halt,
         Reset, ReportEquity, OnInstall, OnUninstall, TickReads, Propose, Validate,
         structVars, breakerVars
<1> QED
  BY <1>1, <1>2, PTL DEF BreakerSpec

(* A trip is the owner's halt or a loss that reached the threshold.        *)
LEMMA TripsInEarnest ==
  ASSUME BreakerTypes, BreakerTypes', RegistryJudges', [BreakerNext]_breakerVars,
         ~tripped, tripped'
  PROVE  halts' \/ Reached(threshold', highest', last')
<1>1. CASE Halt
  BY <1>1 DEF Halt
<1>2. CASE Trip \/ \E c \in Callers : ReportEquity(c)
  <2>1. Drawdown(mark', last') >= threshold /\ threshold' = threshold /\ Armed
    BY <1>2 DEF Trip, ReportEquity, MaybeTrip
  <2>2. threshold \in Limits
    BY <2>1, ArmedThreshold DEF BreakerTypes, StructTypes
  <2>3. mark' \in Nat /\ last' \in Nat
    BY DEF BreakerTypes, StructTypes, NumberTypes
  <2>4. Reached(threshold, mark', last')
    BY <2>1, <2>2, <2>3, DrawdownReaches, Zenon
  <2> QED
    BY <2>1, <2>4 DEF RegistryJudges
<1> QED
  BY <1>1, <1>2 DEF BreakerNext, Arm, SetKeeper, SetThreshold, Reset, OnInstall,
                    OnUninstall, TickReads, Propose, Validate, structVars, breakerVars

(* Nothing but the owner or a loss that reached the threshold trips the    *)
(* registry; the wall refuses nothing else, no exit and no partial book.   *)
THEOREM BreaksInEarnestHolds == BreakerSpec => BreaksInEarnest
<1> DEFINE Earnest ==
      /\ (~tripped /\ tripped') => (halts' \/ Reached(threshold', highest', last'))
      /\ ~verdict'.ok =>
           /\ Judgeable(verdict')
           /\ Reached(verdict'.limit, verdict'.peak, verdict'.equity)
<1>1. ASSUME BreakerTypes, BreakerTypes', RegistryJudges', WallJudges', [BreakerNext]_breakerVars
      PROVE  Earnest
  BY <1>1, TripsInEarnest, Zenon DEF WallJudges
<1> HIDE DEF Earnest
<1>2. BreakerSpec => [][Earnest]_breakerVars
  BY <1>1, TypesHold, JudgesHold, PTL DEF BreakerSpec
<1> QED
  BY <1>2 DEF BreaksInEarnest, Earnest

(* No operation runs on a loss that reached the threshold or on a halt,    *)
(* whoever trips or halts between the worker's read and the validation.    *)
THEOREM NoTradeBeyondHolds == BreakerSpec => NoTradeBeyond
<1> DEFINE Within ==
      (Validate /\ outcome' = "ran" /\ Armed) =>
        ~halts /\ (unjudged \/ ~Reached(threshold, highest, last))
<1>1. ASSUME BreaksInTime, HaltTrips, [BreakerNext]_breakerVars PROVE Within
  BY <1>1 DEF Validate, Passes, BreaksInTime, HaltTrips
<1> HIDE DEF Within
<1>2. BreakerSpec => [][Within]_breakerVars
  BY <1>1, BreaksInTimeHolds, HaltTripsHolds, PTL DEF BreakerSpec
<1> QED
  BY <1>2 DEF NoTradeBeyond, Within
=============================================================================
