------------------------------- MODULE Breaker -------------------------------
(***************************************************************************)
(* The drawdown breaker of one account: BreakerRegistry.sol, the           *)
(* KernelBreakerPolicy.sol that consults it whenever the account validates *)
(* an operation of the session key, and in front of both the worker, which *)
(* reads the registry once a tick and then, intent by intent, applies its  *)
(* own drawdown rule (policy.ts).  A keeper reports equity; the owner sets *)
(* the threshold, halts and resets; anyone may enforce what was reported.  *)
(*                                                                         *)
(* Every transaction is a step, and any of them may come between the       *)
(* worker's read, its operation and the validation of that operation.      *)
(* Where the code says onlyOwner the caller is the owner.                  *)
(***************************************************************************)
EXTENDS Integers

CONSTANTS
  Callers,     \* addresses that may call the registry
  NoOne,       \* address(0)
  Levels,      \* equities that are reported: bounds the run
  Thresholds   \* maxDrawdownBps the owner may choose

ASSUME BreakerAssumption ==
  /\ NoOne \notin Callers
  /\ Levels \subseteq Nat
  /\ Thresholds \subseteq 1 .. 10000

VARIABLES
  owner, keeper, threshold, tripped,   \* the Breaker struct of the account
  mark, last,                          \* hwmUsdg, lastEquityUsdg
  highest,       \* the most that was reported since the peak last began
  policy,        \* Status of the session's permission in the policy contract
  sight,         \* isTripped as the tick saw it
  verdict,       \* the wall's last answer, with what it judged
  op,            \* an operation of the session key, on its way
  unjudged,      \* the owner reset or changed the threshold since the last judgement
  halts,         \* the trip now in force came from a halt
  outcome        \* of the last operation

structVars == <<owner, keeper, threshold, tripped, mark, last, highest, unjudged, halts>>
workerVars == <<sight, verdict, op>>
breakerVars == <<structVars, policy, workerVars, outcome>>

Armed == owner # NoOne

Unasked == [limit |-> 1, peak |-> 0, equity |-> 0, exit |-> FALSE, known |-> TRUE, ok |-> TRUE]

(* Mutant: rounded up.                                                     *)
DrawdownRoundedUp(peak, equity) ==
  IF peak = 0 \/ equity >= peak THEN 0 ELSE ((peak - equity) * 10000 + peak - 1) \div peak

(* _drawdownBps, rounded down.                                             *)
Drawdown(peak, equity) ==
  IF peak = 0 \/ equity >= peak THEN 0 ELSE ((peak - equity) * 10000) \div peak

-----------------------------------------------------------------------------
(* BreakerRegistry.                                                        *)

Arm ==
  /\ ~Armed
  /\ owner' \in Callers /\ keeper' \in Callers /\ threshold' \in Thresholds
  /\ tripped' = FALSE /\ mark' = 0 /\ last' = 0 /\ highest' = 0
  /\ unjudged' = FALSE /\ halts' = FALSE
  /\ UNCHANGED <<policy, workerVars, outcome>>

SetKeeper ==
  /\ Armed /\ keeper' \in Callers
  /\ UNCHANGED <<owner, threshold, tripped, mark, last, highest, unjudged, halts, policy, workerVars, outcome>>

(* Nothing is tripped here: trip() or the next report does it.             *)
SetThreshold ==
  /\ Armed /\ threshold' \in Thresholds /\ unjudged' = TRUE
  /\ UNCHANGED <<owner, keeper, tripped, mark, last, highest, halts, policy, workerVars, outcome>>

(* _maybeTrip, on the numbers the transaction leaves.                      *)
MaybeTrip ==
  /\ tripped' = (tripped \/ Drawdown(mark', last') >= threshold)
  /\ unjudged' = FALSE

(* Mutant: the peak is whatever was reported last.                         *)
RatchetedNot(peak, equity) == equity
Ratcheted(peak, equity) == IF equity > peak THEN equity ELSE peak

ReportEquity(c) ==
  /\ Armed /\ c \in {keeper, owner}
  /\ last' \in Levels /\ mark' = Ratcheted(mark, last')
  /\ highest' = IF last' > highest THEN last' ELSE highest
  /\ MaybeTrip
  /\ UNCHANGED <<owner, keeper, threshold, halts, policy, workerVars, outcome>>

(* By anyone, and reverted where it would not be tripped afterwards.       *)
Trip ==
  /\ Armed
  /\ UNCHANGED <<mark, last, highest>>
  /\ MaybeTrip /\ tripped'
  /\ UNCHANGED <<owner, keeper, threshold, halts, policy, workerVars, outcome>>

Halt ==
  /\ Armed
  /\ tripped' = TRUE /\ halts' = (halts \/ ~tripped)
  /\ UNCHANGED <<owner, keeper, threshold, mark, last, highest, unjudged, policy, workerVars, outcome>>

Reset ==
  /\ Armed
  /\ tripped' = FALSE /\ halts' = FALSE /\ unjudged' = TRUE
  /\ \/ mark' = last /\ highest' = last
     \/ UNCHANGED <<mark, highest>>
  /\ UNCHANGED <<owner, keeper, threshold, last, policy, workerVars, outcome>>

-----------------------------------------------------------------------------
(* KernelBreakerPolicy: NA, Live, Deprecated, with this registry.          *)

OnInstall ==
  /\ policy = "NA" /\ policy' = "Live"
  /\ UNCHANGED <<structVars, workerVars, outcome>>

OnUninstall ==
  /\ policy = "Live" /\ policy' = "Deprecated"
  /\ UNCHANGED <<structVars, workerVars, outcome>>

(* Mutant: what the worker saw is taken for the state of the registry.     *)
PassesAsSeen == policy = "Live" /\ sight # "tripped"
(* _check: an account nobody armed a breaker for is not tripped.           *)
Passes == policy = "Live" /\ ~tripped

-----------------------------------------------------------------------------
(* The worker.                                                             *)

(* Once a tick; a registry that cannot be read counts as not tripped.      *)
TickReads ==
  /\ op = "none"
  /\ sight' \in {IF tripped THEN "tripped" ELSE "clear", "clear"}
  /\ UNCHANGED <<structVars, policy, verdict, op, outcome>>

(* The rule drawdown-breaker of checkPolicy. Exempt are an intent that     *)
(* only leaves a position, and any intent while the book is not whole: the *)
(* equity is then a partial sum.  Bigint division rounds towards zero,     *)
(* which differs from \div below zero, where neither reaches a limit.      *)
Refuses(v) ==
  /\ ~v.exit /\ v.peak > 0 /\ v.known
  /\ ((v.peak - v.equity) * 10000) \div v.peak >= v.limit

(* equityKnown: the tick passes whether it could value every holding, chat *)
(* what the last tick found, the self-test FALSE.                          *)
Propose ==
  /\ op = "none" /\ sight = "clear"
  /\ \E v \in [limit : Thresholds, peak : Levels, equity : Levels, exit : BOOLEAN,
               known : BOOLEAN, ok : {TRUE}] :
       /\ verdict' = [v EXCEPT !.ok = ~Refuses(v)]
       /\ op' = IF Refuses(v) THEN "none" ELSE "sent"
  /\ sight' = IF op' = "sent" THEN sight ELSE "none"
  /\ UNCHANGED <<structVars, policy, outcome>>

(* The account validates the operation with the policy.                    *)
Validate ==
  /\ op = "sent"
  /\ outcome' = IF Passes THEN "ran" ELSE "refused"
  /\ op' = "none" /\ sight' = "none" /\ verdict' = Unasked
  /\ UNCHANGED <<structVars, policy>>

BreakerInit ==
  /\ owner = NoOne /\ keeper = NoOne /\ threshold = 0 /\ tripped = FALSE
  /\ mark = 0 /\ last = 0 /\ highest = 0 /\ unjudged = FALSE /\ halts = FALSE
  /\ policy = "NA" /\ sight = "none" /\ op = "none" /\ outcome = "none"
  /\ verdict = Unasked

BreakerNext ==
  \/ Arm \/ SetKeeper \/ SetThreshold \/ Trip \/ Halt \/ Reset
  \/ \E c \in Callers : ReportEquity(c)
  \/ OnInstall \/ OnUninstall
  \/ TickReads \/ Propose \/ Validate

BreakerSpec == BreakerInit /\ [][BreakerNext]_breakerVars

-----------------------------------------------------------------------------
(* Properties.                                                             *)

BreakerTypeOK ==
  /\ {owner, keeper} \subseteq Callers \cup {NoOne}
  /\ threshold \in 0 .. 10000 /\ (Armed => threshold \in Thresholds)
  /\ mark \in Nat /\ last \in Nat /\ highest \in Nat
  /\ {tripped, unjudged, halts} \subseteq BOOLEAN
  /\ policy \in {"NA", "Live", "Deprecated"}
  /\ sight \in {"none", "clear", "tripped"} /\ op \in {"none", "sent"}
  /\ verdict \in [limit : 1 .. 10000, peak : Nat, equity : Nat, exit : BOOLEAN,
                  known : BOOLEAN, ok : BOOLEAN]
  /\ outcome \in {"none", "ran", "refused"}

(* The loss, as a fraction of the peak, is at least so many basis points:  *)
(* exactly, without a division.                                            *)
Reached(limit, peak, equity) == peak > 0 /\ (peak - equity) * 10000 >= limit * peak

(* The wall may judge the loss: not on the way out, not on a partial book. *)
Judgeable(v) == ~v.exit /\ v.known

(* "IT CANNOT LOSE MORE THAN YOU ALLOW", to the last unit and whatever the *)
(* divisions round off: a loss against the highest report that reaches the *)
(* threshold has tripped the registry with the report that brought it (or  *)
(* the owner has just reset it or moved the threshold), and what reaches   *)
(* the wall's limit is refused, with the two exemptions of policy.ts.      *)
BreaksInTime ==
  /\ (Armed /\ ~unjudged /\ Reached(threshold, highest, last)) => tripped
  /\ (Judgeable(verdict) /\ Reached(verdict.limit, verdict.peak, verdict.equity)) => ~verdict.ok

(* "Nobody can halt on fantasy": nothing else trips it but the owner.  The *)
(* wall refuses nothing else either, no exit ("money coming home is never  *)
(* blocked") and nothing on a partial book, however low the sum.           *)
BreaksInEarnest ==
  [][/\ (~tripped /\ tripped') => (halts' \/ Reached(threshold', highest', last'))
     /\ ~verdict'.ok =>
          /\ Judgeable(verdict')
          /\ Reached(verdict'.limit, verdict'.peak, verdict'.equity)]_breakerVars

(* "The session key keeps signing, the chain keeps refusing": no operation *)
(* of the session key runs on a loss that reached the threshold, or on a   *)
(* halt, whatever the worker saw or could not read when it sent it.        *)
NoTradeBeyond ==
  [][(Validate /\ outcome' = "ran" /\ Armed) =>
       ~halts /\ (unjudged \/ ~Reached(threshold, highest, last))]_breakerVars
=============================================================================
