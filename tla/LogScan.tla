------------------------------ MODULE LogScan ------------------------------
(***************************************************************************)
(* getLogsAdaptive (inflight-reconcile.ts): the logs of a window of blocks *)
(* from a provider that refuses spans it finds too wide, is now and then   *)
(* not reachable, and may fail for good.  The sweep for lost operations    *)
(* and the deposit scan both take "no log" for "no such event" in what it  *)
(* says it covered: a block stepped over, or read as covered, loses an     *)
(* operation or a deposit.                                                 *)
(***************************************************************************)
EXTENDS Integers

CONSTANTS
  LastBlock,      \* the chain's head: bounds the windows
  WidestSpan,     \* bound on maxSpan
  SpanRetries     \* MAX_RETRIES_PER_SPAN

ASSUME ScanAssumption ==
  LastBlock \in Nat /\ WidestSpan \in Nat \ {0} /\ SpanRetries \in Nat

Blocks == 0 .. LastBlock

VARIABLES
  from, to,       \* fromBlock, toBlock
  at,             \* cursor
  span, attempt,
  reads,          \* how often the logs of a block have been taken
  result,         \* what the scan is doing, or what it returned
  scannedTo

scanVars == <<from, to, at, span, attempt, reads, result, scannedTo>>

Lesser(a, b) == IF a < b THEN a ELSE b

(* The last block of the request.                                          *)
NextSpan(s) == at + s - 1
End == Lesser(NextSpan(span), to)

Asking == result = "scanning" /\ at <= to

Return(r, upTo) == result' = r /\ scannedTo' = upTo

Answered ==
  /\ Asking
  /\ reads' = [b \in Blocks |-> IF b \in at .. End THEN reads[b] + 1 ELSE reads[b]]
  /\ at' = End + 1 /\ attempt' = 0
  /\ UNCHANGED <<from, to, span, result, scannedTo>>

(* "range-too-large", of more than one block.                              *)
Halved ==
  /\ Asking /\ span > 1
  /\ span' = span \div 2
  /\ UNCHANGED <<from, to, at, attempt, reads, result, scannedTo>>

(* Mutant: a rate limit is asked again for ever.                           *)
AskAgainForever ==
  /\ Asking
  /\ attempt' = (attempt + 1) % (SpanRetries + 1)
  /\ UNCHANGED <<from, to, at, span, reads, result, scannedTo>>

(* Rate limited, timed out, not reachable: "Same span, same cursor".       *)
AskAgain ==
  /\ Asking /\ attempt < SpanRetries
  /\ attempt' = attempt + 1
  /\ UNCHANGED <<from, to, at, span, reads, result, scannedTo>>

(* Mutant: the coverage of a scan that gave up includes the block at fault.*)
GiveUpInclusive ==
  /\ Asking
  /\ Return("short", at)
  /\ UNCHANGED <<from, to, at, span, attempt, reads>>

(* Out of retries, a failure no retry cures, or one block refused as too   *)
(* wide, which is not retryable.                                           *)
GiveUp ==
  /\ Asking
  /\ Return("short", at - 1)
  /\ UNCHANGED <<from, to, at, span, attempt, reads>>

Covered ==
  /\ result = "scanning" /\ at > to
  /\ Return("complete", to)
  /\ UNCHANGED <<from, to, at, span, attempt, reads>>

ScanInit ==
  /\ from \in Blocks /\ to \in Blocks
  /\ at = from /\ span \in 1 .. WidestSpan /\ attempt = 0
  /\ reads = [b \in Blocks |-> 0]
  /\ result = "scanning" /\ scannedTo = 0

ScanNext == Answered \/ Halved \/ AskAgain \/ GiveUp \/ Covered

ScanSpec == ScanInit /\ [][ScanNext]_scanVars

-----------------------------------------------------------------------------
(* Properties.                                                             *)

(* Whatever mix of refusals a provider answers with, the logs of a block   *)
(* are taken once if the scan says it covered it and never if not, and it  *)
(* says "complete" only of the whole window.                               *)
CoverageIsTrue ==
  result # "scanning" =>
    /\ \A b \in Blocks : reads[b] = IF b \in from .. scannedTo THEN 1 ELSE 0
    /\ scannedTo <= to \/ scannedTo < from
    /\ result = "complete" => scannedTo = to

(* "a fault that could not terminate": every answer, of whatever kind,     *)
(* ends the scan, brings it on, narrows the span or uses up a retry, and   *)
(* of the last three there are only so many.                               *)
MovesOn ==
  \/ result' # "scanning"
  \/ at' > at
  \/ at' = at /\ span' < span
  \/ at' = at /\ span' = span /\ attempt' > attempt
InBounds == at <= LastBlock + 1 /\ span >= 1 /\ attempt <= SpanRetries
ScanEnds == [][MovesOn /\ InBounds']_scanVars
=============================================================================
