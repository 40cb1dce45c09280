------------------------------ MODULE TradeTape ------------------------------
(***************************************************************************)
(* What the shared trade tape promises its readers: a row that is shown    *)
(* stays shown, a submitted one may turn into its outcome once, and an     *)
(* outcome is final.  LedgerMirror implements this.                        *)
(***************************************************************************)
CONSTANT Rows

VARIABLE shown

Outcomes == {"landed", "reverted"}
Views == {"absent", "submitted"} \cup Outcomes

(* What one row may look like in the next version of the tape.             *)
MayBecome(now, next) ==
  \/ next = now
  \/ now = "absent"
  \/ now = "submitted" /\ next \in Outcomes

Init == shown = [r \in Rows |-> "absent"]

Publish ==
  /\ shown' \in [Rows -> Views]
  /\ \A r \in Rows : MayBecome(shown[r], shown'[r])

Spec == Init /\ [][Publish]_shown
=============================================================================
