----------------------------- MODULE OpLifecycle -----------------------------
(***************************************************************************)
(* What the ledger promises about one UserOperation, whoever runs it:      *)
(* the claim is durable before the operation is broadcast, it is broadcast *)
(* at most once, it is settled only with the outcome the chain gave it,    *)
(* and a settlement is final.  IntentPipeline implements this.             *)
(***************************************************************************)
CONSTANT Ops

VARIABLES claim, chain

Claims == {"none", "claimed", "landed", "reverted"}

Init == claim = [o \in Ops |-> "none"] /\ chain = [o \in Ops |-> "none"]

(* onSubmitted: the row is written while nothing is out.                   *)
Claim(o) ==
  /\ claim[o] = "none" /\ chain[o] = "none"
  /\ claim' = [claim EXCEPT ![o] = "claimed"]
  /\ UNCHANGED chain

Broadcast(o) ==
  /\ claim[o] = "claimed" /\ chain[o] = "none"
  /\ chain' = [chain EXCEPT ![o] = "pending"]
  /\ UNCHANGED claim

Execute(o) ==
  /\ chain[o] = "pending"
  /\ \E fate \in {"success", "reverted", "dropped"} : chain' = [chain EXCEPT ![o] = fate]
  /\ UNCHANGED claim

Settle(o) ==
  /\ claim[o] = "claimed"
  /\ \/ chain[o] = "success" /\ claim' = [claim EXCEPT ![o] = "landed"]
     \/ chain[o] = "reverted" /\ claim' = [claim EXCEPT ![o] = "reverted"]
  /\ UNCHANGED chain

Next == \E o \in Ops : Claim(o) \/ Broadcast(o) \/ Execute(o) \/ Settle(o)

Spec == Init /\ [][Next]_<<claim, chain>>
=============================================================================
