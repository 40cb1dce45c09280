-------------------------- MODULE MCIntentPipeline --------------------------
(* Small instances of IntentPipeline.                                      *)
EXTENDS IntentPipeline

CONSTANTS o1, o2, o3

TwoOps == {o1, o2}
ThreeOps == {o1, o2, o3}
(* Two intents that fit the cap one at a time, and a small one.            *)
TwoNotionals == [o \in TwoOps |-> 2]
ThreeNotionals == [o \in ThreeOps |-> IF o = o3 THEN 1 ELSE 2]
OnePair == [o \in Ops |-> "pair"]
=============================================================================
