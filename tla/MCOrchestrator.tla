--------------------------- MODULE MCOrchestrator ---------------------------
(* Small instances of Orchestrator.                                        *)
EXTENDS Orchestrator, TLC

CONSTANTS r1, r2, t1, s1, s2, s3

TwoReplicas == {r1, r2}
TwoSlots == {s1, s2}
ThreeSlots == {s1, s2, s3}

(* Replicas run the same program and nothing orders them.                  *)
ReplicaSymmetry == Permutations(TwoReplicas)
=============================================================================
