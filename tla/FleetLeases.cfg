SPECIFICATION Spec
CONSTANTS
  r1 = r1
  r2 = r2
  t1 = t1
  s1 = s1
  s2 = s2
  s3 = s3
  NoOne = NoOne
  Replicas <- TwoReplicas
  Tenants = {t1}
  Slots <- ThreeSlots
  Faults = {"drop", "deploy", "store", "overlap", "crash", "wedge"}
  MaxFaults = 2
INVARIANT LeaseIsLock
SYMMETRY ReplicaSymmetry
