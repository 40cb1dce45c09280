SPECIFICATION Spec
CONSTANTS
  r1 = r1
  r2 = r2
  t1 = t1
  s1 = s1
  s2 = s2
  s3 = s3
  NoOne = NoOne
  Replicas = {r1}
  Tenants = {t1}
  Slots <- ThreeSlots
  Faults = {"crash", "overlap"}
  MaxFaults = 1
INVARIANT NoOrphan
