SPECIFICATION FairSpec
CONSTANTS
  o1 = o1
  o2 = o2
  o3 = o3
  NoOp = NoOp
  Ops <- ThreeOps
  ChatOps = {}
  Notional <- ThreeNotionals
  PairOf <- OnePair
  DailyCap = 3
  MaxOpsPerDay = 2
  Faults = {"ledger"}
  MaxCrashes = 1
  MaxRearms = 0
INVARIANT OneRowPerOp
PROPERTY SubmittedSettles
