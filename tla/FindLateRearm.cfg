SPECIFICATION Spec
CONSTANTS
  o1 = o1
  o2 = o2
  o3 = o3
  NoOp = NoOp
  Ops <- TwoOps
  ChatOps = {o2}
  Notional <- TwoNotionals
  PairOf <- OnePair
  DailyCap = 3
  MaxOpsPerDay = 2
  Faults = {"late-rearm"}
  MaxCrashes = 0
  MaxRearms = 1
INVARIANT NeverOverSpend
CHECK_DEADLOCK FALSE
