SPECIFICATION Spec
CONSTANTS
  o1 = o1
  o2 = o2
  o3 = o3
  NoOp = NoOp
  Ops <- TwoOps
  ChatOps = {o2}
  Notional <- TwoNotionals
  PairOf <- OnePair
  DailyCap = 3
  MaxOpsPerDay = 2
  Faults = {"ledger", "rail-flip", "late-rearm", "redeploy"}
  MaxCrashes = 1
  MaxRearms = 1
INVARIANT LedgerTruthful
INVARIANT RailsApart
