SPECIFICATION Spec
CONSTANTS
  o1 = o1
  o2 = o2
  o3 = o3
  NoOp = NoOp
  Ops <- ThreeOps
  ChatOps = {o2}
  Notional <- ThreeNotionals
  PairOf <- OnePair
  DailyCap = 3
  MaxOpsPerDay = 2
  Faults = {"ledger"}
  MaxCrashes = 1
  MaxRearms = 1
INVARIANT TypeOK
INVARIANT NeverOverSpend
INVARIANT NoBlindBroadcast
INVARIANT ReservationBalanced
INVARIANT SpendStaysCounted
INVARIANT CountedBeforeTrading
PROPERTY ImplementsLifecycle
