SPECIFICATION BooksSpec
CONSTANTS
  Amounts <- TwoAmounts
  MaxGain = 1
  CapitalFaults = {"rpc", "gap", "between", "opening", "flow", "firstflow", "peak", "unresolved", "chat", "redeploy", "midway", "anchor", "stop", "kill", "torn"}
  MaxCapitalFaults = 2
  Orders <- TwoOrders
  MaxOps = 2
  Closing = 7
  FillFaults = {"chat", "unresolved", "unread", "rearm", "carry", "write", "basis", "unreadable", "unwatch", "stop", "kill", "tear"}
  MaxFillFaults = 2
  LastBlock = 6
  WidestSpan = 5
  SpanRetries = 2
  Callers = {a1, a2}
  NoOne = NoOne
  Levels = {0, 2, 3}
  Thresholds = {3333, 3334}
INVARIANT PeakCarries
INVARIANT BookedOnce
INVARIANT NothingMissed
INVARIANT NoFeeOnPrincipal
INVARIANT JournalAgrees
INVARIANT CostFollowsChain
INVARIANT CapitalCrosses
INVARIANT CoverageIsTrue
INVARIANT BreaksInTime
PROPERTY ScanEnds
PROPERTY BreaksInEarnest
PROPERTY NoTradeBeyond
CHECK_DEADLOCK FALSE
