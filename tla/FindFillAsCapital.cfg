SPECIFICATION BooksSpec
CONSTANTS
  Amounts <- TwoAmounts
  MaxGain = 1
  CapitalFaults = {"unresolved"}
  MaxCapitalFaults = 2
  Orders <- TwoOrders
  MaxOps = 2
  Closing = 7
  FillFaults = {}
  MaxFillFaults = 2
  LastBlock = 6
  WidestSpan = 5
  SpanRetries = 2
  Callers = {a1, a2}
  NoOne = NoOne
  Levels = {0, 2, 3}
  Thresholds = {3333, 3334}
INVARIANT Booked
CHECK_DEADLOCK FALSE
