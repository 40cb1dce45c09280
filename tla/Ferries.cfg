SPECIFICATION FerriesSpec
CONSTANTS
  c1 = c1
  c2 = c2
  t1 = t1
  a1 = a1
  NoOne = NoOne
  Cmds <- TwoCmds
  Tenants = {t1}
  Accounts = {a1}
  AccountOf <- OneAccount
  At <- Stamps
  Limit = 2
  Faults = {"worker", "orchestrator", "select", "disk", "mark", "record", "probe", "silent"}
  MaxFaults = 2
  h1 = h1
  h2 = h2
  Rows <- ThreeRows
  Homes = {h1, h2}
  FirstHome = h1
  Batch = 2
  ResyncLimit = 3
  MirrorFaults = {"store", "crash", "rebuild", "handover", "late"}
  MaxMirrorFaults = 2
INVARIANT RunsBounded
INVARIANT PassWasEarned
INVARIANT TapeExact
PROPERTY NeverRevived
PROPERTY WaitingIsTaken
PROPERTY NothingSkipped
PROPERTY ImplementsTape
PROPERTY EveryRowShown
PROPERTY OutcomeFollows
CHECK_DEADLOCK FALSE
