CONSTANTS
  EMPTY = EMPTY
  PROCESSING = PROCESSING
  NULL = NULL
  Comps = {x, y}
  Dcs = {a, b}
  Dispatchers = {d1}
  Clients = {c1, c2}
  MaxCount = 2
  MaxSends = 1
  WeakFails = FALSE
SPECIFICATION FairSpec
INVARIANTS DcsAccounted NoUseAfterFree Lifecycle MsgsAllHandled OnlyRemovedEnd
PROPERTY RemovedIsFreed
CHECK_DEADLOCK FALSE
