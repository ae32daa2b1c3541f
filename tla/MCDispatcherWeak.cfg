CONSTANTS
  EMPTY = EMPTY
  PROCESSING = PROCESSING
  NULL = NULL
  Comps = {x}
  Dcs = {a}
  Dispatchers = {d1}
  Clients = {c1}
  MaxCount = 1
  MaxSends = 1
  WeakFails = TRUE
SPECIFICATION Spec
SYMMETRY Symmetry
INVARIANT OnlyRemovedEnd
CHECK_DEADLOCK FALSE
