\* One dispatch thread with two slots.
SPECIFICATION Spec
CONSTANTS
  Comps = {x}
  Senders = {s1}
  MaxDtps = 1
  MaxComps = 2
  MaxSends = 1
  NULL = NULL
INVARIANT RemovedIsGone
CHECK_DEADLOCK FALSE
