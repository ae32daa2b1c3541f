\* Two dispatch threads with two slots each.
SPECIFICATION FairSpec
CONSTANTS
  Comps = {x, y}
  Senders = {s1}
  MaxDtps = 2
  MaxComps = 2
  MaxSends = 2
  NULL = NULL
INVARIANTS MgrConsistent
  
CHECK_DEADLOCK FALSE
