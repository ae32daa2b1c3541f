CONSTANTS
  NULL = NULL
  Msgs = {m1, m2}
  Lists = {l1, l2}
  Producers = {p1, p2}
SPECIFICATION Spec
SYMMETRY Symmetry
INVARIANT IInv
PROPERTY ImplementsMsgQueue
CHECK_DEADLOCK FALSE
