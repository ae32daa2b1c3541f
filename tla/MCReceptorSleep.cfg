\* One thread that waits and one that signals.
SPECIFICATION Spec
CONSTANTS
  Waiters = {t1}
  Signalers = {s1}
  MaxReceptors = 1
  NO_ONE = NO_ONE
  SIGNALED = SIGNALED
  NULL = NULL
INVARIANT SignaledNotAsleep
