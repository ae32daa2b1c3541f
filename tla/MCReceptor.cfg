\* Two receptors, two threads that wait and two that signal, nothing bounded.
SPECIFICATION Spec
CONSTANTS
  Waiters = {t1, t2}
  Signalers = {s1, s2}
  MaxReceptors = 2
  NO_ONE = NO_ONE
  SIGNALED = SIGNALED
  NULL = NULL
SYMMETRY Symmetry
INVARIANTS OneHolder WaitNeverFails SignalIsKept SignalWakes
