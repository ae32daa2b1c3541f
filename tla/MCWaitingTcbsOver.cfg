\* As ac_thread_early_init calls it: two, with four tcbs of which three can wait.
SPECIFICATION Spec
CONSTANTS
  Tcbs = {t1, t2, t3}
  MaxTime = 1
  InitMax = 2
  UpdateMaxes = {16}
SYMMETRY Symmetry
INVARIANT InBounds
