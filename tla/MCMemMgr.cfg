\* Two threads that allocate memory at the same time.
SPECIFICATION Spec
CONSTANTS
  Threads = {"t1", "t2"}
  Align = 4
  MaxIdx = 24
  Word = 64
  Sizes = {1, 5}
  Counts = {2}
INVARIANT AllocatedApart
CHECK_DEADLOCK FALSE
