\* A second of 20 ns; the time stamp counter is slower or faster than that.
SPECIFICATION Spec
CONSTANTS
  Word = 1048576
  SecInNs = 20
  SecsPer <- SecsPerDef
  Freqs = {3, 7, 50}
  Ticks = {0, 1, 2, 3, 9, 10, 11, 19, 20, 21}
  Precisions = {0}
INVARIANT WaitsLongEnough
CHECK_DEADLOCK FALSE
