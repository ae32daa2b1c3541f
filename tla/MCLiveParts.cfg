\* The instances of MCLiveParts that no theorem is about give the other constants.
SPECIFICATION PartsSpec
CONSTANTS
  NULL = NULL
\* Two cells, and indices that wrap.
  Size = 2
  WordSize = 16
  Starts = {13}
  MaxAdds = 4
  Producers = {p1, p2}
  Mems = {a, b}
  Senders = {s1, s2}
  Msgs = {m1, m2}
\* The four tcbs of ac_thread_early_init.
  ReadyTcbs = {idle, main, t1, t2}
  IdleTcb = idle
  MainTcb = main
  MaxTime = 3
  OtherVecs = {80}
  MaxEvents = 3
  Setups <- Attached
  MaxFlush = 2
  MaxOps = 1
  ArmThreads = 3
  ArmStacks = 3
  IrqThreads = {"p1", "p2"}
  OneShots = {1}
  IrqSlots = 3
  MaxNest = 1
  Programs <- OneOrBoth
  MaxThreads = 2
  Creators = {c1, c2}
  MaxCalls = 2
INVARIANTS ThreadsAccounted HandledOrReset Identified  RegisteredIsCalled
           ThreadsHaveTcbs
PROPERTIES ImplementsBoundedQueue AddReturns MsgIsRemoved  ThreadsRun KeysAreRead
            CreatedRuns 
CHECK_DEADLOCK FALSE
