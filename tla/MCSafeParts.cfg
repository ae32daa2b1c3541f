SPECIFICATION PartsSpec
CONSTANTS
\* Five tcbs: a heap of three levels whose last parent has one child or two.
  Tcbs = {t1, t2, t3, t4, t5}
  MaxTime = 2
  InitMax = 5
  UpdateMaxes = {8}
  Pools = {"p1", "p2"}
  Lists = {"l1", "l2"}
  HeapLists = {}
  Count = 1
  MaxInits = 2
\* One thread: two are the run memmgr_race.  63 + 4 and 16 * 9 do not fit in a word.
  MemThreads = {"t1"}
  Align = 4
  MaxIdx = 24
  MemWord = 64
  Sizes = {0, 1, 4, 5, 9, 40, 59, 60, 61, 63}
  Counts = {2, 16}
  Main = main
  Others = {thread}
  MaxComputes = 1
  IfCount = 2
  Fds = {1, 2}
  MaxFiles = 3
  MaxMsgs = 2
  MaxChanges = 1
\* A word of four bits, and room for its digits in base 2 and a sign.
  Items <- ItemsDef
  MaxItems = 1
  MaxLens = {2, 5}
  OutWord = 16
  ResultLen = 5
  TsMax = 1
  Procs = {"P1", "P2"}
\* Seconds of 20 ns, of which there are 3 to 60 in the longer units.
  TimeWord = 1048576
  SecInNs = 20
  SecsPer <- SecsPerDef
  Freqs = {1, 3, 7, 20, 50, 200}
  Ticks = {0, 1, 2, 3, 9, 10, 11, 19, 20, 21, 49, 50, 51, 57, 99, 100, 149, 150, 199, 200,
           299, 300, 599, 999, 1199, 1200, 2999, 3000}
  Precisions = {0, 1, 2}
\* Tables of two entries: every address has three levels of tables.
  Fan = 2
  Pages = 6
  Regions <- RegionsDef
  Maps <- MapsDef
  PagingCalls = 2
  Asks = {1, 3, 9, 20}
  MaxCalls = 3
  Receptors = {0, 1}
  Users = {u1, u2}
  MaxPosts = 2
INVARIANTS  AllocatedApart 
           TimeIsNearest MapsWhatIsAsked  ContextKept SocketsKeptApart 
PROPERTY ImplementsTimerQueue
CHECK_DEADLOCK FALSE
