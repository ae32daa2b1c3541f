----------------------------- MODULE MCSafeParts ----------------------------
(***************************************************************************)
(* The instances TLC checks of the parts whose properties are safety       *)
(* properties.  They do not interact: in a behaviour one of them runs, the *)
(* others stay in an initial state of theirs.  So the states are those of  *)
(* the parts side by side, and not their product.                          *)
(*                                                                         *)
(* The receptors of Posix are the part this module extends: its names are  *)
(* the ones without a prefix (Init, Next).  The others are instances.      *)
(***************************************************************************)
EXTENDS Integers, Sequences, ReceptorPosix

CONSTANTS Tcbs, MaxTime, InitMax, UpdateMaxes,              \* of waiting_tcbs
          Pools, Lists, HeapLists, Count, MaxInits,         \* of the message pool
          MemThreads, Align, MaxIdx, MemWord, Sizes, Counts,  \* of the memory manager
          Items, MaxItems, MaxLens, OutWord, ResultLen, TsMax, Procs,  \* of printf
          TimeWord, SecInNs, SecsPer, Freqs, Ticks, Precisions,  \* of the time conversions
          Fan, Pages, Regions, Maps, PagingCalls,           \* of paging
          Asks, MaxCalls,                                   \* of ac_thread_init
          Main, Others, MaxComputes,                        \* of ContextX86
          IfCount, Fds, MaxFiles, MaxMsgs, MaxChanges       \* of the link

VARIABLES
  part,   \* the part that runs
  heap, deadline, max, size,
  gen, open, alive, free, held, queue, node, stub,
  idx, mpc, msize, cur, seen, got,
  fmt, wr, out, fpc, last, text, ts, tsCount, reg,
  freq, asked, answer,
  mem, top, cr3, mode, pc, req, todo, base, walk, maps, ncalls,
  arrays, total, most, inits, failed,
  regs, rip, flag, on, stack, sp, pready, view,
  lpc, up, changes, files, opened, closed, this, msgs, reader, from, frames

\* The variables of each part.
waitingVars == <<heap, deadline, max, size>>
poolVars == <<gen, open, alive, free, held, queue, node, stub>>
memVars == <<idx, mpc, msize, cur, seen, got>>
outVars == <<fmt, wr, out, fpc, last, text, ts, tsCount, reg>>
timeVars == <<freq, asked, answer>>
pagingVars == <<mem, top, cr3, mode, pc, req, todo, base, walk, maps, ncalls>>
tablesVars == <<arrays, total, most, inits, failed>>
contextVars == <<regs, rip, flag, on, stack, sp, pready, view>>
linkVars == <<lpc, up, changes, files, opened, closed, this, msgs, reader, from, frames>>
partsVars == <<part, waitingVars, poolVars, memVars, outVars, timeVars, pagingVars,
               tablesVars, contextVars, linkVars, rpvars>>

Waiting == INSTANCE WaitingTcbs

Pool == INSTANCE MsgPool

Mem == INSTANCE MemMgr WITH Threads <- MemThreads, Word <- MemWord, size <- msize

Item(c, p, l, z, w, a) == [conv |-> c, plus |-> p, left |-> l, zero |-> z, width |-> w, arg |-> a]
ItemsDef ==
  {Item("d", p, l, z, w, a) : p, l, z \in BOOLEAN, w \in {0, 2, 5}, a \in {-8, 0, 7}}
  \cup {Item(c, p, l, z, 5, a) : c \in {"x", "b", "u", "p"}, p, l, z \in BOOLEAN, a \in {0, 15}}
  \cup {Item(c, FALSE, FALSE, FALSE, 0, 3) :
          c \in {"literal", "%", "c", "s", "p", "end", "{", "P1", "P2"}}

Out == INSTANCE Printf WITH Word <- OutWord

\* A year, a day, an hour and a minute of few seconds.
SecsPerDef == <<60, 24, 6, 3>>

Time == INSTANCE TimeConv WITH Word <- TimeWord

\* Tables of two entries: every address has three levels of tables.
Region(a, p, n, c, al) == [lin |-> a, phy |-> p, len |-> n, caching |-> c, aligned |-> al]
Entry(r, t) == [region |-> r, type |-> t]
RegionsDef ==
  {r \in {Region(a, a, n, 1, TRUE) : a \in 0 .. 7, n \in 0 .. 8} : r.lin + r.len <= 8}
  \cup {Region(6, 6, 1, 4, TRUE), Region(7, 7, 1, 0, TRUE), Region(5, 5, 1, 4, FALSE)}
MapsDef ==
  {<<Entry(Region(0, 0, 1, 1, TRUE), 1), Entry(Region(1, 1, 1, 1, TRUE), 2),
     Entry(Region(2, 2, 4, 1, TRUE), 1)>>,
   <<Entry(Region(0, 0, 1, 1, TRUE), 1), Entry(Region(5, 5, 1, 4, FALSE), 1),
     Entry(Region(1, 1, 1, 1, TRUE), 1)>>}

Paging == INSTANCE PageTable WITH
  MaxCalls <- PagingCalls, regs <- mode, asked <- maps, calls <- ncalls

Tables == INSTANCE ThreadInit

Context == INSTANCE ContextX86

Link == INSTANCE InetLink

ASSUME Assumptions ==
  /\ Waiting!WaitingTcbsAssumption /\ Pool!PoolAssumption /\ Mem!MemAssumption
  /\ Out!PrintfAssumption /\ Time!TimeConvAssumption /\ Time!NoOverflow
  /\ Paging!PageTableAssumption
  /\ Tables!ThreadInitAssumption /\ Context!ContextAssumption /\ Link!InetLinkAssumption

-----------------------------------------------------------------------------
Parts == {"waiting_tcbs", "msg_pool", "memmgr", "printf", "time", "paging", "thread_init",
          "context", "inet_link", "receptor_posix"}

\* Of the initial states of a part that does not run, one is enough.
PartsInit ==
  /\ part \in Parts
  /\ Waiting!Init /\ Pool!Init /\ Mem!Init /\ Out!Init /\ Time!Init /\ Tables!Init
  /\ Context!Init /\ Init
  /\ Paging!Init /\ (part # "paging" => mode.pcide)
  /\ Link!Init /\ (part # "inet_link" => up = {})

OthersStay ==
  /\ UNCHANGED part
  /\ IF part = "waiting_tcbs" THEN TRUE ELSE UNCHANGED waitingVars
  /\ IF part = "msg_pool" THEN TRUE ELSE UNCHANGED poolVars
  /\ IF part = "memmgr" THEN TRUE ELSE UNCHANGED memVars
  /\ IF part = "printf" THEN TRUE ELSE UNCHANGED outVars
  /\ IF part = "time" THEN TRUE ELSE UNCHANGED timeVars
  /\ IF part = "paging" THEN TRUE ELSE UNCHANGED pagingVars
  /\ IF part = "thread_init" THEN TRUE ELSE UNCHANGED tablesVars
  /\ IF part = "context" THEN TRUE ELSE UNCHANGED contextVars
  /\ IF part = "inet_link" THEN TRUE ELSE UNCHANGED linkVars
  /\ IF part = "receptor_posix" THEN TRUE ELSE UNCHANGED rpvars

PartsNext ==
  \/ part = "waiting_tcbs" /\ Waiting!Next /\ OthersStay
  \/ part = "msg_pool" /\ Pool!Next /\ OthersStay
  \/ part = "memmgr" /\ Mem!Next /\ OthersStay
  \/ part = "printf" /\ Out!Next /\ OthersStay
  \/ part = "time" /\ Time!Next /\ OthersStay
  \/ part = "paging" /\ Paging!Next /\ OthersStay
  \/ part = "thread_init" /\ Tables!Next /\ OthersStay
  \/ part = "context" /\ Context!Next /\ OthersStay
  \/ part = "inet_link" /\ Link!Next /\ OthersStay
  \/ part = "receptor_posix" /\ Next /\ OthersStay

PartsSpec == PartsInit /\ [][PartsNext]_partsVars

-----------------------------------------------------------------------------
(* The properties of the parts, each stated in its module.  SignalsAreKept *)
(* is that of ReceptorPosix.                                               *)

\* waiting_tcbs is a queue of tcbs by deadline.
ImplementsTimerQueue == Waiting!ImplementsTimerQueue
\* No message of a pool is lost or doubled, and no node in use is in freed memory.
PoolConsistent == Pool!PoolConsistent
\* No two calls of ac_malloc return memory in common.
AllocatedApart == Mem!AllocatedApart
\* A format is written as it says, by the processors that are registered.
WrittenAsAsked == Out!WrittenAsAsked
\* A time that was converted is the nearest one.
TimeIsNearest == Time!TimeIsNearest
\* An address is mapped where and as it was asked.
MapsWhatIsAsked == Paging!MapsWhatIsAsked
\* ac_thread_init adds the tcbs that were asked for.
TcbsSuffice == Tables!TcbsSuffice
\* A thread goes on with the registers, the flags and the stack it had.
ContextKept == Context!ContextKept
\* The link sends and receives by its own socket, and of one interface.
SocketsKeptApart == Link!SocketsKeptApart
=============================================================================
