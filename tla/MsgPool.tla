------------------------------ MODULE MsgPool -------------------------------
(***************************************************************************)
(* Message pools (libs/ac_msg_pool), the lists their messages travel       *)
(* through and the memory both are made of.  A pool allocates its messages *)
(* and, apart from them, the AcNextPtr with which each is linked into a    *)
(* list.  A list returns a message with another node than it came with:    *)
(* its stub, at first the one inside of the list itself.  So nodes wander  *)
(* from pool to pool, and this module asks what is freed under whom.       *)
(*                                                                         *)
(* A pool's ring buffer (RingBuff.tla) and a list (LinkList.tla) are their *)
(* abstract queues here; each operation is one step.                       *)
(***************************************************************************)
EXTENDS Integers, Sequences, FiniteSets

CONSTANTS
  Pools, Count,  \* the pools, and msg_count
  Lists,         \* the lists
  HeapLists,     \* those inside of an object that is freed with them
  MaxInits       \* bound: AcMsgPool_inits of one pool

PoolAssumption ==
  /\ Count \in Nat \ {0} /\ MaxInits \in Nat
  /\ HeapLists \subseteq Lists /\ Pools \cap Lists = {}

VARIABLES
  gen,     \* how often each pool was initialised
  open,    \* the pools and the lists that are initialised
  alive,   \* the blocks of memory that are allocated
  free,    \* per pool: its ring buffer
  held,    \* the messages that somebody has got and not sent or returned
  queue,   \* per list: the messages in it
  node,    \* per message: next_ptr
  stub     \* per list: the node at its tail

mpvars == <<gen, open, alive, free, held, queue, node, stub>>

\* The blocks of pool p's g-th initialisation, and that of a list.
MsgsRaw(p, g) == <<"msgs", p, g>>
NextPtrsRaw(p, g) == <<"next_ptrs", p, g>>
ListBlock(l) == <<"list", l, 0>>

MsgsOf(p, g) == [pool : {p}, g : {g}, i : 1 .. Count]
AllMsgs == UNION {MsgsOf(p, g) : p \in Pools, g \in 1 .. MaxInits}
Exists(m) == MsgsRaw(m.pool, m.g) \in alive

Init ==
  /\ gen = [p \in Pools |-> 0]
  /\ open = Lists
  /\ alive = {ListBlock(l) : l \in Lists}
  /\ free = [p \in Pools |-> <<>>]
  /\ held = {}
  /\ queue = [l \in Lists |-> <<>>]
  /\ node = [m \in AllMsgs |-> <<>>]
  /\ stub = [l \in Lists |-> <<ListBlock(l), 0>>]

-----------------------------------------------------------------------------

\* AcMsgPool_init: after a failure (a size that is not a power of two, no memory)
\* what was allocated is freed again and nothing is left.
PoolInit(p) ==
  /\ p \notin open /\ gen[p] < MaxInits
  /\ LET g == gen[p] + 1
     IN /\ gen' = [gen EXCEPT ![p] = g]
        /\ alive' = alive \cup {MsgsRaw(p, g), NextPtrsRaw(p, g)}
        /\ free' = [free EXCEPT ![p] = [i \in 1 .. Count |-> [pool |-> p, g |-> g, i |-> i]]]
        /\ node' = [m \in AllMsgs |-> IF m \in MsgsOf(p, g) THEN <<NextPtrsRaw(p, g), m.i>>
                                      ELSE node[m]]
  /\ open' = open \cup {p}
  /\ UNCHANGED <<held, queue, stub>>

Get(p) ==
  /\ p \in open /\ free[p] # <<>>
  /\ held' = held \cup {Head(free[p])}
  /\ free' = [free EXCEPT ![p] = Tail(@)]
  /\ UNCHANGED <<gen, open, alive, queue, node, stub>>

\* msg->mp.
HomeOf(m) == m.pool

Ret(m) ==
  /\ m \in held
  /\ held' = held \ {m}
  /\ free' = [free EXCEPT ![HomeOf(m)] = Append(@, m)]
  /\ UNCHANGED <<gen, open, alive, queue, node, stub>>

\* AcMpscLinkList_add and _rmv.
Add(l, m) ==
  /\ l \in open /\ m \in held
  /\ queue' = [queue EXCEPT ![l] = Append(@, m)]
  /\ held' = held \ {m}
  /\ UNCHANGED <<gen, open, alive, free, node, stub>>

Rmv(l) ==
  /\ l \in open /\ queue[l] # <<>>
  /\ LET m == Head(queue[l])
     IN /\ held' = held \cup {m}
        /\ node' = [node EXCEPT ![m] = stub[l]]
        /\ stub' = [stub EXCEPT ![l] = node[m]]
  /\ queue' = [queue EXCEPT ![l] = Tail(@)]
  /\ UNCHANGED <<gen, open, alive, free>>

\* AcMpscLinkList_deinit of an emptied list, and the free of the object it is in.
ListDeinit(l) ==
  /\ l \in open /\ queue[l] = <<>>
  /\ open' = open \ {l}
  /\ alive' = IF l \in HeapLists THEN alive \ {ListBlock(l)} ELSE alive
  /\ UNCHANGED <<gen, free, held, queue, node, stub>>

\* Mutant of Freed: next_ptrs_raw too, as the line that is commented out.
FreedBoth(p) == {MsgsRaw(p, gen[p]), NextPtrsRaw(p, gen[p])}

\* "BUG: We can't free next_ptrs because they could still be in use!!!"
Freed(p) == {MsgsRaw(p, gen[p])}

\* AcMsgPool_deinit: "We ASSUME none of the message are being used!!!"
PoolDeinit(p) ==
  /\ p \in open
  /\ \A m \in MsgsOf(p, gen[p]) : m \notin held /\ \A l \in Lists : m \notin {queue[l][i] : i \in DOMAIN queue[l]}
  /\ open' = open \ {p}
  /\ alive' = alive \ Freed(p)
  /\ free' = [free EXCEPT ![p] = <<>>]
  /\ UNCHANGED <<gen, held, queue, node, stub>>

-----------------------------------------------------------------------------

Next ==
  \/ \E p \in Pools : PoolInit(p) \/ Get(p) \/ PoolDeinit(p)
  \/ \E m \in held : Ret(m) \/ \E l \in Lists : Add(l, m)
  \/ \E l \in Lists : Rmv(l) \/ ListDeinit(l)

Spec == Init /\ [][Next]_mpvars

-----------------------------------------------------------------------------
(* Properties                                                              *)

Times(m, s) == Cardinality({i \in DOMAIN s : s[i] = m})

\* A message that exists is in one place: with one user, once in one list or once
\* in the ring buffer of its own pool, which therefore always has room for it.
MsgsAccounted ==
  /\ \A m \in AllMsgs : Exists(m) =>
       LET home == Times(m, free[m.pool])
           inLists == {l \in Lists : Times(m, queue[l]) > 0}
       IN (IF m \in held THEN 1 ELSE 0) + home + Cardinality(inLists) = 1
  /\ \A l \in Lists : \A m \in AllMsgs : Times(m, queue[l]) \in 0 .. 1
  /\ \A p \in Pools : Len(free[p]) <= Count

\* Every message and every list in use has a node that is allocated, and no two
\* have the same, however often nodes changed hands and whatever was freed:
\* adding a message writes to its node.
NodesAlive ==
  LET M == {m \in AllMsgs : Exists(m)}
      L == open \cap Lists
  IN /\ \A m \in M : node[m][1] \in alive
     /\ \A l \in L : stub[l][1] \in alive
     /\ \A m, n \in M : node[m] = node[n] => m = n
     /\ \A l, k \in L : stub[l] = stub[k] => l = k
     /\ \A m \in M, l \in L : node[m] # stub[l]

\* Both: whatever is sent, returned and freed, in whichever order.
PoolConsistent == MsgsAccounted /\ NodesAlive
=============================================================================
