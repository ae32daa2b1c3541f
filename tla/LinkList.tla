------------------------------ MODULE LinkList ------------------------------
(***************************************************************************)
(* AcMpscLinkList (libs/ac_mpsc_link_list): the wait-free multi-producer,  *)
(* single-consumer queue every component receives its messages through.    *)
(*                                                                         *)
(* A list is a chain of AcNextPtr nodes that starts with a dummy (tail)    *)
(* and ends with the node added last (head).  An add exchanges head for    *)
(* its node and only then links the previous head to it: in between the    *)
(* chain is cut, and the consumer spins at the cut.  A remove leaves the   *)
(* removed message's node in the list as the new dummy and gives the       *)
(* message the old dummy instead, so nodes wander between messages and     *)
(* lists, a stub embedded in a list included.                              *)
(*                                                                         *)
(* Each action is one access to memory that another thread may access,     *)
(* with the accesses to the thread's own data around it.  The build is the *)
(* one with NDEBUG: the debug counters are not modelled.                   *)
(***************************************************************************)
EXTENDS Naturals, Sequences, SequencesExt

CONSTANTS
  Msgs,       \* the messages (AcMsg)
  Lists,      \* the lists; list l is consumed by one thread
  Producers,  \* the threads that add
  NULL        \* AC_NULL

ASSUME ListAssumption ==
  /\ Msgs \cap Lists = {}
  /\ NULL \notin Msgs \cup Lists \cup (Lists \X Msgs)

\* The AcNextPtr nodes, each named for what it was created with: a message
\* (AcMsgPool_init gives each one) or a list (the stub member of its struct).
Nodes == Msgs \cup Lists

VARIABLES
  head, tail,     \* per list: the members of AcMpscLinkList
  next, nodeMsg,  \* per node: the members of AcNextPtr
  nextPtr,        \* per message: AcMsg.next_ptr
  free,           \* the messages the users hold: not in a list, not being added
  pc,             \* per producer: where it is in AcMpscLinkList_add
  arg,            \* per producer: the <<list, message>> it adds
  prev,           \* per producer: the local prev
  cpc,            \* per list: where its consumer is in AcMpscLinkList_rmv
  cnext,          \* per list: the consumer's local next (a local that is not
                  \* in use is NULL)
  ret,            \* per list: what the last rmv returned
  chain           \* per list, history: its nodes from tail to head, in the
                  \* order the exchanges on head put them there

listVars == <<head, tail, next, nodeMsg, nextPtr, chain>>
prodVars == <<pc, arg, prev>>
consVars == <<cpc, cnext, ret>>
vars == <<listVars, free, prodVars, consVars>>

-----------------------------------------------------------------------------
(* AcMpscLinkList_init on every list; no message is anywhere yet.          *)

Init ==
  /\ head = [l \in Lists |-> l]
  /\ tail = [l \in Lists |-> l]
  /\ next = [n \in Nodes |-> NULL]
  /\ nodeMsg = [n \in Nodes |-> NULL]
  /\ nextPtr = [m \in Msgs |-> m]
  /\ free = Msgs
  /\ pc = [p \in Producers |-> "idle"]
  /\ arg = [p \in Producers |-> NULL]
  /\ prev = [p \in Producers |-> NULL]
  /\ cpc = [l \in Lists |-> "idle"]
  /\ cnext = [l \in Lists |-> NULL]
  /\ ret = [l \in Lists |-> NULL]
  /\ chain = [l \in Lists |-> <<l>>]

\* The list and the message producer p adds, and the node it adds it with.
List(p) == arg[p][1]
Msg(p) == arg[p][2]
Node(p) == nextPtr[Msg(p)]

\* l is initialised and not yet deinitialised.
Live(l) == head[l] # NULL

-----------------------------------------------------------------------------
(* AcMpscLinkList_add                                                      *)

\* The node of m is made the end of a chain that carries m.
PrepareNode(m) ==
  /\ next' = [next EXCEPT ![nextPtr[m]] = NULL]
  /\ nodeMsg' = [nodeMsg EXCEPT ![nextPtr[m]] = m]

\* A user that holds m adds it to l.
AddPrepare(p, l, m) ==
  /\ pc[p] = "idle"
  /\ Live(l)
  /\ m \in free
  /\ free' = free \ {m}
  /\ arg' = [arg EXCEPT ![p] = <<l, m>>]
  /\ PrepareNode(m)
  /\ pc' = [pc EXCEPT ![p] = "xchg"]
  /\ UNCHANGED <<head, tail, nextPtr, chain, prev, consVars>>

\* The atomic exchange of head.
AddXchg(p) ==
  /\ pc[p] = "xchg"
  /\ prev' = [prev EXCEPT ![p] = head[List(p)]]
  /\ head' = [head EXCEPT ![List(p)] = Node(p)]
  /\ chain' = [chain EXCEPT ![List(p)] = Append(@, Node(p))]
  /\ pc' = [pc EXCEPT ![p] = "link"]
  /\ UNCHANGED <<tail, next, nodeMsg, nextPtr, free, arg, consVars>>

\* The store that links the previous head to the new one.  A producer
\* preempted before it leaves the chain cut at prev.
AddLink(p) ==
  /\ pc[p] = "link"
  /\ next' = [next EXCEPT ![prev[p]] = Node(p)]
  /\ pc' = [pc EXCEPT ![p] = "idle"]
  /\ arg' = [arg EXCEPT ![p] = NULL]
  /\ prev' = [prev EXCEPT ![p] = NULL]
  /\ UNCHANGED <<head, tail, nodeMsg, nextPtr, chain, free, consVars>>

-----------------------------------------------------------------------------
(* AcMpscLinkList_rmv                                                      *)

\* The plain load of tail->next.
RmvLoad(l) ==
  /\ cpc[l] = "idle"
  /\ Live(l)
  /\ cnext' = [cnext EXCEPT ![l] = next[tail[l]]]
  /\ cpc' = [cpc EXCEPT ![l] = IF next[tail[l]] = NULL THEN "check" ELSE "take"]
  /\ UNCHANGED <<listVars, free, prodVars, ret>>

\* Mutant of IsEmpty: a cut chain is taken for an empty one.
IsEmptyWhenCut(l) == TRUE

\* Asked when tail has no successor.
IsEmpty(l) == tail[l] = head[l]

\* No successor was seen: the load of head tells an empty list, for which rmv
\* returns NULL, from a cut one.
RmvCheck(l) ==
  /\ cpc[l] = "check"
  /\ IF IsEmpty(l)
       THEN /\ ret' = [ret EXCEPT ![l] = NULL]
            /\ cpc' = [cpc EXCEPT ![l] = "idle"]
       ELSE /\ cpc' = [cpc EXCEPT ![l] = "spin"]
            /\ UNCHANGED ret
  /\ UNCHANGED <<listVars, free, prodVars, cnext>>

\* Mutant of RmvSpin: the loop tests the value it loaded before.
RmvSpinStale(l) ==
  /\ cpc[l] = "spin"
  /\ cnext[l] # NULL
  /\ cpc' = [cpc EXCEPT ![l] = "take"]
  /\ UNCHANGED <<listVars, free, prodVars, cnext, ret>>

\* One turn of the loop that waits, yielding, for the producer to link.
RmvSpin(l) ==
  /\ cpc[l] = "spin"
  /\ cnext' = [cnext EXCEPT ![l] = next[tail[l]]]
  /\ cpc' = [cpc EXCEPT ![l] = IF next[tail[l]] = NULL THEN "spin" ELSE "take"]
  /\ UNCHANGED <<listVars, free, prodVars, ret>>

\* Mutant of SwapNode: the message keeps the node that stays in the list.
SwapNodeNot(l, m) == UNCHANGED nextPtr

\* The removed message gets the old dummy for its own node, the new dummy.
SwapNode(l, m) == nextPtr' = [nextPtr EXCEPT ![m] = tail[l]]

\* The node is taken.  While it does, only the consumer reads tail, this node's
\* msg and the message.
RmvTake(l) ==
  /\ cpc[l] = "take"
  /\ LET m == nodeMsg[cnext[l]]
     IN /\ SwapNode(l, m)
        /\ free' = free \cup {m}
        /\ ret' = [ret EXCEPT ![l] = m]
  /\ tail' = [tail EXCEPT ![l] = cnext[l]]
  /\ chain' = [chain EXCEPT ![l] = Tail(@)]
  /\ cpc' = [cpc EXCEPT ![l] = "idle"]
  /\ cnext' = [cnext EXCEPT ![l] = NULL]
  /\ UNCHANGED <<head, next, nodeMsg, prodVars>>

-----------------------------------------------------------------------------
(* AcMpscLinkList_deinit, which its users call on a list they emptied and  *)
(* no thread is using any more ("Don't forget to empty the fifo").         *)

Deinit(l) ==
  /\ Live(l)
  /\ Len(chain[l]) = 1
  /\ cpc[l] = "idle"
  /\ \A p \in Producers : pc[p] # "idle" => List(p) # l
  /\ next' = [next EXCEPT ![head[l]] = NULL]
  /\ head' = [head EXCEPT ![l] = NULL]
  /\ tail' = [tail EXCEPT ![l] = NULL]
  /\ chain' = [chain EXCEPT ![l] = <<>>]
  /\ UNCHANGED <<nodeMsg, nextPtr, free, prodVars, consVars>>

-----------------------------------------------------------------------------

Producer(p) ==
  \/ \E l \in Lists, m \in Msgs : AddPrepare(p, l, m)
  \/ AddXchg(p)
  \/ AddLink(p)

Consumer(l) == RmvLoad(l) \/ RmvCheck(l) \/ RmvSpin(l) \/ RmvTake(l)

Next ==
  \/ \E p \in Producers : Producer(p)
  \/ \E l \in Lists : Consumer(l) \/ Deinit(l)

Spec == Init /\ [][Next]_vars

(* The schedulers are round robin and preemptive: a producer that started  *)
(* an add is given the processor again, and so is the consumer.  That the  *)
(* consumer calls rmv again and again is what AcDispatcher_dispatch does.  *)
Fairness ==
  /\ \A p \in Producers : WF_vars(AddXchg(p) \/ AddLink(p))
  /\ \A l \in Lists : WF_vars(Consumer(l))

FairSpec == Spec /\ Fairness

-----------------------------------------------------------------------------
(* Properties                                                              *)

TypeOK ==
  /\ head \in [Lists -> Nodes \cup {NULL}]
  /\ tail \in [Lists -> Nodes \cup {NULL}]
  /\ next \in [Nodes -> Nodes \cup {NULL}]
  /\ nodeMsg \in [Nodes -> Msgs \cup {NULL}]
  /\ nextPtr \in [Msgs -> Nodes]
  /\ free \in SUBSET Msgs
  /\ pc \in [Producers -> {"idle", "xchg", "link"}]
  /\ arg \in [Producers -> (Lists \X Msgs) \cup {NULL}]
  /\ prev \in [Producers -> Nodes \cup {NULL}]
  /\ cpc \in [Lists -> {"idle", "check", "spin", "take"}]
  /\ cnext \in [Lists -> Nodes \cup {NULL}]
  /\ ret \in [Lists -> Msgs \cup {NULL}]
  /\ chain \in [Lists -> Seq(Nodes)]

(* The five invariants below are inductive together.                       *)

\* The nodes of the lists: a live list has at least its dummy, tail and head
\* are the ends of its chain, and no node is in two chains or twice in one.
ChainsApart ==
  /\ \A l \in Lists :
       IF Live(l)
         THEN /\ chain[l] # <<>>
              /\ tail[l] = chain[l][1]
              /\ head[l] = chain[l][Len(chain[l])]
         ELSE /\ chain[l] = <<>>
              /\ tail[l] = NULL
              /\ cpc[l] = "idle"
  /\ \A l1, l2 \in Lists :
       \A i \in 1 .. Len(chain[l1]), j \in 1 .. Len(chain[l2]) :
         chain[l1][i] = chain[l2][j] => l1 = l2 /\ i = j

\* However nodes wander, no two messages ever have the same node and no
\* message has the dummy of a list, so the exchange of nodes in rmv never lets
\* two adds, or an add and a consumer, write the same AcNextPtr.  A message in
\* a list has the node that carries it, and nobody else holds it.
NodesNotShared ==
  /\ \A m1, m2 \in Msgs : nextPtr[m1] = nextPtr[m2] => m1 = m2
  /\ \A m \in Msgs, l \in Lists : nextPtr[m] # tail[l]
  /\ \A l \in Lists : \A i \in 2 .. Len(chain[l]) :
       /\ nodeMsg[chain[l][i]] \in Msgs \ free
       /\ nextPtr[nodeMsg[chain[l][i]]] = chain[l][i]
       /\ \A p \in Producers : pc[p] = "xchg" => Msg(p) # nodeMsg[chain[l][i]]

\* Until the exchange a producer has its message, and its node, to itself.
HasMsg(p) ==
  /\ Msg(p) \notin free
  /\ next[Node(p)] = NULL
  /\ nodeMsg[Node(p)] = Msg(p)
  /\ \A q \in Producers \ {p} : pc[q] = "xchg" => Msg(q) # Msg(p)

\* After the exchange it has the link, to a node that was not consumed and is
\* just before its own in the list it adds to, and that nobody else will link.
HasLink(p) ==
  /\ \E i \in 1 .. Len(chain[List(p)]) - 1 :
       /\ chain[List(p)][i] = prev[p]
       /\ chain[List(p)][i + 1] = Node(p)
  /\ next[prev[p]] = NULL
  /\ \A q \in Producers \ {p} : pc[q] = "link" => prev[q] # prev[p]

\* A producer preempted anywhere in add finds, when it resumes, what it needs
\* to finish as it left it.
LinkPending ==
  \A p \in Producers :
    /\ pc[p] = "idle" <=> arg[p] = NULL
    /\ pc[p] # "idle" => Live(List(p))
    /\ pc[p] = "xchg" => HasMsg(p)
    /\ pc[p] = "link" => HasLink(p)

\* A chain is linked in the order of its nodes, ends at head, and where it is
\* cut a producer is about to link it: no message can become unreachable.
CutHasProducer ==
  \A l \in Lists :
    /\ Live(l) => next[head[l]] = NULL
    /\ \A i \in 1 .. Len(chain[l]) - 1 :
         \/ next[chain[l][i]] = chain[l][i + 1]
         \/ /\ next[chain[l][i]] = NULL
            /\ \E p \in Producers : pc[p] = "link" /\ prev[p] = chain[l][i]

\* A consumer that decided to take a node takes the oldest one added, and one
\* that waits for a link has a message to wait for.
TakesOldest ==
  \A l \in Lists :
    /\ cpc[l] = "take" =>
         /\ Len(chain[l]) >= 2
         /\ cnext[l] = chain[l][2]
         /\ next[tail[l]] = cnext[l]
    /\ cpc[l] = "spin" => Len(chain[l]) >= 2

\* The inductive invariant: add and rmv find the chains and the nodes as they left
\* them, whatever other producers and lists did in between.
IInv ==
  TypeOK /\ ChainsApart /\ NodesNotShared /\ LinkPending /\ CutHasProducer
         /\ TakesOldest

\* The messages added to l and not removed yet, oldest first.
Queue(l) == [i \in 1 .. Len(chain[l]) - 1 |-> nodeMsg[chain[l][i + 1]]]

\* The list implements the queue its header promises: messages leave once and
\* in the order of the exchanges, and NULL is returned only when empty.
Abstract == INSTANCE MsgQueue WITH
  queue <- [l \in Lists |-> Queue(l)],
  open  <- {l \in Lists : Live(l)}

ImplementsMsgQueue == Abstract!Spec

\* No message is stranded behind a producer that was preempted inside add:
\* one that reached a list is handed to a user again.
MsgIsRemoved ==
  \A l \in Lists, m \in Msgs :
    m \in ToSet(Queue(l)) ~> m \in free
=============================================================================
