------------------------------ MODULE MsgQueue ------------------------------
(***************************************************************************)
(* What an AcMpscLinkList promises its users (ac_mpsc_link_list.h): a      *)
(* first in first out queue of messages.  Adding never waits; removing     *)
(* returns the oldest message, or NULL and then the queue really is empty. *)
(* Every operation takes effect in one step.                               *)
(***************************************************************************)
EXTENDS Naturals, Sequences

CONSTANTS
  Msgs,   \* the messages
  Lists,  \* the queues
  NULL    \* what a remove returns when there is nothing to remove

VARIABLES
  queue,  \* queue[l]: the messages of queue l, oldest first
  ret,    \* ret[l]: what the last remove on l returned
  open    \* the queues that are not deinitialised

vars == <<queue, ret, open>>

Init ==
  /\ queue = [l \in Lists |-> <<>>]
  /\ ret = [l \in Lists |-> NULL]
  /\ open = Lists

IsQueued(m) == \E l \in Lists : \E i \in 1 .. Len(queue[l]) : queue[l][i] = m

\* A message is in one queue at most, and there once.
Add(l, m) ==
  /\ l \in open
  /\ ~IsQueued(m)
  /\ queue' = [queue EXCEPT ![l] = Append(@, m)]
  /\ UNCHANGED <<ret, open>>

Rmv(l) ==
  /\ l \in open
  /\ queue[l] # <<>>
  /\ ret' = [ret EXCEPT ![l] = Head(queue[l])]
  /\ queue' = [queue EXCEPT ![l] = Tail(@)]
  /\ UNCHANGED open

RmvEmpty(l) ==
  /\ l \in open
  /\ queue[l] = <<>>
  /\ ret' = [ret EXCEPT ![l] = NULL]
  /\ UNCHANGED <<queue, open>>

Deinit(l) ==
  /\ l \in open
  /\ queue[l] = <<>>
  /\ open' = open \ {l}
  /\ UNCHANGED <<queue, ret>>

Next ==
  \E l \in Lists :
    \/ \E m \in Msgs : Add(l, m)
    \/ Rmv(l)
    \/ RmvEmpty(l)
    \/ Deinit(l)

Spec == Init /\ [][Next]_vars
=============================================================================
