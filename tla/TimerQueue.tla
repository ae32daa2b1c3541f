----------------------------- MODULE TimerQueue -----------------------------
(***************************************************************************)
(* What the scheduler needs of the tcbs that wait for a point in time: the *)
(* one it is shown, and may then remove, is one of those that are due      *)
(* first.                                                                  *)
(***************************************************************************)
EXTENDS Naturals

CONSTANTS Tcbs, Times

VARIABLES
  waiting,   \* the tcbs that wait
  deadline   \* per tcb: until when it waits, or waited last

TypeOK == waiting \subseteq Tcbs /\ deadline \in [Tcbs -> Times]

Init == waiting = {} /\ deadline \in [Tcbs -> Times]

\* Tcb t may be the next one.
IsDueFirst(t) == t \in waiting /\ \A u \in waiting : deadline[t] <= deadline[u]

Add(t, d) ==
  /\ t \notin waiting
  /\ waiting' = waiting \cup {t}
  /\ deadline' = [deadline EXCEPT ![t] = d]

Remove(t) ==
  /\ IsDueFirst(t)
  /\ waiting' = waiting \ {t}
  /\ UNCHANGED deadline

Next == \E t \in Tcbs : Remove(t) \/ \E d \in Times : Add(t, d)

Spec == Init /\ [][Next]_<<waiting, deadline>>
=============================================================================
