---------------------------- MODULE WaitingTcbs -----------------------------
(***************************************************************************)
(* waiting_tcbs (arch/x86/libs/thread_x86): the tcbs that wait for a point *)
(* in time, as a binary heap in an array.  Its functions run with the      *)
(* interrupts disabled, so each is one step.                               *)
(*                                                                         *)
(* The heap is in slots 1 .. Len(heap) of the array; slot 0 is unused.     *)
(* A slot at or past the end of the array is memory of somebody else; the  *)
(* model keeps what is written there, and InBounds says it never happens.  *)
(***************************************************************************)
EXTENDS Integers, Sequences

CONSTANTS
  Tcbs,         \* the tcbs that may wait
  MaxTime,      \* bound: deadlines are 0 .. MaxTime
  InitMax,      \* what waiting_tcbs_init is called with
  UpdateMaxes   \* what waiting_tcbs_update_max is called with

Times == 0 .. MaxTime

WaitingTcbsAssumption ==
  MaxTime \in Nat /\ InitMax \in Nat \ {0} /\ UpdateMaxes \subseteq Nat

VARIABLES
  heap,      \* waiting_tcbs[1 ..], num_waiting_tcbs of them
  deadline,  \* per tcb: waiting_deadline
  max,       \* max_waiting_tcbs
  size       \* how many slots the array that waiting_tcbs points to has

vars == <<heap, deadline, max, size>>

ArraySize(n) == n + 1

\* waiting_tcbs_init
Init ==
  /\ heap = <<>>
  /\ deadline = [t \in Tcbs |-> 0]
  /\ max = ArraySize(InitMax)
  /\ size = ArraySize(InitMax)

-----------------------------------------------------------------------------
(* The order of the heap; due is the deadline per tcb                      *)

Parent(i) == i \div 2

\* The slots 1 .. n that a loop comes to from slot i, each one's next being to[i], or
\* 0 where the loop ends: those in every set that has i and, with a slot, its next.
Reached(n, i, to) ==
  {k \in 1 .. n : \A S \in SUBSET (1 .. n) :
     i \in S /\ (\A j \in S : to[j] # 0 => to[j] \in S) => k \in S}

\* The loop swaps the tcb t from slot i on with that in the next slot: the tcbs in
\* the slots it comes to move by one, and t ends in the last.
Sift(h, n, i, t, to) ==
  LET way == Reached(n, i, to)
  IN [k \in 1 .. n |-> IF k \notin way THEN h[k] ELSE IF to[k] = 0 THEN t ELSE h[to[k]]]

\* The tcb t goes up past its parent u.
Passes(due, t, u) == due[t] < due[u]

\* Tcb t is stored in the last slot and goes up as long as it is due before
\* its parent.
Up(h, n, t, due) ==
  [k \in 1 .. n |-> IF k > 1 /\ Passes(due, t, h[Parent(k)]) THEN Parent(k) ELSE 0]

SiftUp(h, t, due) ==
  LET n == Len(h) + 1
  IN Sift(h, n, n, t, Up(h, n, t, due))

\* Mutant of SmallerChild: the right child is not looked at.
SmallerChildLeft(h, n, i, due) == 2 * i
\* The child of slot i that is due first, the left one if both are.
SmallerChild(h, n, i, due) ==
  IF 2 * i + 1 <= n /\ due[h[2 * i]] > due[h[2 * i + 1]] THEN 2 * i + 1 ELSE 2 * i

\* The root is taken away, the last tcb put in its place, from where it goes down
\* as long as it is due after a child.
Down(h, n, t, due) ==
  [k \in 1 .. n |-> IF 2 * k <= n /\ due[t] > due[h[SmallerChild(h, n, k, due)]]
                    THEN SmallerChild(h, n, k, due) ELSE 0]

SiftDown(h, due) ==
  LET n == Len(h) - 1
      t == h[Len(h)]
  IN Sift(h, n, 1, t, Down(h, n, t, due))

-----------------------------------------------------------------------------
\* waiting_tcb_add_intr_disabled: a failed assertion stops the system.
Add(t, d) ==
  /\ \A i \in 1 .. Len(heap) : heap[i] # t
  /\ Len(heap) + 1 <= max
  /\ deadline' = [deadline EXCEPT ![t] = d]
  /\ heap' = SiftUp(heap, t, deadline')
  /\ UNCHANGED <<max, size>>

\* waiting_tcb_peek_intr_disabled and waiting_tcb_remove_intr_disabled: the
\* scheduler removes the tcb it was shown.
Remove ==
  /\ heap # <<>>
  /\ heap' = SiftDown(heap, deadline)
  /\ UNCHANGED <<deadline, max, size>>

\* waiting_tcbs_update_max: the new array is stored in slot 0 of the old one,
\* which stays the array that is used.
UpdateMax(n) ==
  /\ n > max
  /\ max' = n
  /\ UNCHANGED <<heap, deadline, size>>

Next == \/ \E t \in Tcbs, d \in Times : Add(t, d)
        \/ Remove
        \/ \E n \in UpdateMaxes : UpdateMax(n)

Spec == Init /\ [][Next]_vars

-----------------------------------------------------------------------------
\* The types of the variables; no tcb waits twice.
TypeOK ==
  /\ heap \in Seq(Tcbs)
  /\ \A i, j \in 1 .. Len(heap) : heap[i] = heap[j] => i = j
  /\ deadline \in [Tcbs -> Times]
  /\ max \in Nat /\ size \in Nat

\* The array must be able to hold every tcb in the system + 1 (the comment at
\* line 30): what the assertion of add lets pass is in the array.
InBounds == Len(heap) < size

\* Calls keep every tcb that waits, and the one that peek shows and remove
\* removes is due first; and the array is not left.
Abstract == INSTANCE TimerQueue WITH waiting <- {heap[i] : i \in 1 .. Len(heap)}
ImplementsTimerQueue == Abstract!Spec /\ [](TypeOK /\ InBounds)
=============================================================================
