----------------------------- MODULE ThreadInit -----------------------------
(***************************************************************************)
(* ac_thread_init of thread_x86: the arrays of tcbs that its calls make, a *)
(* ring that pthreads points into, and get_tcb's search of them.           *)
(*                                                                         *)
(* The ring is a sequence that starts at pthreads.  Of an array's tcbs only*)
(* the number that is in use is kept.  What waiting_tcbs_update_max does   *)
(* with the number it gets is in WaitingTcbs.tla.                          *)
(***************************************************************************)
EXTENDS Integers, Sequences, FiniteSets, SequencesExt

CONSTANTS
  Asks,     \* what the program calls ac_thread_init with
  MaxCalls  \* bound: its calls

SystemThreads == 2

ThreadInitAssumption == Asks \subseteq Nat \ {0} /\ MaxCalls \in Nat

VARIABLES
  arrays,  \* the arrays from pthreads on: how many tcbs, not empty ones and kept ones
  total,   \* total_threads
  most,    \* what waiting_tcbs_update_max was called with last
  inits,   \* history: the program's calls of ac_thread_init
  failed   \* history: the last thread_create got no tcb

tivars == <<arrays, total, most, inits, failed>>

\* kept: the tcbs that are never freed
Array(n, kept) == [max_count |-> n, used |-> kept, kept |-> kept]
IsFull(a) == a.used = a.max_count

\* Mutant of Missing: the system's threads are taken off again.
MissingLess(max) == max - total - SystemThreads
\* How many tcbs a call with max (the system's included) adds.
Missing(max) == max - total

\* The new array comes first, the one that was first comes last.
Linked(ring, new) == <<new>> \o Tail(ring) \o <<Head(ring)>>

\* ac_thread_early_init calls it for the system's threads, which it initializes
\* then: idle is tcbs[0] and main is tcbs[1].
Init ==
  /\ arrays = <<Array(2 * SystemThreads, SystemThreads)>>
  /\ total = 2 * SystemThreads
  /\ most = total
  /\ inits = <<>>
  /\ failed = FALSE

\* total_threads grows by max_threads, of which those that were there are a part.
AcThreadInit(n) ==
  /\ Len(inits) < MaxCalls
  /\ inits' = Append(inits, n)
  /\ LET max == n + SystemThreads
     IN IF max > total
        THEN /\ arrays' = Linked(arrays, Array(Missing(max), 0))
             /\ total' = total + max
             /\ most' = total'
        ELSE UNCHANGED <<arrays, total, most>>
  /\ failed' = FALSE

\* get_tcb takes the first tcb that is empty, array by array.
GetTcb ==
  LET a == SelectInSeq(arrays, LAMBDA x : ~IsFull(x))
  IN /\ arrays' = IF a = 0 THEN arrays ELSE [arrays EXCEPT ![a].used = @ + 1]
     /\ failed' = (a = 0)
     /\ UNCHANGED <<total, most, inits>>

\* remove_zombies: a tcb is empty again; the system's never are.
Free(a) ==
  /\ arrays[a].used > arrays[a].kept
  /\ arrays' = [arrays EXCEPT ![a].used = @ - 1]
  /\ failed' = FALSE
  /\ UNCHANGED <<total, most, inits>>

Next ==
  \/ \E n \in Asks : AcThreadInit(n)
  \/ GetTcb
  \/ \E a \in DOMAIN arrays : Free(a)

Spec == Init /\ [][Next]_tivars

-----------------------------------------------------------------------------
(* Properties                                                              *)

\* The tcbs there are and those that are in use, by array and index.
AllTcbs == UNION {{a} \X (1 .. arrays[a].max_count) : a \in DOMAIN arrays}
UsedTcbs == UNION {{a} \X (1 .. arrays[a].used) : a \in DOMAIN arrays}

\* The first call gives the program as many threads as it asks for, and the later
\* calls take none away: a create fails only while so many exist.  (That a later
\* call with more adds them all is not so: total_threads has grown by too much.)
\* And every thread there is a tcb for can wait: waiting_tcbs_update_max is told of
\* at least as many.
TcbsSuffice ==
  /\ failed /\ inits # <<>> => Cardinality(UsedTcbs) - SystemThreads >= inits[1]
  /\ Cardinality(AllTcbs) <= most
=============================================================================
