---------------------------- MODULE BoundedQueue ----------------------------
(***************************************************************************)
(* What an AcMpscRingBuff promises (ac_mpsc_ring_buff.h): a first in first *)
(* out queue of at most Size items.  An add takes two steps, a reservation *)
(* that fixes its place in the order and a publication that lets the item  *)
(* be removed: an item reserved and not yet published hides the items      *)
(* behind it.  An add fails only when Size items are reserved; a remove    *)
(* returns NULL only when the oldest item is missing or not published.     *)
(***************************************************************************)
EXTENDS Naturals, Sequences

CONSTANTS Mems, Producers, Size, NULL

VARIABLES
  entries,  \* the items reserved and not removed, oldest first
  res,      \* per producer: what its last add returned
  ret,      \* what the last remove returned
  live      \* not deinitialised

vars == <<entries, res, ret, live>>

Init ==
  /\ entries = <<>>
  /\ res = [p \in Producers |-> NULL]
  /\ ret = NULL
  /\ live = TRUE

Reserve(p, m) ==
  /\ live
  /\ Len(entries) < Size
  /\ \A i \in 1 .. Len(entries) : entries[i].by = p => entries[i].ready
  /\ entries' = Append(entries, [mem |-> m, by |-> p, ready |-> FALSE])
  /\ UNCHANGED <<res, ret, live>>

\* Adding NULL does nothing and succeeds.
AddNull(p) ==
  /\ live
  /\ res' = [res EXCEPT ![p] = TRUE]
  /\ UNCHANGED <<entries, ret, live>>

Publish(p) ==
  /\ \E i \in 1 .. Len(entries) :
       /\ entries[i].by = p
       /\ ~entries[i].ready
       /\ entries' = [entries EXCEPT ![i].ready = TRUE]
  /\ res' = [res EXCEPT ![p] = TRUE]
  /\ UNCHANGED <<ret, live>>

AddFull(p) ==
  /\ live
  /\ Len(entries) = Size
  /\ res' = [res EXCEPT ![p] = FALSE]
  /\ UNCHANGED <<entries, ret, live>>

\* The oldest item can be removed.
Removable == entries # <<>> /\ entries[1].ready

Rmv ==
  /\ live
  /\ Removable
  /\ ret' = entries[1].mem
  /\ entries' = Tail(entries)
  /\ UNCHANGED <<res, live>>

RmvNone ==
  /\ live
  /\ ~Removable
  /\ ret' = NULL
  /\ UNCHANGED <<entries, res, live>>

Deinit ==
  /\ live
  /\ entries = <<>>
  /\ live' = FALSE
  /\ UNCHANGED <<entries, res, ret>>

Next ==
  \/ \E p \in Producers :
       \/ \E m \in Mems : Reserve(p, m)
       \/ AddNull(p)
       \/ Publish(p)
       \/ AddFull(p)
  \/ Rmv
  \/ RmvNone
  \/ Deinit

Spec == Init /\ [][Next]_vars
=============================================================================
