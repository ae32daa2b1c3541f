----------------------------- MODULE MCLinkList -----------------------------
(* The instances of LinkList that TLC checks.                              *)
EXTENDS LinkList, TLC

\* Producers and messages are interchangeable.
Symmetry == Permutations(Producers) \cup Permutations(Msgs)
=============================================================================
