--------------------------- MODULE MCWaitingTcbs ----------------------------
(* The instances of WaitingTcbs that TLC checks.                           *)
EXTENDS WaitingTcbs, TLC

Symmetry == Permutations(Tcbs)
=============================================================================
