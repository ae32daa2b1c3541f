---------------------------- MODULE MCDispatcher ----------------------------
(* The instances of Dispatcher that TLC checks.                            *)
EXTENDS Dispatcher, TLC

Symmetry ==
  Permutations(Comps) \cup Permutations(Dcs)
    \cup Permutations(Clients) \cup Permutations(Dispatchers)
=============================================================================
