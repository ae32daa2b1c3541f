----------------------------- MODULE MCReceptor -----------------------------
(* Small instances of Receptor for TLC.                                    *)
EXTENDS Receptor, TLC

Symmetry == Permutations(Waiters) \cup Permutations(Signalers)
=============================================================================
