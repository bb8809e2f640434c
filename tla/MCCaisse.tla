------------------------------- MODULE MCCaisse -------------------------------
(* Caisse on a small instance: two parcels whose cash two livreurs may hold.  *)
EXTENDS Caisse, TLC

Symmetry == Permutations(Parcels) \cup Permutations(Livreurs)
=============================================================================
