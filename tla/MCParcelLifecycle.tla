-------------------------- MODULE MCParcelLifecycle --------------------------
(* ParcelLifecycle on a small instance.  Livreurs and charge ids are          *)
(* interchangeable and no liveness property is checked: symmetry is sound.    *)
EXTENDS ParcelLifecycle, TLC

Symmetry == Permutations(Livreurs) \cup Permutations(Charges)
=============================================================================
