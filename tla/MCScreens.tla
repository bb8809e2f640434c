------------------------------ MODULE MCScreens ------------------------------
(* Screens, and ParcelLifecycle under it, on a small instance.  Livreurs and  *)
(* charge ids are interchangeable and no liveness property is checked:        *)
(* symmetry is sound.                                                         *)
EXTENDS Screens, TLC

Symmetry == Permutations(Livreurs) \cup Permutations(Charges)
=============================================================================
