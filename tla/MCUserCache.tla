----------------------------- MODULE MCUserCache -----------------------------
(* Symmetry for checking UserCache: one user more than there is room for,  *)
(* and two goroutines.                                                     *)
EXTENDS UserCache, TLC

Symmetry == Permutations(Jobs)
=============================================================================
