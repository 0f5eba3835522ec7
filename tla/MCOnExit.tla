------------------------------ MODULE MCOnExit ------------------------------
(* OnExit on small sets.                                                     *)
EXTENDS OnExit, TLC

Symmetry == Permutations(Threads) \cup Permutations(Errors)
=============================================================================
