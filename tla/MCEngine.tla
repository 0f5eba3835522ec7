------------------------------ MODULE MCEngine ------------------------------
(* Instances of Engine for TLC.                                              *)
EXTENDS EngineInvariant, TLC

(* Ruby threads, handles and requests are interchangeable.                   *)
Symmetry == Permutations(Threads) \cup Permutations(Handles)
              \cup Permutations(Reqs)
=============================================================================
