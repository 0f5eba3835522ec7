--------------------------- MODULE MCTimer ---------------------------
(* Instances of Timer for TLC.  Liveness is checked on each of them, so      *)
(* there is no symmetry.                                                     *)
EXTENDS Timer, TLC
=============================================================================
