--------------------------- MODULE MCRequests ---------------------------
(* Instances of Requests for TLC.  Liveness is checked on each of them, so      *)
(* there is no symmetry.                                                     *)
EXTENDS Requests, TLC
=============================================================================
