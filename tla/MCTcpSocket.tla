--------------------------- MODULE MCTcpSocket ---------------------------
(* Instances of TcpSocket for TLC.  Liveness is checked on each of them, so      *)
(* there is no symmetry.                                                     *)
EXTENDS TcpSocket, TLC
=============================================================================
