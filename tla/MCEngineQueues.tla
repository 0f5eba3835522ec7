--------------------------- MODULE MCEngineQueues ---------------------------
(* Instance of EngineQueues for TLC.                                         *)
EXTENDS EngineQueues, TLC
=============================================================================
