---------------------------- MODULE MCEngineStops ----------------------------
(* Instance of EngineStops for TLC.                                          *)
EXTENDS EngineStops, TLC
=============================================================================
