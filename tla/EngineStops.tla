----------------------------- MODULE EngineStops -----------------------------
(* Which run a stop ends.  AE.stop called by another thread is Ruby code     *)
(* (lib/asyncengine.rb): between its check of the status and the call that   *)
(* hands release_loop over, other threads run.  A history variable follows   *)
(* the threads in between.                                                   *)
EXTENDS Engine

VARIABLE stale    \* threads in AE.stop whose run has ended since their check

StopsInit == Init /\ stale = {}

StopsNext ==
  /\ Next
  /\ stale' = {t \in Threads : /\ pc'[t] = "stopping"
                               /\ t \in stale \/ status' = "STOPPED"}

StopsSpec == StopsInit /\ [][StopsNext]_<<vars, stale>> /\ LoopFairness

=============================================================================
