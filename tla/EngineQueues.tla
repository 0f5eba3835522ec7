---------------------------- MODULE EngineQueues ----------------------------
(* The engine keeps the promise of ProcQueue for each of its two queues: the *)
(* array that is being filled, behind what a callback has taken of it.       *)
EXTENDS Engine

Waiting(name, array) ==
  IF status = "RUNNING" THEN (IF from = name THEN batch ELSE <<>>) \o array
                        ELSE <<>>

Accepting == status = "RUNNING"

Tick == INSTANCE ProcQueue WITH queue <- Waiting("tick", tickProcs),
                                open <- Accepting
Cfot == INSTANCE ProcQueue WITH queue <- Waiting("cfot", cfotProcs),
                                open <- Accepting

(* Neither queue loses, repeats or reorders a proc, and a stop drops what is *)
(* still waiting: the promise without its fairness.                          *)
NextTickInOrder == Tick!Spec
CallFromOtherThreadInOrder == Cfot!Spec

(* AE.next_tick runs its procs in order, all of them, until a stop.          *)
NextTickKeepsPromise == Tick!FairSpec

(* AE.call_from_other_thread does, for the calls of all threads together.    *)
CallFromOtherThreadKeepsPromise == Cfot!FairSpec
=============================================================================
