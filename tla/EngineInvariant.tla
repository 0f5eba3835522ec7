-------------------------- MODULE EngineInvariant ---------------------------
(* The inductive invariant of Engine: the safety properties it states, with  *)
(* what they need of the states in between.                                  *)
EXTENDS Engine

(* A running engine has its internal handles, so uv_run() cannot return.     *)
LoadedInv ==
  status = "RUNNING" => idle # "null" /\ cfotAsync # "null" /\ ubfAsync # "null"

(* release_loop runs while RELEASING and has still to visit what is open;    *)
(* the user's error handler only runs while RUNNING.                         *)
ReleaseInv ==
  /\ at \in {"release", "hook"} => status = "RELEASING" /\ opened \subseteq toDestroy
  /\ at = "handler" => status = "RUNNING"

(* An error is kept only by a run that is being released.                    *)
ErrorInv == exitError # "none" => status # "RUNNING"

(* Only a callback that has the GVL holds part of an array.                  *)
BatchInv == at \in {"none"} \cup NoGVL => batch = <<>>

(* A connection is cancelled by the close of its handle, and libuv reports   *)
(* the close after it.                                                       *)
CancelInv == connecting \subseteq opened \cup closing

IInv ==
  /\ TypeOK
  /\ LoopHoldsMutex /\ LoadedInv /\ ReleaseInv /\ ErrorInv /\ BatchInv
  /\ Released /\ ReleaseIsFinal /\ CallbacksOnlyRunning
  /\ HandlesProtected /\ ReqHasProc /\ NoLostWakeup /\ CancelInv
=============================================================================
