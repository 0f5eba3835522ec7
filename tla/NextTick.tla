------------------------------ MODULE NextTick ------------------------------
(* AE.next_tick (ext/asyncengine/ae_next_tick.c): procs pushed by the        *)
(* AsyncEngine thread, run in the next turn of the loop by a libuv idle      *)
(* handle that exists only while the engine runs.                            *)
EXTENDS Sequences

VARIABLES tickProcs,          \* AsyncEngine.@_next_tick_procs
          idle                \* ae_next_tick_uv_idle: NULL, inactive or active

tickVars == <<tickProcs, idle>>

TickTypeOK(Proc) ==
  /\ tickProcs \in Seq(Proc)
  /\ idle \in {"null", "stopped", "started"}

TickInit == tickProcs = <<>> /\ idle = "null"

(* Push the proc and make sure the idle handle is active.  The caller has    *)
(* checked the status, so the handle exists (AE.run loads it just before its *)
(* own first call, whose effect on the fresh handle is the same).            *)
AsyncEngine_next_tick(p) ==
    /\ tickProcs' = Append(tickProcs, p)
    /\ idle' = "started"

(* The idle callback stops its handle first and only then waits for the GVL. *)
uv_idle_callback ==
    /\ idle = "started"
    /\ idle' = "stopped"
    /\ UNCHANGED tickProcs

(* With the GVL, the array is swapped for an empty one; the procs taken are  *)
(* the value of tickProcs before the step.                                   *)
ae_idle_callback_NoSwap == UNCHANGED tickVars           \* mutant
ae_idle_callback ==
    /\ tickProcs' = <<>>
    /\ UNCHANGED idle

(* A release drops whatever has not been taken yet ...                       *)
ClearNextTick ==
    /\ tickProcs' = <<>>
    /\ UNCHANGED idle

(* ... and, once every user handle is destroyed, closes the idle handle.     *)
UnloadNextTick ==
    /\ idle' = "null"
    /\ UNCHANGED tickProcs
=============================================================================
