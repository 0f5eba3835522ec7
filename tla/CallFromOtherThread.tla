------------------------ MODULE CallFromOtherThread -------------------------
(* AE.call_from_other_thread (ext/asyncengine/ae_call_from_other_thread.c):  *)
(* procs pushed by any Ruby thread, run by the AsyncEngine thread when a     *)
(* libuv async handle wakes its loop up.                                     *)
EXTENDS Sequences

VARIABLES cfotProcs,          \* AsyncEngine.@_call_from_other_thread_procs
          cfotAsync           \* the uv_async_t: NULL, not signalled or signalled

cfotVars == <<cfotProcs, cfotAsync>>

CfotTypeOK(Proc) ==
  /\ cfotProcs \in Seq(Proc)
  /\ cfotAsync \in {"null", "clear", "pending"}

CfotInit == cfotProcs = <<>> /\ cfotAsync = "null"

LoadCallFromOtherThread ==
    /\ cfotAsync' = "clear"
    /\ UNCHANGED cfotProcs

(* Push and signal under the GVL, in one step for every other Ruby thread.   *)
(* Signals sent before the loop reacts are merged into one.                  *)
call_from_other_thread_NoSend(p) ==                     \* mutant
    /\ cfotProcs' = Append(cfotProcs, p)
    /\ UNCHANGED cfotAsync
call_from_other_thread_Unshift(p) ==                    \* mutant
    /\ cfotProcs' = <<p>> \o cfotProcs
    /\ cfotAsync' = "pending"
AsyncEngine_call_from_other_thread(p) ==
    /\ cfotProcs' = Append(cfotProcs, p)
    /\ cfotAsync' = "pending"

(* libuv resets the signal before it calls back; the callback then waits for *)
(* the GVL while other threads may push and signal again.                    *)
uv_async_callback ==
    /\ cfotAsync = "pending"
    /\ cfotAsync' = "clear"
    /\ UNCHANGED cfotProcs

ae_async_callback ==
    /\ cfotProcs' = <<>>
    /\ UNCHANGED cfotAsync

ClearNothing == UNCHANGED cfotVars                      \* mutant
ClearCallFromOtherThread ==
    /\ cfotProcs' = <<>>
    /\ UNCHANGED cfotAsync

UnloadNothing == UNCHANGED cfotVars                     \* mutant
UnloadCallFromOtherThread ==
    /\ cfotAsync' = "null"
    /\ UNCHANGED cfotProcs
=============================================================================
