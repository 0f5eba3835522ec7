-------------------------- MODULE EngineTypeProofs --------------------------
(* Type correctness of Engine, for any number of threads, handles, requests  *)
(* and queued procs.                                                         *)
EXTENDS EngineInvariant, TLAPS

(* What an error or a release may change keeps its type.                     *)
LEMMA ReleaseType ==
  ASSUME TypeOK, ae_release_loop
  PROVE  /\ status' \in {"STOPPED", "RUNNING", "RELEASING"}
         /\ TickTypeOK(Proc)' /\ CfotTypeOK(Proc)'
         /\ toDestroy' \subseteq Handles
         /\ at' \in {"batch", "release"}
<1> USE DEF TypeOK, TickTypeOK, CfotTypeOK, ae_release_loop, queues, tickVars,
            cfotVars, ClearNextTick, ClearCallFromOtherThread
<1>1. CASE status = "RUNNING"
  BY <1>1
<1>2. CASE status # "RUNNING"
  BY <1>2
<1> QED BY <1>1, <1>2

LEMMA RaiseType ==
  ASSUME TypeOK, NEW e \in Errors, Raise(e), intr' \in Interrupts \cup {"none"}
  PROVE  TypeOK'
<1> DEFINE Fits == /\ status' \in {"STOPPED", "RUNNING", "RELEASING"}
                   /\ TickTypeOK(Proc)' /\ CfotTypeOK(Proc)'
                   /\ toDestroy' \subseteq Handles
                   /\ at' \in {"batch", "release", "handler"}
                   /\ exitError' \in Errors \cup {"none", "Interrupt"}
<1>1. ASSUME UNCHANGED <<status, queues, toDestroy, exitError>>,
             at' \in {"batch", "release", "handler"}
      PROVE  Fits
  BY <1>1 DEF TypeOK, TickTypeOK, CfotTypeOK, queues, tickVars, cfotVars
<1>2. ASSUME ae_release_loop, exitError' \in Errors \cup {"Interrupt"}
      PROVE  Fits
  BY <1>2, ReleaseType
<1>3. Stored(e) \in Errors \cup {"Interrupt"}
  BY DEF Stored
<1>4. ASSUME ae_handle_error(e) PROVE Fits
  BY <1>1, <1>2, <1>3, <1>4 DEF ae_handle_error
<1>5. Fits
  <2>1. CASE Ignored
    BY <2>1, <1>1 DEF Raise
  <2>2. CASE ~Ignored /\ at = "handler"
    BY <2>2, <1>2 DEF Raise
  <2>3. CASE ~Ignored /\ at # "handler"
    BY <2>3, <1>4 DEF Raise
  <2> QED BY <2>1, <2>2, <2>3
<1>6. UNCHANGED <<threadVars, batch, from, ubfAsync, uvVars, tables>>
  BY DEF Raise, iter
<1> QED BY <1>5, <1>6 DEF TypeOK, threadVars, uvVars, tables, RubyCode

(* Every step keeps every variable in its type.                              *)
LEMMA TypeStep == TypeOK /\ [Next]_vars => TypeOK'
<1> SUFFICES ASSUME TypeOK, [Next]_vars PROVE TypeOK'
  OBVIOUS
<1> USE DEF TypeOK, TickTypeOK, CfotTypeOK, NoGVL, RubyCode, Proc, Internal,
            threadVars, intrVars, uvVars, tables, queues, iter, tickVars, cfotVars
<1>1. ASSUME NEW t \in Threads, OtherThread(t) PROVE TypeOK'
  <2>1. CASE RunLock(t)
    BY <2>1 DEF RunLock
  <2>2. CASE RunRefused(t)
    BY <2>2 DEF RunRefused
  <2>3. CASE ThreadExit(t)
    BY <2>3 DEF ThreadExit
  <2>4. CASE StopCheck(t)
    BY <2>4 DEF StopCheck
  <2>5. CASE StopEnqueue(t)
    <3>1. CASE status = "RUNNING"
      <4>1. "release" \in Proc
        OBVIOUS
      <4>2. cfotProcs' = Append(cfotProcs, "release") /\ cfotAsync' = "pending"
        BY <2>5, <3>1 DEF StopEnqueue, AE_CHECK_STATUS,
               AsyncEngine_call_from_other_thread
      <4>3. cfotProcs' \in Seq(Proc)
        BY <4>1, <4>2
      <4> QED BY <2>5, <4>2, <4>3 DEF StopEnqueue
    <3>2. CASE status # "RUNNING"
      BY <2>5, <3>2 DEF StopEnqueue, AE_CHECK_STATUS
    <3> QED BY <3>1, <3>2
  <2>6. ASSUME NEW p \in UserProcs, RunStart(t, p) PROVE TypeOK'
    BY <2>6 DEF RunStart, LoadCallFromOtherThread, AsyncEngine_next_tick
  <2>7. ASSUME NEW p \in UserProcs, CallFromOther(t, p) PROVE TypeOK'
    BY <2>7 DEF CallFromOther, AsyncEngine_call_from_other_thread
  <2> QED BY <1>1, <2>1, <2>2, <2>3, <2>4, <2>5, <2>6, <2>7 DEF OtherThread
<1>2. CASE InternalCallback
  <2>1. CASE IdleFire
    BY <2>1 DEF IdleFire, uv_idle_callback
  <2>2. CASE IdleTake
    BY <2>2 DEF IdleTake, ae_idle_callback
  <2>3. CASE AsyncFire
    BY <2>3 DEF AsyncFire, uv_async_callback
  <2>4. CASE AsyncTake
    BY <2>4 DEF AsyncTake, ae_async_callback
  <2>5. CASE UbfFire
    BY <2>5 DEF UbfFire
  <2>6. CASE UbfCheck
    <3>1. CASE status # "RUNNING" \/ intr = "none"
      BY <2>6, <3>1 DEF UbfCheck
    <3>2. CASE ~(status # "RUNNING" \/ intr = "none")
      BY <2>6, <3>2, RaiseType DEF UbfCheck, ErrorOf, Errors
    <3> QED BY <3>1, <3>2
  <2>7. CASE BatchNext
    <3>1. batch' \in Seq(Proc)
      BY <2>7 DEF BatchNext, StopIterating
    <3>2. CASE Head(batch) = "release"
      BY <2>7, <3>1, <3>2, ReleaseType DEF BatchNext
    <3>3. CASE Head(batch) # "release"
      BY <2>7, <3>1, <3>3 DEF BatchNext
    <3> QED BY <3>2, <3>3
  <2>8. CASE BatchEnd
    BY <2>8 DEF BatchEnd
  <2> QED BY <1>2, <2>1, <2>2, <2>3, <2>4, <2>5, <2>6, <2>7, <2>8
          DEF InternalCallback
<1>3. CASE Release
  <2>1. CASE ReleaseEnd
    BY <2>1 DEF ReleaseEnd, UnloadNextTick, UnloadCallFromOtherThread, ClearProcs
  <2>2. ASSUME NEW h \in Handles, destroy_handle(h) PROVE TypeOK'
    BY <2>2 DEF destroy_handle, close_handle
  <2> QED BY <1>3, <2>1, <2>2 DEF Release
<1>4. CASE UserCall
  <2>1. ASSUME NEW p \in Proc, UserNextTick(p) PROVE TypeOK'
    BY <2>1 DEF UserNextTick, AsyncEngine_next_tick
  <2>2. ASSUME NEW p \in UserProcs, UserCallFromOther(p) PROVE TypeOK'
    BY <2>2 DEF UserCallFromOther, AsyncEngine_call_from_other_thread
  <2>3. ASSUME NEW h \in Handles, OpenHandle(h) PROVE TypeOK'
    BY <2>3 DEF OpenHandle
  <2>4. ASSUME NEW h \in Handles, CloseHandle(h) PROVE TypeOK'
    BY <2>4 DEF CloseHandle, close_handle
  <2>5. ASSUME NEW r \in Reqs, StartReq(r) PROVE TypeOK'
    BY <2>5 DEF StartReq, ae_store_proc
  <2> QED BY <1>4, <2>1, <2>2, <2>3, <2>4, <2>5 DEF UserCall
<1>5. CASE UserReturn
  <2>1. CASE ProcReturn
    BY <2>1 DEF ProcReturn
  <2>2. ASSUME NEW e \in {"Std", "Exc"}, ProcRaise(e) PROVE TypeOK'
    BY <2>2, RaiseType DEF ProcRaise, Errors
  <2>3. CASE ProcInterrupted
    BY <2>3, RaiseType DEF ProcInterrupted, ErrorOf, Errors
  <2> QED BY <1>5, <2>1, <2>2, <2>3 DEF UserReturn
<1>6. CASE UvEvent
  <2>1. ASSUME NEW h \in Handles, UserEvent(h) PROVE TypeOK'
    BY <2>1 DEF UserEvent, close_handle
  <2>2. ASSUME NEW h \in Handles, ConnectTimeout(h) PROVE TypeOK'
    BY <2>2 DEF ConnectTimeout, close_handle
  <2>3. ASSUME NEW h \in Handles, ConnectCallback(h) PROVE TypeOK'
    BY <2>3 DEF ConnectCallback
  <2>4. ASSUME NEW r \in Reqs, ReqCallback(r) PROVE TypeOK'
    BY <2>4 DEF ReqCallback
  <2>5. ASSUME NEW x \in Handles \cup Internal, CloseCallback(x) PROVE TypeOK'
    BY <2>5 DEF CloseCallback
  <2> QED BY <1>6, <2>1, <2>2, <2>3, <2>4, <2>5 DEF UvEvent
<1>7. ASSUME NEW i \in Interrupts, Interrupt(i) PROVE TypeOK'
  BY <1>7 DEF Interrupt, ae_ubf
<1>8. CASE LoopExit
  BY <1>8 DEF LoopExit, AfterRun
<1>9. CASE LoopEscape
  <2>1. /\ at' = "none" /\ intr' = "none"
        /\ UNCHANGED <<status, mutex, aeThread, batch, from, ubfAsync, exitError>>
        /\ UNCHANGED <<queues, uvVars, tables, toDestroy>>
    BY <1>9 DEF LoopEscape
  <2>2. pc' \in [Threads -> {"out", "wantLock", "stopping", "inside", "dead"}]
    BY <1>9 DEF LoopEscape
  <2> QED BY <2>1, <2>2
<1>10. CASE UNCHANGED vars
  BY <1>10 DEF vars
<1> QED BY <1>1, <1>2, <1>3, <1>4, <1>5, <1>6, <1>7, <1>8, <1>9, <1>10 DEF Next

(* Every variable keeps its type.                                            *)
THEOREM TypeCorrect == Spec => []TypeOK
<1>1. Init => TypeOK
  BY DEF Init, TickInit, CfotInit, TypeOK, TickTypeOK, CfotTypeOK, NoGVL,
         RubyCode
<1> QED BY <1>1, TypeStep, PTL DEF Spec
=============================================================================
