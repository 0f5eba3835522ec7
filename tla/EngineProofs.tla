---------------------------- MODULE EngineProofs ----------------------------
(* The inductive invariant of Engine, and what follows from it.  Each lemma  *)
(* "...Step" shows that no step of the engine breaks one conjunct of IInv.   *)
EXTENDS EngineTypeProofs

(* The initial state satisfies the inductive invariant.                      *)
LEMMA InitInv == Init => IInv
<1> SUFFICES ASSUME Init PROVE IInv
  OBVIOUS
<1> USE DEF Init, TickInit, CfotInit
<1>1. TypeOK
  BY DEF TypeOK, TickTypeOK, CfotTypeOK, NoGVL, RubyCode
<1>2. LoopHoldsMutex /\ LoadedInv /\ ReleaseInv /\ ErrorInv /\ BatchInv
  BY DEF LoopHoldsMutex, LoadedInv, ReleaseInv, ErrorInv, BatchInv, NoGVL
<1>3. Released /\ ReleaseIsFinal /\ CallbacksOnlyRunning
  BY DEF Released, ReleaseIsFinal, CallbacksOnlyRunning
<1>4. HandlesProtected /\ ReqHasProc /\ NoLostWakeup
  BY DEF HandlesProtected, ReqHasProc, NoLostWakeup
<1>5. CancelInv
  BY DEF CancelInv
<1> QED BY <1>1, <1>2, <1>3, <1>4, <1>5 DEF IInv

(* Only RunStart enters, with a free mutex; only LoopExit and LoopEscape     *)
(* leave.                                                                    *)
LEMMA MutexStep == IInv /\ [Next]_vars => LoopHoldsMutex'
<1> SUFFICES ASSUME IInv, [Next]_vars PROVE LoopHoldsMutex'
  OBVIOUS
<1> USE DEF IInv, LoopHoldsMutex, threadVars
<1>1. ASSUME NEW t \in Threads, OtherThread(t) PROVE LoopHoldsMutex'
  BY <1>1 DEF TypeOK, OtherThread, RunLock, RunRefused, ThreadExit, StopCheck,
         StopEnqueue, RunStart, CallFromOther, AE_CHECK_STATUS
<1>2. CASE InternalCallback
  BY <1>2 DEF InternalCallback, IdleFire, IdleTake, AsyncFire, AsyncTake,
         UbfFire, UbfCheck, BatchNext, BatchEnd, StopIterating, Raise,
         ae_handle_error, ae_release_loop
<1>3. CASE Release
  BY <1>3 DEF Release, ReleaseEnd, destroy_handle
<1>4. CASE UserCall
  BY <1>4 DEF UserCall, UserNextTick, UserCallFromOther, OpenHandle,
         CloseHandle, StartReq, AE_CHECK_STATUS
<1>5. CASE UserReturn
  BY <1>5 DEF RubyCode, UserReturn, ProcReturn, ProcRaise, ProcInterrupted,
         Raise, ae_handle_error, ae_release_loop
<1>6. CASE UvEvent
  BY <1>6 DEF UvEvent, UserEvent, ConnectTimeout, ConnectCallback, ReqCallback,
         CloseCallback
<1>7. ASSUME NEW i \in Interrupts, Interrupt(i) PROVE LoopHoldsMutex'
  BY <1>7 DEF Interrupt
<1>8. CASE LoopExit
  BY <1>8 DEF TypeOK, LoopExit, LoopDone, AfterRun
<1>9. CASE LoopEscape
  BY <1>9 DEF TypeOK, LoadedInv, LoopEscape, LoopDone
<1>10. CASE UNCHANGED vars
  BY <1>10 DEF vars
<1> QED BY <1>1, <1>2, <1>3, <1>4, <1>5, <1>6, <1>7, <1>8, <1>9, <1>10 DEF Next

(* RunStart loads the internal handles and only ReleaseEnd unloads them.     *)
LEMMA LoadedStep == IInv /\ [Next]_vars => LoadedInv'
<1> SUFFICES ASSUME IInv, [Next]_vars PROVE LoadedInv'
  OBVIOUS
<1> USE DEF IInv, LoadedInv, intrVars, tickVars, cfotVars, queues
<1>1. ASSUME NEW t \in Threads, OtherThread(t) PROVE LoadedInv'
  BY <1>1 DEF OtherThread, RunLock, RunRefused, ThreadExit, StopCheck,
         StopEnqueue, RunStart, CallFromOther, AE_CHECK_STATUS,
         AsyncEngine_call_from_other_thread, AsyncEngine_next_tick,
         LoadCallFromOtherThread
<1>2. CASE InternalCallback
  BY <1>2 DEF InternalCallback, IdleFire, IdleTake, AsyncFire, AsyncTake,
         UbfFire, UbfCheck, BatchNext, BatchEnd, StopIterating,
         uv_idle_callback, uv_async_callback, ae_idle_callback,
         ae_async_callback, Raise, ae_handle_error, ae_release_loop,
         ClearNextTick, ClearCallFromOtherThread
<1>3. CASE Release
  BY <1>3 DEF ReleaseInv, Release, ReleaseEnd, destroy_handle, UnloadNextTick,
         UnloadCallFromOtherThread
<1>4. CASE UserCall
  BY <1>4 DEF UserCall, UserNextTick, UserCallFromOther, OpenHandle,
         CloseHandle, StartReq, AE_CHECK_STATUS, AsyncEngine_next_tick,
         AsyncEngine_call_from_other_thread
<1>5. CASE UserReturn
  BY <1>5 DEF UserReturn, ProcReturn, ProcRaise, ProcInterrupted, Raise,
         ae_handle_error, ae_release_loop, ClearNextTick,
         ClearCallFromOtherThread
<1>6. CASE UvEvent
  BY <1>6 DEF UvEvent, UserEvent, ConnectTimeout, ConnectCallback, ReqCallback,
         CloseCallback
<1>7. ASSUME NEW i \in Interrupts, Interrupt(i) PROVE LoadedInv'
  BY <1>7 DEF Interrupt, ae_ubf
<1>8. CASE LoopExit
  BY <1>8 DEF LoopExit, LoopDone, AfterRun
<1>9. CASE LoopEscape
  BY <1>9 DEF LoopEscape, LoopDone
<1>10. CASE UNCHANGED vars
  BY <1>10 DEF vars
<1> QED BY <1>1, <1>2, <1>3, <1>4, <1>5, <1>6, <1>7, <1>8, <1>9, <1>10 DEF Next

(* release_loop starts with every open handle to visit (HandlesProtected),   *)
(* and user code that its hooks run opens no other.                          *)
LEMMA ReleasingStep == IInv /\ [Next]_vars => ReleaseInv'
<1> SUFFICES ASSUME IInv, [Next]_vars PROVE ReleaseInv'
  OBVIOUS
<1> USE DEF IInv, ReleaseInv, uvVars
<1>1. ASSUME NEW t \in Threads, OtherThread(t) PROVE ReleaseInv'
  BY <1>1 DEF OtherThread, RunLock, RunRefused, ThreadExit, StopCheck,
         StopEnqueue, RunStart, CallFromOther, AE_CHECK_STATUS
<1>2. CASE InternalCallback
  BY <1>2 DEF HandlesProtected, InternalCallback, IdleFire, IdleTake,
         AsyncFire, AsyncTake, UbfFire, UbfCheck, BatchNext, BatchEnd,
         StopIterating, Raise, ae_handle_error, ae_release_loop
<1>3. CASE Release
  BY <1>3 DEF Release, ReleaseEnd, destroy_handle, close_handle
<1>4. CASE UserCall
  BY <1>4 DEF UserCall, UserNextTick, UserCallFromOther, OpenHandle,
         CloseHandle, StartReq, close_handle, AE_CHECK_STATUS
<1>5. CASE UserReturn
  BY <1>5 DEF HandlesProtected, LoopHoldsMutex, TypeOK, RubyCode, UserReturn,
         ProcReturn, ProcRaise, ProcInterrupted, Raise, Ignored,
         ae_handle_error, ae_release_loop
<1>6. CASE UvEvent
  BY <1>6 DEF UvEvent, UserEvent, ConnectTimeout, ConnectCallback, ReqCallback,
         CloseCallback, close_handle
<1>7. ASSUME NEW i \in Interrupts, Interrupt(i) PROVE ReleaseInv'
  BY <1>7 DEF Interrupt
<1>8. CASE LoopExit
  BY <1>8 DEF LoopExit, LoopDone, AfterRun
<1>9. CASE LoopEscape
  BY <1>9 DEF LoopEscape, LoopDone
<1>10. CASE UNCHANGED vars
  BY <1>10 DEF vars
<1> QED BY <1>1, <1>2, <1>3, <1>4, <1>5, <1>6, <1>7, <1>8, <1>9, <1>10 DEF Next

(* Every step that keeps an error releases the engine.                       *)
LEMMA ErrorStep == IInv /\ [Next]_vars => ErrorInv'
<1> SUFFICES ASSUME IInv, [Next]_vars PROVE ErrorInv'
  OBVIOUS
<1> USE DEF IInv, ErrorInv
<1>1. ASSUME NEW t \in Threads, OtherThread(t) PROVE ErrorInv'
  BY <1>1 DEF Released, OtherThread, RunLock, RunRefused, ThreadExit,
         StopCheck, StopEnqueue, RunStart, CallFromOther, AE_CHECK_STATUS
<1>2. CASE InternalCallback
  BY <1>2 DEF InternalCallback, IdleFire, IdleTake, AsyncFire, AsyncTake,
         UbfFire, UbfCheck, BatchNext, BatchEnd, StopIterating, Raise,
         ae_handle_error, ae_release_loop
<1>3. CASE Release
  BY <1>3 DEF Release, ReleaseEnd, destroy_handle
<1>4. CASE UserCall
  BY <1>4 DEF UserCall, UserNextTick, UserCallFromOther, OpenHandle,
         CloseHandle, StartReq, AE_CHECK_STATUS
<1>5. CASE UserReturn
  BY <1>5 DEF UserReturn, ProcReturn, ProcRaise, ProcInterrupted, Raise,
         ae_handle_error, ae_release_loop
<1>6. CASE UvEvent
  BY <1>6 DEF UvEvent, UserEvent, ConnectTimeout, ConnectCallback, ReqCallback,
         CloseCallback
<1>7. ASSUME NEW i \in Interrupts, Interrupt(i) PROVE ErrorInv'
  BY <1>7 DEF Interrupt
<1>8. CASE LoopExit
  BY <1>8 DEF LoopExit, LoopDone, AfterRun
<1>9. CASE LoopEscape
  BY <1>9 DEF LoopEscape, LoopDone
<1>10. CASE UNCHANGED vars
  BY <1>10 DEF vars
<1> QED BY <1>1, <1>2, <1>3, <1>4, <1>5, <1>6, <1>7, <1>8, <1>9, <1>10 DEF Next

(* An array is taken with the GVL and dropped before the loop polls again.   *)
LEMMA BatchStep == IInv /\ [Next]_vars => BatchInv'
<1> SUFFICES ASSUME IInv, [Next]_vars PROVE BatchInv'
  OBVIOUS
<1> USE DEF IInv, BatchInv, iter
<1>1. ASSUME NEW t \in Threads, OtherThread(t) PROVE BatchInv'
  BY <1>1 DEF LoopHoldsMutex, OtherThread, RunLock, RunRefused, ThreadExit,
         StopCheck, StopEnqueue, RunStart, CallFromOther, AE_CHECK_STATUS
<1>2. CASE InternalCallback
  BY <1>2 DEF NoGVL, InternalCallback, IdleFire, IdleTake, AsyncFire,
         AsyncTake, UbfFire, UbfCheck, BatchNext, BatchEnd, StopIterating,
         Raise, ae_handle_error, ae_release_loop
<1>3. CASE Release
  BY <1>3 DEF NoGVL, Release, ReleaseEnd, destroy_handle
<1>4. CASE UserCall
  BY <1>4 DEF UserCall, UserNextTick, UserCallFromOther, OpenHandle,
         CloseHandle, StartReq, AE_CHECK_STATUS
<1>5. CASE UserReturn
  BY <1>5 DEF NoGVL, UserReturn, ProcReturn, ProcRaise, ProcInterrupted, Raise,
         ae_handle_error, ae_release_loop
<1>6. CASE UvEvent
  BY <1>6 DEF NoGVL, UvEvent, UserEvent, ConnectTimeout, ConnectCallback,
         ReqCallback, CloseCallback
<1>7. ASSUME NEW i \in Interrupts, Interrupt(i) PROVE BatchInv'
  BY <1>7 DEF Interrupt
<1>8. CASE LoopExit
  BY <1>8 DEF NoGVL, LoopExit, LoopDone
<1>9. CASE LoopEscape
  BY <1>9 DEF NoGVL, LoopEscape, LoopDone
<1>10. CASE UNCHANGED vars
  BY <1>10 DEF vars
<1> QED BY <1>1, <1>2, <1>3, <1>4, <1>5, <1>6, <1>7, <1>8, <1>9, <1>10 DEF Next

(* At LoopExit nothing is left: ReleaseIsFinal for what the engine keeps,    *)
(* the end of uv_run() for what libuv does.                                  *)
LEMMA ReleasedStep == IInv /\ [Next]_vars => Released'
<1> SUFFICES ASSUME IInv, [Next]_vars PROVE Released'
  OBVIOUS
<1> USE DEF IInv, Released, intrVars, uvVars, tables, tickVars, cfotVars,
       queues
<1>1. ASSUME NEW t \in Threads, OtherThread(t) PROVE Released'
  BY <1>1 DEF OtherThread, RunLock, RunRefused, ThreadExit, StopCheck,
         StopEnqueue, RunStart, CallFromOther, AE_CHECK_STATUS,
         AsyncEngine_call_from_other_thread, AsyncEngine_next_tick,
         LoadCallFromOtherThread
<1>2. CASE InternalCallback
  BY <1>2 DEF InternalCallback, IdleFire, IdleTake, AsyncFire, AsyncTake,
         UbfFire, UbfCheck, BatchNext, BatchEnd, StopIterating,
         uv_idle_callback, uv_async_callback, ae_idle_callback,
         ae_async_callback, Raise, ae_handle_error, ae_release_loop,
         ClearNextTick, ClearCallFromOtherThread
<1>3. CASE Release
  BY <1>3 DEF LoopHoldsMutex, Release, ReleaseEnd, destroy_handle,
         close_handle, UnloadNextTick, UnloadCallFromOtherThread, ClearProcs
<1>4. CASE UserCall
  BY <1>4 DEF UserCall, UserNextTick, UserCallFromOther, OpenHandle,
         CloseHandle, StartReq, ae_store_proc, close_handle, AE_CHECK_STATUS,
         AsyncEngine_next_tick, AsyncEngine_call_from_other_thread
<1>5. CASE UserReturn
  BY <1>5 DEF LoopHoldsMutex, RubyCode, UserReturn, ProcReturn, ProcRaise,
         ProcInterrupted, Raise, ae_handle_error, ae_release_loop,
         ClearNextTick, ClearCallFromOtherThread
<1>6. CASE UvEvent
  BY <1>6 DEF UvEvent, UserEvent, ConnectTimeout, ConnectCallback, ReqCallback,
         CloseCallback, close_handle
<1>7. ASSUME NEW i \in Interrupts, Interrupt(i) PROVE Released'
  BY <1>7 DEF Interrupt, ae_ubf
<1>8. CASE LoopExit
  BY <1>8 DEF ReleaseIsFinal, HandlesProtected, LoadedInv, TypeOK, LoopExit,
         LoopDone, AfterRun
<1>9. CASE LoopEscape
  BY <1>9 DEF LoopEscape, LoopDone
<1>10. CASE UNCHANGED vars
  BY <1>10 DEF vars
<1> QED BY <1>1, <1>2, <1>3, <1>4, <1>5, <1>6, <1>7, <1>8, <1>9, <1>10 DEF Next

(* A release empties the queues and, AE_CHECK_STATUS failing from then on,   *)
(* nothing fills them; it ends when no open handle is left to visit.         *)
LEMMA FinalStep == IInv /\ [Next]_vars => ReleaseIsFinal'
<1> SUFFICES ASSUME IInv, [Next]_vars PROVE ReleaseIsFinal'
  OBVIOUS
<1> USE DEF IInv, ReleaseIsFinal, intrVars, uvVars, tables, tickVars, cfotVars,
       queues
<1>1. ASSUME NEW t \in Threads, OtherThread(t) PROVE ReleaseIsFinal'
  BY <1>1 DEF OtherThread, RunLock, RunRefused, ThreadExit, StopCheck,
         StopEnqueue, RunStart, CallFromOther, AE_CHECK_STATUS,
         AsyncEngine_call_from_other_thread, AsyncEngine_next_tick,
         LoadCallFromOtherThread
<1>2. CASE InternalCallback
  BY <1>2 DEF InternalCallback, IdleFire, IdleTake, AsyncFire, AsyncTake,
         UbfFire, UbfCheck, BatchNext, BatchEnd, StopIterating,
         uv_idle_callback, uv_async_callback, ae_idle_callback,
         ae_async_callback, Raise, ae_handle_error, ae_release_loop,
         ClearNextTick, ClearCallFromOtherThread
<1>3. CASE Release
  BY <1>3 DEF ReleaseInv, HandlesProtected, Release, ReleaseEnd,
         destroy_handle, close_handle, UnloadNextTick,
         UnloadCallFromOtherThread, ClearProcs
<1>4. CASE UserCall
  BY <1>4 DEF UserCall, UserNextTick, UserCallFromOther, OpenHandle,
         CloseHandle, StartReq, ae_store_proc, close_handle, AE_CHECK_STATUS,
         AsyncEngine_next_tick, AsyncEngine_call_from_other_thread
<1>5. CASE UserReturn
  BY <1>5 DEF RubyCode, UserReturn, ProcReturn, ProcRaise, ProcInterrupted,
         Raise, Ignored, ae_handle_error, ae_release_loop, ClearNextTick,
         ClearCallFromOtherThread
<1>6. CASE UvEvent
  BY <1>6 DEF UvEvent, UserEvent, ConnectTimeout, ConnectCallback, ReqCallback,
         CloseCallback, close_handle
<1>7. ASSUME NEW i \in Interrupts, Interrupt(i) PROVE ReleaseIsFinal'
  BY <1>7 DEF Interrupt, ae_ubf
<1>8. CASE LoopExit
  BY <1>8 DEF LoopExit, LoopDone, AfterRun
<1>9. CASE LoopEscape
  BY <1>9 DEF LoopEscape, LoopDone
<1>10. CASE UNCHANGED vars
  BY <1>10 DEF vars
<1> QED BY <1>1, <1>2, <1>3, <1>4, <1>5, <1>6, <1>7, <1>8, <1>9, <1>10 DEF Next

(* A released engine has no internal handle that could fire.                 *)
LEMMA CallbacksStep == IInv /\ [Next]_vars => CallbacksOnlyRunning'
<1> SUFFICES ASSUME IInv, [Next]_vars PROVE CallbacksOnlyRunning'
  OBVIOUS
<1> USE DEF IInv, CallbacksOnlyRunning
<1>1. ASSUME NEW t \in Threads, OtherThread(t) PROVE CallbacksOnlyRunning'
  BY <1>1 DEF OtherThread, RunLock, RunRefused, ThreadExit, StopCheck,
         StopEnqueue, RunStart, CallFromOther, AE_CHECK_STATUS
<1>2. CASE InternalCallback
  BY <1>2 DEF ReleaseIsFinal, LoopHoldsMutex, TypeOK, InternalCallback, IdleFire,
         IdleTake, AsyncFire, AsyncTake, UbfFire, UbfCheck, BatchNext, BatchEnd,
         uv_idle_callback, uv_async_callback, StopIterating, Raise,
         ae_handle_error, ae_release_loop
<1>3. CASE Release
  BY <1>3 DEF Release, ReleaseEnd, destroy_handle
<1>4. CASE UserCall
  BY <1>4 DEF UserCall, UserNextTick, UserCallFromOther, OpenHandle,
         CloseHandle, StartReq, AE_CHECK_STATUS
<1>5. CASE UserReturn
  BY <1>5 DEF UserReturn, ProcReturn, ProcRaise, ProcInterrupted, Raise,
         ae_handle_error, ae_release_loop
<1>6. CASE UvEvent
  BY <1>6 DEF UvEvent, UserEvent, ConnectTimeout, ConnectCallback, ReqCallback,
         CloseCallback
<1>7. ASSUME NEW i \in Interrupts, Interrupt(i) PROVE CallbacksOnlyRunning'
  BY <1>7 DEF Interrupt
<1>8. CASE LoopExit
  BY <1>8 DEF LoopExit, LoopDone, AfterRun
<1>9. CASE LoopEscape
  BY <1>9 DEF LoopEscape, LoopDone
<1>10. CASE UNCHANGED vars
  BY <1>10 DEF vars
<1> QED BY <1>1, <1>2, <1>3, <1>4, <1>5, <1>6, <1>7, <1>8, <1>9, <1>10 DEF Next

(* Handles enter and leave the table with libuv's view of them.              *)
LEMMA HandlesStep == IInv /\ [Next]_vars => HandlesProtected'
<1> SUFFICES ASSUME IInv, [Next]_vars PROVE HandlesProtected'
  OBVIOUS
<1> USE DEF IInv, HandlesProtected, uvVars, tables
<1>1. ASSUME NEW t \in Threads, OtherThread(t) PROVE HandlesProtected'
  BY <1>1 DEF OtherThread, RunLock, RunRefused, ThreadExit, StopCheck,
         StopEnqueue, RunStart, CallFromOther, AE_CHECK_STATUS
<1>2. CASE InternalCallback
  BY <1>2 DEF InternalCallback, IdleFire, IdleTake, AsyncFire, AsyncTake,
         UbfFire, UbfCheck, BatchNext, BatchEnd, StopIterating, Raise,
         ae_handle_error, ae_release_loop
<1>3. CASE Release
  BY <1>3 DEF Release, ReleaseEnd, destroy_handle, close_handle
<1>4. CASE UserCall
  BY <1>4 DEF UserCall, UserNextTick, UserCallFromOther, OpenHandle,
         CloseHandle, StartReq, close_handle, AE_CHECK_STATUS
<1>5. CASE UserReturn
  BY <1>5 DEF UserReturn, ProcReturn, ProcRaise, ProcInterrupted, Raise,
         ae_handle_error, ae_release_loop
<1>6. CASE UvEvent
  BY <1>6 DEF UvEvent, UserEvent, ConnectTimeout, ConnectCallback, ReqCallback,
         CloseCallback, close_handle
<1>7. ASSUME NEW i \in Interrupts, Interrupt(i) PROVE HandlesProtected'
  BY <1>7 DEF Interrupt
<1>8. CASE LoopExit
  BY <1>8 DEF LoopExit, LoopDone
<1>9. CASE LoopEscape
  BY <1>9 DEF LoopEscape, LoopDone
<1>10. CASE UNCHANGED vars
  BY <1>10 DEF vars
<1> QED BY <1>1, <1>2, <1>3, <1>4, <1>5, <1>6, <1>7, <1>8, <1>9, <1>10 DEF Next

(* A proc is stored with its request, and cleared only by a release.         *)
LEMMA ReqStep == IInv /\ [Next]_vars => ReqHasProc'
<1> SUFFICES ASSUME IInv, [Next]_vars PROVE ReqHasProc'
  OBVIOUS
<1> USE DEF IInv, ReqHasProc, uvVars, tables
<1>1. ASSUME NEW t \in Threads, OtherThread(t) PROVE ReqHasProc'
  BY <1>1 DEF Released, OtherThread, RunLock, RunRefused, ThreadExit,
         StopCheck, StopEnqueue, RunStart, CallFromOther, AE_CHECK_STATUS
<1>2. CASE InternalCallback
  BY <1>2 DEF InternalCallback, IdleFire, IdleTake, AsyncFire, AsyncTake,
         UbfFire, UbfCheck, BatchNext, BatchEnd, StopIterating, Raise,
         ae_handle_error, ae_release_loop
<1>3. CASE Release
  BY <1>3 DEF ReleaseInv, Release, ReleaseEnd, destroy_handle, ClearProcs
<1>4. CASE UserCall
  BY <1>4 DEF UserCall, UserNextTick, UserCallFromOther, OpenHandle,
         CloseHandle, StartReq, ae_store_proc, AE_CHECK_STATUS
<1>5. CASE UserReturn
  BY <1>5 DEF UserReturn, ProcReturn, ProcRaise, ProcInterrupted, Raise,
         ae_handle_error, ae_release_loop
<1>6. CASE UvEvent
  BY <1>6 DEF UvEvent, UserEvent, ConnectTimeout, ConnectCallback, ReqCallback,
         CloseCallback
<1>7. ASSUME NEW i \in Interrupts, Interrupt(i) PROVE ReqHasProc'
  BY <1>7 DEF Interrupt
<1>8. CASE LoopExit
  BY <1>8 DEF LoopExit, LoopDone, AfterRun
<1>9. CASE LoopEscape
  BY <1>9 DEF LoopEscape, LoopDone
<1>10. CASE UNCHANGED vars
  BY <1>10 DEF vars
<1> QED BY <1>1, <1>2, <1>3, <1>4, <1>5, <1>6, <1>7, <1>8, <1>9, <1>10 DEF Next

(* Every push activates the handle, and a handle is deactivated only on the  *)
(* way to the callback that takes the array.                                 *)
LEMMA WakeupStep == IInv /\ [Next]_vars => NoLostWakeup'
<1> SUFFICES ASSUME IInv, [Next]_vars PROVE NoLostWakeup'
  OBVIOUS
<1> USE DEF IInv, NoLostWakeup, tickVars, cfotVars, queues
<1>1. ASSUME NEW t \in Threads, OtherThread(t) PROVE NoLostWakeup'
  BY <1>1 DEF Released, OtherThread, RunLock, RunRefused, ThreadExit,
         StopCheck, StopEnqueue, RunStart, CallFromOther, AE_CHECK_STATUS,
         AsyncEngine_call_from_other_thread, AsyncEngine_next_tick,
         LoadCallFromOtherThread
<1>2. CASE InternalCallback
  BY <1>2 DEF InternalCallback, IdleFire, IdleTake, AsyncFire, AsyncTake,
         UbfFire, UbfCheck, BatchNext, BatchEnd, StopIterating,
         uv_idle_callback, uv_async_callback, ae_idle_callback,
         ae_async_callback, Raise, ae_handle_error, ae_release_loop,
         ClearNextTick, ClearCallFromOtherThread
<1>3. CASE Release
  BY <1>3 DEF ReleaseIsFinal, ReleaseInv, Release, ReleaseEnd, destroy_handle,
         UnloadNextTick, UnloadCallFromOtherThread
<1>4. CASE UserCall
  BY <1>4 DEF UserCall, UserNextTick, UserCallFromOther, OpenHandle,
         CloseHandle, StartReq, AE_CHECK_STATUS, AsyncEngine_next_tick,
         AsyncEngine_call_from_other_thread
<1>5. CASE UserReturn
  BY <1>5 DEF RubyCode, UserReturn, ProcReturn, ProcRaise, ProcInterrupted,
         Raise, ae_handle_error, ae_release_loop, ClearNextTick,
         ClearCallFromOtherThread
<1>6. CASE UvEvent
  BY <1>6 DEF UvEvent, UserEvent, ConnectTimeout, ConnectCallback, ReqCallback,
         CloseCallback
<1>7. ASSUME NEW i \in Interrupts, Interrupt(i) PROVE NoLostWakeup'
  BY <1>7 DEF Interrupt
<1>8. CASE LoopExit
  BY <1>8 DEF LoopExit, LoopDone
<1>9. CASE LoopEscape
  BY <1>9 DEF LoopEscape, LoopDone
<1>10. CASE UNCHANGED vars
  BY <1>10 DEF vars
<1> QED BY <1>1, <1>2, <1>3, <1>4, <1>5, <1>6, <1>7, <1>8, <1>9, <1>10 DEF Next

(* Whoever closes a handle that connects puts it in closing, and a close is  *)
(* not reported before the connection.                                       *)
LEMMA CancelStep == IInv /\ [Next]_vars => CancelInv'
<1> SUFFICES ASSUME IInv, [Next]_vars PROVE CancelInv'
  OBVIOUS
<1> USE DEF IInv, CancelInv, uvVars
<1>1. ASSUME NEW t \in Threads, OtherThread(t) PROVE CancelInv'
  BY <1>1 DEF OtherThread, RunLock, RunRefused, ThreadExit, StopCheck,
         StopEnqueue, RunStart, CallFromOther
<1>2. CASE InternalCallback
  BY <1>2 DEF InternalCallback, IdleFire, IdleTake, AsyncFire, AsyncTake,
         UbfFire, UbfCheck, BatchNext, BatchEnd, Raise
<1>3. CASE Release
  BY <1>3 DEF Release, ReleaseEnd, destroy_handle, close_handle
<1>4. CASE UserCall
  BY <1>4 DEF UserCall, UserNextTick, UserCallFromOther, OpenHandle,
         CloseHandle, StartReq, close_handle
<1>5. CASE UserReturn
  BY <1>5 DEF UserReturn, ProcReturn, ProcRaise, ProcInterrupted, Raise
<1>6. CASE UvEvent
  BY <1>6 DEF UvEvent, UserEvent, ConnectTimeout, ConnectCallback, ReqCallback,
         CloseCallback, close_handle
<1>7. ASSUME NEW i \in Interrupts, Interrupt(i) PROVE CancelInv'
  BY <1>7 DEF Interrupt
<1>8. CASE LoopExit \/ LoopEscape \/ UNCHANGED vars
  BY <1>8 DEF LoopExit, LoopEscape, vars
<1> QED BY <1>1, <1>2, <1>3, <1>4, <1>5, <1>6, <1>7, <1>8 DEF Next

-----------------------------------------------------------------------------
(* The inductive invariant holds in every reachable state.                   *)
THEOREM Invariant == Spec => []IInv
<1>1. Init => IInv
  BY InitInv
<1>2. IInv /\ [Next]_vars => IInv'
  <2> SUFFICES ASSUME IInv, [Next]_vars PROVE IInv'
    OBVIOUS
  <2>1. TypeOK'
    BY TypeStep DEF IInv
  <2> QED
    BY <2>1, MutexStep, LoadedStep, ReleasingStep, ErrorStep, BatchStep,
       ReleasedStep, FinalStep, CallbacksStep, HandlesStep, ReqStep, WakeupStep,
       CancelStep DEF IInv
<1> QED BY <1>1, <1>2, PTL DEF Spec

(* One thread at a time is in the loop, and it holds AE_mutex.               *)
THEOREM MutexCorrect == Spec => []LoopHoldsMutex
<1>1. IInv => LoopHoldsMutex
  BY DEF IInv
<1> QED BY <1>1, Invariant, PTL

(* A stopped engine has released everything.                                 *)
THEOREM ReleasedCorrect == Spec => []Released
<1>1. IInv => Released
  BY DEF IInv
<1> QED BY <1>1, Invariant, PTL

(* A release leaves nothing that user code could have added meanwhile.       *)
THEOREM ReleaseFinalCorrect == Spec => []ReleaseIsFinal
<1>1. IInv => ReleaseIsFinal
  BY DEF IInv
<1> QED BY <1>1, Invariant, PTL

(* Exactly the handles libuv points into are protected from the collector.   *)
THEOREM HandlesCorrect == Spec => []HandlesProtected
<1>1. IInv => HandlesProtected
  BY DEF IInv
<1> QED BY <1>1, Invariant, PTL

(* The proc of a pending request is found when the request ends.             *)
THEOREM ProcsCorrect == Spec => []ReqHasProc
<1>1. IInv => ReqHasProc
  BY DEF IInv
<1> QED BY <1>1, Invariant, PTL

(* No queued proc is ever left without a callback that will take it.         *)
THEOREM WakeupCorrect == Spec => []NoLostWakeup
<1>1. IInv => NoLostWakeup
  BY DEF IInv
<1> QED BY <1>1, Invariant, PTL

(* The assertions of the internal callbacks hold.                            *)
THEOREM CallbacksCorrect == Spec => []CallbacksOnlyRunning
<1>1. IInv => CallbacksOnlyRunning
  BY DEF IInv
<1> QED BY <1>1, Invariant, PTL

-----------------------------------------------------------------------------
(* Without signals and kills the engine is restartable: AE.run always gets   *)
(* to the end, so a free mutex is the mutex of a stopped engine.             *)
THEOREM RestartableCorrect ==
  ASSUME Interrupts = {} PROVE Spec => []Restartable
<1> DEFINE Ended == at = "none" => status = "STOPPED"
<1>1. Init => Ended
  BY DEF Init
<1>2. IInv /\ Ended /\ [Next]_vars => Ended'
  <2> SUFFICES ASSUME IInv, Ended, [Next]_vars PROVE Ended'
    OBVIOUS
  <2>1. ASSUME NEW t \in Threads, OtherThread(t) PROVE Ended'
    BY <2>1 DEF OtherThread, RunLock, RunRefused, ThreadExit, StopCheck,
           StopEnqueue, RunStart, CallFromOther
  <2>2. CASE InternalCallback
    BY <2>2 DEF InternalCallback, IdleFire, IdleTake, AsyncFire, AsyncTake,
           UbfFire, UbfCheck, BatchNext, BatchEnd, StopIterating, Raise,
           ae_handle_error, ae_release_loop
  <2>3. CASE Release
    BY <2>3 DEF Release, ReleaseEnd, destroy_handle
  <2>4. CASE UserCall
    BY <2>4 DEF UserCall, UserNextTick, UserCallFromOther, OpenHandle,
           CloseHandle, StartReq
  <2>5. CASE UserReturn
    BY <2>5 DEF UserReturn, ProcReturn, ProcRaise, ProcInterrupted, Raise,
           ae_handle_error, ae_release_loop
  <2>6. CASE UvEvent
    BY <2>6 DEF UvEvent, UserEvent, ConnectTimeout, ConnectCallback,
           ReqCallback, CloseCallback
  <2>7. ASSUME NEW i \in Interrupts, Interrupt(i) PROVE Ended'
    BY <2>7
  <2>8. CASE LoopExit
    BY <2>8 DEF LoopExit, AfterRun
  <2>9. CASE LoopEscape
    BY <2>9 DEF LoopEscape, IInv, TypeOK
  <2>10. CASE UNCHANGED vars
    BY <2>10 DEF vars
  <2> QED
    BY <2>1, <2>2, <2>3, <2>4, <2>5, <2>6, <2>7, <2>8, <2>9, <2>10 DEF Next
<1>3. IInv /\ Ended => Restartable
  BY ThreadAssumption DEF IInv, LoopHoldsMutex, Restartable
<1> QED BY <1>1, <1>2, <1>3, Invariant, PTL DEF Spec

(* The error that ended a run is the one AE.run raises.                      *)
THEOREM FirstErrorCorrect == Spec => FirstErrorWins
<1> DEFINE Kept == exitError # "none" =>
                     exitError' = exitError \/ status' = "STOPPED"
<1>1. IInv /\ [Next]_vars => Kept
  <2> SUFFICES ASSUME IInv, [Next]_vars, exitError # "none"
               PROVE  exitError' = exitError \/ status' = "STOPPED"
    OBVIOUS
  <2>1. status # "RUNNING" /\ at # "handler"
    BY DEF IInv, ErrorInv, ReleaseInv
  <2>2. ASSUME NEW e, Raise(e), at # "none" PROVE exitError' = exitError
    <3>1. status = "RELEASING"
      BY <2>1, <2>2 DEF IInv, TypeOK, LoopHoldsMutex
    <3>2. Ignored
      BY <2>1, <3>1 DEF Ignored
    <3> QED BY <2>2, <3>2 DEF Raise
  <2>3. ASSUME NEW t \in Threads, OtherThread(t) PROVE exitError' = exitError
    BY <2>3 DEF OtherThread, RunLock, RunRefused, ThreadExit, StopCheck,
           StopEnqueue, RunStart, CallFromOther
  <2>4. CASE InternalCallback
    BY <2>2, <2>4 DEF InternalCallback, IdleFire, IdleTake, AsyncFire,
           AsyncTake, UbfFire, UbfCheck, BatchNext, BatchEnd
  <2>5. CASE Release
    BY <2>5 DEF Release, ReleaseEnd, destroy_handle
  <2>6. CASE UserCall
    BY <2>6 DEF UserCall, UserNextTick, UserCallFromOther, OpenHandle,
           CloseHandle, StartReq
  <2>7. CASE UserReturn
    BY <2>2, <2>7 DEF UserReturn, ProcReturn, ProcRaise, ProcInterrupted,
           RubyCode
  <2>8. CASE UvEvent
    BY <2>8 DEF UvEvent, UserEvent, ConnectTimeout, ConnectCallback,
           ReqCallback, CloseCallback
  <2>9. ASSUME NEW i \in Interrupts, Interrupt(i) PROVE exitError' = exitError
    BY <2>9 DEF Interrupt
  <2>10. CASE LoopExit
    BY <2>10 DEF LoopExit, AfterRun
  <2>11. CASE LoopEscape \/ UNCHANGED vars
    BY <2>11 DEF LoopEscape, vars
  <2> QED
    BY <2>3, <2>4, <2>5, <2>6, <2>7, <2>8, <2>9, <2>10, <2>11 DEF Next
<1> QED BY <1>1, Invariant, PTL DEF Spec, FirstErrorWins

-----------------------------------------------------------------------------
(* The refinement of Lifetime.  Steps that leave libuv's side and the phase  *)
(* alone are stutters; of the others, the phase says which they are.         *)

(* The phase, in this state and the next one.                                *)
LEMMA LifePhaseIs ==
  ASSUME IInv, [Next]_vars
  PROVE  /\ status = "STOPPED" => LifePhase = "stopped"
         /\ status = "RUNNING" => LifePhase = "running"
         /\ status = "RELEASING" =>
              LifePhase = IF at \in {"release", "hook"} THEN "destroying" ELSE "draining"
         /\ status' = "STOPPED" => LifePhase' = "stopped"
         /\ status' = "RUNNING" => LifePhase' = "running"
         /\ status' = "RELEASING" =>
              LifePhase' = IF at' \in {"release", "hook"} THEN "destroying" ELSE "draining"
         /\ status \in {"STOPPED", "RUNNING", "RELEASING"}
<1>1. status \in {"STOPPED", "RUNNING", "RELEASING"}
  BY DEF IInv, TypeOK
<1> QED BY <1>1 DEF LifePhase

(* What a step that releases the engine, or finds it released, looks like.   *)
LEMMA ReleaseLives ==
  ASSUME IInv, [Next]_vars, ae_release_loop, UNCHANGED uvVars,
         at \notin {"release", "hook", "none"}
  PROVE  [Life!Next]_(Life!vars)
<1>1. CASE status = "RUNNING"
  <2>1. LifePhase = "running" /\ LifePhase' = "destroying"
    BY <1>1, LifePhaseIs DEF ae_release_loop
  <2> QED BY <2>1 DEF Life!Begin, Life!Enter, Life!things, Life!Next, uvVars
<1>2. CASE status # "RUNNING"
  <2>1. LifePhase' = LifePhase
    BY <1>2, LifePhaseIs DEF ae_release_loop, IInv, LoopHoldsMutex
  <2> QED BY <2>1 DEF Life!vars, uvVars
<1> QED BY <1>1, <1>2

(* User code that is left by an error goes on, or releases the engine.       *)
LEMMA RaiseLives ==
  ASSUME IInv, [Next]_vars, NEW e, Raise(e), at \in RubyCode \cup {"ubfCb"}
  PROVE  [Life!Next]_(Life!vars)
<1>1. status \in {"RUNNING", "RELEASING"} /\ UNCHANGED uvVars
  BY DEF IInv, TypeOK, LoopHoldsMutex, RubyCode, Raise
<1>2. CASE ae_release_loop /\ ~Ignored
  BY <1>1, <1>2, ReleaseLives DEF Ignored, RubyCode
<1>3. CASE Ignored /\ at' = (IF at = "hook" THEN "release" ELSE "batch") /\ status' = status
  <2>1. LifePhase' = LifePhase
    BY <1>1, <1>3, LifePhaseIs DEF RubyCode
  <2> QED BY <1>1, <2>1 DEF Life!vars, uvVars
<1>4. CASE at # "hook" /\ at' = "handler" /\ status' = status
  <2>1. LifePhase' = LifePhase
    BY <1>1, <1>4, LifePhaseIs DEF RubyCode
  <2> QED BY <1>1, <2>1 DEF Life!vars, uvVars
<1> QED BY <1>2, <1>3, <1>4 DEF Raise, ae_handle_error, Ignored

(* Every step of Engine is a step of Lifetime or a stutter.                  *)
LEMMA LifetimeStep == IInv /\ [Next]_vars => [Life!Next]_(Life!vars)
<1> SUFFICES ASSUME IInv, [Next]_vars PROVE [Life!Next]_(Life!vars)
  OBVIOUS
<1>1. ASSUME UNCHANGED uvVars, status' = status,
             at' \in {"release", "hook"} <=> at \in {"release", "hook"}
      PROVE  [Life!Next]_(Life!vars)
  <2>1. LifePhase' = LifePhase
    BY <1>1, LifePhaseIs
  <2> QED BY <1>1, <2>1 DEF Life!vars, uvVars
<1>2. ASSUME status = "RUNNING", status' = status, opened \ opened' \subseteq closing' \cap Handles
      PROVE  [Life!Next]_(Life!vars)
  BY <1>2, LifePhaseIs DEF Life!Work, Life!Closed, Life!Next
<1>3. opened \subseteq Handles /\ connecting \subseteq Handles
  BY DEF IInv, TypeOK
<1>4. ASSUME NEW t \in Threads, OtherThread(t) PROVE [Life!Next]_(Life!vars)
  <2>1. ASSUME NEW p \in UserProcs, RunStart(t, p) PROVE [Life!Next]_(Life!vars)
    <3>1. LifePhase = "stopped" /\ LifePhase' = "running" /\ UNCHANGED uvVars
      BY <2>1, LifePhaseIs DEF RunStart
    <3> QED BY <3>1 DEF Life!Start, Life!Enter, Life!things, Life!Next, uvVars
  <2>2. CASE \A p \in UserProcs : ~RunStart(t, p)
    BY <1>1, <1>4, <2>2 DEF OtherThread, RunLock, RunRefused, ThreadExit,
           StopCheck, StopEnqueue, CallFromOther
  <2> QED BY <2>1, <2>2
<1>5. CASE InternalCallback
  <2>1. CASE IdleFire \/ IdleTake \/ AsyncFire \/ AsyncTake \/ UbfFire \/ BatchEnd
    BY <1>1, <2>1 DEF IdleFire, IdleTake, AsyncFire, AsyncTake, UbfFire, BatchEnd
  <2>2. CASE UbfCheck
    BY <1>1, <2>2, RaiseLives DEF UbfCheck
  <2>3. CASE BatchNext
    <3>1. CASE Head(batch) = "release"
      BY <2>3, <3>1, ReleaseLives DEF BatchNext
    <3>2. CASE Head(batch) # "release"
      BY <1>1, <2>3, <3>2 DEF BatchNext
    <3> QED BY <3>1, <3>2
  <2> QED BY <1>5, <2>1, <2>2, <2>3 DEF InternalCallback
<1>6. ASSUME NEW h \in Handles, destroy_handle(h) PROVE [Life!Next]_(Life!vars)
  <2>1. LifePhase = "destroying" /\ LifePhase' = "destroying"
    BY <1>6, LifePhaseIs DEF destroy_handle, IInv, ReleaseInv
  <2>2. CASE h \in opened
    <3>1. /\ opened' = opened \ {h} /\ closing' = closing \cup {h}
          /\ UNCHANGED <<connecting, reqs>>
      BY <1>6, <2>2 DEF destroy_handle, close_handle
    <3> QED BY <2>1, <2>2, <3>1 DEF Life!Destroy, Life!Closed, Life!Next
  <2>3. CASE h \notin opened
    BY <1>6, <2>1, <2>3 DEF destroy_handle, Life!vars
  <2> QED BY <2>2, <2>3
<1>7. CASE ReleaseEnd
  <2>1. LifePhase = "destroying" /\ LifePhase' = "draining"
    BY <1>7, LifePhaseIs DEF ReleaseEnd, IInv, ReleaseInv
  <2>2. opened = {}
    BY <1>7 DEF ReleaseEnd, IInv, ReleaseInv, HandlesProtected
  <2>3. closing' \cap Handles = closing \cap Handles
    BY <1>7, HandleAssumption DEF ReleaseEnd
  <2> QED BY <1>7, <2>1, <2>2, <2>3 DEF ReleaseEnd, Life!Destroyed, Life!Enter,
         Life!things, Life!Next
<1>8. CASE UserCall
  <2> USE DEF RubyCode
  <2>1. ASSUME NEW h \in Handles, OpenHandle(h) PROVE [Life!Next]_(Life!vars)
    BY <1>2, <2>1 DEF OpenHandle, AE_CHECK_STATUS
  <2>2. ASSUME at = "hook", status' = status, at' = at,
               opened' \subseteq opened, opened \ opened' \subseteq closing' \cap Handles,
               closing \subseteq closing', closing' \ closing \subseteq opened,
               reqs \subseteq reqs', connecting' = connecting
        PROVE  [Life!Next]_(Life!vars)
    <3>1. LifePhase = "destroying" /\ LifePhase' = "destroying"
      BY <2>2, LifePhaseIs DEF IInv, ReleaseInv
    <3> QED BY <2>2, <3>1 DEF Life!Destroy, Life!Closed, Life!Next
  <2>3. at \in RubyCode /\ opened # {} => at = "hook" \/ status = "RUNNING"
    BY DEF IInv, TypeOK, LoopHoldsMutex, ReleaseIsFinal
  <2>4. ASSUME NEW h \in Handles, CloseHandle(h) PROVE [Life!Next]_(Life!vars)
    <3>1. /\ opened' = opened \ {h} /\ closing' = closing \cup {h} /\ h \in opened
          /\ UNCHANGED <<status, at, connecting, reqs>>
      BY <2>4 DEF CloseHandle, close_handle
    <3> QED BY <1>2, <2>2, <2>3, <2>4, <3>1 DEF CloseHandle
  <2>5. ASSUME NEW r \in Reqs, StartReq(r) PROVE [Life!Next]_(Life!vars)
    <3>1. reqs \subseteq reqs' /\ UNCHANGED <<status, at, opened, closing, connecting>>
      BY <2>5 DEF StartReq
    <3>2. at = "hook" \/ status = "RUNNING"
      BY <2>3, <2>5 DEF StartReq, AE_CHECK_STATUS
    <3> QED BY <1>2, <2>2, <3>1, <3>2
  <2>6. CASE \/ \E p \in Proc : UserNextTick(p)
             \/ \E p \in UserProcs : UserCallFromOther(p)
    BY <1>1, <2>6 DEF UserNextTick, UserCallFromOther
  <2> QED BY <1>8, <2>1, <2>4, <2>5, <2>6 DEF UserCall
<1>9. CASE UserReturn
  <2>1. CASE ProcReturn
    BY <1>1, <2>1 DEF ProcReturn, RubyCode
  <2>2. ASSUME NEW e, ProcRaise(e) PROVE [Life!Next]_(Life!vars)
    BY <2>2, RaiseLives DEF ProcRaise
  <2>3. CASE ProcInterrupted
    BY <2>3, RaiseLives DEF ProcInterrupted
  <2> QED BY <1>9, <2>1, <2>2, <2>3 DEF UserReturn
<1>10. CASE UvEvent
  <2>1. at = "poll" /\ at' \in {"poll", "proc"} /\ status' = status
    BY <1>10 DEF UvEvent, UserEvent, ConnectTimeout, ConnectCallback,
           ReqCallback, CloseCallback
  <2>2. CASE status = "RUNNING"
    <3>1. opened \ opened' \subseteq closing'
      BY <1>10 DEF UvEvent, UserEvent, ConnectTimeout, ConnectCallback,
             ReqCallback, CloseCallback, close_handle
    <3> QED BY <1>2, <1>3, <2>1, <2>2, <3>1
  <2>3. CASE status = "RELEASING"
    <3>1. opened = {} /\ connecting \subseteq closing
      BY <2>1, <2>3 DEF IInv, ReleaseIsFinal, CancelInv
    <3>2. opened' = {} /\ closing' \subseteq closing
          /\ reqs' \subseteq reqs /\ connecting' \subseteq connecting
      BY <1>10, <3>1 DEF UvEvent, UserEvent, ConnectTimeout, ConnectCallback,
             ReqCallback, CloseCallback
    <3>3. LifePhase = "draining" /\ LifePhase' = "draining"
      BY <2>1, <2>3, LifePhaseIs
    <3> QED BY <3>1, <3>2, <3>3 DEF Life!Drain, Life!Next
  <2> QED BY <2>1, <2>2, <2>3, LifePhaseIs DEF IInv, LoopHoldsMutex
<1>11. ASSUME NEW i \in Interrupts, Interrupt(i) PROVE [Life!Next]_(Life!vars)
  BY <1>1, <1>11 DEF Interrupt
<1>12. CASE LoopExit
  <2>1. status = "RELEASING" /\ at = "poll"
    BY <1>12 DEF LoopExit, LoopDone, IInv, TypeOK, LoopHoldsMutex, LoadedInv
  <2>2. LifePhase = "draining" /\ LifePhase' = "stopped"
    BY <1>12, <2>1, LifePhaseIs DEF LoopExit, AfterRun
  <2>3. /\ opened = {} /\ connecting = {} /\ closing = {} /\ reqs = {}
        /\ UNCHANGED uvVars
    BY <1>12 DEF LoopExit, LoopDone
  <2> QED BY <2>2, <2>3 DEF Life!Stop, Life!Enter, Life!things, Life!Next, uvVars
<1>13. CASE LoopEscape
  BY <1>1, <1>13 DEF LoopEscape, LoopDone
<1>14. CASE UNCHANGED vars
  BY <1>1, <1>14 DEF vars
<1> QED BY <1>4, <1>5, <1>6, <1>7, <1>8, <1>9, <1>10, <1>11, <1>12, <1>13, <1>14
        DEF Next, Release

(* Engine implements Lifetime: however it is stopped, signalled or killed,   *)
(* whatever was opened is closed by the release, nothing is opened or asked  *)
(* after it, and AE.run returns with nothing left.                           *)
THEOREM EngineLives == Spec => LivesInOrder
<1>1. Init => Life!Init
  BY DEF Init, Life!Init, LifePhase
<1>2. IInv /\ [Next]_vars => [Life!Next]_(Life!vars)
  BY LifetimeStep
<1> QED BY <1>1, <1>2, Invariant, PTL DEF Spec, LivesInOrder, Life!Spec
=============================================================================
