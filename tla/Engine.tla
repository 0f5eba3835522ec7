------------------------------- MODULE Engine -------------------------------
(* The life cycle of AsyncEngine: AE.run, AE.stop, the release of the loop,  *)
(* and the error handling around every callback                              *)
(* (ext/asyncengine/asyncengine_ruby.c, ae_handle_common.c, lib/asyncengine.rb). *)
(*                                                                           *)
(* One Ruby thread, aeThread, is inside AE.run at a time.  It runs uv_run()  *)
(* without the GVL and takes the GVL for every callback; `at' says where it  *)
(* is.  A C function is one step; Ruby code (a proc, a user hook, AE.stop)   *)
(* may be preempted by the other Ruby threads between any two calls it       *)
(* makes.  Timers, sockets and TCP connections are handles with an open, a   *)
(* connecting and a closing phase; UDP sends and DNS queries are requests    *)
(* whose proc is kept in @_procs.                                            *)
(*                                                                           *)
(* A definition marked "mutant" is a deliberate fault that could replace the *)
(* definition below it; no specification uses one.                           *)
EXTENDS NextTick, CallFromOtherThread, FiniteSets, Naturals

CONSTANTS Threads,            \* Ruby threads
          NoThread,           \* Qnil in AE_thread, and the free mutex
          UserProcs,          \* procs of the application
          Handles,            \* AE::Handle objects
          Reqs,               \* libuv requests with a proc
          Interrupts,         \* subset of {"Signal", "Kill"} sent to the AE thread
          MaxQueued           \* bound on procs waiting in one queue

Internal == {"idle", "cfot", "ubf"}       \* the engine's own libuv handles
Proc == UserProcs \cup {"release"}         \* "release" is the proc AE.stop passes

ASSUME ThreadAssumption == NoThread \notin Threads
ASSUME UserProcAssumption == "release" \notin UserProcs
ASSUME HandleAssumption == Handles \cap Internal = {}
ASSUME InterruptAssumption == Interrupts \subseteq {"Signal", "Kill"}
ASSUME BoundAssumption == MaxQueued \in Nat \ {0}

VARIABLES
  status,        \* AE_status
  mutex,         \* the holder of AE_mutex
  aeThread,      \* AE_thread
  pc,            \* where each Ruby thread is with respect to AE.run and AE.stop
  at,            \* where the AE thread is inside uv_run()
  batch,         \* what is left of the array an idle or async callback iterates
  from,          \* which of the two callbacks that is
  ubfAsync,      \* ae_ubf_uv_async, as cfotAsync
  intr,          \* the interrupt pending on the AE thread
  handles,       \* AE_handles: what Ruby keeps alive
  procs,         \* AE_procs: requests whose proc is stored
  opened,        \* handles whose _uv_handle is not NULL
  connecting,    \* handles with an outstanding uv_connect_t
  closing,       \* libuv handles whose close callback is due
  reqs,          \* outstanding libuv requests
  toDestroy,     \* what rb_hash_foreach has still to visit in release_loop
  exitError      \* @_exit_error

threadVars == <<mutex, aeThread, pc>>
intrVars == <<ubfAsync, intr>>
uvVars == <<opened, connecting, closing, reqs>>
tables == <<handles, procs>>
queues == <<tickVars, cfotVars>>
iter == <<batch, from>>

vars == <<status, threadVars, at, iter, queues, intrVars, uvVars, tables,
          toDestroy, exitError>>

NoGVL == {"poll", "idleCb", "asyncCb", "ubfCb"}   \* in libuv, or awaiting the GVL
RubyCode == {"proc", "handler", "hook"}           \* user code runs
Errors == {"Std", "Exc", "Fixnum8"}   \* StandardError, other Exception, Thread#kill

TypeOK ==
  /\ TickTypeOK(Proc) /\ CfotTypeOK(Proc)
  /\ status \in {"STOPPED", "RUNNING", "RELEASING"}
  /\ mutex \in Threads \cup {NoThread}
  /\ aeThread \in Threads \cup {NoThread}
  /\ pc \in [Threads -> {"out", "wantLock", "stopping", "inside", "dead"}]
  /\ at \in {"none", "batch", "release"} \cup NoGVL \cup RubyCode
  /\ batch \in Seq(Proc) /\ from \in {"tick", "cfot"}
  /\ ubfAsync \in {"null", "clear", "pending"}
  /\ intr \in Interrupts \cup {"none"}
  /\ handles \subseteq Handles /\ opened \subseteq Handles
  /\ connecting \subseteq Handles /\ toDestroy \subseteq Handles
  /\ closing \subseteq Handles \cup Internal
  /\ procs \subseteq Reqs /\ reqs \subseteq Reqs
  /\ exitError \in Errors \cup {"none", "Interrupt"}

Init ==
  /\ TickInit /\ CfotInit
  /\ status = "STOPPED" /\ mutex = NoThread /\ aeThread = NoThread
  /\ pc = [t \in Threads |-> "out"]
  /\ at = "none" /\ batch = <<>> /\ from = "tick"
  /\ ubfAsync = "null" /\ intr = "none"
  /\ handles = {} /\ procs = {}
  /\ opened = {} /\ connecting = {} /\ closing = {} /\ reqs = {}
  /\ toDestroy = {} /\ exitError = "none"

(* AE_CHECK_STATUS: otherwise the call returns false, or raises if STOPPED.   *)
AnyLiveStatus == status # "STOPPED"                     \* mutant
AE_CHECK_STATUS == status = "RUNNING"

-----------------------------------------------------------------------------
(* AE.run, from a thread that finds the engine not running: block on the     *)
(* mutex.  Its owner, left holding it by LoopEscape, gets a ThreadError.     *)
RunLock(t) ==
  /\ pc[t] = "out" /\ status # "RUNNING" /\ mutex # t
  /\ pc' = [pc EXCEPT ![t] = "wantLock"]
  /\ UNCHANGED <<status, mutex, aeThread, at, iter, queues, intrVars, uvVars,
                 tables, toDestroy, exitError>>

(* The mutex is granted and the engine is still stopped: load the internal   *)
(* handles, become RUNNING, hand over the proc and enter uv_run().           *)
RunStart(t, p) ==
  /\ pc[t] = "wantLock" /\ mutex = NoThread /\ status = "STOPPED"
  /\ mutex' = t /\ aeThread' = t
  /\ pc' = [pc EXCEPT ![t] = "inside"]
  /\ status' = "RUNNING"
  /\ LoadCallFromOtherThread
  /\ ubfAsync' = "clear"
  /\ AsyncEngine_next_tick(p)
  /\ at' = "poll"
  /\ UNCHANGED <<iter, intr, uvVars, tables, toDestroy, exitError>>

(* Granted in another status: unlock and return nil.                         *)
RunRefused(t) ==
  /\ pc[t] = "wantLock" /\ mutex = NoThread /\ status # "STOPPED"
  /\ pc' = [pc EXCEPT ![t] = "out"]
  /\ UNCHANGED <<status, mutex, aeThread, at, iter, queues, intrVars, uvVars,
                 tables, toDestroy, exitError>>

(* AE.call_from_other_thread, or AE.run while running, from another thread.  *)
CallFromOther(t, p) ==
  /\ pc[t] = "out" /\ AE_CHECK_STATUS /\ Len(cfotProcs) < MaxQueued
  /\ AsyncEngine_call_from_other_thread(p)
  /\ UNCHANGED <<status, threadVars, at, iter, tickVars, intrVars, uvVars,
                 tables, toDestroy, exitError>>

(* AE.stop from another thread is Ruby code: the status it checked may have  *)
(* changed, even by a whole stop and restart, when its call is made.         *)
StopCheck(t) ==
  /\ pc[t] = "out" /\ AE_CHECK_STATUS
  /\ pc' = [pc EXCEPT ![t] = "stopping"]
  /\ UNCHANGED <<status, mutex, aeThread, at, iter, queues, intrVars, uvVars,
                 tables, toDestroy, exitError>>

StopEnqueue(t) ==
  /\ pc[t] = "stopping"
  /\ pc' = [pc EXCEPT ![t] = "out"]
  /\ IF AE_CHECK_STATUS
       THEN /\ Len(cfotProcs) < MaxQueued
            /\ AsyncEngine_call_from_other_thread("release")
       ELSE UNCHANGED cfotVars           \* returns false, or raises
  /\ UNCHANGED <<status, mutex, aeThread, at, iter, tickVars, intrVars, uvVars,
                 tables, toDestroy, exitError>>

(* A thread ends; Ruby releases a mutex it still holds.                      *)
ThreadExit(t) ==
  /\ pc[t] = "out" /\ mutex = t
  /\ pc' = [pc EXCEPT ![t] = "dead"]
  /\ mutex' = NoThread
  /\ UNCHANGED <<status, aeThread, at, iter, queues, intrVars, uvVars, tables,
                 toDestroy, exitError>>

-----------------------------------------------------------------------------
(* Callbacks of the internal handles: libuv first updates the handle without *)
(* the GVL, then waits for the GVL, then takes the whole array.              *)
IdleFire ==
  /\ at = "poll" /\ uv_idle_callback
  /\ at' = "idleCb"
  /\ UNCHANGED <<status, threadVars, iter, cfotVars, intrVars, uvVars, tables,
                 toDestroy, exitError>>

IdleTake ==
  /\ at = "idleCb"
  /\ at' = "batch" /\ batch' = tickProcs /\ from' = "tick"
  /\ ae_idle_callback
  /\ UNCHANGED <<status, threadVars, cfotVars, intrVars, uvVars, tables,
                 toDestroy, exitError>>

AsyncFire ==
  /\ at = "poll" /\ uv_async_callback
  /\ at' = "asyncCb"
  /\ UNCHANGED <<status, threadVars, iter, tickVars, intrVars, uvVars, tables,
                 toDestroy, exitError>>

AsyncTake ==
  /\ at = "asyncCb"
  /\ at' = "batch" /\ batch' = cfotProcs /\ from' = "cfot"
  /\ ae_async_callback
  /\ UNCHANGED <<status, threadVars, tickVars, intrVars, uvVars, tables,
                 toDestroy, exitError>>

(* release_loop: the first call of a run wins, later ones return at once.    *)
(* Errors raised by destroy() are ignored, so every handle is visited.       *)
ae_release_loop ==
  IF status = "RUNNING"
    THEN /\ status' = "RELEASING"
         /\ ClearNextTick /\ ClearCallFromOtherThread
         /\ toDestroy' = handles
         /\ at' = "release"
    ELSE /\ at' = "batch"
         /\ UNCHANGED <<status, queues, toDestroy>>

(* The loop of both callbacks over the array they took: it stops when a proc *)
(* has released the engine.                                                  *)
StopIterating == batch = <<>> \/ status # "RUNNING"

BatchEnd_StopIdle ==                                    \* mutant
  /\ at = "batch" /\ StopIterating
  /\ at' = "poll" /\ batch' = <<>>
  /\ idle' = IF idle = "null" THEN idle ELSE "stopped"
  /\ UNCHANGED <<status, threadVars, from, tickProcs, cfotVars, intrVars, uvVars,
                 tables, toDestroy, exitError>>

BatchEnd ==
  /\ at = "batch" /\ StopIterating
  /\ at' = "poll" /\ batch' = <<>>
  /\ UNCHANGED <<status, threadVars, from, queues, intrVars, uvVars, tables,
                 toDestroy, exitError>>

BatchNext ==
  /\ at = "batch" /\ ~StopIterating
  /\ batch' = Tail(batch)
  /\ IF Head(batch) = "release"
       THEN ae_release_loop
       ELSE at' = "proc" /\ UNCHANGED <<status, queues, toDestroy>>
  /\ UNCHANGED <<threadVars, from, intrVars, uvVars, tables, exitError>>

(* Closing a handle from Ruby or from its own callback.  A connecting one    *)
(* stays in AE_handles until libuv reports the connection as cancelled.      *)
close_handle_Forget(h) ==                               \* mutant
  /\ opened' = opened \ {h}
  /\ closing' = closing \cup {h}
  /\ handles' = handles \ {h}
  /\ UNCHANGED connecting

close_handle(h) ==
  /\ opened' = opened \ {h}
  /\ closing' = closing \cup {h}
  /\ handles' = IF h \in connecting THEN handles ELSE handles \ {h}
  /\ UNCHANGED connecting

(* One step of rb_hash_foreach(AE_handles, destroy_handle): an object that   *)
(* is already closed only says so; an established connection runs the user's *)
(* on_disconnected hook.                                                     *)
destroy_handle(h) ==
  /\ at = "release" /\ h \in toDestroy \cap handles
  /\ toDestroy' = toDestroy \ {h}
  /\ IF h \in opened
       THEN close_handle(h) /\ at' \in {"release", "hook"}
       ELSE UNCHANGED <<opened, closing, connecting, handles, at>>
  /\ UNCHANGED <<status, threadVars, iter, queues, intrVars, reqs, procs,
                 exitError>>

KeepProcs == UNCHANGED procs                            \* mutant
ClearProcs == procs' = {}

(* The rest of release_loop: close the internal handles, clear AE_procs.     *)
ReleaseEnd ==
  /\ at = "release" /\ toDestroy \cap handles = {}
  /\ UnloadNextTick /\ UnloadCallFromOtherThread
  /\ ubfAsync' = "null"
  /\ closing' = closing \cup Internal
  /\ ClearProcs
  /\ toDestroy' = {}
  /\ at' = "batch"
  /\ UNCHANGED <<status, threadVars, iter, intr, opened, connecting, reqs,
                 handles, exitError>>

-----------------------------------------------------------------------------
(* What user code may call.  While the engine is releasing, the functions    *)
(* that check the status return false; methods of an open handle still work. *)
UserNextTick(p) ==
  /\ at \in RubyCode /\ AE_CHECK_STATUS /\ Len(tickProcs) < MaxQueued
  /\ AsyncEngine_next_tick(p)
  /\ UNCHANGED <<status, threadVars, at, iter, cfotVars, intrVars, uvVars,
                 tables, toDestroy, exitError>>

UserCallFromOther(p) ==
  /\ at \in RubyCode /\ AE_CHECK_STATUS /\ Len(cfotProcs) < MaxQueued
  /\ AsyncEngine_call_from_other_thread(p)
  /\ UNCHANGED <<status, threadVars, at, iter, tickVars, intrVars, uvVars,
                 tables, toDestroy, exitError>>

(* A new timer, UDP socket or TCP connection (the only one that connects).   *)
(* When libuv refuses it, the libuv handle is closed and nothing is stored.  *)
(* TcpSocket has a third case, a socket that neither connects nor is refused:*)
(* the one whose destination is an IPv6 reference.                           *)
OpenHandle(h) ==
  /\ at \in RubyCode /\ AE_CHECK_STATUS
  /\ h \notin handles \cup opened \cup closing
  /\ \/ /\ opened' = opened \cup {h}
        /\ handles' = handles \cup {h}
        /\ connecting' \in {connecting, connecting \cup {h}}
        /\ UNCHANGED closing
     \/ /\ closing' = closing \cup {h}
        /\ UNCHANGED <<opened, handles, connecting>>
  /\ UNCHANGED <<status, threadVars, at, iter, queues, intrVars, reqs, procs,
                 toDestroy, exitError>>

CloseHandle(h) ==
  /\ at \in RubyCode /\ h \in opened
  /\ close_handle(h)
  /\ UNCHANGED <<status, threadVars, at, iter, queues, intrVars, reqs, procs,
                 toDestroy, exitError>>

ae_store_proc(r) == procs' = procs \cup {r}

(* A DNS query needs the engine running; a datagram only an open socket.  A  *)
(* datagram that libuv refuses at once leaves its proc behind in AE_procs.   *)
StartReq(r) ==
  /\ at \in RubyCode /\ r \notin reqs \cup procs
  /\ AE_CHECK_STATUS \/ opened # {}
  /\ reqs' \in {reqs, reqs \cup {r}}
  /\ ae_store_proc(r)
  /\ UNCHANGED <<status, threadVars, at, iter, queues, intrVars, opened,
                 connecting, closing, handles, toDestroy, exitError>>

-----------------------------------------------------------------------------
(* Errors.  ae_run_with_error_handler protects every callback; an error goes *)
(* to ae_handle_error unless the engine is already releasing.                *)
Stored(e) == IF e = "Fixnum8" THEN "Interrupt" ELSE e

(* The user's handler, if one is set, gets StandardErrors only; any other    *)
(* error is kept for AE.run to raise and the engine is released.             *)
ae_handle_error(e) ==
  \/ /\ e = "Std"
     /\ at' = "handler"
     /\ UNCHANGED <<status, queues, toDestroy, exitError>>
  \/ /\ exitError' = Stored(e)
     /\ ae_release_loop

(* Errors of the hooks that destroy_handle runs, and any error once the      *)
(* engine is releasing.                                                      *)
IgnoredInHooks == at = "hook"                           \* mutant
Ignored == at = "hook" \/ (at # "handler" /\ status = "RELEASING")

(* User code is left by an exception, a signal or Thread#kill.  An error of  *)
(* the error handler itself (error2) is kept as it is.                       *)
Raise(e) ==
  /\ \/ /\ Ignored
        /\ at' = IF at = "hook" THEN "release" ELSE "batch"
        /\ UNCHANGED <<status, queues, toDestroy, exitError>>
     \/ /\ ~Ignored /\ at = "handler"
        /\ exitError' = e
        /\ ae_release_loop
     \/ /\ ~Ignored /\ at # "handler"
        /\ ae_handle_error(e)
  /\ UNCHANGED <<threadVars, iter, ubfAsync, uvVars, tables>>

ProcReturn ==
  /\ at \in RubyCode /\ intr = "none"
  /\ at' = IF at = "hook" THEN "release" ELSE "batch"
  /\ UNCHANGED <<status, threadVars, iter, queues, intrVars, uvVars, tables,
                 toDestroy, exitError>>

ProcRaise(e) ==
  /\ at \in RubyCode
  /\ Raise(e)
  /\ UNCHANGED intr

(* Ruby delivers a pending interrupt in Ruby code ...                        *)
ErrorOf(i) == IF i = "Kill" THEN "Fixnum8" ELSE "Exc"

ProcInterrupted ==
  /\ at \in RubyCode /\ intr # "none"
  /\ Raise(ErrorOf(intr))
  /\ intr' = "none"

(* ... and, while the thread is outside the GVL, calls ae_ubf.               *)
NoWakeup == UNCHANGED ubfAsync                          \* mutant
ae_ubf == ubfAsync' = IF status = "RUNNING" THEN "pending" ELSE ubfAsync

Interrupt(i) ==
  /\ at \in RubyCode \cup NoGVL /\ intr = "none"
  /\ intr' = i
  /\ IF at \in NoGVL THEN ae_ubf ELSE UNCHANGED ubfAsync
  /\ UNCHANGED <<status, threadVars, at, iter, queues, uvVars, tables,
                 toDestroy, exitError>>

UbfFire ==
  /\ at = "poll" /\ ubfAsync = "pending"
  /\ ubfAsync' = "clear"
  /\ at' = "ubfCb"
  /\ UNCHANGED <<status, threadVars, iter, queues, intr, uvVars, tables,
                 toDestroy, exitError>>

UbfCheck ==
  /\ at = "ubfCb"
  /\ IF status # "RUNNING" \/ intr = "none"
       THEN /\ at' = "poll"
            /\ UNCHANGED <<status, threadVars, iter, queues, intrVars, uvVars,
                           tables, toDestroy, exitError>>
       ELSE Raise(ErrorOf(intr)) /\ intr' = "none"

-----------------------------------------------------------------------------
(* Events of user handles and requests.                                      *)

(* A timer fires, data arrives, a peer disconnects: user code runs, after    *)
(* the handle was closed if that is what the event means.                    *)
UserEvent(h) ==
  /\ at = "poll" /\ h \in opened \ connecting
  /\ at' = "proc"
  /\ close_handle(h) \/ UNCHANGED <<opened, closing, handles, connecting>>
  /\ UNCHANGED <<status, threadVars, iter, queues, intrVars, reqs, procs,
                 toDestroy, exitError>>

(* set_connect_timeout: only the libuv handle is closed.                     *)
ConnectTimeout(h) ==
  /\ at = "poll" /\ h \in opened \cap connecting
  /\ close_handle(h)
  /\ UNCHANGED <<status, threadVars, at, iter, queues, intrVars, reqs, procs,
                 toDestroy, exitError>>

(* The connect callback: established, failed, or cancelled by a close.       *)
ConnectCallback(h) ==
  /\ at = "poll" /\ h \in connecting
  /\ connecting' = connecting \ {h}
  /\ \/ h \in opened /\ UNCHANGED <<opened, closing, handles>>
     \/ /\ opened' = opened \ {h}
        /\ closing' = closing \cup {h}
        /\ handles' = handles \ {h}
  /\ at' = "proc"
  /\ UNCHANGED <<status, threadVars, iter, queues, intrVars, reqs, procs,
                 toDestroy, exitError>>

(* A send or a query ends: its proc is dropped when releasing, else run.     *)
ReqCallback(r) ==
  /\ at = "poll" /\ r \in reqs
  /\ reqs' = reqs \ {r}
  /\ procs' = procs \ {r}
  /\ at' = IF status = "RELEASING" THEN "poll" ELSE "proc"
  /\ UNCHANGED <<status, threadVars, iter, queues, intrVars, opened, connecting,
                 closing, handles, toDestroy, exitError>>

(* libuv reports a closed handle, after its connection request if any.       *)
CloseCallback(x) ==
  /\ at = "poll" /\ x \in closing \ connecting
  /\ closing' = closing \ {x}
  /\ UNCHANGED <<status, threadVars, at, iter, queues, intrVars, opened,
                 connecting, reqs, tables, toDestroy, exitError>>

(* uv_run() returns when nothing is left to wait for.                        *)
LoopDone ==
  /\ at = "poll"
  /\ idle # "started" /\ cfotAsync = "null" /\ ubfAsync = "null"
  /\ opened = {} /\ connecting = {} /\ closing = {} /\ reqs = {}

(* AE.run then takes the captured error, becomes STOPPED and unlocks.        *)
AfterRun_StatusKept ==                                  \* mutant
  UNCHANGED status /\ mutex' = NoThread /\ exitError' = "none"
AfterRun_MutexKept ==                                   \* mutant
  status' = "STOPPED" /\ UNCHANGED mutex /\ exitError' = "none"
AfterRun ==
  status' = "STOPPED" /\ mutex' = NoThread /\ exitError' = "none"

LoopExit ==
  /\ LoopDone /\ intr = "none"
  /\ AfterRun
  /\ at' = "none"
  /\ aeThread' = NoThread
  /\ pc' = [pc EXCEPT ![aeThread] = "out"]
  /\ UNCHANGED <<iter, queues, intrVars, uvVars, tables, toDestroy>>

(* An interrupt still pending when uv_run() returns is raised by Ruby on the *)
(* way out of rb_thread_call_without_gvl: the rest of AE.run does not run.   *)
LoopEscape ==
  /\ LoopDone /\ intr # "none"
  /\ at' = "none"
  /\ intr' = "none"
  /\ pc' = [pc EXCEPT ![aeThread] = "out"]
  /\ UNCHANGED <<status, mutex, aeThread, iter, queues, ubfAsync, uvVars,
                 tables, toDestroy, exitError>>

-----------------------------------------------------------------------------
OtherThread(t) == \/ RunLock(t) \/ RunRefused(t) \/ ThreadExit(t)
                  \/ StopCheck(t) \/ StopEnqueue(t)
                  \/ \E p \in UserProcs : RunStart(t, p) \/ CallFromOther(t, p)

InternalCallback == \/ IdleFire \/ IdleTake \/ AsyncFire \/ AsyncTake
                    \/ UbfFire \/ UbfCheck \/ BatchNext \/ BatchEnd

Release == ReleaseEnd \/ \E h \in Handles : destroy_handle(h)

UserCall == \/ \E p \in Proc : UserNextTick(p)
            \/ \E p \in UserProcs : UserCallFromOther(p)
            \/ \E h \in Handles : OpenHandle(h) \/ CloseHandle(h)
            \/ \E r \in Reqs : StartReq(r)

UserReturn == \/ ProcReturn
              \/ \E e \in {"Std", "Exc"} : ProcRaise(e)
              \/ ProcInterrupted

UvEvent == \/ \E h \in Handles : \/ UserEvent(h) \/ ConnectTimeout(h)
                                 \/ ConnectCallback(h)
           \/ \E r \in Reqs : ReqCallback(r)
           \/ \E x \in Handles \cup Internal : CloseCallback(x)

Next == \/ \E t \in Threads : OtherThread(t)
        \/ InternalCallback \/ Release \/ UserCall \/ UserReturn \/ UvEvent
        \/ \E i \in Interrupts : Interrupt(i)
        \/ LoopExit \/ LoopEscape

Spec == Init /\ [][Next]_vars

(* The AE thread goes on: C code, callbacks that have begun and user code    *)
(* end, and a drained loop returns.  Every turn of uv_run() visits each kind *)
(* of watcher, so none is passed over forever (strong fairness); of what was *)
(* closed, cancelled or requested, libuv always has something to report.     *)
LoopFairness ==
  /\ WF_vars(\/ IdleTake \/ AsyncTake \/ UbfCheck \/ BatchNext \/ BatchEnd
             \/ Release \/ UserReturn \/ LoopExit \/ LoopEscape)
  /\ SF_vars(IdleFire) /\ SF_vars(AsyncFire) /\ SF_vars(UbfFire)
  /\ SF_vars(\/ \E x \in Handles \cup Internal : CloseCallback(x)
             \/ \E h \in Handles : ConnectCallback(h)
             \/ \E r \in Reqs : ReqCallback(r))

FairSpec == Spec /\ LoopFairness

-----------------------------------------------------------------------------
(* The engine is entered by one thread at a time: who is in the loop holds   *)
(* the mutex and is AE_thread, and a STOPPED engine leaves the mutex free and *)
(* nobody inside (AE_mutex, "for multi-thread exotic cases").                *)
LoopHoldsMutex ==
  /\ at # "none" => /\ status # "STOPPED"
                    /\ mutex = aeThread /\ aeThread \in Threads
                    /\ \A t \in Threads : pc[t] = "inside" <=> t = aeThread
  /\ at = "none" => /\ status # "RUNNING"
                    /\ \A t \in Threads : pc[t] # "inside"
  /\ status = "STOPPED" => mutex = NoThread /\ at = "none"

(* A stopped engine has released everything, whatever was queued, opened or  *)
(* under way when it was stopped: AE.ensure_released, and the assertions     *)
(* that load the internal handles of the next run.                           *)
Released ==
  status = "STOPPED" =>
    /\ tickProcs = <<>> /\ cfotProcs = <<>>
    /\ handles = {} /\ procs = {}
    /\ opened = {} /\ connecting = {} /\ closing = {} /\ reqs = {}
    /\ idle = "null" /\ cfotAsync = "null" /\ ubfAsync = "null"
    /\ exitError = "none"

(* ae_store_handle's "Avoid GC": libuv holds a pointer into every object     *)
(* whose handle is open or whose connection is pending, so it is in          *)
(* AE_handles; and nothing else is, so a closed object can be collected.     *)
HandlesProtected == handles = opened \cup connecting

(* ae_proc_call_N asserts that the proc it got back from AE_procs is there:  *)
(* outside of a release every pending request still has its proc.            *)
ReqHasProc == status = "RUNNING" => reqs \subseteq procs

(* A queued proc is never stranded: the handle that will run it is active or *)
(* its callback is already on its way to take the array.                     *)
NoLostWakeup ==
  /\ tickProcs # <<>> => idle = "started" \/ at = "idleCb"
  /\ cfotProcs # <<>> => cfotAsync = "pending" \/ at = "asyncCb"

(* When release_loop is over, whatever user code did in its hooks, nothing   *)
(* is left but what libuv still has to report: no handle is open, no proc is *)
(* kept, and no other thread can hand over a proc any more.                  *)
ReleaseIsFinal ==
  status = "RELEASING" =>
    /\ tickProcs = <<>> /\ cfotProcs = <<>>
    /\ at \notin {"release", "hook"} =>
         /\ opened = {} /\ procs = {}
         /\ idle = "null" /\ cfotAsync = "null" /\ ubfAsync = "null"

(* The internal callbacks only ever run in a RUNNING engine: the assertions  *)
(* of _ae_idle_callback and _ae_async_callback.                              *)
CallbacksOnlyRunning == at \in {"idleCb", "asyncCb", "ubfCb"} => status = "RUNNING"

(* While the engine has not failed, whoever finds the mutex free can run it: *)
(* AE.run never refuses a thread that waited for its turn.                   *)
Restartable == mutex = NoThread => status = "STOPPED"

(* The first error that ends a run is the one AE.run raises: nothing that    *)
(* goes wrong while releasing replaces it.                                   *)
FirstErrorWins ==
  [][exitError # "none" => exitError' = exitError \/ status' = "STOPPED"]_vars

(* "Thread#kill ... then don't store the exception" (ae_handle_common.c):    *)
(* what the comment says of a kill; ae_handle_error stores an Interrupt.     *)
KillNotStored == exitError # "Interrupt"

(* Once released, the loop drains and its thread leaves AE.run, in good      *)
(* order or with an interrupt that came too late (LoopEscape).               *)
ReleaseCompletes == status = "RELEASING" ~> at = "none"

(* AE.stop, from any thread, ends the run: a queued release is reached.      *)
Queued(q) == \E i \in DOMAIN q : q[i] = "release"
StopTakesEffect ==
  Queued(tickProcs) \/ Queued(cfotProcs) \/ Queued(batch) ~> status # "RUNNING"

(* A signal or a kill sent to a running engine ends the run, wherever the    *)
(* AE thread was when it came (ae_ubf and its async handle).                 *)
InterruptEndsRun == status = "RUNNING" /\ intr # "none" ~> status # "RUNNING"

-----------------------------------------------------------------------------
(* What the engine promises to the handles and requests of its users.        *)
LifePhase ==
  CASE status = "STOPPED" -> "stopped"
    [] status = "RUNNING" -> "running"
    [] OTHER -> IF at \in {"release", "hook"} THEN "destroying" ELSE "draining"

Life == INSTANCE Lifetime WITH
  phase   <- LifePhase,
  open    <- opened,
  closing <- closing \cap Handles,
  pending <- reqs \cup connecting

(* However it is stopped, signalled or killed: every handle is closed once   *)
(* and by the release at the latest, user code cannot open or ask for more   *)
(* once release_loop is over, and AE.run returns with nothing left.          *)
LivesInOrder == Life!Spec
=============================================================================
