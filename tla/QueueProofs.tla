---------------------------- MODULE QueueProofs -----------------------------
(* Engine implements ProcQueue for both queues, liveness apart.  QueueStep   *)
(* is what the engine's steps do to the two arrays and to the part of one    *)
(* that a callback has taken; each of its disjuncts is a step of either      *)
(* queue or a stutter.                                                       *)
EXTENDS EngineQueues, EngineProofs, SequenceTheorems

Pushed(array, p) == array' = Append(array, p)

Taken(name, array) ==
  batch = <<>> /\ batch' = array /\ from' = name /\ array' = <<>>

QueueStep ==
  \/ UNCHANGED <<batch, from, tickProcs, cfotProcs>>
  \/ \E p \in Proc : Pushed(tickProcs, p) /\ UNCHANGED <<batch, from, cfotProcs>>
  \/ \E p \in Proc : Pushed(cfotProcs, p) /\ UNCHANGED <<batch, from, tickProcs>>
  \/ Taken("tick", tickProcs) /\ UNCHANGED cfotProcs
  \/ Taken("cfot", cfotProcs) /\ UNCHANGED tickProcs
  \/ batch # <<>> /\ batch' = Tail(batch) /\ UNCHANGED <<from, tickProcs, cfotProcs>>

LEMMA RaiseStops ==
  ASSUME NEW e, Raise(e), status = "RUNNING", status' = "RUNNING"
  PROVE  UNCHANGED <<batch, from, tickProcs, cfotProcs>>
<1>1. UNCHANGED <<batch, from>>
  BY DEF Raise, iter
<1>2. ~ae_release_loop
  BY DEF ae_release_loop
<1>3. UNCHANGED queues
  BY <1>2 DEF Raise, ae_handle_error
<1> QED BY <1>1, <1>3 DEF queues, tickVars, cfotVars

(* While the engine runs, procs are pushed behind, taken as a whole into an  *)
(* empty batch (BatchInv), and run from the front of it.                     *)
LEMMA RunningStep ==
  ASSUME IInv, [Next]_vars, status = "RUNNING", status' = "RUNNING"
  PROVE  QueueStep
<1> USE DEF QueueStep, iter, queues, tickVars, cfotVars
<1>1. ASSUME NEW t \in Threads, OtherThread(t) PROVE QueueStep
  <2>1. CASE RunLock(t) \/ RunRefused(t) \/ ThreadExit(t) \/ StopCheck(t)
    BY <2>1 DEF RunLock, RunRefused, ThreadExit, StopCheck
  <2>2. CASE StopEnqueue(t)
    BY <2>2 DEF StopEnqueue, AE_CHECK_STATUS, AsyncEngine_call_from_other_thread,
           Pushed, Proc
  <2>3. ASSUME NEW p \in UserProcs, RunStart(t, p) PROVE QueueStep
    BY <2>3 DEF RunStart
  <2>4. ASSUME NEW p \in UserProcs, CallFromOther(t, p) PROVE QueueStep
    BY <2>4 DEF CallFromOther, AsyncEngine_call_from_other_thread, Pushed, Proc
  <2> QED BY <1>1, <2>1, <2>2, <2>3, <2>4 DEF OtherThread
<1>2. CASE InternalCallback
  <2>1. CASE IdleFire \/ AsyncFire \/ UbfFire
    BY <2>1 DEF IdleFire, AsyncFire, UbfFire, uv_idle_callback, uv_async_callback
  <2>2. CASE IdleTake
    BY <2>2 DEF IdleTake, ae_idle_callback, Taken, IInv, BatchInv, NoGVL
  <2>3. CASE AsyncTake
    BY <2>3 DEF AsyncTake, ae_async_callback, Taken, IInv, BatchInv, NoGVL
  <2>4. CASE UbfCheck
    BY <2>4, RaiseStops DEF UbfCheck
  <2>5. CASE BatchNext
    BY <2>5 DEF BatchNext, ae_release_loop, StopIterating
  <2>6. CASE BatchEnd
    BY <2>6 DEF BatchEnd, StopIterating
  <2> QED BY <1>2, <2>1, <2>2, <2>3, <2>4, <2>5, <2>6 DEF InternalCallback
<1>3. CASE Release
  BY <1>3 DEF IInv, ReleaseInv, Release, ReleaseEnd, destroy_handle
<1>4. CASE UserCall
  <2>1. ASSUME NEW p \in Proc, UserNextTick(p) PROVE QueueStep
    BY <2>1 DEF UserNextTick, AsyncEngine_next_tick, Pushed
  <2>2. ASSUME NEW p \in UserProcs, UserCallFromOther(p) PROVE QueueStep
    BY <2>2 DEF UserCallFromOther, AsyncEngine_call_from_other_thread, Pushed, Proc
  <2>3. ASSUME NEW h \in Handles, OpenHandle(h) \/ CloseHandle(h) PROVE QueueStep
    BY <2>3 DEF OpenHandle, CloseHandle
  <2>4. ASSUME NEW r \in Reqs, StartReq(r) PROVE QueueStep
    BY <2>4 DEF StartReq
  <2> QED BY <1>4, <2>1, <2>2, <2>3, <2>4 DEF UserCall
<1>5. CASE UserReturn
  BY <1>5, RaiseStops DEF UserReturn, ProcReturn, ProcRaise, ProcInterrupted
<1>6. CASE UvEvent
  BY <1>6 DEF UvEvent, UserEvent, ConnectTimeout, ConnectCallback, ReqCallback,
         CloseCallback
<1>7. ASSUME NEW i \in Interrupts, Interrupt(i) PROVE QueueStep
  BY <1>7 DEF Interrupt
<1>8. CASE LoopExit \/ LoopEscape
  BY <1>8 DEF LoopExit, LoopEscape
<1>9. CASE UNCHANGED vars
  BY <1>9 DEF vars
<1> QED BY <1>1, <1>2, <1>3, <1>4, <1>5, <1>6, <1>7, <1>8, <1>9 DEF Next

(* A run begins with empty arrays and the proc that was given to AE.run.     *)
LEMMA StartStep ==
  ASSUME IInv, [Next]_vars, status # "RUNNING", status' = "RUNNING"
  PROVE  batch' = <<>> /\ cfotProcs' = <<>> /\ \E p \in Proc : tickProcs' = <<p>>
<1>1. ~ae_release_loop
  BY DEF ae_release_loop
<1>2. PICK t \in Threads, p \in UserProcs : RunStart(t, p)
  <2>1. ASSUME NEW e PROVE ~Raise(e)
    BY <1>1 DEF Raise, ae_handle_error
  <2>2. ~InternalCallback
    BY <1>1, <2>1 DEF InternalCallback, IdleFire, IdleTake, AsyncFire, AsyncTake, UbfFire,
           UbfCheck, BatchNext, BatchEnd
  <2>3. ~(Release \/ UserCall \/ UvEvent)
    BY DEF Release, ReleaseEnd, destroy_handle, UserCall, UserNextTick, UserCallFromOther,
           OpenHandle, CloseHandle, StartReq, UvEvent, UserEvent, ConnectTimeout,
           ConnectCallback, ReqCallback, CloseCallback
  <2>4. ~UserReturn
    BY <2>1 DEF UserReturn, ProcReturn, ProcRaise, ProcInterrupted
  <2>5. ~(LoopExit \/ LoopEscape \/ UNCHANGED vars) /\ \A i \in Interrupts : ~Interrupt(i)
    BY DEF LoopExit, AfterRun, LoopEscape, vars, Interrupt
  <2>6. \E t \in Threads : OtherThread(t)
    BY <2>2, <2>3, <2>4, <2>5 DEF Next
  <2> QED
    BY <2>6 DEF OtherThread, RunLock, RunRefused, ThreadExit, StopCheck, StopEnqueue,
           CallFromOther
<1>3. batch = <<>> /\ tickProcs = <<>> /\ cfotProcs = <<>>
  BY <1>2 DEF RunStart, IInv, BatchInv, Released, LoopHoldsMutex
<1>4. Append(<<>>, p) = <<p>>
  OBVIOUS
<1> QED
  BY <1>2, <1>3, <1>4 DEF RunStart, iter, AsyncEngine_next_tick, LoadCallFromOtherThread, Proc

-----------------------------------------------------------------------------
(* The queue of ProcQueue behind a batch.                                    *)
LEMMA Concat ==
  ASSUME NEW S, NEW s \in Seq(S), NEW t \in Seq(S)
  PROVE  /\ s \o t \in Seq(S)
         /\ <<>> \o s = s /\ s \o <<>> = s
         /\ \A p \in S : s \o Append(t, p) = Append(s \o t, p)
         /\ s # <<>> => s \o t # <<>> /\ Tail(s \o t) = Tail(s) \o t
<1>1. s \o t \in Seq(S) /\ <<>> \o s = s /\ s \o <<>> = s
  BY ConcatProperties, ConcatEmptySeq
<1>2. ASSUME NEW p \in S PROVE s \o Append(t, p) = Append(s \o t, p)
  <2>1. <<p>> \in Seq(S)
    OBVIOUS
  <2> QED BY <1>1, <2>1, AppendIsConcat, ConcatAssociative
<1>3. ASSUME s # <<>> PROVE s \o t # <<>> /\ Tail(s \o t) = Tail(s) \o t
  <2>1. s \o t # <<>>
    BY <1>3, ConcatEqualIffEmpty
  <2> DEFINE n == Len(s)
             m == Len(t)
  <2>2. n \in Nat \ {0} /\ m \in Nat
    BY <1>3, EmptySeq, LenProperties
  <2>3. /\ Tail(s) \in Seq(S) /\ Len(Tail(s)) = n - 1
        /\ \A i \in 1 .. n - 1 : Tail(s)[i] = s[i + 1]
    BY <1>3, HeadTailProperties
  <2>4. /\ Len(s \o t) = n + m
        /\ \A i \in 1 .. n + m : (s \o t)[i] = IF i <= n THEN s[i] ELSE t[i - n]
    BY ConcatProperties
  <2>5. /\ Tail(s \o t) \in Seq(S) /\ Len(Tail(s \o t)) = n + m - 1
        /\ \A i \in 1 .. n + m - 1 : Tail(s \o t)[i] = (s \o t)[i + 1]
    BY <1>1, <2>1, <2>4, HeadTailProperties
  <2>6. /\ Tail(s) \o t \in Seq(S) /\ Len(Tail(s) \o t) = n - 1 + m
        /\ \A i \in 1 .. n - 1 + m : (Tail(s) \o t)[i] =
             IF i <= n - 1 THEN Tail(s)[i] ELSE t[i - (n - 1)]
    BY <2>3, ConcatProperties
  <2> HIDE DEF n, m
  <2>7. ASSUME NEW i \in 1 .. n + m - 1
        PROVE  Tail(s \o t)[i] = (Tail(s) \o t)[i]
    <3>1. i + 1 \in 1 .. n + m /\ i \in 1 .. n - 1 + m
      BY <2>2
    <3>2. Tail(s \o t)[i] = IF i + 1 <= n THEN s[i + 1] ELSE t[i + 1 - n]
      <4>1. Tail(s \o t)[i] = (s \o t)[i + 1]
        BY <2>5
      <4>2. (s \o t)[i + 1] = IF i + 1 <= n THEN s[i + 1] ELSE t[i + 1 - n]
        BY <2>2, <2>4, <3>1
      <4> QED BY <4>1, <4>2
    <3>3. i <= n - 1 => Tail(s)[i] = s[i + 1]
      BY <2>2, <2>3
    <3>4. (i <= n - 1 <=> i + 1 <= n) /\ i - (n - 1) = i + 1 - n
      BY <2>2
    <3> QED BY <2>6, <3>1, <3>2, <3>3, <3>4
  <2>8. n - 1 + m = n + m - 1
    BY <2>2
  <2> QED BY <2>1, <2>5, <2>6, <2>7, <2>8, SeqEqual
<1> QED BY <1>1, <1>2, <1>3

(* A queue in two parts: what is pushed goes to the end of the second, which *)
(* becomes the first when that is empty; procs are run from the first.       *)
Moved(S, first, first2, second, second2) ==
  \/ first2 = first /\ second2 = second
  \/ first2 = first /\ \E p \in S : second2 = Append(second, p)
  \/ first = <<>> /\ first2 = second /\ second2 = <<>>
  \/ first # <<>> /\ first2 = Tail(first) /\ second2 = second

Stepped(S, queue, queue2) ==
  \/ queue2 = queue
  \/ \E p \in S : queue2 = Append(queue, p)
  \/ queue # <<>> /\ queue2 = Tail(queue)

LEMMA TwoParts ==
  ASSUME NEW S, NEW first \in Seq(S), NEW first2, NEW second \in Seq(S), NEW second2,
         Moved(S, first, first2, second, second2)
  PROVE  Stepped(S, first \o second, first2 \o second2)
<1> USE DEF Moved, Stepped
<1>1. /\ \A p \in S : first \o Append(second, p) = Append(first \o second, p)
      /\ first # <<>> => /\ first \o second # <<>>
                         /\ Tail(first \o second) = Tail(first) \o second
  BY Concat
<1>2. second \o <<>> = second /\ <<>> \o second = second
  BY Concat
<1>3. CASE first2 = first /\ \E p \in S : second2 = Append(second, p)
  BY <1>1, <1>3
<1>4. CASE first = <<>> /\ first2 = second /\ second2 = <<>>
  BY <1>2, <1>4
<1>5. CASE first # <<>> /\ first2 = Tail(first) /\ second2 = second
  BY <1>1, <1>5
<1> QED BY <1>3, <1>4, <1>5

Running == status = "RUNNING" /\ batch \in Seq(Proc)

(* What QueueStep is for one of the two queues.                             *)
LEMMA TickStep ==
  ASSUME Running, status' = "RUNNING", tickProcs \in Seq(Proc), QueueStep
  PROVE  Stepped(Proc, Waiting("tick", tickProcs), Waiting("tick", tickProcs)')
<1> DEFINE first == IF from = "tick" THEN batch ELSE <<>>
<1>1. /\ Waiting("tick", tickProcs) = first \o tickProcs
      /\ Waiting("tick", tickProcs)' = first' \o tickProcs'
  BY DEF Running, Waiting
<1>2. first \in Seq(Proc)
  BY EmptySeq DEF Running
<1>3. Moved(Proc, first, first', tickProcs, tickProcs')
  <2>1. CASE UNCHANGED <<batch, from, tickProcs>>
    BY <2>1 DEF Moved
  <2>2. CASE (\E p \in Proc : Pushed(tickProcs, p)) /\ UNCHANGED <<batch, from>>
    BY <2>2 DEF Pushed, Moved
  <2>3. CASE Taken("tick", tickProcs)
    BY <2>3 DEF Taken, Moved
  <2>4. CASE Taken("cfot", cfotProcs) /\ UNCHANGED tickProcs
    BY <2>4 DEF Taken, Moved
  <2>5. CASE batch # <<>> /\ batch' = Tail(batch) /\ UNCHANGED <<from, tickProcs>>
    BY <2>5 DEF Moved
  <2> QED BY <2>1, <2>2, <2>3, <2>4, <2>5 DEF QueueStep
<1> HIDE DEF first
<1> QED BY <1>1, <1>2, <1>3, TwoParts

LEMMA CfotStep ==
  ASSUME Running, status' = "RUNNING", cfotProcs \in Seq(Proc), QueueStep
  PROVE  Stepped(Proc, Waiting("cfot", cfotProcs), Waiting("cfot", cfotProcs)')
<1> DEFINE first == IF from = "cfot" THEN batch ELSE <<>>
<1>1. /\ Waiting("cfot", cfotProcs) = first \o cfotProcs
      /\ Waiting("cfot", cfotProcs)' = first' \o cfotProcs'
  BY DEF Running, Waiting
<1>2. first \in Seq(Proc)
  BY EmptySeq DEF Running
<1>3. Moved(Proc, first, first', cfotProcs, cfotProcs')
  <2>1. CASE UNCHANGED <<batch, from, cfotProcs>>
    BY <2>1 DEF Moved
  <2>2. CASE (\E p \in Proc : Pushed(cfotProcs, p)) /\ UNCHANGED <<batch, from>>
    BY <2>2 DEF Pushed, Moved
  <2>3. CASE Taken("cfot", cfotProcs)
    BY <2>3 DEF Taken, Moved
  <2>4. CASE Taken("tick", tickProcs) /\ UNCHANGED cfotProcs
    BY <2>4 DEF Taken, Moved
  <2>5. CASE batch # <<>> /\ batch' = Tail(batch) /\ UNCHANGED <<from, cfotProcs>>
    BY <2>5 DEF Moved
  <2> QED BY <2>1, <2>2, <2>3, <2>4, <2>5 DEF QueueStep
<1> HIDE DEF first
<1> QED BY <1>1, <1>2, <1>3, TwoParts

-----------------------------------------------------------------------------
(* AE.next_tick: every proc that was accepted is run once, in order, before  *)
(* those accepted after it, unless the engine stops first.                   *)
THEOREM NextTickKeepsOrder == Spec => NextTickInOrder
<1> DEFINE Q == Waiting("tick", tickProcs)
<1>1. Init => Tick!Init
  BY DEF Init, Tick!Init, Waiting, Accepting
<1>2. IInv /\ [Next]_vars => [Tick!Next]_Tick!vars
  <2> SUFFICES ASSUME IInv, [Next]_vars PROVE [Tick!Next]_Tick!vars
    OBVIOUS
  <2>1. CASE status # "RUNNING" /\ status' # "RUNNING"
    <3>1. Q = <<>> /\ Q' = <<>> /\ ~Accepting /\ ~Accepting'
      BY <2>1 DEF Waiting, Accepting
    <3> QED BY <3>1 DEF Tick!vars, Accepting
  <2>2. CASE status = "RUNNING" /\ status' # "RUNNING"
    <3>1. Q' = <<>> /\ Accepting /\ Accepting' = FALSE
      BY <2>2 DEF Waiting, Accepting
    <3> QED BY <3>1 DEF Tick!Next, Tick!Close
  <2>3. CASE status # "RUNNING" /\ status' = "RUNNING"
    <3>1. PICK p \in Proc : batch' = <<>> /\ tickProcs' = <<p>>
      BY <2>3, StartStep
    <3>2. Q' = <<p>>
      <4>1. <<p>> \in Seq(Proc) /\ <<>> \o <<p>> = <<p>>
        BY Concat
      <4> QED BY <2>3, <3>1, <4>1 DEF Waiting
    <3>3. ~Accepting /\ Accepting' = TRUE
      BY <2>3 DEF Accepting
    <3> QED BY <3>2, <3>3 DEF Tick!Next, Tick!Open
  <2>4. CASE status = "RUNNING" /\ status' = "RUNNING"
    <3>1. Stepped(Proc, Q, Q')
      BY <2>4, RunningStep, TickStep DEF IInv, TypeOK, TickTypeOK, Running
    <3>2. Accepting /\ Accepting' = Accepting
      BY <2>4 DEF Accepting
    <3> QED
      BY <3>1, <3>2 DEF Stepped, Tick!Next, Tick!Accept, Tick!Run, Tick!vars
  <2> QED BY <2>1, <2>2, <2>3, <2>4
<1> QED BY <1>1, <1>2, Invariant, PTL DEF Spec, NextTickInOrder, Tick!Spec

(* AE.call_from_other_thread: the same, for the calls of all threads.        *)
THEOREM CallFromOtherThreadKeepsOrder == Spec => CallFromOtherThreadInOrder
<1> DEFINE Q == Waiting("cfot", cfotProcs)
<1>1. Init => Cfot!Init
  BY DEF Init, Cfot!Init, Waiting, Accepting
<1>2. IInv /\ [Next]_vars => [Cfot!Next]_Cfot!vars
  <2> SUFFICES ASSUME IInv, [Next]_vars PROVE [Cfot!Next]_Cfot!vars
    OBVIOUS
  <2>1. CASE status # "RUNNING" /\ status' # "RUNNING"
    <3>1. Q = <<>> /\ Q' = <<>> /\ ~Accepting /\ ~Accepting'
      BY <2>1 DEF Waiting, Accepting
    <3> QED BY <3>1 DEF Cfot!vars, Accepting
  <2>2. CASE status = "RUNNING" /\ status' # "RUNNING"
    <3>1. Q' = <<>> /\ Accepting /\ Accepting' = FALSE
      BY <2>2 DEF Waiting, Accepting
    <3> QED BY <3>1 DEF Cfot!Next, Cfot!Close
  <2>3. CASE status # "RUNNING" /\ status' = "RUNNING"
    <3>1. batch' = <<>> /\ cfotProcs' = <<>>
      BY <2>3, StartStep
    <3>2. Q' = <<>>
      <4>1. <<>> \in Seq(Proc)
        BY EmptySeq
      <4>2. <<>> \o <<>> = <<>>
        BY <4>1, Concat
      <4> QED BY <2>3, <3>1, <4>2 DEF Waiting
    <3>3. ~Accepting /\ Accepting' = TRUE
      BY <2>3 DEF Accepting
    <3> QED BY <3>2, <3>3 DEF Cfot!Next, Cfot!Open
  <2>4. CASE status = "RUNNING" /\ status' = "RUNNING"
    <3>1. Stepped(Proc, Q, Q')
      BY <2>4, RunningStep, CfotStep DEF IInv, TypeOK, CfotTypeOK, Running
    <3>2. Accepting /\ Accepting' = Accepting
      BY <2>4 DEF Accepting
    <3> QED
      BY <3>1, <3>2 DEF Stepped, Cfot!Next, Cfot!Accept, Cfot!Run, Cfot!vars
  <2> QED BY <2>1, <2>2, <2>3, <2>4
<1> QED BY <1>1, <1>2, Invariant, PTL DEF Spec, CallFromOtherThreadInOrder, Cfot!Spec
=============================================================================
