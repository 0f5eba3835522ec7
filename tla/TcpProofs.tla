------------------------------ MODULE TcpProofs ------------------------------
(* The inductive invariant of TcpSocket, what follows from it, and the hooks *)
(* and handles as implementations of Connection and Lifetime.  Each lemma    *)
(* "...Step" of the first part shows that no step breaks one conjunct of     *)
(* TcpInv.                                                                   *)
EXTENDS TcpSocket, SequenceTheorems, TLAPS

(* What a hook adds to the history, and to the user code that runs.          *)
LEMMA CallTold ==
  ASSUME TypeOK, NEW s \in Sockets, NEW hook \in Hooks, Call(s, hook)
  PROVE  /\ told' \in [Sockets -> Seq(Hooks)]
         /\ told'[s] = Append(told[s], hook)
         /\ \A r \in Sockets \ {s} : told'[r] = told[r]
         /\ user' \in {"none", "hook", "writeBlock"}
  BY DEF TypeOK, Call

(* The first hook and the second one make the histories that ToldInv names.  *)
LEMMA FirstHook == ASSUME NEW a \in Hooks PROVE Append(<<>>, a) = <<a>>
  OBVIOUS

(* The second hook follows on_connected.                                     *)
LEMMA SecondHook ==
  ASSUME NEW a \in Hooks, NEW b \in Hooks
  PROVE  Append(<<a>>, b) = <<a, b>>
<1> DEFINE appended == Append(<<a>>, b)
           pair == <<a, b>>
<1>1. appended \in Seq(Hooks) /\ Len(appended) = 2 /\ appended[1] = a /\ appended[2] = b
  OBVIOUS
<1>2. pair \in Seq(Hooks) /\ Len(pair) = 2 /\ pair[1] = a /\ pair[2] = b
  OBVIOUS
<1>3. \A i \in 1 .. 2 : i = 1 \/ i = 2
  OBVIOUS
<1>4. appended = pair
  <2> HIDE DEF appended, pair
  <2>1. \A i \in 1 .. Len(appended) : appended[i] = pair[i]
    BY <1>1, <1>2, <1>3
  <2> QED BY <1>1, <1>2, <2>1, SeqEqual
<1> QED BY <1>4

(* The histories that hooks make, for the hooks of the code.                 *)
LEMMA TwoHooks ==
  /\ Append(<<>>, "on_connected") = <<"on_connected">>
  /\ Append(<<>>, "on_connection_error") = <<"on_connection_error">>
  /\ Append(<<"on_connected">>, "on_disconnected") = <<"on_connected", "on_disconnected">>
<1>1. "on_connected" \in Hooks /\ "on_connection_error" \in Hooks /\ "on_disconnected" \in Hooks
  BY DEF Hooks
<1> QED BY <1>1, FirstHook, SecondHook

(* The number of pending writes stays within its bound.                      *)
LEMMA WritesType ==
  ASSUME TypeOK, NEW s \in Sockets
  PROVE  /\ writes[s] < MaxWrites => [writes EXCEPT ![s] = @ + 1] \in [Sockets -> 0 .. MaxWrites]
         /\ writes[s] > 0 => [writes EXCEPT ![s] = @ - 1] \in [Sockets -> 0 .. MaxWrites]
  BY WritesAssumption DEF TypeOK

(* The three helpers keep the types of what they change.                     *)
LEMMA CloseType ==
  ASSUME TypeOK, NEW s \in Sockets, AE_CLOSE_UV_HANDLE(s)
  PROVE  /\ uv' \in [Sockets -> {"none", "open", "closing", "closed", "abort"}]
         /\ opened' \subseteq Sockets /\ reading' \subseteq Sockets
  BY DEF TypeOK, AE_CLOSE_UV_HANDLE

(* Setting a flag keeps the type of flags.                                   *)
LEMMA FlagType ==
  ASSUME TypeOK, NEW s \in Sockets, NEW f \in Flags, SetFlag(s, f)
  PROVE  flags' \in [Sockets -> SUBSET Flags]
  BY DEF TypeOK, SetFlag

(* Asking for a shutdown keeps the types of libuv's side.                    *)
LEMMA ShutdownType ==
  ASSUME TypeOK, NEW s \in Sockets, NEW f \in ShutdownFlags, StopAndShutdown(s, f)
  PROVE  /\ shutdowns' \in [Sockets -> SUBSET ShutdownFlags]
         /\ uv' \in [Sockets -> {"none", "open", "closing", "closed", "abort"}]
         /\ reading' \subseteq Sockets
<1> USE DEF TypeOK, StopAndShutdown
<1>1. CASE shutdowns[s] = {}
  <2>1. shutdowns' = [shutdowns EXCEPT ![s] = {f}] /\ {f} \in SUBSET ShutdownFlags
    BY <1>1
  <2>2. shutdowns' \in [Sockets -> SUBSET ShutdownFlags]
    BY <2>1
  <2> QED BY <1>1, <2>2
<1>2. CASE shutdowns[s] # {}
  BY <1>2
<1> QED BY <1>1, <1>2

(* Types: a second shutdown is possible, a third one is not (ShutdownInv).   *)
LEMMA TypeStep == TcpInv /\ [Next]_vars => TypeOK'
<1> SUFFICES ASSUME TcpInv, [Next]_vars PROVE TypeOK'
  OBVIOUS
<1> USE DEF TcpInv, TypeOK, Flags, ShutdownFlags, Hooks, InUser, InLoop,
        EndOpen, phaseVars, cdataVars, reqVars
<1>1. ASSUME NEW s \in Sockets, Methods(s) PROVE TypeOK'
  <2>1. ASSUME NEW t \in DestTypes, New(s, t) PROVE TypeOK'
    <3>1. ipType' \in [Sockets -> {"none", "ip", "ipv6_reference"}]
      BY <2>1, DestAssumption DEF New
    <3> QED BY <2>1, <3>1 DEF New, AE_CHECK_STATUS
  <2>2. CASE NewRefused(s)
    BY <2>2, CallTold, WritesType, CloseType, FlagType, ShutdownType DEF
         NewRefused
  <2>3. CASE send_data(s)
    BY <2>3, CallTold, WritesType, CloseType, FlagType, ShutdownType DEF
         send_data
  <2>4. CASE set_connect_timeout(s)
    BY <2>4, CallTold, WritesType, CloseType, FlagType, ShutdownType DEF
         set_connect_timeout
  <2>5. CASE close(s)
    BY <2>5, CallTold, WritesType, CloseType, FlagType, ShutdownType DEF
         close
  <2>6. CASE close_gracefully(s)
    <3>1. {"SHUTDOWN_REQUESTED"} \subseteq ShutdownFlags /\ "SHUTDOWN_REQUESTED" \in Flags
      BY DEF ShutdownFlags, Flags
    <3>2. flags' \in [Sockets -> SUBSET Flags]
      BY <2>6, <3>1, FlagType DEF close_gracefully
    <3>3. shutdowns' \in [Sockets -> SUBSET ShutdownFlags]
      <4>1. CASE s \in connected
        <5> DEFINE due == shutdowns[s] \cup {"SHUTDOWN_REQUESTED"}
        <5>1. due \in SUBSET ShutdownFlags
          BY <3>1
        <5>2. shutdowns' = [shutdowns EXCEPT ![s] = due]
          BY <2>6, <4>1 DEF close_gracefully
        <5> HIDE DEF due
        <5> QED BY <5>1, <5>2
      <4>2. CASE s \notin connected
        BY <2>6, <4>2 DEF close_gracefully
      <4> QED BY <4>1, <4>2
    <3> QED BY <2>6, <3>2, <3>3 DEF close_gracefully
  <2>7. CASE CloseGracefullyRefused(s)
    BY <2>7, CallTold, WritesType, CloseType, FlagType, ShutdownType DEF
         CloseGracefullyRefused
  <2> QED BY <1>1, <2>1, <2>2, <2>3, <2>4, <2>5, <2>6, <2>7 DEF Methods
<1>2. ASSUME NEW s \in Sockets, Callbacks(s) PROVE TypeOK'
  <2>1. CASE ConnectOk(s)
    BY <2>1, CallTold, WritesType, CloseType, FlagType, ShutdownType DEF
         ConnectOk
  <2>2. CASE ConnectError(s)
    BY <2>2, CallTold, WritesType, CloseType, FlagType, ShutdownType DEF
         ConnectError
  <2>3. CASE ReadData(s)
    BY <2>3, CallTold, WritesType, CloseType, FlagType, ShutdownType DEF
         ReadData
  <2>4. CASE ReadEof(s)
    BY <2>4, CallTold, WritesType, CloseType, FlagType, ShutdownType DEF
         ReadEof
  <2>5. CASE ReadError(s)
    BY <2>5, CallTold, WritesType, CloseType, FlagType, ShutdownType DEF
         ReadError
  <2>6. CASE WriteCallback(s)
    BY <2>6, CallTold, WritesType, CloseType, FlagType, ShutdownType DEF
         WriteCallback
  <2>7. CASE TimeoutCallback(s)
    BY <2>7, CallTold, WritesType, CloseType, FlagType, ShutdownType DEF
         TimeoutCallback
  <2>8. CASE ShutdownCallback(s)
    BY <2>8, CallTold, WritesType, CloseType, FlagType, ShutdownType DEF
         ShutdownCallback
  <2>9. CASE ae_uv_handle_close_callback(s)
    BY <2>9, CallTold, WritesType, CloseType, FlagType, ShutdownType DEF
         ae_uv_handle_close_callback
  <2> QED BY <1>2, <2>1, <2>2, <2>3, <2>4, <2>5, <2>6, <2>7, <2>8, <2>9 DEF Callbacks
<1>3. ASSUME NEW s \in Sockets, destroy(s) PROVE TypeOK'
  BY <1>3, CallTold, WritesType, CloseType, FlagType, ShutdownType DEF destroy
<1>4. CASE OtherHook \/ UserReturn
  BY <1>4 DEF OtherHook, UserReturn
<1>5. CASE ReleaseBegin \/ ReleaseEnd \/ LoopExit
  BY <1>5 DEF ReleaseBegin, ReleaseEnd, LoopExit
<1>6. CASE UNCHANGED vars
  BY <1>6 DEF vars
<1> QED BY <1>1, <1>2, <1>3, <1>4, <1>5, <1>6 DEF Next

(* Whoever closes a handle or asserts a shutdown finds it open, and free.    *)
LEMMA AbortStep == TcpInv /\ [Next]_vars => NeverAborts'
<1> SUFFICES ASSUME TcpInv, [Next]_vars PROVE NeverAborts'
  OBVIOUS
<1> USE DEF TcpInv, TypeOK, NeverAborts, HandleIsOpen, TimerOnlyConnecting,
        ShutdownNotReading, LifeInv, InUser, InLoop, AE_CLOSE_UV_HANDLE,
        StopAndShutdown, SetFlag, Call, EndOpen, phaseVars, cdataVars,
        reqVars
<1>1. ASSUME NEW s \in Sockets, Methods(s) PROVE NeverAborts'
  BY <1>1 DEF Methods, New, NewRefused, send_data, set_connect_timeout,
         close, close_gracefully, CloseGracefullyRefused, AE_CHECK_STATUS
<1>2. ASSUME NEW s \in Sockets, Callbacks(s) PROVE NeverAborts'
  <2>1. CASE ConnectOk(s)
    BY <2>1 DEF ConnectOk
  <2>2. CASE ConnectError(s)
    BY <2>2 DEF ConnectError
  <2>3. CASE ReadEof(s)
    BY <2>3 DEF ReadEof
  <2>4. CASE ReadError(s)
    BY <2>4 DEF ReadError
  <2>5. CASE TimeoutCallback(s)
    BY <2>5 DEF TimeoutCallback
  <2>6. CASE ShutdownCallback(s)
    BY <2>6 DEF ShutdownCallback
  <2> QED BY <1>2, <2>1, <2>2, <2>3, <2>4, <2>5, <2>6 DEF Callbacks, ReadData, WriteCallback,
         ae_uv_handle_close_callback
<1>3. ASSUME NEW s \in Sockets, destroy(s) PROVE NeverAborts'
  BY <1>3 DEF destroy
<1>4. CASE OtherHook \/ UserReturn
  BY <1>4 DEF OtherHook, UserReturn
<1>5. CASE ReleaseBegin \/ ReleaseEnd \/ LoopExit
  BY <1>5 DEF ReleaseBegin, ReleaseEnd, LoopExit
<1>6. CASE UNCHANGED vars
  BY <1>6 DEF vars
<1> QED BY <1>1, <1>2, <1>3, <1>4, <1>5, <1>6 DEF Next

(* Every uv_close comes with the pointer set to NULL.                        *)
LEMMA OpenStep == TcpInv /\ [Next]_vars => HandleIsOpen'
<1> SUFFICES ASSUME TcpInv, [Next]_vars PROVE HandleIsOpen'
  OBVIOUS
<1> USE DEF TcpInv, TypeOK, HandleIsOpen, TimerOnlyConnecting,
        ShutdownNotReading, LifeInv, InUser, InLoop, AE_CLOSE_UV_HANDLE,
        StopAndShutdown, SetFlag, Call, EndOpen, phaseVars, cdataVars,
        reqVars
<1>1. ASSUME NEW s \in Sockets, Methods(s) PROVE HandleIsOpen'
  BY <1>1 DEF Methods, New, NewRefused, send_data, set_connect_timeout,
         close, close_gracefully, CloseGracefullyRefused, AE_CHECK_STATUS
<1>2. ASSUME NEW s \in Sockets, Callbacks(s) PROVE HandleIsOpen'
  BY <1>2 DEF Callbacks, ConnectOk, ConnectError, ReadData, ReadEof,
         ReadError, WriteCallback, TimeoutCallback, ShutdownCallback,
         ae_uv_handle_close_callback
<1>3. ASSUME NEW s \in Sockets, destroy(s) PROVE HandleIsOpen'
  BY <1>3 DEF destroy
<1>4. CASE OtherHook \/ UserReturn
  BY <1>4 DEF OtherHook, UserReturn
<1>5. CASE ReleaseBegin \/ ReleaseEnd \/ LoopExit
  BY <1>5 DEF ReleaseBegin, ReleaseEnd, LoopExit
<1>6. CASE UNCHANGED vars
  BY <1>6 DEF vars
<1> QED BY <1>1, <1>2, <1>3, <1>4, <1>5, <1>6 DEF Next

(* An object leaves AE_handles in the step after which nothing is due.       *)
LEMMA StoredStep == TcpInv /\ [Next]_vars => StoredExactly'
<1> SUFFICES ASSUME TcpInv, [Next]_vars PROVE StoredExactly'
  OBVIOUS
<1> USE DEF TcpInv, TypeOK, StoredExactly, Unreached, HandleIsOpen,
        TimerOnlyConnecting, LifeInv, InUser, InLoop, AE_CLOSE_UV_HANDLE,
        StopAndShutdown, SetFlag, Call, EndOpen, phaseVars, cdataVars,
        reqVars
<1>1. ASSUME NEW s \in Sockets, Methods(s) PROVE StoredExactly'
  BY <1>1 DEF Methods, New, NewRefused, send_data, set_connect_timeout,
         close, close_gracefully, CloseGracefullyRefused, AE_CHECK_STATUS
<1>2. ASSUME NEW s \in Sockets, Callbacks(s) PROVE StoredExactly'
  <2>1. CASE ConnectOk(s)
    BY <2>1 DEF ConnectOk
  <2>2. CASE ConnectError(s)
    BY <2>2 DEF ConnectError
  <2>3. CASE ReadEof(s)
    BY <2>3 DEF ReadEof
  <2>4. CASE ReadError(s)
    BY <2>4 DEF ReadError
  <2>5. CASE TimeoutCallback(s)
    BY <2>5 DEF TimeoutCallback
  <2>6. CASE ShutdownCallback(s)
    <3>1. CASE s \in opened /\ uv[s] # "closing"
      BY <2>6, <3>1 DEF ShutdownCallback, ShutdownInv
    <3>2. CASE ~(s \in opened /\ uv[s] # "closing")
      BY <2>6, <3>2 DEF ShutdownCallback
    <3> QED BY <3>1, <3>2
  <2> QED BY <1>2, <2>1, <2>2, <2>3, <2>4, <2>5, <2>6 DEF Callbacks, ReadData, WriteCallback,
         ae_uv_handle_close_callback
<1>3. ASSUME NEW s \in Sockets, destroy(s) PROVE StoredExactly'
  BY <1>3 DEF destroy
<1>4. CASE OtherHook \/ UserReturn
  BY <1>4 DEF OtherHook, UserReturn
<1>5. CASE ReleaseBegin \/ ReleaseEnd \/ LoopExit
  BY <1>5 DEF ReleaseBegin, ReleaseEnd, LoopExit
<1>6. CASE UNCHANGED vars
  BY <1>6 DEF vars
<1> QED BY <1>1, <1>2, <1>3, <1>4, <1>5, <1>6 DEF Next

(* Every end of connecting cancels the timer.                                *)
LEMMA TimerStep == TcpInv /\ [Next]_vars => TimerOnlyConnecting'
<1> SUFFICES ASSUME TcpInv, [Next]_vars PROVE TimerOnlyConnecting'
  OBVIOUS
<1> USE DEF TcpInv, TypeOK, TimerOnlyConnecting, LifeInv, InUser, InLoop,
        AE_CLOSE_UV_HANDLE, StopAndShutdown, SetFlag, Call, EndOpen,
        phaseVars, cdataVars, reqVars
<1>1. ASSUME NEW s \in Sockets, Methods(s) PROVE TimerOnlyConnecting'
  BY <1>1 DEF Methods, New, NewRefused, send_data, set_connect_timeout,
         close, close_gracefully, CloseGracefullyRefused, AE_CHECK_STATUS
<1>2. ASSUME NEW s \in Sockets, Callbacks(s) PROVE TimerOnlyConnecting'
  <2>1. CASE ConnectOk(s)
    BY <2>1 DEF ConnectOk
  <2>2. CASE ConnectError(s)
    BY <2>2 DEF ConnectError
  <2>3. CASE ReadEof(s)
    BY <2>3 DEF ReadEof
  <2>4. CASE ReadError(s)
    BY <2>4 DEF ReadError
  <2>5. CASE TimeoutCallback(s)
    BY <2>5 DEF TimeoutCallback
  <2>6. CASE ShutdownCallback(s)
    <3>1. CASE s \in opened /\ uv[s] # "closing"
      BY <2>6, <3>1 DEF ShutdownCallback, ShutdownInv
    <3>2. CASE ~(s \in opened /\ uv[s] # "closing")
      BY <2>6, <3>2 DEF ShutdownCallback
    <3> QED BY <3>1, <3>2
  <2> QED BY <1>2, <2>1, <2>2, <2>3, <2>4, <2>5, <2>6 DEF Callbacks, ReadData, WriteCallback,
         ae_uv_handle_close_callback
<1>3. ASSUME NEW s \in Sockets, destroy(s) PROVE TimerOnlyConnecting'
  BY <1>3 DEF destroy
<1>4. CASE OtherHook \/ UserReturn
  BY <1>4 DEF OtherHook, UserReturn
<1>5. CASE ReleaseBegin \/ ReleaseEnd \/ LoopExit
  BY <1>5 DEF ReleaseBegin, ReleaseEnd, LoopExit
<1>6. CASE UNCHANGED vars
  BY <1>6 DEF vars
<1> QED BY <1>1, <1>2, <1>3, <1>4, <1>5, <1>6 DEF Next

(* Every uv_shutdown comes with a uv_read_stop, of a connected socket.       *)
LEMMA ShutdownReadStep == TcpInv /\ [Next]_vars => ShutdownNotReading'
<1> SUFFICES ASSUME TcpInv, [Next]_vars PROVE ShutdownNotReading'
  OBVIOUS
<1> USE DEF TcpInv, TypeOK, ShutdownNotReading, LifeInv, ShutdownInv,
        InUser, InLoop, AE_CLOSE_UV_HANDLE, StopAndShutdown, SetFlag, Call,
        EndOpen, phaseVars, cdataVars, reqVars
<1>1. ASSUME NEW s \in Sockets, Methods(s) PROVE ShutdownNotReading'
  <2>1. CASE close_gracefully(s)
    BY <2>1 DEF close_gracefully
  <2>2. CASE (\E t \in DestTypes : New(s, t)) \/ NewRefused(s)
    BY <2>2 DEF New, NewRefused, AE_CHECK_STATUS
  <2>3. CASE send_data(s) \/ set_connect_timeout(s) \/ close(s) \/ CloseGracefullyRefused(s)
    BY <2>3 DEF send_data, set_connect_timeout, close, CloseGracefullyRefused
  <2> QED BY <1>1, <2>1, <2>2, <2>3 DEF Methods
<1>2. ASSUME NEW s \in Sockets, Callbacks(s) PROVE ShutdownNotReading'
  <2>1. CASE ConnectOk(s)
    BY <2>1 DEF ConnectOk
  <2>2. CASE ConnectError(s)
    BY <2>2 DEF ConnectError
  <2>3. CASE ReadEof(s)
    BY <2>3 DEF ReadEof
  <2>4. CASE ReadError(s)
    BY <2>4 DEF ReadError
  <2>5. CASE TimeoutCallback(s)
    BY <2>5 DEF TimeoutCallback
  <2>6. CASE ShutdownCallback(s)
    BY <2>6 DEF ShutdownCallback
  <2> QED BY <1>2, <2>1, <2>2, <2>3, <2>4, <2>5, <2>6 DEF Callbacks, ReadData, WriteCallback,
         ae_uv_handle_close_callback
<1>3. ASSUME NEW s \in Sockets, destroy(s) PROVE ShutdownNotReading'
  BY <1>3 DEF destroy
<1>4. CASE OtherHook \/ UserReturn
  BY <1>4 DEF OtherHook, UserReturn
<1>5. CASE ReleaseBegin \/ ReleaseEnd \/ LoopExit
  BY <1>5 DEF ReleaseBegin, ReleaseEnd, LoopExit
<1>6. CASE UNCHANGED vars
  BY <1>6 DEF vars
<1> QED BY <1>1, <1>2, <1>3, <1>4, <1>5, <1>6 DEF Next

(* A socket that timed out is closed, so it cannot be connected any more.    *)
LEMMA TimeoutStep == TcpInv /\ [Next]_vars => TimeoutIsError'
<1> SUFFICES ASSUME TcpInv, [Next]_vars PROVE TimeoutIsError'
  OBVIOUS
<1> USE DEF TcpInv, TypeOK, TimeoutIsError, HandleIsOpen,
        TimerOnlyConnecting, LifeInv, InUser, InLoop, AE_CLOSE_UV_HANDLE,
        StopAndShutdown, SetFlag, Call, EndOpen, phaseVars, cdataVars,
        reqVars
<1>1. ASSUME NEW s \in Sockets, Methods(s) PROVE TimeoutIsError'
  <2>1. ASSUME NEW t \in DestTypes, New(s, t) PROVE TimeoutIsError'
    BY <2>1 DEF New, AE_CHECK_STATUS
  <2>2. CASE NewRefused(s)
    BY <2>2 DEF NewRefused
  <2>3. CASE close(s)
    BY <2>3 DEF close
  <2>4. CASE close_gracefully(s)
    BY <2>4 DEF close_gracefully
  <2> QED BY <1>1, <2>1, <2>2, <2>3, <2>4 DEF Methods, send_data, set_connect_timeout,
         CloseGracefullyRefused
<1>2. ASSUME NEW s \in Sockets, Callbacks(s) PROVE TimeoutIsError'
  <2>1. CASE ConnectOk(s)
    BY <2>1 DEF ConnectOk
  <2>2. CASE ConnectError(s)
    BY <2>2 DEF ConnectError
  <2>3. CASE ReadEof(s)
    BY <2>3 DEF ReadEof
  <2>4. CASE ReadError(s)
    BY <2>4 DEF ReadError
  <2>5. CASE TimeoutCallback(s)
    BY <2>5 DEF TimeoutCallback
  <2>6. CASE ShutdownCallback(s)
    BY <2>6 DEF ShutdownCallback
  <2> QED BY <1>2, <2>1, <2>2, <2>3, <2>4, <2>5, <2>6 DEF Callbacks, ReadData, WriteCallback,
         ae_uv_handle_close_callback
<1>3. ASSUME NEW s \in Sockets, destroy(s) PROVE TimeoutIsError'
  BY <1>3 DEF destroy
<1>4. CASE OtherHook \/ UserReturn
  BY <1>4 DEF OtherHook, UserReturn
<1>5. CASE ReleaseBegin \/ ReleaseEnd \/ LoopExit
  BY <1>5 DEF ReleaseBegin, ReleaseEnd, LoopExit
<1>6. CASE UNCHANGED vars
  BY <1>6 DEF vars
<1> QED BY <1>1, <1>2, <1>3, <1>4, <1>5, <1>6 DEF Next

(* When the iteration of release_loop ends, it has visited what was open.    *)
LEMMA DestroyedStep == TcpInv /\ [Next]_vars => AllDestroyed'
<1> SUFFICES ASSUME TcpInv, [Next]_vars PROVE AllDestroyed'
  OBVIOUS
<1> USE DEF TcpInv, TypeOK, AllDestroyed, StoredExactly, DestroyInv, InUser,
        InLoop, AE_CLOSE_UV_HANDLE, StopAndShutdown, SetFlag, Call, EndOpen,
        phaseVars, cdataVars, reqVars
<1>1. ASSUME NEW s \in Sockets, Methods(s) PROVE AllDestroyed'
  BY <1>1 DEF Methods, New, NewRefused, send_data, set_connect_timeout,
         close, close_gracefully, CloseGracefullyRefused, AE_CHECK_STATUS
<1>2. ASSUME NEW s \in Sockets, Callbacks(s) PROVE AllDestroyed'
  BY <1>2 DEF Callbacks, ConnectOk, ConnectError, ReadData, ReadEof,
         ReadError, WriteCallback, TimeoutCallback, ShutdownCallback,
         ae_uv_handle_close_callback
<1>3. ASSUME NEW s \in Sockets, destroy(s) PROVE AllDestroyed'
  BY <1>3 DEF destroy
<1>4. CASE OtherHook \/ UserReturn
  BY <1>4 DEF OtherHook, UserReturn
<1>5. CASE ReleaseBegin \/ ReleaseEnd \/ LoopExit
  BY <1>5 DEF ReleaseBegin, ReleaseEnd, LoopExit
<1>6. CASE UNCHANGED vars
  BY <1>6 DEF vars
<1> QED BY <1>1, <1>2, <1>3, <1>4, <1>5, <1>6 DEF Next

(* No step leaves the life of a socket.                                      *)
LEMMA LifeStep == TcpInv /\ [Next]_vars => LifeInv'
<1> SUFFICES ASSUME TcpInv, [Next]_vars PROVE LifeInv'
  OBVIOUS
<1> USE DEF TcpInv, TypeOK, LifeInv, HandleIsOpen, StoredExactly, Unreached,
        TimerOnlyConnecting, ShutdownNotReading, InUser, InLoop,
        AE_CLOSE_UV_HANDLE, StopAndShutdown, SetFlag, Call, EndOpen,
        phaseVars, cdataVars, reqVars
<1>1. ASSUME NEW s \in Sockets, Methods(s) PROVE LifeInv'
  <2>1. ASSUME NEW t \in DestTypes, New(s, t) PROVE LifeInv'
    <3>1. t = "ip" \/ t = "ipv6_reference"
      BY DestAssumption
    <3>2. ipType'[s] = t /\ \A r \in Sockets \ {s} : ipType'[r] = ipType[r]
      BY <2>1 DEF New
    <3>3. s \notin connected \cup reading \cup connectReqs \cup opened
      BY <2>1 DEF New
    <3> QED BY <2>1, <3>1, <3>2, <3>3 DEF New, AE_CHECK_STATUS
  <2>2. CASE NewRefused(s)
    BY <2>2 DEF NewRefused
  <2>3. CASE send_data(s) \/ set_connect_timeout(s)
    BY <2>3 DEF send_data, set_connect_timeout
  <2>4. CASE close(s)
    <3>1. CASE s \in connected
      BY <2>4, <3>1 DEF close
    <3>2. CASE s \notin connected
      BY <2>4, <3>2 DEF close
    <3> QED BY <3>1, <3>2
  <2>5. CASE close_gracefully(s)
    <3>1. uv[s] = "open"
      BY <2>5 DEF close_gracefully
    <3>2. reading' \subseteq reading /\ (s \in connected => s \notin reading')
      BY <2>5 DEF close_gracefully
    <3>3. \A r \in Sockets \ {s} : flags'[r] = flags[r]
      BY <2>5 DEF close_gracefully
    <3>4. "EOF_RECEIVED" \in flags'[s] => "EOF_RECEIVED" \in flags[s]
      BY <2>5 DEF close_gracefully
    <3> QED BY <2>5, <3>1, <3>2, <3>3, <3>4 DEF close_gracefully
  <2>6. CASE CloseGracefullyRefused(s)
    BY <2>6 DEF CloseGracefullyRefused
  <2> QED BY <1>1, <2>1, <2>2, <2>3, <2>4, <2>5, <2>6 DEF Methods
<1>2. ASSUME NEW s \in Sockets, Callbacks(s) PROVE LifeInv'
  <2>1. CASE ConnectOk(s)
    <3>1. CASE "SHUTDOWN_REQUESTED" \in flags[s]
      BY <2>1, <3>1 DEF ConnectOk
    <3>2. CASE "SHUTDOWN_REQUESTED" \notin flags[s]
      BY <2>1, <3>2 DEF ConnectOk, ShutdownFlags
    <3> QED BY <3>1, <3>2
  <2>2. CASE ConnectError(s)
    BY <2>2 DEF ConnectError
  <2>3. CASE ReadEof(s)
    BY <2>3 DEF ReadEof
  <2>4. CASE ReadError(s)
    BY <2>4 DEF ReadError
  <2>5. CASE TimeoutCallback(s)
    BY <2>5 DEF TimeoutCallback
  <2>6. CASE ShutdownCallback(s)
    BY <2>6 DEF ShutdownCallback
  <2> QED BY <1>2, <2>1, <2>2, <2>3, <2>4, <2>5, <2>6 DEF Callbacks, ReadData, WriteCallback,
         ae_uv_handle_close_callback
<1>3. ASSUME NEW s \in Sockets, destroy(s) PROVE LifeInv'
  <2>1. CASE s \in opened \cap connected
    BY <1>3, <2>1 DEF destroy
  <2>2. CASE s \in opened \ connected
    BY <1>3, <2>2 DEF destroy
  <2>3. CASE s \notin opened
    BY <1>3, <2>3 DEF destroy
  <2> QED BY <2>1, <2>2, <2>3
<1>4. CASE OtherHook \/ UserReturn
  BY <1>4 DEF OtherHook, UserReturn
<1>5. CASE ReleaseBegin \/ ReleaseEnd \/ LoopExit
  BY <1>5 DEF ReleaseBegin, ReleaseEnd, LoopExit
<1>6. CASE UNCHANGED vars
  BY <1>6 DEF vars
<1> QED BY <1>1, <1>2, <1>3, <1>4, <1>5, <1>6 DEF Next

(* Each uv_shutdown sets a flag that was not set.                            *)
LEMMA ShutdownStep == TcpInv /\ [Next]_vars => ShutdownInv'
<1> SUFFICES ASSUME TcpInv, [Next]_vars PROVE ShutdownInv'
  OBVIOUS
<1> USE DEF TcpInv, TypeOK, ShutdownInv, ShutdownNotReading, LifeInv,
        InUser, InLoop, AE_CLOSE_UV_HANDLE, StopAndShutdown, SetFlag, Call,
        EndOpen, phaseVars, cdataVars, reqVars
<1>1. ASSUME NEW s \in Sockets, Methods(s) PROVE ShutdownInv'
  <2>1. ASSUME NEW t \in DestTypes, New(s, t) PROVE ShutdownInv'
    BY <2>1 DEF New, AE_CHECK_STATUS
  <2>2. CASE NewRefused(s)
    BY <2>2 DEF NewRefused
  <2>3. CASE close(s)
    BY <2>3 DEF close
  <2>4. CASE close_gracefully(s)
    BY <2>4 DEF close_gracefully
  <2> QED BY <1>1, <2>1, <2>2, <2>3, <2>4 DEF Methods, send_data, set_connect_timeout,
         CloseGracefullyRefused
<1>2. ASSUME NEW s \in Sockets, Callbacks(s) PROVE ShutdownInv'
  <2>1. CASE ConnectOk(s)
    BY <2>1 DEF ConnectOk
  <2>2. CASE ConnectError(s)
    BY <2>2 DEF ConnectError
  <2>3. CASE ReadEof(s)
    BY <2>3 DEF ReadEof
  <2>4. CASE ReadError(s)
    BY <2>4 DEF ReadError
  <2>5. CASE TimeoutCallback(s)
    BY <2>5 DEF TimeoutCallback
  <2>6. CASE ShutdownCallback(s)
    BY <2>6 DEF ShutdownCallback
  <2> QED BY <1>2, <2>1, <2>2, <2>3, <2>4, <2>5, <2>6 DEF Callbacks, ReadData, WriteCallback,
         ae_uv_handle_close_callback
<1>3. ASSUME NEW s \in Sockets, destroy(s) PROVE ShutdownInv'
  <2>1. connected' = connected /\ shutdowns' = shutdowns
    BY <1>3 DEF destroy
  <2>2. \A r \in Sockets : flags[r] \subseteq flags'[r]
    BY <1>3 DEF destroy
  <2> QED BY <2>1, <2>2
<1>4. CASE OtherHook \/ UserReturn
  BY <1>4 DEF OtherHook, UserReturn
<1>5. CASE ReleaseBegin \/ ReleaseEnd \/ LoopExit
  BY <1>5 DEF ReleaseBegin, ReleaseEnd, LoopExit
<1>6. CASE UNCHANGED vars
  BY <1>6 DEF vars
<1> QED BY <1>1, <1>2, <1>3, <1>4, <1>5, <1>6 DEF Next

(* release_loop starts with every open socket to visit; its hooks open none. *)
LEMMA DestroyStep == TcpInv /\ [Next]_vars => DestroyInv'
<1> SUFFICES ASSUME TcpInv, [Next]_vars PROVE DestroyInv'
  OBVIOUS
<1> USE DEF TcpInv, TypeOK, DestroyInv, StoredExactly, InUser, InLoop,
        AE_CLOSE_UV_HANDLE, StopAndShutdown, SetFlag, Call, EndOpen,
        phaseVars, cdataVars, reqVars
<1>1. ASSUME NEW s \in Sockets, Methods(s) PROVE DestroyInv'
  BY <1>1 DEF Methods, New, NewRefused, send_data, set_connect_timeout,
         close, close_gracefully, CloseGracefullyRefused, AE_CHECK_STATUS
<1>2. ASSUME NEW s \in Sockets, Callbacks(s) PROVE DestroyInv'
  BY <1>2 DEF Callbacks, ConnectOk, ConnectError, ReadData, ReadEof,
         ReadError, WriteCallback, TimeoutCallback, ShutdownCallback,
         ae_uv_handle_close_callback
<1>3. ASSUME NEW s \in Sockets, destroy(s) PROVE DestroyInv'
  BY <1>3 DEF destroy
<1>4. CASE OtherHook \/ UserReturn
  BY <1>4 DEF OtherHook, UserReturn
<1>5. CASE ReleaseBegin \/ ReleaseEnd \/ LoopExit
  BY <1>5 DEF ReleaseBegin, ReleaseEnd, LoopExit
<1>6. CASE UNCHANGED vars
  BY <1>6 DEF vars
<1> QED BY <1>1, <1>2, <1>3, <1>4, <1>5, <1>6 DEF Next

(* The end of a connection: the second hook.                                 *)
LEMMA DisconnectTold ==
  ASSUME TcpInv, NEW s \in Sockets, s \in connected \cap opened,
         AE_CLOSE_UV_HANDLE(s), Call(s, "on_disconnected"),
         connected' = connected, connectReqs' = connectReqs, ipType' = ipType
  PROVE  ToldInv'
<1> USE DEF TcpInv, LifeInv, HandleIsOpen, ToldInv, ToldAs, Unreached
<1>1. TypeOK /\ "on_disconnected" \in Hooks
  BY DEF Hooks
<1>2. told'[s] = Append(told[s], "on_disconnected")
  BY <1>1, CallTold
<1>3. \A r \in Sockets \ {s} : told'[r] = told[r]
  BY <1>1, CallTold
<1>4. told'[s] = <<"on_connected", "on_disconnected">>
  BY <1>2, TwoHooks
<1>5. /\ opened' = opened \ {s} /\ uv'[s] # "none"
      /\ \A r \in Sockets \ {s} : uv'[r] = uv[r]
  BY DEF AE_CLOSE_UV_HANDLE, TypeOK
<1>6. ToldAs(s)'
  BY <1>4, <1>5
<1>7. ASSUME NEW r \in Sockets \ {s} PROVE ToldAs(r)'
  BY <1>3, <1>5, <1>7
<1> QED BY <1>6, <1>7

(* The end of connecting: the first hook.                                    *)
LEMMA OutcomeTold ==
  ASSUME TcpInv, NEW s \in Sockets, s \in connectReqs, connectReqs' = connectReqs \ {s},
         \/ /\ connected' = connected \cup {s} /\ Call(s, "on_connected")
            /\ opened' = opened /\ s \in opened
         \/ /\ connected' = connected /\ Call(s, "on_connection_error")
            /\ opened' = opened \ {s},
         uv'[s] # "none", \A r \in Sockets \ {s} : uv'[r] = uv[r],
         ipType' = ipType
  PROVE  ToldInv'
<1> USE DEF TcpInv, LifeInv, ToldInv, ToldAs, Unreached
<1>1. TypeOK /\ "on_connected" \in Hooks /\ "on_connection_error" \in Hooks
  BY DEF Hooks
<1>2. \A r \in Sockets \ {s} : told'[r] = told[r]
  BY <1>1, CallTold
<1>3. told[s] = <<>> /\ s \notin connected
  OBVIOUS
<1>4. ToldAs(s)'
  <2>1. CASE connected' = connected \cup {s} /\ Call(s, "on_connected") /\ opened' = opened /\ s \in opened
    <3>1. told'[s] = <<"on_connected">>
      BY <1>1, <1>3, <2>1, CallTold, TwoHooks
    <3> QED BY <2>1, <3>1
  <2>2. CASE connected' = connected /\ Call(s, "on_connection_error") /\ opened' = opened \ {s}
    <3>1. told'[s] = <<"on_connection_error">>
      BY <1>1, <1>3, <2>2, CallTold, TwoHooks
    <3> QED BY <1>3, <2>2, <3>1
  <2> QED BY <2>1, <2>2
<1>5. ASSUME NEW r \in Sockets \ {s} PROVE ToldAs(r)'
  BY <1>2, <1>5
<1> QED BY <1>4, <1>5

(* Every hook is called in the step that changes what the socket is.         *)
LEMMA ToldStep == TcpInv /\ [Next]_vars => ToldInv'
<1> SUFFICES ASSUME TcpInv, [Next]_vars PROVE ToldInv'
  OBVIOUS
<1> USE DEF phaseVars, cdataVars, reqVars
<1>1. ASSUME UNCHANGED <<told, connected, connectReqs, ipType>>,
             \A r \in Sockets : (r \in opened' => r \in opened) /\ (uv'[r] = "none" => uv[r] = "none"),
             \A r \in Sockets : r \in connected => (r \in opened' <=> r \in opened)
      PROVE  ToldInv'
  BY <1>1 DEF TcpInv, ToldInv, ToldAs, Unreached
<1>2. ASSUME NEW s \in Sockets, EndOpen(s), s \in opened PROVE ToldInv'
  <2>1. CASE s \in connected
    BY <1>2, <2>1, DisconnectTold DEF EndOpen
  <2>2. CASE s \notin connected
    BY <1>1, <1>2, <2>2 DEF EndOpen, AE_CLOSE_UV_HANDLE, TcpInv, TypeOK
  <2> QED BY <2>1, <2>2
<1>3. ASSUME NEW s \in Sockets, Methods(s) PROVE ToldInv'
  <2>1. ASSUME NEW t \in DestTypes, New(s, t) PROVE ToldInv'
    BY <2>1 DEF New, TcpInv, TypeOK, LifeInv, ToldInv, ToldAs, Unreached
  <2>2. CASE close(s)
    BY <1>2, <2>2 DEF close
  <2>3. CASE NewRefused(s)
    BY <1>1, <2>3 DEF NewRefused, TcpInv, TypeOK
  <2>4. CASE send_data(s) \/ set_connect_timeout(s) \/ close_gracefully(s) \/ CloseGracefullyRefused(s)
    BY <1>1, <2>4 DEF send_data, set_connect_timeout, close_gracefully,
           CloseGracefullyRefused
  <2> QED BY <1>3, <2>1, <2>2, <2>3, <2>4 DEF Methods
<1>4. ASSUME NEW s \in Sockets, Callbacks(s) PROVE ToldInv'
  <2>1. CASE ConnectOk(s)
    <3>1. uv'[s] # "none" /\ \A r \in Sockets \ {s} : uv'[r] = uv[r]
      BY <2>1 DEF ConnectOk, StopAndShutdown, TcpInv, TypeOK
    <3>2. s \in opened
      BY <2>1 DEF ConnectOk, TcpInv, HandleIsOpen
    <3> QED BY <2>1, <3>1, <3>2, OutcomeTold DEF ConnectOk
  <2>2. CASE ConnectError(s)
    <3>1. uv'[s] # "none" /\ \A r \in Sockets \ {s} : uv'[r] = uv[r]
      BY <2>2 DEF ConnectError, AE_CLOSE_UV_HANDLE, TcpInv, TypeOK, LifeInv
    <3>2. opened' = opened \ {s}
      BY <2>2 DEF ConnectError, AE_CLOSE_UV_HANDLE, TcpInv, HandleIsOpen
    <3> QED BY <2>2, <3>1, <3>2, OutcomeTold DEF ConnectError
  <2>3. CASE ReadError(s)
    BY <2>3, DisconnectTold DEF ReadError, TcpInv, LifeInv
  <2>4. CASE ShutdownCallback(s)
    <3>1. s \in connected
      BY <2>4 DEF ShutdownCallback, TcpInv, ShutdownInv
    <3>2. CASE s \in opened /\ uv[s] # "closing"
      BY <2>4, <3>1, <3>2, DisconnectTold DEF ShutdownCallback
    <3>3. CASE ~(s \in opened /\ uv[s] # "closing")
      BY <1>1, <2>4, <3>3 DEF ShutdownCallback
    <3> QED BY <3>2, <3>3
  <2>5. CASE TimeoutCallback(s)
    BY <1>1, <2>5 DEF TimeoutCallback, AE_CLOSE_UV_HANDLE, TcpInv, TypeOK,
           TimerOnlyConnecting
  <2>6. CASE ReadEof(s)
    BY <1>1, <2>6 DEF ReadEof, StopAndShutdown, TcpInv, TypeOK
  <2>7. CASE ReadData(s) \/ WriteCallback(s)
    BY <1>1, <2>7 DEF ReadData, WriteCallback
  <2>8. CASE ae_uv_handle_close_callback(s)
    BY <1>1, <2>8 DEF ae_uv_handle_close_callback, TcpInv, TypeOK
  <2> QED BY <1>4, <2>1, <2>2, <2>3, <2>4, <2>5, <2>6, <2>7, <2>8 DEF Callbacks
<1>5. ASSUME NEW s \in Sockets, destroy(s) PROVE ToldInv'
  BY <1>1, <1>2, <1>5 DEF destroy
<1>6. CASE OtherHook \/ UserReturn \/ ReleaseBegin \/ ReleaseEnd \/ LoopExit
  BY <1>1, <1>6 DEF OtherHook, UserReturn, ReleaseBegin, ReleaseEnd, LoopExit
<1>7. CASE UNCHANGED vars
  BY <1>1, <1>7 DEF vars
<1> QED BY <1>3, <1>4, <1>5, <1>6, <1>7 DEF Next

(* Requests start on open handles, closes keep them due, and a handle is     *)
(* only freed when nothing of it is due.                                     *)
LEMMA UnderwayStep == TcpInv /\ [Next]_vars => UnderwayInv'
<1> SUFFICES ASSUME TcpInv, [Next]_vars PROVE UnderwayInv'
  OBVIOUS
<1> USE DEF TcpInv, TypeOK, UnderwayInv, Underway, phaseVars, cdataVars, reqVars
<1>1. NeverAborts'
  BY AbortStep
<1>2. ASSUME UNCHANGED uv, Underway' \subseteq Underway \cup {s \in Sockets : uv[s] = "open"}
      PROVE  UnderwayInv'
  BY <1>2
<1>3. ASSUME NEW s \in Sockets, AE_CLOSE_UV_HANDLE(s), UNCHANGED writes,
             connectReqs' \subseteq connectReqs,
             \A r \in Sockets : shutdowns'[r] \subseteq shutdowns[r]
      PROVE  UnderwayInv'
  BY <1>1, <1>3 DEF AE_CLOSE_UV_HANDLE, NeverAborts
<1>4. ASSUME NEW s \in Sockets, NEW f, StopAndShutdown(s, f), UNCHANGED writes,
             connectReqs' \subseteq connectReqs, uv[s] = "open"
      PROVE  UnderwayInv'
  <2>1. /\ shutdowns[s] = {} /\ uv' = uv
        /\ shutdowns' = [shutdowns EXCEPT ![s] = {f}]
    BY <1>1, <1>4 DEF StopAndShutdown, NeverAborts
  <2>2. \A r \in Sockets \ {s} : shutdowns'[r] = shutdowns[r]
    BY <2>1
  <2>3. \A r \in Sockets : r \in Underway' => r \in Underway \/ r = s
    BY <1>4, <2>2
  <2>4. Underway' \subseteq Sockets
    BY <1>4
  <2> HIDE DEF Underway
  <2> QED BY <1>2, <1>4, <2>1, <2>3, <2>4
<1>5. ASSUME NEW s \in Sockets, Methods(s) PROVE UnderwayInv'
  <2>1. CASE (\E t \in DestTypes : New(s, t)) \/ NewRefused(s)
    <3>1. uv'[s] \in {"open", "closing"} /\ \A r \in Sockets \ {s} : uv'[r] = uv[r]
      BY <2>1 DEF New, NewRefused
    <3>2. Underway' \subseteq Underway \cup {s}
      BY <2>1 DEF New, NewRefused
    <3>3. \A r \in Underway : uv[r] \in {"open", "closing"} /\ r \in Sockets
      OBVIOUS
    <3> HIDE DEF Underway
    <3> QED BY <3>1, <3>2, <3>3 DEF UnderwayInv
  <2>2. CASE close(s)
    BY <1>3, <2>2 DEF close, EndOpen
  <2>3. CASE send_data(s) \/ close_gracefully(s)
    BY <1>2, <2>3 DEF send_data, close_gracefully, HandleIsOpen
  <2>4. CASE set_connect_timeout(s) \/ CloseGracefullyRefused(s)
    BY <1>2, <2>4 DEF set_connect_timeout, CloseGracefullyRefused
  <2> QED BY <1>5, <2>1, <2>2, <2>3, <2>4 DEF Methods
<1>6. ASSUME NEW s \in Sockets, Callbacks(s) PROVE UnderwayInv'
  <2>1. CASE ConnectOk(s)
    BY <1>2, <1>4, <2>1 DEF ConnectOk
  <2>2. CASE ConnectError(s)
    BY <1>2, <1>3, <2>2 DEF ConnectError
  <2>3. CASE ReadEof(s)
    BY <1>4, <2>3 DEF ReadEof, LifeInv, HandleIsOpen
  <2>4. CASE ReadError(s) \/ TimeoutCallback(s)
    BY <1>3, <2>4 DEF ReadError, TimeoutCallback
  <2>5. CASE ShutdownCallback(s)
    <3>1. \A r \in Sockets : shutdowns'[r] \subseteq shutdowns[r]
      BY <2>5 DEF ShutdownCallback
    <3>2. CASE AE_CLOSE_UV_HANDLE(s)
      BY <1>3, <2>5, <3>1, <3>2 DEF ShutdownCallback
    <3>3. CASE uv' = uv
      <4>1. Underway' \subseteq Underway
        BY <2>5, <3>1 DEF ShutdownCallback
      <4> QED BY <1>2, <3>3, <4>1
    <3> QED BY <2>5, <3>2, <3>3 DEF ShutdownCallback
  <2>6. CASE ReadData(s) \/ WriteCallback(s)
    BY <1>2, <2>6 DEF ReadData, WriteCallback
  <2>7. CASE ae_uv_handle_close_callback(s)
    BY <2>7 DEF ae_uv_handle_close_callback
  <2> QED BY <1>6, <2>1, <2>2, <2>3, <2>4, <2>5, <2>6, <2>7 DEF Callbacks
<1>7. ASSUME NEW s \in Sockets, destroy(s) PROVE UnderwayInv'
  BY <1>2, <1>3, <1>7 DEF destroy, EndOpen
<1>8. CASE OtherHook \/ UserReturn \/ ReleaseBegin \/ ReleaseEnd \/ LoopExit
  BY <1>2, <1>8 DEF OtherHook, UserReturn, ReleaseBegin, ReleaseEnd, LoopExit
<1>9. CASE UNCHANGED vars
  BY <1>2, <1>9 DEF vars
<1> QED BY <1>5, <1>6, <1>7, <1>8, <1>9 DEF Next

(* The initial state satisfies the inductive invariant.                      *)
LEMMA InitInv == Init => TcpInv
<1> SUFFICES ASSUME Init PROVE TcpInv
  OBVIOUS
<1> USE DEF Init
<1>1. TypeOK
  BY WritesAssumption DEF TypeOK
<1>2. LifeInv /\ ShutdownInv /\ DestroyInv /\ ToldInv
  BY DEF LifeInv, ShutdownInv, DestroyInv, ToldInv, ToldAs, Unreached
<1>3. NeverAborts /\ HandleIsOpen /\ StoredExactly /\ TimerOnlyConnecting
  BY DEF NeverAborts, HandleIsOpen, StoredExactly, TimerOnlyConnecting, Unreached
<1>4. ShutdownNotReading /\ TimeoutIsError /\ AllDestroyed
  BY DEF ShutdownNotReading, TimeoutIsError, AllDestroyed
<1>5. UnderwayInv
  <2>1. connectReqs = {}
    OBVIOUS
  <2>2. \A s \in Sockets : writes[s] = 0
    OBVIOUS
  <2>3. \A s \in Sockets : shutdowns[s] = {}
    OBVIOUS
  <2> HIDE DEF Init
  <2>4. Underway = {}
    BY <2>1, <2>2, <2>3 DEF Underway
  <2> QED BY <2>4 DEF UnderwayInv
<1> QED BY <1>1, <1>2, <1>3, <1>4, <1>5 DEF TcpInv

(* Every reachable state satisfies the inductive invariant.                  *)
THEOREM TcpInvariant == Spec => []TcpInv
<1>1. TcpInv /\ [Next]_vars => TcpInv'
  BY TypeStep, AbortStep, OpenStep, StoredStep, TimerStep, ShutdownReadStep,
     TimeoutStep, DestroyedStep, LifeStep, ShutdownStep, UnderwayStep, DestroyStep,
     ToldStep
     DEF TcpInv
<1> QED BY InitInv, <1>1, PTL DEF Spec

(* No handle is closed twice and no AE_ASSERT about a shutdown fails.        *)
THEOREM NeverAbortsCorrect == Spec => []NeverAborts
BY TcpInvariant, PTL DEF TcpInv

(* AE_handles keeps the sockets that are open, those that still connect, and *)
(* those that never connected to anything, whatever destinations are passed. *)
THEOREM StoredCorrect == Spec => []StoredExactly
BY TcpInvariant, PTL DEF TcpInv

(* The connect timer only runs for an open handle that still connects.       *)
THEOREM TimerCorrect == Spec => []TimerOnlyConnecting
BY TcpInvariant, PTL DEF TcpInv

(* A socket whose timeout expired is never connected.                        *)
THEOREM TimeoutCorrect == Spec => []TimeoutIsError
BY TcpInvariant, PTL DEF TcpInv

(* After release_loop every socket is closed.                                *)
THEOREM AllDestroyedCorrect == Spec => []AllDestroyed
BY TcpInvariant, PTL DEF TcpInv

-----------------------------------------------------------------------------
(* The refinement.  A socket that changes what it is told makes one step of  *)
(* Connection; any other step leaves the phases alone.                       *)

(* The histories are told apart.                                             *)
LEMMA Distinct ==
  /\ <<>> # <<"on_connected">> /\ <<>> # <<"on_connection_error">>
  /\ <<>> # <<"on_connected", "on_disconnected">>
  /\ <<"on_connected">> # <<"on_connection_error">>
  /\ <<"on_connected">> # <<"on_connected", "on_disconnected">>
  /\ <<"on_connection_error">> # <<"on_connected", "on_disconnected">>
  OBVIOUS

(* The phase of a socket, from what it is.                                   *)
LEMMA PhaseIs ==
  ASSUME TcpInv, NEW s \in Sockets
  PROVE  /\ s \in connectReqs => PhaseOf(s) = "connecting"
         /\ s \in connected \cap opened => PhaseOf(s) = "connected"
         /\ s \in connected \ opened => PhaseOf(s) = "disconnected"
         /\ s \notin connected \cup connectReqs => PhaseOf(s) \in {"none", "failed"}
         /\ uv[s] = "none" => PhaseOf(s) = "none"
<1> USE DEF TcpInv, LifeInv, ToldInv, ToldAs
<1>1. told[s] = <<>> => PhaseOf(s) = IF s \in connectReqs THEN "connecting" ELSE "none"
  BY Distinct DEF PhaseOf
<1>2. told[s] = <<"on_connected">> => PhaseOf(s) = "connected"
  BY Distinct DEF PhaseOf
<1>3. told[s] = <<"on_connection_error">> => PhaseOf(s) = "failed"
  BY Distinct DEF PhaseOf
<1>4. told[s] = <<"on_connected", "on_disconnected">> => PhaseOf(s) = "disconnected"
  BY Distinct DEF PhaseOf
<1> QED BY <1>1, <1>2, <1>3, <1>4

(* The same for the next state, where told is what Call made it.             *)
LEMMA PhaseWillBe ==
  ASSUME NEW s \in Sockets
  PROVE  /\ told'[s] = <<>> /\ s \in connectReqs' => PhaseOf(s)' = "connecting"
         /\ told'[s] = <<"on_connected">> => PhaseOf(s)' = "connected"
         /\ told'[s] = <<"on_connection_error">> => PhaseOf(s)' = "failed"
         /\ told'[s] = <<"on_connected", "on_disconnected">> => PhaseOf(s)' = "disconnected"
  BY Distinct DEF PhaseOf

(* One socket moves to another phase.                                        *)
LEMMA PhaseMove ==
  ASSUME NEW s \in Sockets, connectReqs' \ {s} = connectReqs \ {s},
         \A r \in Sockets \ {s} : told'[r] = told[r]
  PROVE  [r \in Sockets |-> PhaseOf(r)]' =
           [[r \in Sockets |-> PhaseOf(r)] EXCEPT ![s] = PhaseOf(s)']
<1>1. \A r \in Sockets \ {s} : PhaseOf(r)' = PhaseOf(r)
  BY DEF PhaseOf
<1> QED BY <1>1

(* The second hook is the end of a connection.                               *)
LEMMA DisconnectTells ==
  ASSUME TcpInv, NEW s \in Sockets, s \in connected \cap opened,
         Call(s, "on_disconnected"), connectReqs' = connectReqs, engine' = engine
  PROVE  Told!End(s)
<1>1. TypeOK /\ "on_disconnected" \in Hooks
  BY DEF Hooks, TcpInv
<1>2. told'[s] = <<"on_connected", "on_disconnected">>
  BY <1>1, CallTold, TwoHooks DEF TcpInv, ToldInv, ToldAs
<1>3. PhaseOf(s) = "connected" /\ PhaseOf(s)' = "disconnected"
  BY <1>2, PhaseIs, PhaseWillBe
<1>4. [r \in Sockets |-> PhaseOf(r)]' =
        [[r \in Sockets |-> PhaseOf(r)] EXCEPT ![s] = "disconnected"]
  BY <1>1, <1>3, CallTold, PhaseMove
<1> QED BY <1>3, <1>4 DEF Told!End, Told!Tell

(* The first hook is the outcome.                                            *)
LEMMA FailTells ==
  ASSUME TcpInv, NEW s \in Sockets, s \in connectReqs, connectReqs' = connectReqs \ {s},
         Call(s, "on_connection_error"), engine' = engine
  PROVE  Told!End(s)
<1>1. TypeOK /\ "on_connection_error" \in Hooks
  BY DEF Hooks, TcpInv
<1>2. told'[s] = <<"on_connection_error">>
  BY <1>1, CallTold, TwoHooks DEF TcpInv, ToldInv, ToldAs
<1>3. PhaseOf(s) = "connecting" /\ PhaseOf(s)' = "failed"
  BY <1>2, PhaseIs, PhaseWillBe
<1>4. [r \in Sockets |-> PhaseOf(r)]' =
        [[r \in Sockets |-> PhaseOf(r)] EXCEPT ![s] = "failed"]
  BY <1>1, <1>3, CallTold, PhaseMove
<1> QED BY <1>3, <1>4 DEF Told!End, Told!Tell

(* The first hook is on_connected while the engine runs.                     *)
LEMMA ConnectTells ==
  ASSUME TcpInv, NEW s \in Sockets, ConnectOk(s)
  PROVE  Told!Connected(s)
<1> USE DEF ConnectOk, phaseVars
<1>1. TypeOK /\ "on_connected" \in Hooks
  BY DEF Hooks, TcpInv
<1>2. told'[s] = <<"on_connected">>
  BY <1>1, CallTold, TwoHooks DEF TcpInv, ToldInv, ToldAs
<1>3. PhaseOf(s) = "connecting" /\ PhaseOf(s)' = "connected"
  BY <1>2, PhaseIs, PhaseWillBe
<1>4. [r \in Sockets |-> PhaseOf(r)]' =
        [[r \in Sockets |-> PhaseOf(r)] EXCEPT ![s] = "connected"]
  BY <1>1, <1>3, CallTold, PhaseMove
<1>5. engine = "running" /\ engine' = engine
  BY DEF InLoop, TcpInv, HandleIsOpen, AllDestroyed
<1> QED BY <1>3, <1>4, <1>5 DEF Told!Connected, Told!Tell

(* The constructor makes a socket connecting, and tells it nothing.          *)
LEMMA NewTells ==
  ASSUME TcpInv, NEW s \in Sockets, New(s, "ip")
  PROVE  Told!New(s)
<1> USE DEF New, phaseVars, AE_CHECK_STATUS
<1>1. told' = told /\ told[s] = <<>> /\ s \in connectReqs'
  BY DEF TcpInv, ToldInv, ToldAs
<1>2. PhaseOf(s) = "none" /\ PhaseOf(s)' = "connecting"
  BY <1>1, PhaseIs, PhaseWillBe
<1>3. [r \in Sockets |-> PhaseOf(r)]' =
        [[r \in Sockets |-> PhaseOf(r)] EXCEPT ![s] = "connecting"]
  BY <1>1, <1>2, PhaseMove
<1> QED BY <1>2, <1>3 DEF Told!New, Told!Tell

(* What AE.run waits for.                                                    *)
LEMMA LoopExitTells == TcpInv /\ LoopExit => Told!Stop
<1> SUFFICES ASSUME TcpInv, LoopExit PROVE Told!Stop
  OBVIOUS
<1>1. [r \in Sockets |-> PhaseOf(r)]' = [r \in Sockets |-> PhaseOf(r)]
  BY DEF LoopExit, reqVars, PhaseOf
<1>2. ASSUME NEW s \in Sockets PROVE PhaseOf(s) \in Told!Over
  <2>1. s \notin opened /\ s \notin connectReqs
    BY DEF LoopExit, TcpInv, HandleIsOpen, LifeInv
  <2> QED BY <2>1, PhaseIs DEF Told!Over
<1> QED BY <1>1, <1>2 DEF LoopExit, Told!Stop

(* Every step of TcpSocket is a step of Connection or a stutter.             *)
LEMMA TellStep == TcpInv /\ [Next]_vars => [Told!Next]_Told!vars
<1> SUFFICES ASSUME TcpInv, [Next]_vars PROVE [Told!Next]_Told!vars
  OBVIOUS
<1> USE DEF phaseVars, cdataVars, reqVars
<1>1. ASSUME UNCHANGED <<engine, told, connectReqs>> PROVE UNCHANGED Told!vars
  BY <1>1 DEF Told!vars, PhaseOf
<1>2. ASSUME NEW s \in Sockets, EndOpen(s), s \in opened, engine' = engine
      PROVE  [Told!Next]_Told!vars
  BY <1>1, <1>2, DisconnectTells DEF EndOpen, Told!Next
<1>3. ASSUME NEW s \in Sockets, Methods(s) PROVE [Told!Next]_Told!vars
  <2>1. ASSUME NEW t \in DestTypes, New(s, t) PROVE [Told!Next]_Told!vars
    <3>1. CASE t = "ip"
      BY <2>1, <3>1, NewTells DEF Told!Next
    <3>2. CASE t # "ip"
      BY <1>1, <2>1, <3>2 DEF New
    <3> QED BY <3>1, <3>2
  <2>2. CASE close(s)
    BY <1>2, <2>2 DEF close
  <2>3. CASE NewRefused(s) \/ send_data(s) \/ set_connect_timeout(s) \/ CloseGracefullyRefused(s)
    BY <1>1, <2>3 DEF NewRefused, send_data, set_connect_timeout, CloseGracefullyRefused
  <2>4. CASE close_gracefully(s)
    BY <1>1, <2>4 DEF close_gracefully
  <2> QED BY <1>3, <2>1, <2>2, <2>3, <2>4 DEF Methods
<1>4. ASSUME NEW s \in Sockets, Callbacks(s) PROVE [Told!Next]_Told!vars
  <2>1. CASE ConnectOk(s)
    BY <2>1, ConnectTells DEF Told!Next
  <2>2. CASE ConnectError(s)
    BY <2>2, FailTells DEF ConnectError, Told!Next
  <2>3. CASE ReadError(s)
    BY <2>3, DisconnectTells DEF ReadError, Told!Next, TcpInv, LifeInv
  <2>4. CASE ShutdownCallback(s)
    <3>1. s \in connected
      BY <2>4 DEF ShutdownCallback, TcpInv, ShutdownInv
    <3>2. CASE s \in opened /\ uv[s] # "closing"
      BY <2>4, <3>1, <3>2, DisconnectTells DEF ShutdownCallback, Told!Next
    <3>3. CASE ~(s \in opened /\ uv[s] # "closing")
      BY <1>1, <2>4, <3>3 DEF ShutdownCallback
    <3> QED BY <3>2, <3>3
  <2>5. CASE TimeoutCallback(s) \/ ReadData(s) \/ WriteCallback(s)
    BY <1>1, <2>5 DEF TimeoutCallback, ReadData, WriteCallback
  <2>6. CASE ReadEof(s) \/ ae_uv_handle_close_callback(s)
    BY <1>1, <2>6 DEF ReadEof, ae_uv_handle_close_callback
  <2> QED BY <1>4, <2>1, <2>2, <2>3, <2>4, <2>5, <2>6 DEF Callbacks
<1>5. ASSUME NEW s \in Sockets, destroy(s) PROVE [Told!Next]_Told!vars
  BY <1>1, <1>2, <1>5 DEF destroy
<1>6. CASE OtherHook \/ UserReturn
  BY <1>1, <1>6 DEF OtherHook, UserReturn
<1>7. CASE ReleaseBegin
  <2>1. [r \in Sockets |-> PhaseOf(r)]' = [r \in Sockets |-> PhaseOf(r)]
    BY <1>7 DEF ReleaseBegin, PhaseOf
  <2> QED BY <1>7, <2>1 DEF ReleaseBegin, Told!Release, Told!Next
<1>8. CASE ReleaseEnd
  BY <1>8 DEF ReleaseEnd, Told!vars, PhaseOf
<1>9. CASE LoopExit
  BY <1>9, LoopExitTells DEF Told!Next
<1>10. CASE UNCHANGED vars
  BY <1>1, <1>10 DEF vars
<1> QED BY <1>3, <1>4, <1>5, <1>6, <1>7, <1>8, <1>9, <1>10 DEF Next

(* TcpSocket implements the safety part of Connection: the hooks of every    *)
(* socket come once and in order, and AE.run returns only after the last.    *)
THEOREM HooksCorrect == Spec => HooksInOrder
<1>1. Init => Told!Init
  BY Distinct DEF Init, Told!Init, PhaseOf
<1> QED BY <1>1, InitInv, TcpInvariant, TellStep, PTL DEF Spec, HooksInOrder

-----------------------------------------------------------------------------
(* The refinement of Lifetime: while the phase stays, what a step does to    *)
(* each socket says which step of Lifetime it is.                            *)

(* A step of a running engine closes what it does not leave open.            *)
LEMMA LifeWork ==
  ASSUME engine = "running", engine' = engine,
         \A s \in Sockets : uv[s] = "open" => uv'[s] \in {"open", "closing"}
  PROVE  Life!Work
BY DEF Life!Work, Life!Closed

(* While release_loop destroys the sockets, handles are only closed, and     *)
(* nothing is reported.                                                      *)
LEMMA LifeDestroy ==
  ASSUME engine = "destroying", engine' = engine,
         \A s \in Sockets : \/ uv'[s] = uv[s]
                            \/ uv[s] = "open" /\ uv'[s] = "closing",
         Underway \subseteq Underway'
  PROVE  Life!Destroy
BY DEF Life!Destroy, Life!Closed

(* When the loop drains, nothing is opened or started.                       *)
LEMMA LifeDrain ==
  ASSUME engine = "draining", engine' = engine,
         \A s \in Sockets : \/ uv'[s] = uv[s]
                            \/ uv[s] = "closing" /\ uv'[s] = "closed",
         Underway' \subseteq Underway
  PROVE  Life!Drain
BY DEF Life!Drain

(* A uv_close that does not abort is that of an open handle.                 *)
LEMMA ClosesOpen ==
  ASSUME TcpInv, TcpInv', NEW s \in Sockets, AE_CLOSE_UV_HANDLE(s)
  PROVE  /\ uv[s] = "open" /\ uv'[s] = "closing"
         /\ \A r \in Sockets \ {s} : uv'[r] = uv[r]
BY DEF TcpInv, TypeOK, NeverAborts, AE_CLOSE_UV_HANDLE

(* A shutdown that does not abort leaves the handles alone.                  *)
LEMMA ShutsOpen ==
  ASSUME TcpInv, TcpInv', NEW s \in Sockets, NEW f, StopAndShutdown(s, f)
  PROVE  uv' = uv
BY DEF TcpInv, TypeOK, NeverAborts, StopAndShutdown

(* A method of a socket, called by user code.                                *)
LEMMA MethodLives ==
  ASSUME TcpInv, TcpInv', NEW s \in Sockets, Methods(s)
  PROVE  [Life!Next]_(Life!vars)
<1> USE DEF phaseVars, cdataVars, reqVars
<1>1. CASE (\E t \in DestTypes : New(s, t)) \/ NewRefused(s)
  <2>1. \A r \in Sockets : uv[r] = "open" => uv'[r] = "open"
    BY <1>1 DEF New, NewRefused, TcpInv, TypeOK
  <2>2. engine = "running" /\ engine' = engine
    BY <1>1 DEF New, NewRefused, AE_CHECK_STATUS
  <2> QED BY <2>1, <2>2, LifeWork DEF Life!Next
<1>2. CASE close(s) \/ send_data(s) \/ set_connect_timeout(s)
           \/ close_gracefully(s) \/ CloseGracefullyRefused(s)
  <2>1. engine' = engine /\ s \in opened
    BY <1>2 DEF close, send_data, set_connect_timeout, close_gracefully,
           CloseGracefullyRefused
  <2>2. engine \in {"running", "destroying"}
    BY <2>1 DEF TcpInv, TypeOK, AllDestroyed
  <2>3. \A r \in Sockets : \/ uv'[r] = uv[r]
                           \/ uv[r] = "open" /\ uv'[r] = "closing"
    <3>1. CASE close(s)
      BY <3>1, ClosesOpen DEF close, EndOpen
    <3>2. CASE ~close(s)
      BY <1>2, <3>2 DEF send_data, set_connect_timeout, close_gracefully,
             CloseGracefullyRefused
    <3> QED BY <3>1, <3>2
  <2>4. Underway \subseteq Underway'
    <3>1. CASE send_data(s)
      <4>1. \A r \in Sockets : writes[r] > 0 => writes'[r] > 0
        BY <3>1, WritesAssumption DEF send_data, TcpInv, TypeOK
      <4> QED BY <3>1, <4>1 DEF send_data, Underway
    <3>2. CASE close_gracefully(s)
      <4>1. \A r \in Sockets : shutdowns[r] # {} => shutdowns'[r] # {}
        <5>1. shutdowns \in [Sockets -> SUBSET ShutdownFlags]
          BY DEF TcpInv, TypeOK
        <5>2. \/ shutdowns' = shutdowns
              \/ shutdowns' = [shutdowns EXCEPT ![s] =
                                 shutdowns[s] \cup {"SHUTDOWN_REQUESTED"}]
          BY <3>2 DEF close_gracefully
        <5> QED BY <5>1, <5>2
      <4> QED BY <3>2, <4>1 DEF close_gracefully, Underway
    <3>3. CASE close(s) \/ set_connect_timeout(s) \/ CloseGracefullyRefused(s)
      BY <3>3 DEF close, EndOpen, set_connect_timeout, CloseGracefullyRefused,
             Underway
    <3> QED BY <1>2, <3>1, <3>2, <3>3
  <2> QED BY <2>1, <2>2, <2>3, <2>4, LifeWork, LifeDestroy DEF Life!Next
<1> QED BY <1>1, <1>2 DEF Methods

(* A callback of a running engine.                                           *)
LEMMA CallbackWorks ==
  ASSUME TcpInv, TcpInv', NEW s \in Sockets, Callbacks(s), engine = "running"
  PROVE  [Life!Next]_(Life!vars)
<1> USE DEF phaseVars, cdataVars, reqVars
<1>1. engine' = engine
  BY DEF Callbacks, ConnectOk, ConnectError, ReadData, ReadEof, ReadError,
         WriteCallback, TimeoutCallback, ShutdownCallback,
         ae_uv_handle_close_callback
<1>2. CASE uv' = uv
  BY <1>1, <1>2, LifeWork DEF Life!Next
<1>3. CASE AE_CLOSE_UV_HANDLE(s)
  BY <1>1, <1>3, ClosesOpen, LifeWork DEF Life!Next
<1>4. CASE ae_uv_handle_close_callback(s)
  <2>1. \A r \in Sockets : uv[r] = "open" => uv'[r] = "open"
    BY <1>4 DEF ae_uv_handle_close_callback, TcpInv, TypeOK
  <2> QED BY <1>1, <2>1, LifeWork DEF Life!Next
<1>5. \/ uv' = uv \/ AE_CLOSE_UV_HANDLE(s) \/ ae_uv_handle_close_callback(s)
  BY ShutsOpen DEF Callbacks, ConnectOk, ConnectError, ReadData, ReadEof,
     ReadError, WriteCallback, TimeoutCallback, ShutdownCallback
<1> QED BY <1>2, <1>3, <1>4, <1>5

(* A callback of a released one: all handles are closed, so it is the report *)
(* of a request or of a close.                                               *)
LEMMA CallbackDrains ==
  ASSUME TcpInv, TcpInv', NEW s \in Sockets, Callbacks(s), engine = "draining"
  PROVE  [Life!Next]_(Life!vars)
<1> USE DEF phaseVars, cdataVars, reqVars
<1>1. engine' = engine
  BY DEF Callbacks, ConnectOk, ConnectError, ReadData, ReadEof, ReadError,
         WriteCallback, TimeoutCallback, ShutdownCallback,
         ae_uv_handle_close_callback
<1>2. opened = {} /\ \A r \in Sockets : uv[r] # "open"
  BY DEF TcpInv, AllDestroyed, HandleIsOpen
<1>3. ~AE_CLOSE_UV_HANDLE(s)
  BY <1>2, ClosesOpen
<1>4. s \notin reading /\ s \notin timers
  BY <1>2 DEF TcpInv, LifeInv, TimerOnlyConnecting
<1>5. CASE ConnectError(s) \/ ShutdownCallback(s) \/ WriteCallback(s)
  <2>1. uv' = uv
    BY <1>2, <1>3, <1>5 DEF ConnectError, ShutdownCallback, WriteCallback
  <2>2. Underway' \subseteq Underway
    <3>1. CASE ConnectError(s)
      BY <3>1 DEF ConnectError, Underway
    <3>2. CASE ShutdownCallback(s)
      <4>1. \A r \in Sockets : shutdowns'[r] # {} => shutdowns[r] # {}
        BY <3>2 DEF ShutdownCallback, TcpInv, TypeOK
      <4> QED BY <3>2, <4>1 DEF ShutdownCallback, Underway
    <3>3. CASE WriteCallback(s)
      <4>1. \A r \in Sockets : writes'[r] > 0 => writes[r] > 0
        BY <3>3, WritesAssumption DEF WriteCallback, TcpInv, TypeOK
      <4> QED BY <3>3, <4>1 DEF WriteCallback, Underway
    <3> QED BY <1>5, <3>1, <3>2, <3>3
  <2> QED BY <1>1, <2>1, <2>2, LifeDrain DEF Life!Next
<1>6. CASE ae_uv_handle_close_callback(s)
  <2>1. \A r \in Sockets : \/ uv'[r] = uv[r]
                           \/ uv[r] = "closing" /\ uv'[r] = "closed"
    BY <1>6 DEF ae_uv_handle_close_callback, TcpInv, TypeOK
  <2>2. Underway' = Underway
    BY <1>6 DEF ae_uv_handle_close_callback, Underway
  <2> QED BY <1>1, <2>1, <2>2, LifeDrain DEF Life!Next
<1> QED BY <1>2, <1>4, <1>5, <1>6 DEF Callbacks, ConnectOk, ReadData, ReadEof,
        ReadError, TimeoutCallback

(* release_loop destroys one socket.                                         *)
LEMMA DestroyLives ==
  ASSUME TcpInv, TcpInv', NEW s \in Sockets, destroy(s)
  PROVE  [Life!Next]_(Life!vars)
<1> USE DEF phaseVars, cdataVars, reqVars
<1>1. engine = "destroying" /\ engine' = engine /\ Underway' = Underway
  BY DEF destroy, EndOpen, Underway
<1>2. \A r \in Sockets : \/ uv'[r] = uv[r]
                         \/ uv[r] = "open" /\ uv'[r] = "closing"
  BY ClosesOpen DEF destroy, EndOpen
<1> QED BY <1>1, <1>2, LifeDestroy DEF Life!Next

(* Every step of TcpSocket is a step of Lifetime or a stutter.               *)
LEMMA LifetimeStep == TcpInv /\ TcpInv' /\ [Next]_vars => [Life!Next]_(Life!vars)
<1> SUFFICES ASSUME TcpInv, TcpInv', [Next]_vars PROVE [Life!Next]_(Life!vars)
  OBVIOUS
<1> USE DEF phaseVars, cdataVars, reqVars
<1>1. ASSUME UNCHANGED <<engine, uv, connectReqs, writes, shutdowns>>
      PROVE  UNCHANGED Life!vars
  BY <1>1 DEF Life!vars, Underway
<1>2. ASSUME UNCHANGED <<uv, connectReqs, writes, shutdowns>>
      PROVE  UNCHANGED Life!things
  BY <1>2 DEF Life!things, Underway
<1>3. ASSUME NEW s \in Sockets, Callbacks(s) PROVE [Life!Next]_(Life!vars)
  <2>1. engine \in {"running", "draining"}
    BY <1>3 DEF Callbacks, ConnectOk, ConnectError, ReadData, ReadEof,
           ReadError, WriteCallback, TimeoutCallback, ShutdownCallback,
           ae_uv_handle_close_callback, InLoop
  <2> QED BY <1>3, <2>1, CallbackWorks, CallbackDrains
<1>4. CASE OtherHook \/ UserReturn
  BY <1>1, <1>4 DEF OtherHook, UserReturn
<1>5. CASE ReleaseBegin
  BY <1>2, <1>5 DEF ReleaseBegin, Life!Begin, Life!Enter, Life!Next
<1>6. CASE ReleaseEnd
  <2>1. opened = {}
    BY <1>6 DEF ReleaseEnd, TcpInv, DestroyInv, StoredExactly
  <2> QED BY <1>2, <1>6, <2>1 DEF ReleaseEnd, TcpInv, HandleIsOpen,
         Life!Destroyed, Life!Enter, Life!Next
<1>7. CASE LoopExit
  <2>1. Underway = {}
    BY <1>7 DEF LoopExit, TcpInv, TypeOK, UnderwayInv, Underway
  <2> QED BY <1>2, <1>7, <2>1 DEF LoopExit, Life!Stop, Life!Enter, Life!Next
<1>8. CASE UNCHANGED vars
  BY <1>1, <1>8 DEF vars
<1> QED BY <1>3, <1>4, <1>5, <1>6, <1>7, <1>8, MethodLives, DestroyLives DEF Next

(* TcpSocket implements Lifetime: the release closes every socket, whatever  *)
(* its hooks do, and AE.run returns after the last connection, write,        *)
(* shutdown and close was reported.                                          *)
THEOREM TcpLives == Spec => LivesInOrder
<1>1. Init => Life!Init
  BY DEF Init, Life!Init, Underway
<1>2. TcpInv /\ TcpInv' /\ [Next]_vars => [Life!Next]_(Life!vars)
  BY LifetimeStep
<1> QED BY <1>1, <1>2, TcpInvariant, PTL DEF Spec, LivesInOrder, Life!Spec
=============================================================================
