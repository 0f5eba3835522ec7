------------------------------ MODULE TcpSocket ------------------------------
(* TCPSocket (ext/asyncengine/ae_tcp.c): connections, from the constructor   *)
(* to the release of the engine, with the connect timer, graceful close,     *)
(* EOF from the peer, write blocks and the user's hooks.                     *)
(*                                                                           *)
(* A callback of libuv and a method called from Ruby are one step each: both *)
(* run in the AE thread, and nothing in them lets another thread touch the   *)
(* socket.  The hook they end with is user code, which may call any method   *)
(* of any socket before it returns, also while release_loop destroys the     *)
(* sockets.  The variables of the first group are the C structure, those of  *)
(* the second one libuv's side.                                              *)
(*                                                                           *)
(* A definition marked "mutant" is a deliberate fault that could replace the *)
(* definition below it; no specification uses one.                           *)
EXTENDS Sequences, Naturals

CONSTANTS Sockets,      \* AE::TCPSocket objects
          DestTypes,    \* the types of destination passed
          MaxWrites     \* bound on writes with a block pending in one socket

ASSUME WritesAssumption == MaxWrites \in Nat
ASSUME DestAssumption == DestTypes \subseteq {"ip", "ipv6_reference"}

VARIABLES
  engine,       \* "running", "destroying" or "draining" (RELEASING), "stopped"
  user,         \* the user code the AE thread is in: a hook, a write block
  toDestroy,    \* what rb_hash_foreach has still to visit
  handles,      \* AE_handles

  opened,       \* sockets whose _uv_handle is not NULL
  connected,    \* sockets whose status is CONNECTED
  flags,        \* the flags of each socket
  ipType,       \* the ip_type of each socket, an IPv4 or IPv6 address being "ip"
  timers,       \* sockets whose _uv_timer_connect_timeout is not NULL
  told,         \* history: the hooks called, on_data_received left out

  uv,           \* the life of each uv_tcp_t
  connectReqs,  \* sockets with an outstanding uv_connect_t
  reading,      \* sockets that libuv reads from
  writes,       \* outstanding uv_write_t that have a block
  shutdowns     \* outstanding uv_shutdown_t, by the flag each goes with

phaseVars == <<engine, toDestroy>>
cdataVars == <<opened, connected, flags, ipType, timers>>
reqVars == <<connectReqs, writes, shutdowns>>

vars == <<engine, user, toDestroy, handles, opened, connected, flags, ipType,
          timers, told, uv, connectReqs, reading, writes, shutdowns>>

Flags == {"SHUTDOWN_REQUESTED", "EOF_RECEIVED", "CONNECT_TIMEOUT", "RELEASING"}
ShutdownFlags == {"SHUTDOWN_REQUESTED", "EOF_RECEIVED"}
Hooks == {"on_connected", "on_connection_error", "on_disconnected"}

TypeOK ==
  /\ engine \in {"running", "destroying", "draining", "stopped"}
  /\ user \in {"none", "hook", "writeBlock"}
  /\ toDestroy \subseteq Sockets /\ handles \subseteq Sockets
  /\ opened \subseteq Sockets /\ connected \subseteq Sockets
  /\ flags \in [Sockets -> SUBSET Flags]
  /\ ipType \in [Sockets -> {"none", "ip", "ipv6_reference"}]
  /\ timers \subseteq Sockets
  /\ told \in [Sockets -> Seq(Hooks)]
  /\ uv \in [Sockets -> {"none", "open", "closing", "closed", "abort"}]
  /\ connectReqs \subseteq Sockets /\ reading \subseteq Sockets
  /\ writes \in [Sockets -> 0 .. MaxWrites]
  /\ shutdowns \in [Sockets -> SUBSET ShutdownFlags]

Init ==
  /\ engine = "running" /\ user = "none" /\ toDestroy = {} /\ handles = {}
  /\ opened = {} /\ connected = {} /\ timers = {}
  /\ flags = [s \in Sockets |-> {}]
  /\ ipType = [s \in Sockets |-> "none"]
  /\ told = [s \in Sockets |-> <<>>]
  /\ uv = [s \in Sockets |-> "none"]
  /\ connectReqs = {} /\ reading = {}
  /\ writes = [s \in Sockets |-> 0]
  /\ shutdowns = [s \in Sockets |-> {}]

-----------------------------------------------------------------------------
(* libuv closes a handle once; a second uv_close, like a failed AE_ASSERT,   *)
(* aborts the process.  A closing handle is not read from any more.          *)
AE_CLOSE_UV_HANDLE(s) ==
  /\ uv' = [uv EXCEPT ![s] = IF @ = "open" THEN "closing" ELSE "abort"]
  /\ opened' = opened \ {s}
  /\ reading' = reading \ {s}

(* AE_ASSERT(! uv_read_stop()) and then AE_ASSERT(! uv_shutdown()): libuv    *)
(* does not have to accept a shutdown while another one is under way.        *)
StopAndShutdown(s, f) ==
  /\ reading' = reading \ {s}
  /\ IF shutdowns[s] = {}
       THEN /\ shutdowns' = [shutdowns EXCEPT ![s] = {f}]
            /\ UNCHANGED uv
       ELSE /\ uv' = [uv EXCEPT ![s] = "abort"]
            /\ UNCHANGED shutdowns

SetFlag(s, f) == flags' = [flags EXCEPT ![s] = @ \cup {f}]

(* rb_funcall2 of a hook: user code follows.                                 *)
Call(s, hook) ==
  /\ told' = [told EXCEPT ![s] = Append(@, hook)]
  /\ user' = IF user = "none" THEN "hook" ELSE user

InLoop == engine \in {"running", "draining"} /\ user = "none"   \* inside uv_run()
InUser == user # "none"

(* AE_CHECK_STATUS: otherwise the constructor returns false, or raises.      *)
AnyLiveStatus == engine # "stopped"                     \* mutant
AE_CHECK_STATUS == engine = "running"

-----------------------------------------------------------------------------
(* TCPSocket.new.  Its switches have no case for an IPv6 reference, so `ret` *)
(* is never assigned and nothing connects: when it happens to be zero the    *)
(* socket is stored, CONNECTING, without a uv_connect_t.                     *)
New(s, t) ==
  /\ InUser /\ AE_CHECK_STATUS /\ uv[s] = "none"
  /\ uv' = [uv EXCEPT ![s] = "open"]
  /\ opened' = opened \cup {s}
  /\ handles' = handles \cup {s}
  /\ ipType' = [ipType EXCEPT ![s] = t]
  /\ connectReqs' = IF t = "ip" THEN connectReqs \cup {s} ELSE connectReqs
  /\ UNCHANGED <<phaseVars, user, connected, flags, timers, told, reading,
                 writes, shutdowns>>

(* Bind or connect is refused, or `ret` happens not to be zero: nothing is   *)
(* stored, and the constructor raises.                                       *)
NewRefused(s) ==
  /\ InUser /\ AE_CHECK_STATUS /\ uv[s] = "none"
  /\ uv' = [uv EXCEPT ![s] = "closing"]
  /\ UNCHANGED <<phaseVars, user, handles, cdataVars, told, reqVars, reading>>

(* The connection is established: shut it down at once if a graceful close   *)
(* was requested while connecting, otherwise start reading.                  *)
ConnectOk_ReadAlways(s) ==                              \* mutant
  /\ InLoop /\ s \in connectReqs /\ uv[s] = "open"
  /\ connectReqs' = connectReqs \ {s}
  /\ timers' = timers \ {s}
  /\ reading' = reading \cup {s}
  /\ connected' = connected \cup {s}
  /\ Call(s, "on_connected")
  /\ UNCHANGED <<phaseVars, handles, opened, flags, ipType, uv, writes, shutdowns>>

ConnectOk(s) ==
  /\ InLoop /\ s \in connectReqs /\ uv[s] = "open"
  /\ connectReqs' = connectReqs \ {s}
  /\ timers' = timers \ {s}
  /\ IF "SHUTDOWN_REQUESTED" \in flags[s]
       THEN StopAndShutdown(s, "SHUTDOWN_REQUESTED")
       ELSE reading' = reading \cup {s} /\ UNCHANGED <<uv, shutdowns>>
  /\ connected' = connected \cup {s}
  /\ Call(s, "on_connected")
  /\ UNCHANGED <<phaseVars, handles, opened, flags, ipType, writes>>

(* The connection failed, or was cancelled because the handle was closed.    *)
ConnectError_CloseAgain(s) ==                           \* mutant
  /\ InLoop /\ s \in connectReqs
  /\ connectReqs' = connectReqs \ {s}
  /\ timers' = timers \ {s}
  /\ AE_CLOSE_UV_HANDLE(s)
  /\ handles' = handles \ {s}
  /\ Call(s, "on_connection_error")
  /\ UNCHANGED <<phaseVars, connected, flags, ipType, writes, shutdowns>>

ConnectError(s) ==
  /\ InLoop /\ s \in connectReqs
  /\ connectReqs' = connectReqs \ {s}
  /\ timers' = timers \ {s}
  /\ IF uv[s] = "closing"                               \* uv_is_closing()
       THEN UNCHANGED <<uv, opened, reading>>
       ELSE AE_CLOSE_UV_HANDLE(s)
  /\ handles' = handles \ {s}
  /\ Call(s, "on_connection_error")
  /\ UNCHANGED <<phaseVars, connected, flags, ipType, writes, shutdowns>>

-----------------------------------------------------------------------------
(* libuv reads from a socket: data goes to on_data_received; EOF means that  *)
(* the peer reads no more than what is pending, so shut down and wait; any   *)
(* other error ends the connection.                                          *)
ReadData(s) ==
  /\ InLoop /\ s \in reading
  /\ user' = "hook"
  /\ UNCHANGED <<phaseVars, handles, cdataVars, told, uv, reqVars, reading>>

ReadEof(s) ==
  /\ InLoop /\ s \in reading
  /\ StopAndShutdown(s, "EOF_RECEIVED")
  /\ SetFlag(s, "EOF_RECEIVED")
  /\ UNCHANGED <<phaseVars, user, handles, opened, connected, ipType, timers,
                 told, connectReqs, writes>>

ReadError_KeepPointer(s) ==                             \* mutant
  /\ InLoop /\ s \in reading
  /\ uv' = [uv EXCEPT ![s] = "closing"]
  /\ reading' = reading \ {s}
  /\ handles' = handles \ {s}
  /\ Call(s, "on_disconnected")
  /\ UNCHANGED <<phaseVars, opened, connected, flags, ipType, timers, reqVars>>

ReadError(s) ==
  /\ InLoop /\ s \in reading
  /\ AE_CLOSE_UV_HANDLE(s)
  /\ handles' = handles \ {s}
  /\ Call(s, "on_disconnected")
  /\ UNCHANGED <<phaseVars, connected, flags, ipType, timers, reqVars>>

(* send_data with a block.  libuv may refuse it, which changes nothing, and  *)
(* always does for a socket that was neither bound nor connected: it has no  *)
(* descriptor.                                                               *)
send_data(s) ==
  /\ InUser /\ s \in opened /\ ipType[s] = "ip" /\ writes[s] < MaxWrites
  /\ writes' = [writes EXCEPT ![s] = @ + 1]
  /\ UNCHANGED <<phaseVars, user, handles, cdataVars, told, uv, connectReqs,
                 reading, shutdowns>>

(* A write is done or failed, or was cancelled because the handle was closed. *)
WriteCallback(s) ==
  /\ InLoop /\ writes[s] > 0
  /\ uv[s] = "closing" \/ (uv[s] = "open" /\ s \in connected)
  /\ writes' = [writes EXCEPT ![s] = @ - 1]
  /\ user' = IF "RELEASING" \in flags[s] THEN user ELSE "writeBlock"
  /\ UNCHANGED <<phaseVars, handles, cdataVars, told, uv, connectReqs, reading,
                 shutdowns>>

-----------------------------------------------------------------------------
(* The connect timer, at most one.  It is not needed once connected.         *)
set_connect_timeout(s) ==
  /\ InUser /\ s \in opened /\ s \notin timers \cup connected
  /\ timers' = timers \cup {s}
  /\ UNCHANGED <<phaseVars, user, handles, opened, connected, flags, ipType, told,
                 uv, reqVars, reading>>

(* It closes the handle; libuv then reports the connection, if there is one, *)
(* as cancelled.                                                             *)
TimeoutCallback_NoClose(s) ==                           \* mutant
  /\ InLoop /\ s \in timers
  /\ timers' = timers \ {s}
  /\ SetFlag(s, "CONNECT_TIMEOUT")
  /\ UNCHANGED <<phaseVars, user, handles, opened, connected, ipType, told, uv,
                 reading, reqVars>>

TimeoutCallback(s) ==
  /\ InLoop /\ s \in timers
  /\ timers' = timers \ {s}
  /\ SetFlag(s, "CONNECT_TIMEOUT")
  /\ AE_CLOSE_UV_HANDLE(s)
  /\ UNCHANGED <<phaseVars, user, handles, connected, ipType, told, reqVars>>

-----------------------------------------------------------------------------
(* close and destroy: a connected socket calls its hook at once, one that    *)
(* still connects leaves that to the connect callback.                       *)
EndOpen_Forget(s) ==                                    \* mutant
  /\ AE_CLOSE_UV_HANDLE(s)
  /\ timers' = timers \ {s}
  /\ handles' = handles \ {s}
  /\ IF s \in connected
       THEN Call(s, "on_disconnected")
       ELSE UNCHANGED <<told, user>>
  /\ UNCHANGED <<connected, ipType, reqVars>>

EndOpen(s) ==
  /\ AE_CLOSE_UV_HANDLE(s)
  /\ timers' = timers \ {s}
  /\ IF s \in connected
       THEN handles' = handles \ {s} /\ Call(s, "on_disconnected")
       ELSE UNCHANGED <<handles, told, user>>
  /\ UNCHANGED <<connected, ipType, reqVars>>

close(s) ==
  /\ InUser /\ s \in opened
  /\ EndOpen(s)
  /\ UNCHANGED <<phaseVars, flags>>

(* close_gracefully takes effect once; while connecting it is only noted.    *)
(* When libuv refuses the shutdown it raises and may be called again, but    *)
(* the socket is not read from any more.  (Where ae_tcp.c asserts that libuv *)
(* accepts one, only a shutdown under way is taken as a reason to refuse.)   *)
close_gracefully(s) ==
  /\ InUser /\ s \in opened /\ "SHUTDOWN_REQUESTED" \notin flags[s]
  /\ SetFlag(s, "SHUTDOWN_REQUESTED")
  /\ IF s \in connected
       THEN /\ reading' = reading \ {s}
            /\ shutdowns' = [shutdowns EXCEPT ![s] = @ \cup {"SHUTDOWN_REQUESTED"}]
       ELSE UNCHANGED <<reading, shutdowns>>
  /\ UNCHANGED <<phaseVars, user, handles, opened, connected, ipType, timers,
                 told, uv, connectReqs, writes>>

CloseGracefullyRefused(s) ==
  /\ InUser /\ s \in opened \cap connected /\ "SHUTDOWN_REQUESTED" \notin flags[s]
  /\ reading' = reading \ {s}
  /\ UNCHANGED <<phaseVars, user, handles, cdataVars, told, uv, reqVars>>

(* The shutdown ended, after the pending writes, unless the handle was       *)
(* closed in the meantime: then the end was reported already.                *)
ShutdownCallback_NoCheck(s) ==                          \* mutant
  /\ InLoop /\ (uv[s] = "closing" \/ writes[s] = 0)
  /\ \E f \in shutdowns[s] : shutdowns' = [shutdowns EXCEPT ![s] = @ \ {f}]
  /\ AE_CLOSE_UV_HANDLE(s)
  /\ handles' = handles \ {s}
  /\ Call(s, "on_disconnected")
  /\ UNCHANGED <<phaseVars, connected, flags, ipType, timers, connectReqs, writes>>

ShutdownCallback(s) ==
  /\ InLoop /\ (uv[s] = "closing" \/ writes[s] = 0)
  /\ \E f \in shutdowns[s] : shutdowns' = [shutdowns EXCEPT ![s] = @ \ {f}]
  /\ IF s \in opened /\ uv[s] # "closing"
       THEN /\ AE_CLOSE_UV_HANDLE(s)
            /\ handles' = handles \ {s}
            /\ Call(s, "on_disconnected")
       ELSE UNCHANGED <<uv, opened, reading, handles, told, user>>
  /\ UNCHANGED <<phaseVars, connected, flags, ipType, timers, connectReqs, writes>>

(* libuv has reported every request of a closing handle: free it.            *)
ae_uv_handle_close_callback(s) ==
  /\ InLoop /\ uv[s] = "closing"
  /\ s \notin connectReqs /\ writes[s] = 0 /\ shutdowns[s] = {}
  /\ uv' = [uv EXCEPT ![s] = "closed"]
  /\ UNCHANGED <<phaseVars, user, handles, cdataVars, told, reqVars, reading>>

-----------------------------------------------------------------------------
(* Other user code: a timer, a proc of next_tick, a hook of another handle.  *)
OtherHook ==
  /\ InLoop /\ engine = "running"
  /\ user' = "hook"
  /\ UNCHANGED <<phaseVars, handles, cdataVars, told, uv, reqVars, reading>>

UserReturn ==
  /\ InUser /\ user' = "none"
  /\ UNCHANGED <<phaseVars, handles, cdataVars, told, uv, reqVars, reading>>

(* release_loop, after AE.stop or an error that left the user code.          *)
ReleaseBegin ==
  /\ InLoop /\ engine = "running"
  /\ engine' = "destroying" /\ toDestroy' = handles
  /\ UNCHANGED <<user, handles, cdataVars, told, uv, reqVars, reading>>

destroy_ConnectedOnly(s) ==                             \* mutant
  /\ engine = "destroying" /\ ~InUser /\ s \in toDestroy \cap handles
  /\ toDestroy' = toDestroy \ {s}
  /\ IF s \in opened \cap connected
       THEN EndOpen(s) /\ SetFlag(s, "RELEASING")
       ELSE UNCHANGED <<uv, reading, cdataVars, handles, told, user, reqVars>>
  /\ UNCHANGED engine

destroy(s) ==
  /\ engine = "destroying" /\ ~InUser /\ s \in toDestroy \cap handles
  /\ toDestroy' = toDestroy \ {s}
  /\ IF s \in opened
       THEN EndOpen(s) /\ SetFlag(s, "RELEASING")
       ELSE UNCHANGED <<uv, reading, cdataVars, handles, told, user, reqVars>>
  /\ UNCHANGED engine

ReleaseEnd ==
  /\ engine = "destroying" /\ ~InUser /\ toDestroy \cap handles = {}
  /\ engine' = "draining" /\ toDestroy' = {}
  /\ UNCHANGED <<user, handles, cdataVars, told, uv, reqVars, reading>>

(* uv_run() returns when libuv holds nothing any more.                       *)
LoopExit ==
  /\ InLoop /\ engine = "draining"
  /\ \A s \in Sockets : uv[s] \in {"none", "closed"}
  /\ engine' = "stopped"
  /\ UNCHANGED <<user, toDestroy, handles, cdataVars, told, uv, reqVars, reading>>

Methods(s) ==
  \/ \E t \in DestTypes : New(s, t)
  \/ NewRefused(s) \/ send_data(s) \/ set_connect_timeout(s)
  \/ close(s) \/ close_gracefully(s) \/ CloseGracefullyRefused(s)

Callbacks(s) ==
  \/ ConnectOk(s) \/ ConnectError(s)
  \/ ReadData(s) \/ ReadEof(s) \/ ReadError(s)
  \/ WriteCallback(s) \/ TimeoutCallback(s) \/ ShutdownCallback(s)
  \/ ae_uv_handle_close_callback(s)

Next ==
  \/ OtherHook \/ UserReturn \/ ReleaseBegin \/ ReleaseEnd \/ LoopExit
  \/ \E s \in Sockets : Methods(s) \/ Callbacks(s) \/ destroy(s)

(* User code ends; release_loop goes on; of what libuv has to report without *)
(* the peer (the requests and the end of a closing handle, a timer, a        *)
(* shutdown with no write before it) it does not put off everything forever. *)
(* A peer that never answers, or never reads, is not excluded.               *)
Fairness ==
  /\ WF_vars(UserReturn)
  /\ WF_vars(ReleaseEnd \/ LoopExit \/ \E s \in Sockets : destroy(s))
  /\ SF_vars(\E s \in Sockets :
       \/ uv[s] = "closing" /\ (ConnectError(s) \/ WriteCallback(s))
       \/ TimeoutCallback(s) \/ ShutdownCallback(s)
       \/ ae_uv_handle_close_callback(s))

Spec == Init /\ [][Next]_vars
LiveSpec == Spec /\ Fairness

-----------------------------------------------------------------------------
(* No sequence of calls and reports closes a handle twice, or makes one of   *)
(* the AE_ASSERTs about a shutdown fail.                                     *)
NeverAborts == \A s \in Sockets : uv[s] # "abort"

(* The _uv_handle that every method tests is not NULL just as long as libuv  *)
(* has the handle open, so no method touches a handle that is being freed.   *)
HandleIsOpen == opened = {s \in Sockets : uv[s] = "open"}

(* Sockets that were stored without ever connecting.                         *)
Unreached == {s \in Sockets : ipType[s] = "ipv6_reference"}

(* AE_handles keeps every socket that is open or waits for its connect       *)
(* callback, and of the others only those that no connect callback will      *)
(* remove, because they never connected (StoppedIsEmpty is about these).  It *)
(* does not wait for writes and shutdowns: see PendingProtected.             *)
StoredExactly == handles = opened \cup connectReqs \cup Unreached

(* The connect timer, whose callback closes _uv_handle without a test, only  *)
(* runs for an open handle that still connects.                              *)
TimerOnlyConnecting == timers \subseteq opened \ connected

(* At most one of the two callers of uv_shutdown that assert success is ever *)
(* due: a socket that is being shut down is not read from, nor connecting.   *)
ShutdownNotReading ==
  \A s \in Sockets : shutdowns[s] # {} => s \notin reading \cup connectReqs

(* A socket whose timeout expired is closed, and is never told on_connected. *)
TimeoutIsError ==
  \A s \in Sockets : "CONNECT_TIMEOUT" \in flags[s] => s \notin opened \cup connected

(* After release_loop every socket is closed, whatever the hooks it ran did. *)
AllDestroyed == engine \in {"draining", "stopped"} => opened = {}

(* What the code relies on in between: where a socket is in its life, and    *)
(* what each part of it means then.                                          *)
LifeInv ==
  \A s \in Sockets :
    /\ uv[s] = "none" =>
         s \notin handles \cup connected \cup connectReqs /\ writes[s] = 0 /\ flags[s] = {}
    /\ s \in Unreached => s \notin connected \cup connectReqs /\ writes[s] = 0
    /\ s \in opened \ Unreached => (s \in connected) # (s \in connectReqs)
    /\ s \in connectReqs => s \notin connected /\ uv[s] \in {"open", "closing"}
    /\ s \in reading =>
         s \in opened \cap connected /\ flags[s] \cap ShutdownFlags = {}
    /\ s \notin connected => "EOF_RECEIVED" \notin flags[s]

(* Each uv_shutdown of a connected socket has its own flag.                  *)
ShutdownInv ==
  \A s \in Sockets :
    /\ shutdowns[s] \subseteq flags[s]
    /\ shutdowns[s] # {} => s \in connected

(* libuv only has something to report of a handle that it has not freed.     *)
Underway ==
  connectReqs \cup {s \in Sockets : writes[s] > 0 \/ shutdowns[s] # {}}

UnderwayInv == \A s \in Underway : uv[s] \in {"open", "closing"}

(* release_loop has still to visit what is open.                             *)
DestroyInv == engine = "destroying" => opened \subseteq toDestroy

(* What a socket was told is what happened to it.                            *)
ToldAs(s) ==
  /\ s \in connected \cap opened => told[s] = <<"on_connected">>
  /\ s \in connected \ opened => told[s] = <<"on_connected", "on_disconnected">>
  /\ s \in connectReqs \/ uv[s] = "none" => told[s] = <<>>
  /\ s \notin connected \cup connectReqs => told[s] \in {<<>>, <<"on_connection_error">>}
  /\ s \in Unreached => told[s] = <<>>

ToldInv == \A s \in Sockets : ToldAs(s)

(* The inductive invariant.                                                  *)
TcpInv ==
  /\ TypeOK /\ NeverAborts /\ HandleIsOpen /\ StoredExactly /\ TimerOnlyConnecting
  /\ ShutdownNotReading /\ TimeoutIsError /\ AllDestroyed
  /\ LifeInv /\ ShutdownInv /\ UnderwayInv /\ DestroyInv /\ ToldInv

(* "Don't run the write block when releasing."                               *)
NoBlockWhenReleasing == engine # "running" => user # "writeBlock"

(* "Avoid GC": an object is stored as long as a callback that reads its      *)
(* structure is due.                                                         *)
PendingProtected ==
  \A s \in Sockets : writes[s] > 0 \/ shutdowns[s] # {} => s \in handles

(* "@_handles not empty" (ensure_released): a stopped engine keeps no object. *)
StoppedIsEmpty == engine = "stopped" => handles = {}

-----------------------------------------------------------------------------
(* The hooks, as a connection seen from the application.                     *)
PhaseOf(s) ==
  CASE told[s] = <<>> -> IF s \in connectReqs THEN "connecting" ELSE "none"
    [] told[s] = <<"on_connected">> -> "connected"
    [] told[s] = <<"on_connection_error">> -> "failed"
    [] told[s] = <<"on_connected", "on_disconnected">> -> "disconnected"
    [] OTHER -> "told too much"

Told == INSTANCE Connection WITH
  engine <- IF engine \in {"destroying", "draining"} THEN "releasing" ELSE engine,
  phase <- [s \in Sockets |-> PhaseOf(s)]

(* Every socket that connects is told its outcome once and in order, and     *)
(* AE.run returns only after that; the others are told nothing ...           *)
HooksInOrder == Told!Init /\ [][Told!Next]_Told!vars

(* ... and a release gets there.                                             *)
HooksKeepPromise == Told!Spec

(* A connect timer leads to an outcome, even if the peer never answers.  A   *)
(* socket that never connected has none: its handle is freed without a word. *)
TimerEnds ==
  \A s \in Sockets :
    s \in timers ~> \/ told[s] # <<>>
                    \/ s \in Unreached /\ uv[s] = "closed" /\ s \notin timers

(* A graceful close of a connection, or EOF from the peer, leads to its end, *)
(* unless writes stay pending: the peer does not read them, or the           *)
(* application, which may still send, never stops.                           *)
WritesEnd(s) == <>[](writes[s] = 0)

GracefulEnds ==
  \A s \in Sockets :
    WritesEnd(s) =>
      (s \in connected /\ flags[s] \cap ShutdownFlags # {}
         ~> PhaseOf(s) = "disconnected")

(* It takes no peer for that: while every write is reported, a block that    *)
(* sends again each time puts off the end for as long as it likes.           *)
GracefulEndsWhenRead ==
  \A s \in Sockets :
    []<>(writes[s] = 0) =>
      (s \in connected /\ flags[s] \cap ShutdownFlags # {}
         ~> PhaseOf(s) = "disconnected")

-----------------------------------------------------------------------------
(* What the engine promises to the sockets that are open in it, and to those *)
(* with a connection, a write or a shutdown under way.                       *)
Life == INSTANCE Lifetime WITH
  phase   <- engine,
  open    <- {s \in Sockets : uv[s] = "open"},
  closing <- {s \in Sockets : uv[s] = "closing"},
  pending <- Underway

(* Whatever the hooks do while release_loop destroys the sockets, each is    *)
(* closed and none is opened; afterwards libuv reports what is left, and     *)
(* AE.run returns after the last report.                                     *)
LivesInOrder == Life!Spec
=============================================================================
