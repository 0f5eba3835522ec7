# A verification project for AsyncEngine

AsyncEngine is a C extension for Ruby that runs libuv's event loop in one Ruby
thread and lets Ruby code open timers, UDP sockets, TCP connections and DNS
queries in it. The specifications in this directory model the engine: what AE.run,
AE.stop, AE.next_tick, AE.call_from_other_thread, the release of the loop and
the error handling promise, under every interleaving of Ruby threads, libuv
callbacks, user errors, signals and `Thread#kill`; and what the things opened in it
promise under every order of method calls, libuv reports and the release: TCP
sockets through their hooks, UDP sends and DNS queries to their blocks, timers to
their procs. Two further parts stand alone: the `on_exit` procs of `AE.run`, and the
parser of IP addresses, a generated automaton of 327 states. TLC checks small
instances; TLAPS proves the safety part for every value of the constants.

Paths below are relative to the repository; `ext/` stands for
`ext/asyncengine/`.

## 1. Inventory

| Component | State | Operations | What makes it correct |
|---|---|---|---|
| Engine life cycle, `ext/asyncengine_ruby.c`, `lib/asyncengine.rb` | `AE_status`, `AE_mutex`, `AE_thread`, `ae_ubf_uv_async`, `@_exit_error`, `@_on_exit_procs` | `AE.run`, `AE.stop`, `release_loop`, `ae_ubf`, `on_exit`, `on_error` | one thread in the loop; a stopped engine holds nothing; it can be run again; a stop takes effect; the loop drains |
| `AE.next_tick`, `ext/ae_next_tick.c` | `@_next_tick_procs`, an idle handle | push, idle callback, load, unload | first in, first out; nothing lost or run twice; nothing stranded |
| `AE.call_from_other_thread`, `ext/ae_call_from_other_thread.c` | its array, an async handle | push from any thread, async callback, load, unload | the same, for merged wake-ups |
| Tables and error handler, `ext/ae_handle_common.c` | `AE_handles`, `AE_procs` | store, remove, `ae_run_with_error_handler` | what libuv points into is protected from the collector; a request finds its proc; errors while releasing change nothing |
| `on_exit` procs, `ext/asyncengine_ruby.c:168-221`, `lib/asyncengine.rb` | `@_on_exit_procs`, the captured error | register, unset, the end of `AE.run` | each proc is called once, by the run that ends next, with that run's error |
| Timer, `ext/ae_timer.c` | a `uv_timer_t`, delay, interval, periodic | new, pause, restart, fire, close, destroy | fires when the last call said, in order, never after its end; one that does not repeat fires once |
| UDPSocket, `ext/ae_udp.c` | a `uv_udp_t`, flags, sends under way | new, send, receive, pause, close, destroy | a send's block runs once, never while releasing, and is its own |
| TCPSocket, `ext/ae_tcp.c` | a `uv_tcp_t`, connect state, flags, connect timer | new, connect callback, timeout, read, write, close, close_gracefully, destroy | exactly one of on_connected / on_connection_error; on_disconnected once |
| DNS, `ext/ae_dns.c` | queries under way | resolve, callback | the block runs once, never while releasing, and is its own |
| IP parser, `ext/ip_parser.rl`, `ext/ip_parser.c` | none | `ae_ip_parser_execute` | the automaton is the grammar; the type it returns is that of the address |
| IP utilities, `ext/ae_ip_utils.c` | none | `compare_ips`, `ip_type`, ports | refuses what is no address; never copies past a buffer |
| Utils, Ruby helpers, UV errors | none | getters, argument checks | not modelled: no state |

How they interact. `AE.run` locks `AE_mutex`, loads three internal libuv handles
(idle, async, and the async of the unblocking function) and calls `uv_run()`
without the GVL. Every libuv callback takes the GVL and goes through
`ae_run_with_error_handler`, which calls user code, catches what it raises, and
passes it to `ae_handle_error`; that calls the user's handler or stores the error
and releases the loop. A release clears both queues, destroys every handle of
`AE_handles` (running user hooks), closes the internal handles and clears
`AE_procs`; then `uv_run()` has to drain by itself. Other Ruby threads push procs
into the engine, stop it, or wait for the mutex to run it. Ruby delivers signals
and kills in Ruby code, or calls `ae_ubf` when the thread is outside the GVL.

What is hard: wake-ups lost between the callback and the taking of the array;
user code re-entering the engine in the middle of a release; stale status reads
before a mutex wait or in Ruby code; interrupts at each point; libuv's reports
arriving after a release; two ends of one socket due at the same time (timer,
connect result, EOF, shutdown, close, release). The
"hazards" of `PROJECT.json` are listed each at its line, with the property that
covers it or the reason why none does yet.

## 2. Plan

Done: the engine core and its two queues (`NextTick`, `CallFromOtherThread`,
`Engine`), the abstract queue (`ProcQueue`) and the refinement (`EngineQueues`), the
inductive invariant (`EngineInvariant`), and proofs of both; which run a stop ends
(`EngineStops`); the TCP sockets (`TcpSocket`)
and the abstract connection (`Connection`), with proofs of both; UDP sends and DNS
queries over the table of procs (`Requests`) and what they promise (`Answer`), with
proofs of both; timers (`Timer`), what they promise (`Alarm`), and proofs of both;
the end of `AE.run` (`OnExit`) and its proofs; the IP parser (`IpParser`); the lifetime of
what is opened in the engine (`Lifetime`), its proofs, and those that the engine and each
kind of handle implement it.

Left, in this order:

1. The check for a forked process at the start of `AE.run`.
2. `AE.next_tick` called from another thread, which the library does not refuse.

`Engine` does not carry the fields of every kind of handle, and a handle module does not
carry the threads, queues and errors of the engine. What ties them is `Lifetime`: the
engine, for handles that are only open, closing or connecting, and each handle module, for
its own, implement the same abstract lifetime in the same phases of a release. That this
may be shown of one component at a time is proved too (`Composition`, section 5).

## 3. Modules

| Module | What it models |
|---|---|
| `NextTick.tla` | `@_next_tick_procs` and the idle handle; the two halves of the idle callback are two operators because the GVL is taken in between |
| `CallFromOtherThread.tla` | the same for the async handle, with signals that merge |
| `Engine.tla` | the engine: threads, the AE thread's position, release, handles, requests, errors, interrupts; extends both |
| `EngineInvariant.tla` | the inductive invariant `IInv` |
| `EngineStops.tla` | the engine with a history of the threads preempted in `AE.stop` |
| `ProcQueue.tla` | abstract: a queue open while the engine runs, that runs what it accepted in order |
| `EngineQueues.tla` | the refinement of `ProcQueue` by each queue of the engine |
| `Lifetime.tla` | abstract: what is opened is closed before it is forgotten, a release closes all and lets nothing be opened, `AE.run` returns after every report |
| `LifetimeProofs.tla` | what follows from it, for all that is opened, for several components together, and for a part |
| `MCEngine.tla`, `MCEngineQueues.tla`, `MCEngineStops.tla` | the instances for TLC |
| `EngineTypeProofs.tla`, `EngineProofs.tla` | the proofs about `Engine` |
| `QueueProofs.tla` | the proof of the refinement of `ProcQueue`, liveness apart |
| `TcpSocket.tla` | every method and callback of `ae_tcp.c`, and the release seen from a socket |
| `Connection.tla` | abstract: connected or an error, once; then disconnected, once; `AE.run` returns after both |
| `MCTcpSocket.tla` | the instance for TLC |
| `TcpProofs.tla` | the proofs about `TcpSocket` |
| `ProcTable.tla` | `AE_procs` and the numbers that blocks are stored and found by |
| `UdpSocket.tla`, `Dns.tla` | the operations of `ae_udp.c` and of `ae_dns.c` over that table |
| `Requests.tla` | their composition with the engine's release, and with its next run; extends the three |
| `Answer.tla` | abstract: a block is called once, by the run it was passed to, or dropped; `AE.run` waits |
| `MCRequests.tla`, `RequestsProofs.tla` | the instance for TLC, and the proofs |
| `Timer.tla` | every method and the callback of `ae_timer.c`, in the loop's time |
| `Alarm.tla` | abstract: rings on time, in order, and only while it is set |
| `MCTimer.tla`, `TimerProofs.tla` | the instance for TLC, and the proofs |
| `OnExit.tla` | `AE.run` after `uv_run()`, with `AE.run` called again inside, and its inductive invariant |
| `MCOnExit.tla`, `OnExitProofs.tla` | the instance for TLC, and the proofs |
| `IpMachine.tla` | the automaton of `ip_parser.c`: where each state goes on each character, and the actions that set the type |
| `IpGrammar.tla` | the grammar of `ip_parser.rl`, the reference |
| `IpParser.tla` | `ae_ip_parser_execute` reading a string, beside the grammar reading it |

State of `Engine`. `at` is where the AE thread is: "none" (not in `uv_run()`), "poll" (in
libuv), "idleCb"/"asyncCb"/"ubfCb" (a callback fired and waits for the GVL),
"batch" (in the loop over the array it took, between two procs), "proc" (in a user
proc or event callback), "handler" (in the user's error handler), "release"
(in `rb_hash_foreach` of `release_loop`), "hook" (in `on_disconnected` called from
there). `pc[t]` is where each Ruby thread is with respect to `AE.run` and
`AE.stop`. `handles`, `procs` are the two Ruby tables; `opened`, `connecting`,
`closing`, `reqs` are libuv's side; `toDestroy` is what the hash iteration has still
to visit. `idle`, `cfotAsync`, `ubfAsync` are "null" or the state of the libuv handle.

One C function that holds the GVL is one step, as Ruby threads switch only in Ruby
code, when the thread blocks, or when the GVL is released. Ruby code (procs,
hooks, `AE.stop`) is interleaved between any two calls. `ConnectCallback` joins
what `_uv_connect_callback` does just before it takes the GVL to what follows:
nothing else reads the connection's fields in between. The handles of `Engine` that
connect do have a connect request; sockets without one (below) are in `TcpSocket` only.

State of `TcpSocket`. `opened`, `connected`, `flags` and `timers` are the fields of
`struct_cdata` (`_uv_handle` not NULL, `status`, `flags`, `_uv_timer_connect_timeout`
not NULL), `handles` is `AE_handles`; `uv`, `connectReqs`, `reading`, `writes` and
`shutdowns` are what libuv holds for the socket. A shutdown is named by the flag that
goes with it, as the code may ask for one after EOF and one for a graceful
close. `ipType` is the type of the destination, IPv4 and IPv6 being one: the constructor
lets a reference through but has no case for it, so `New` with one stores and opens the
socket without a connect request, which happens when the unassigned `ret` is zero, and
otherwise `NewRefused` stands for it. `Unreached` are those sockets. `told` is the history of
the hooks. A callback or a method is one step,
`user` is non-"none" while Ruby code it called has not returned. A hook
called from another hook (`close` calls `on_disconnected` before it returns) needs
no stack: what follows it in C is only the return. `engine` is "destroying" during
`rb_hash_foreach`, whose hooks may close other sockets, and "draining" until
`uv_run()` returns. The actions of libuv are guarded by what libuv guarantees: it
reports every request of a closing handle, as cancelled, before its close callback.

State of `Requests`. `procs` is `AE_procs`, as pairs of a number and the request whose
block is stored; `proc_long_id` is the counter; `procId[r]` is the number that libuv's
request carries, 0 for `Qnil`. `queries` and `sends` are the requests libuv has still to
report. `answer` is the history of each block. The library stores a UDP block before it
asks libuv and a DNS block after, and both orders are kept. `engine` has one value more
than for TCP: a failed bind ends the process ("crashed").

State of `Timer`. `opened`, `periodic`, `delay` and `interval` are the fields of
`struct_cdata`; `active`, `left` and `repeat` are libuv's side, with the time left
instead of the time due, so that the clock needs no bound. `Tick(n)` is the clock
update of a turn of the loop; `left` below 0 is a loop that is late. `toldDelay`,
`toldInterval` and `toldLeft` are the history of what the comments above the methods
promise for the calls made, whatever the code does with them. `PeriodicTimer#restart` does
not treat two calls as its comment says: a delay without an interval is ignored (`RestartSame`,
where the history takes the delay and the code does not), and a delay that is not a number
raises when the interval is stored (`RestartRaises`). `Lapses` names which of the two are
made. `fouled` are the timers whose fields such a call left other than promised, `strayed`
those last started with them.

State of `Lifetime`. `phase` is that of a run: "destroying" while `rb_hash_foreach` visits
the handles, "draining" until `uv_run()` returns. `open`, `closing` and `pending` are what
libuv has open, has still to report as closed, and has still to report of requests. Each
component maps its own there, at the end of its module (`Life`); `Engine` has its phase
from `AE_status` and from where the AE thread is (`LifePhase`), and leaves out its
internal handles. While "destroying" the loop does not turn, so that nothing is
reported, but a hook may still close and send.

State of `OnExit`. `calls[t]` is the stack of calls of `AE.run` of a thread, as a proc of
one may call another; the loop itself is "loop", and what `Engine` says of it is left
out.

State of `IpParser`. One step reads one character, so that TLC visits every string; a
state is a pair of the automaton's state and of what the grammar still allows. Characters
that no state tells apart ("3" and "4", "6" to "9", all letters of a hexadecimal
number) are one. The automaton is written as the few shapes it repeats, each with the
numbers of its states in the C code.

Definitions marked `mutant` are faults that could have been written instead of the
definition after them. No specification uses them; each is there to show that the
property named for it in `PROJECT.json` does depend on the code being as it is.

## 4. What the runs check

All runs say `CHECK_DEADLOCK FALSE`: a loop that has nothing to do waits in
`uv_run()`, threads may wait for the mutex, a stopped engine may stay so and a
string ends, which are no errors. A run on one module checks its safety and its
liveness together, except for `Engine`, whose liveness has an instance of its own.

| Run | Instance | Shows |
|---|---|---|
| interrupts | `Engine`: 2 threads, 2 handles, 1 request, 1 proc, queues of 2, signals and kills | the inductive invariant `IInv` and, named apart, `LoopHoldsMutex`, `ReleaseIsFinal`, `HandlesProtected`, `NoLostWakeup`; `FirstErrorWins`; `Lifetime` (`LivesInOrder`) |
| liveness | `Engine`: 2 threads, 1 handle, 1 request, queues of 1, kills | `ReleaseCompletes`, `StopTakesEffect`, `InterruptEndsRun` |
| queues | `EngineQueues`: 2 threads, 2 procs, queues of 2, no interrupts | `Restartable`; both queues implement `ProcQueue` with its fairness |
| tcp | `TcpSocket`: 2 sockets, addresses and references, 2 writes | the inductive invariant `TcpInv` and, named apart, `NeverAborts`, `StoredExactly`, `TimeoutIsError`; `Connection` without and with its fairness (`HooksInOrder`, `HooksKeepPromise`); `Lifetime` (`LivesInOrder`); `TimerEnds`, `GracefulEnds` |
| requests | `Requests`: 2 sockets, 2 requests, 2 runs of the engine | the inductive invariant `ReqInv` and, named apart, `OwnProc`, `WaitingIsOutstanding`; `Answer` without and with its fairness (`AnswersInOrder`, `AnswersKeepPromise`); `Lifetime` (`LivesInOrder`) |
| timers | `Timer`: 2 timers, 2 delays, a loop late by 1, restarts that raise | `OthersAsDocumented`, `FiredIsProtected`; `Alarm` with its fairness (`KeepsRinging`); `Lifetime` (`LivesInOrder`) |
| on_exit | `OnExit`: 2 threads, 3 procs, 3 runs, 2 errors | `ErrorOfItsRun`, `CalledByTheNextEnd`, `EachOnceInOrder`, `NotItsOwnMutex` |
| ip_strings | `IpParser`: every string | `MachineIsGrammar`, `ExactUnlessIPv6`, `FitsInBuffer` |
| restart | `Engine`: 2 threads, kills | violated: see findings |
| stale_stop | `EngineStops`: 2 threads, no interrupts | violated: see findings |
| tcp_block | `TcpSocket`: 1 socket, 1 write | violated: see findings |
| udp_bind | `Requests`: 1 socket, 1 request | violated: see findings |

`Released`, `AllDestroyed`, `NothingLeft` and `NoneLeftToFire`, what is left in a state
after a release, are no properties of these runs on their own: the first two are
conjuncts of `IInv` and `TcpInv`, and all four are theorems (section 5). `LivesInOrder`
says of every step what they say of the last state.

Bounds. Two threads let one wait for the mutex while the other runs, stops and
restarts the engine. `MaxQueued` bounds the procs waiting in one queue: two let a release
be followed by a proc that must not run, and a push overtake a taking. Two handles
give a release one that runs a hook and one that is opened, closed or still connecting.
Two sockets let a hook of one close or start the other while both are being destroyed;
`MaxWrites`, the writes with a block pending in one socket, lets a block send again while
another write is pending. Two requests share the table of procs in every order of
storing and removing; `MaxRuns` of 2 lets a number given in one run be found, or a
block be called, by the next one. `BindTypes` and `UvErrors` are the types of addresses
that sockets are bound to and the calls that fail; the passing run leaves out
references, whose bind is a finding. `DestTypes` are the types of destination of a
TCP socket: `tcp` passes both. Delays of 0 and 2 ms (`Delays`) are one that is
rounded up and one that is not, and give all orders of two periods; `MaxLate` of 1
with ticks of up to 2 lets two timers be due at once, in either order. `timers` makes the
restarts that raise (`Lapses`); a delay without an interval is to the code the restart
without arguments that it makes too. On-exit procs
need three (`MaxProcs`) for one that is called, one given up and one registered by
another, and three runs for an `AE.run` in a proc of an `AE.run` beside one of another
thread. The strings need no bound: after an address has ended, whatever follows leads to
the error state. What the proofs cover holds for every bound (section 5).

Symmetry is used in `interrupts` and `on_exit`, which check no liveness: threads,
handles, requests and errors are never told apart, and action properties are sound
under symmetry.

Fairness. Each conjunct is on a union of actions where that is enough, as what is
assumed of a union is less than what is assumed of each of its actions.
`LoopFairness` of `Engine`: the AE thread goes on in C code and taken callbacks, and
user code ends, which the library has to assume as it would hang otherwise (weak
fairness of the union: nothing disables it but its own steps); each turn of `uv_run()`
visits each kind of watcher, so one that is ready again and again is served (strong
fairness, as other callbacks move the thread away from "poll" in between); libuv does not
put off its reports on closed handles, connections and requests for ever (strong
fairness of their union: each of them can be reported only so many times before user
code asks for more). Nothing is assumed of the other Ruby threads, of user calls, or of
timers and data, so the engine is not helped by events that may never come; `EngineStops`
takes it over as it is, and its counterexample needs none of it. `LoopEscape`
is in the union, so no property but `Restartable` excludes it.

The fairness of `TcpSocket` is of the same kind: user code returns, the release goes
on, libuv reports the requests and the end of a closing handle, a timer that
expired, and a shutdown with no write before it (strong fairness of the union, as hooks
of other handles come in between). Nothing is assumed of the peer: it may never
answer a connect, send, or read. So `GracefulEnds` has the condition that the
writes of the socket end; the code needs it for a second reason, that `send_data` is
accepted after `close_gracefully` (see `MCTcpSocket_graceful.cfg` below). For a socket to
a reference there is no outcome to be told, and `TimerEnds` says only that its timer
ends and its handle is freed. `Requests` assumes that user code returns and
that the union of libuv's reports and of the steps of the release goes on; `Timer` the
same, and that `uv_run()` runs a timer that is due again and again. No fairness makes
the engine be released, or a clock tick.

### Findings

- *restart*: an interrupt that arrives while the engine is RELEASING is ignored by
  `ae_ubf` and is still pending when `uv_run()` returns. Ruby 1.9 checks interrupts
  on return from a blocking region, so the exception leaves `AE.run` before
  `AE_status` is set to STOPPED and before the mutex is unlocked: later calls of
  `AE.run` return nil without running. This rests on that behaviour of the Ruby VM,
  which is outside the repository.
- *tcp_block*: the comment at `ext/ae_tcp.c:586` says that write blocks are not run
  when releasing. The test is on a flag of the socket that only `destroy` sets, and a
  socket closed before the release is not destroyed: its cancelled write
  runs the block while the engine is RELEASING.
- *stale_stop*: `AE.stop` is Ruby code that checks the status and then passes
  `release_loop` on (`lib/asyncengine.rb:30`). A thread preempted in between, while the run
  it found ends and the engine is run again, stops the second run. `test/test_threads.rb:47`
  is named `test_03_run_and_stop_are_thread_safe`; that this is what "safe" means is a
  reading of that name, and the test itself stops only from the AE thread.
- *udp_bind*: `ext/ae_udp.c:204` and `:211` raise the error of a failed bind, but are
  not reached: the lines before them call `close_handle` on a structure whose
  `_uv_handle` is set only at 215, so `uv_close(NULL)` ends the process.

Eight more have a configuration of their own, not listed as runs, whose property TLC
finds violated:

- `MCEngine_kill.cfg` (`KillNotStored`): a comment says that a `Thread#kill` is not
  stored as the error of the run; `ae_handle_error` stores an `Interrupt`, and `AE.run`
  raises it.
- `MCTcpSocket_gc.cfg` (`PendingProtected`): `ext/ae_tcp.c:306` stores the object in
  `AE_handles` to avoid its collection. The ends of a connection remove it while writes
  and shutdowns are still to be reported; their callbacks read the structure of the
  object. If the application keeps no reference, the collector may have freed it by
  then.
- `MCRequests_reference.cfg` (`BoundAsAsked`): a bind IP in brackets is a valid type for
  the constructor but has no case in its switch (`ext/ae_udp.c:194`): the socket is
  bound to any address. `send_datagram` has none either, and takes an unassigned
  variable for libuv's answer (`SendNowhere`).
- `MCTcpSocket_graceful.cfg` (`GracefulEndsWhenRead`): a peer that reads everything is
  not enough for a graceful close to end. A block that sends again each time keeps a
  write pending, and libuv shuts the connection down only after the writes before it.
- `MCTcpSocket_reference.cfg` (`StoppedIsEmpty`): an IPv6 reference passes the check of
  the constructor (`ext/ae_tcp.c:233`) and has no case in the switches that bind and
  connect, so `ret` is read unassigned (297). When it is zero the socket is stored and
  open with no `uv_connect_t`. A close then leaves it in `AE_handles`, as the connect
  callback is to remove it, also after a release, where `AE.ensure_released`
  (`lib/asyncengine/debug.rb:7`) raises "@_handles not empty". `StoredExactly` allows
  for these sockets (`Unreached`) and says that there are no others.
- `MCTimer_delay.cfg` (`ArmedAsDocumented`): the comment above `PeriodicTimer#restart`
  (`ext/ae_timer.c:302`) allows a new delay without a new interval; the code does not
  look at the delay then (325).
- `MCTimer_raises.cfg` (`ArmedAsDocumented`): an interval followed by a delay that is
  not a number is stored before the method raises (`ext/ae_timer.c:322`). The running
  timer goes on as before, and the next `restart` without arguments uses the interval of
  the call that failed, where the comment promises the previous one.
- `MCIpParser_valid.cfg` (`OnlyAddresses`): `ae_ip_parser_execute` never asks whether
  the automaton stopped in a final state (`ext/ip_parser.c:5950`), and the type may have
  been set on the way: "::1." is returned as IPv6. `ExactUnlessIPv6` says that it goes
  no further: IPv4 addresses and references are exact, and what is accepted as IPv6 is
  at least the beginning of an IPv6 address.

Six hazards of `PROJECT.json` name no property a run checks. Two are the ones with a
configuration here (`ext/ae_tcp.c:505`, `:825`). A fork (`ext/asyncengine_ruby.c:110`) and
`AE.next_tick` from another thread (`ext/ae_next_tick.c:66`) are not modelled; nor is
`resolve` from another thread, the only way in which the number of its block could be
missed (`ext/ae_dns.c:91`). The last, a proc after the one that released the engine
(`ext/ae_next_tick.c:104`), is prevented by one test in the code which the model has
too, and nothing else depends on it.

## 5. What is proved

About `Engine`, for any sets of threads, procs, handles and requests, any `MaxQueued` > 0 and
any interrupts, from the assumptions named in `Engine.tla` (only: the values used
as constants are distinct):

- `TypeCorrect`: `Spec => []TypeOK`.
- `Invariant`: `Spec => []IInv`, and from it `LoopHoldsMutex`, `Released`,
  `ReleaseIsFinal`, `HandlesProtected`, `ReqHasProc`, `NoLostWakeup`,
  `CallbacksOnlyRunning`.
- `FirstErrorCorrect`: the action property `FirstErrorWins`.
- `RestartableCorrect`: `Restartable`, for `Interrupts = {}` (with kills it is false).

The argument. `Released` is not inductive: at `LoopExit` one has to know that
the queues and `AE_procs` are empty. That is `ReleaseIsFinal`, which holds because
`AE_CHECK_STATUS` refuses new work from the moment a release starts, and
because when `ReleaseEnd` runs every open handle has been visited. For the
latter, `ReleaseInv` says that what is open is among what is still to visit, which
is true when a release starts since `AE_handles` contains all open handles
(`HandlesProtected`). `LoadedInv` says that a RUNNING engine has its
internal handles, so `uv_run()` returns only after a release.
`LoopHoldsMutex` says who may be inside. `ErrorInv` and the second part of
`ReleaseInv` give `FirstErrorWins`: an error can only be stored while RUNNING,
and storing one ends that. `EngineProofs` has one lemma per conjunct, and in each one
step per group of actions.

From the same invariant, `NextTickKeepsOrder` and `CallFromOtherThreadKeepsOrder`:
`Spec => NextTickInOrder` and `Spec => CallFromOtherThreadInOrder`, every step of the
engine is a step of `ProcQueue` or a stutter, for each queue. Both are the safety
part of what the run `queues` checks (`NextTickKeepsPromise`,
`CallFromOtherThreadKeepsPromise`); the run has no interrupts, the theorems allow them.
While the engine runs, the queue is what a callback has taken and not begun, followed
by the array, and `QueueStep` lists all that can happen to the two: a push behind, the
array taken as a whole, a proc begun at the front. That the array is taken only when
nothing is left of the last taking is `BatchInv`: a second taking would lose procs. A
run begins with both arrays empty by `Released`, and a release ends the promise for
both queues at once. The rest is about sequences: `Concat` and `TwoParts` say that a
queue in two parts is moved as one.

About `TcpSocket`, for any set of sockets, addresses and references as destinations, and any
`MaxWrites` in `Nat`:

- `TcpInvariant`: `Spec => []TcpInv`, and from it `NeverAborts`, `StoredExactly`,
  `TimerOnlyConnecting`, `TimeoutIsError`, `AllDestroyed`.
- `HooksCorrect`: `Spec => HooksInOrder`, every step is a step of `Connection` or a
  stutter.

What `StoredExactly` says with references: `AE_handles` has every socket that is open or
waits for its connect callback, and besides these only sockets to a reference, which stay
there for ever. It says nothing of writes and shutdowns, which `AE_handles` does
not wait for (`PendingProtected`, a finding).

The argument. `NeverAborts` needs to know of each call of `uv_close` that the
handle is open, and of each asserted `uv_shutdown` that none is under way. For
most calls the first is the test of `_uv_handle`, which means what it should by
`HandleIsOpen`; the timer's callback makes no test, and needs
`TimerOnlyConnecting`. The asserted shutdowns are those of the connect callback and
of EOF: `ShutdownNotReading` says that a socket being shut down neither connects
nor is read from. `LifeInv` and `ShutdownInv` tie the C fields to libuv's
side, and `StoredExactly` with `DestroyInv` gives `AllDestroyed`: a release starts with
all that is open in `AE_handles`, and its hooks can open nothing. `ToldInv` says
which history goes with which state of a socket; with it each action is matched to
the step of `Connection` it makes, and `LoopExit` finds every connection over.

About `Requests`, for any sets of sockets and requests and any number of runs, when no
socket is bound to a reference (with one, the finding above applies):

- `ReqInvariant`: `Spec => []ReqInv`, and from it `OwnProcHolds`, `WaitingHolds`,
  `NothingLeftHolds`.
- `AnswersInOrderHolds`: `Spec => AnswersInOrder`, every step is a step of `Answer` or a
  stutter.

The argument. `OwnProc` is about numbers: they are given once (`IdsInv`), also
across runs, as the counter is not reset with the table. That the block is still
there when libuv reports (`StoredInv`) needs to know that no report is made twice
(`PendingInv`), and that a run begins with no block waiting, which is the last part of
`ReleaseInv`. `NothingLeft` needs `SocketInv`: every open socket is in `AE_handles` when
the release starts, and hooks can open nothing. The proof first shows each action to be
one of a few kinds of step, as blocks see them (`Kinds`), and goes through the kinds.

About `Timer`, for any set of timers, delays and lateness, and any `Lapses`: `TimerInvariant`
and from it `OthersHold` (`Spec => []OthersAsDocumented`), `FiredHolds`, `NoneLeftHolds`; for
`Lapses = {}`, `ArmedHolds`: `Spec => []ArmedAsDocumented`, which either lapse breaks
(findings). `OthersHold` is what is left then: a lapse of one timer never reaches
another, and its own only when it is started again from its fields, until an interval is
given. The argument needs the fields of the structure, which a `restart` without
arguments reads, to agree with the calls made for every timer that is not `fouled`
(`FieldsInv`), and that only a lapse fouls one (`StrayedInv`); `NoneLeftToFire` needs the
table to be visited as a whole. From the same
invariant, `RingsInOrderHolds`: `Spec => RingsInOrder`, every step is a step of `Alarm` or a
stutter, where the period and the time of a timer that strayed are libuv's. `RestInv` adds
that a timer that is not open or not started has no time and no promise left; with
`OthersAsDocumented`, what the history promises is what libuv has.

About `OnExit`, for any sets of threads and errors, any `MaxProcs` in `Nat` and any
`MaxRuns` > 0: `OnExitInvariant`: `Spec => []OnExitInv`, and from it `TheErrorOfItsRun`,
`TheNextEndCalls`, `OwnMutexOnlyInAHook` and `CalledOnceInOrder`.

The argument. `CallsInv` says how the calls of one thread nest: a call that waits for
the mutex or is between two procs is the innermost, one in the loop is innermost or
has above it only a call that a hook of its release made, and the thread in the loop
owns the mutex. So a thread waits for its own mutex only there (`NotItsOwnMutex`), and
only one call at a time can be in the loop. `ErrorInv` says that `@_exit_error` is the
error of the run being released and empty otherwise, which is what resetting it before
the procs are called is for, and that no two calls call for the same run. `OrderInv`
tells the procs apart by the number of runs that had ended when they were registered
(`registered`): those that wait were registered since the last end, those a call has
left since the one before its run, and it has called only earlier ones.
`CalledByTheNextEnd` and the second half of `EachOnceInOrder` follow. For the first
half, `PlaceInv` says that the waiting, next, called and given-up procs are together all
that were registered and that what is given up is in no other place; that the rest are
apart, and that none is called twice, is in the numbers of `OrderInv` again. As with
`TimerInv`, no run names `OnExitInv`: what the run needs of it are the four properties.

### The lifetime of what is opened

`LifetimeProofs`, about `Lifetime` itself, for any things:

- `NothingStaysHolds`: nothing is open when the loop drains, and nothing at all is left
  when `AE.run` has returned. What has this lifetime is released, whatever it is.
- `Composition`: `One!Spec /\ Two!Spec => Both!Spec`. Components with this lifetime have it
  together, if they share the phases: `Work`, `Destroy` and `Drain` of several are one of
  all, and a phase is entered by all at once, as `release_loop` goes through one table and
  `uv_run()` waits for all that is in the loop. The converse for a part, `Restriction`,
  says that what the engine promises to all it promises to any class of handles.

And, each from the inductive invariant of its module, `Spec => LivesInOrder`: every step is a
step of `Lifetime` or a stutter.

- `EngineLives`, with signals and kills at any point. A `Begin` is any entry to
  `release_loop` by a RUNNING engine, a later one a stutter. It needs
  `HandlesProtected` and `ReleaseInv` at the end of a release, `Released` at the return,
  and one more conjunct of `IInv`: `CancelInv`, a connection under way is that of a handle
  libuv has not freed, so that `uv_run()` does not return before its report.
- `TcpLives`, with connections, writes and shutdowns as what is pending. `UnderwayInv`,
  a conjunct of `TcpInv`, is for the same reason: `LoopExit` looks only at the handles.
  That a close is the close of an open handle is `NeverAborts`.
- `RequestsLive`, over any number of runs and with the failed bind that ends the process as
  `Crash`; when no socket is bound to a reference, as above. A hook that sends while
  the sockets are destroyed is allowed by `Destroy`; once the loop drains no socket is open
  (`SocketInv`, `ReleaseInv`), so `send_datagram` is refused though it does not look at
  the status of the engine.
- `TimersLive`. When the loop drains no timer is started (`FiredIsProtected`), so the
  only callbacks left are those of closes.

`Composition` is about the abstract lifetimes. The modules that implement them are not
composed as wholes: each has its own variables for the engine, which the mappings bring
to one `phase`, and a module stands for the steps of the others by letting the
user code run at any time (`OtherHook`, `EnterUser`).

Only model-checked: the liveness properties (`ReleaseCompletes`,
`StopTakesEffect`, `InterruptEndsRun`, `TimerEnds`, `GracefulEnds`) and the fairness
part of `ProcQueue`, `Connection`, `Answer` and `Alarm`, which are about fairness and
ENABLED; and the three invariants of the parser. `IpParser` has no constants and its
run visits all its states, so a proof could only go through the 327 states again.

## 6. What is not modelled

- The check for a forked process in `AE.run`.
- TCP sockets without a connect request among the handles of `Engine`: they are in
  `TcpSocket`.
- Handle methods called from threads other than the AE thread, which the library does
  not support; `AE.next_tick` from another thread.
- A `rescue` in user code: an error either leaves the proc or is as if it had not been.
- Interrupts that come while C code holds the GVL, or between the locking of
  `AE_mutex` and `uv_run()`.
- `AE_UBF` of threads that wait for the mutex; a thread dies only outside `AE.run`.
- A restart that `uv_timer_start` refuses (it fails for no open timer): the
  constructors' answer to such a failure is modelled, that of the restarts is not.
- In IP utilities, the comparison of two parsed addresses (`inet_pton` and `memcmp`) and
  the range of a port; `AE::Utils`, the getters, the encodings of strings, the
  Ruby helpers and the build scripts, which keep no state.
- The data of datagrams, streams and addresses, and which error value a hook
  gets. `PAUSED` of a TCP socket: the code declares the flag and never sets it.
- The close callback of a connect timer's own `uv_timer_t`: its memory is its own,
  and the end of `uv_run()` that waits for it is in `Engine`.
- libuv refusing a shutdown that the code asserts, other than for one that is under
  way; libuv's failure to
  initialise its own handles, for which the code aborts.
- Memory: the code calls `xfree` and `ALLOC` without the GVL in some callbacks.
