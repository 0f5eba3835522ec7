------------------------------ MODULE Requests ------------------------------
(* UDP sockets and DNS queries over one table of procs and one engine that   *)
(* is run, released (ae_release_loop of ext/asyncengine/asyncengine_ruby.c)  *)
(* and run again.  A callback of libuv and a method are one step each; a     *)
(* block and a hook are user code, which may call any method before it       *)
(* returns.  Engine describes the release with its threads and errors; here  *)
(* it is reduced to what requests see of it.                                 *)
(*                                                                           *)
(* A definition marked "mutant" is a deliberate fault that could replace the *)
(* definition below it; no specification uses one.                           *)
EXTENDS UdpSocket, Dns

CONSTANT MaxRuns    \* bound on the runs of the engine

ASSUME RunsAssumption == MaxRuns \in Nat \ {0}

VARIABLE runs       \* how many times AE.run was entered

vars == <<engine, user, tableVars, answer, udpVars, queries, runs>>

TypeOK == TableTypeOK /\ UdpTypeOK /\ DnsTypeOK /\ runs \in 1 .. MaxRuns

Init == TableInit /\ UdpInit /\ DnsInit /\ runs = 1

-----------------------------------------------------------------------------
(* Any other callback of the engine that runs user code: next_tick, a timer, *)
(* a TCP hook, which is also called while release_loop destroys sockets.     *)
EnterUser ==
  /\ engine \in {"running", "destroying", "draining"} /\ ~user
  /\ user' = TRUE
  /\ UNCHANGED <<engine, tableVars, answer, udpVars, queries>>

UserReturn ==
  /\ user
  /\ user' = FALSE
  /\ UNCHANGED <<engine, tableVars, answer, udpVars, queries>>

ReleaseBegin ==
  /\ engine = "running" /\ ~user
  /\ engine' = "destroying"
  /\ toDestroy' = handles
  /\ UNCHANGED <<user, tableVars, answer, handles, cdataVars, uv, bound, sends,
                 queries>>

ReleaseEnd_KeepsProcs ==                                \* mutant
  /\ engine = "destroying" /\ ~user /\ toDestroy \cap handles = {}
  /\ engine' = "draining"
  /\ toDestroy' = {}
  /\ UNCHANGED <<user, tableVars, answer, handles, cdataVars, uv, bound, sends,
                 queries>>

ReleaseEnd ==
  /\ engine = "destroying" /\ ~user /\ toDestroy \cap handles = {}
  /\ engine' = "draining"
  /\ toDestroy' = {}
  /\ procs' = {}
  /\ UNCHANGED <<user, proc_long_id, procId, answer, handles, cdataVars, uv,
                 bound, sends, queries>>

(* uv_run() returns when no handle and no request is left.                   *)
LoopExit ==
  /\ engine = "draining" /\ ~user
  /\ \A s \in Sockets : uv[s] \in {"none", "closed"} /\ sends[s] = {}
  /\ queries = {}
  /\ engine' = "stopped"
  /\ UNCHANGED <<user, tableVars, answer, udpVars, queries>>

RunAgain ==
  /\ engine = "stopped" /\ runs < MaxRuns
  /\ engine' = "running" /\ runs' = runs + 1
  /\ UNCHANGED <<user, tableVars, answer, udpVars, queries>>

-----------------------------------------------------------------------------
Udp ==
  /\ \E s \in Sockets :
       \/ \E t \in BindTypes : New(s, t)
       \/ \E call \in UvErrors : NewFails(s, call)
       \/ \E r \in Reqs : send_datagram(s, r) \/ SendCallback(s, r)
       \/ RecvCallback(s) \/ pause(s) \/ resume(s)
       \/ close(s) \/ destroy(s) \/ CloseCallback(s)
  /\ UNCHANGED queries

Query ==
  /\ \E r \in Reqs : resolve(r) \/ resolve_refused(r) \/ GetaddrinfoCallback(r)
  /\ UNCHANGED udpVars

Loop == EnterUser \/ UserReturn \/ ReleaseBegin \/ ReleaseEnd \/ LoopExit

Next ==
  \/ (Udp \/ Query \/ Loop) /\ UNCHANGED runs
  \/ RunAgain

Spec == Init /\ [][Next]_vars

(* What the loop and the release have still to do, each thing once.          *)
Progress ==
  \/ ReleaseEnd \/ LoopExit
  \/ /\ \E s \in Sockets : \/ destroy(s) \/ CloseCallback(s)
                            \/ \E r \in Reqs : SendCallback(s, r)
     /\ UNCHANGED queries
  \/ (\E r \in Reqs : GetaddrinfoCallback(r)) /\ UNCHANGED udpVars

(* User code returns, and the loop gets on: libuv reports requests and       *)
(* closes however busy it is, and a released engine has only so many hooks   *)
(* of other components left to call.                                         *)
Fairness ==
  /\ WF_vars(UserReturn /\ UNCHANGED runs)
  /\ SF_vars(Progress /\ UNCHANGED runs)

FairSpec == Spec /\ Fairness

-----------------------------------------------------------------------------
(* Requests libuv has still to report and that have a block.                 *)
Outstanding == {r \in queries \cup UNION {sends[s] : s \in Sockets} : procId[r] # 0}

(* While the engine runs, the number an outstanding request carries is that  *)
(* of its own block: the callback finds a block (AE_ASSERT(! NIL_P(proc)) in *)
(* ae_proc_call) and not the one of another request, of an earlier run or of *)
(* another component.                                                        *)
OwnProc ==
  engine \in {"running", "destroying"} =>
    \A r \in Outstanding :
      {entry \in procs : entry[1] = procId[r]} = {<<procId[r], r>>}

(* A block waits exactly as long as libuv has its request: none is waiting   *)
(* for a request that was lost, none is called and still outstanding.        *)
WaitingIsOutstanding == {r \in Reqs : answer[r] = "waiting"} = Outstanding

(* A stopped engine keeps no block, no socket and no request: not those of   *)
(* requests refused while it ran, nor of what user code did while it was     *)
(* released.                                                                 *)
NothingLeft ==
  engine = "stopped" =>
    procs = {} /\ handles = {} /\ opened = {} /\ Outstanding = {}

(* libuv's callbacks reach a socket's structure through the handle, so the   *)
(* object is protected from the collector exactly while its handle is open.  *)
StoredExactly == handles = opened /\ opened = {s \in Sockets : uv[s] = "open"}

-----------------------------------------------------------------------------
(* The inductive invariant behind them, for sockets bound to addresses.      *)
(* Numbers are given once, and a block leaves the table when it is called or *)
(* dropped.                                                                  *)
IdsInv ==
  /\ \A entry \in procs : /\ procId[entry[2]] = entry[1] /\ entry[1] # 0
                          /\ answer[entry[2]] \in {"waiting", "refused"}
  /\ \A r \in Reqs : procId[r] <= proc_long_id
  /\ \A r, q \in Reqs : procId[r] = procId[q] => r = q \/ procId[r] = 0
  /\ \A r \in Reqs : answer[r] \in {"unused", "noBlock"} => procId[r] = 0
  /\ \A r \in Reqs : answer[r] = "waiting" => procId[r] # 0

(* What libuv has to report and what waits for it.                           *)
Sent(r) == {s \in Sockets : r \in sends[s]}

PendingInv ==
  /\ \A r \in queries : answer[r] = "waiting" /\ Sent(r) = {}
  /\ \A r \in Reqs : Sent(r) # {} => answer[r] \in {"waiting", "noBlock"}
  /\ \A r \in Reqs : \A s, o \in Sent(r) : s = o
  /\ \A r \in Reqs : answer[r] = "waiting" => r \in queries \/ Sent(r) # {}

StoredInv ==
  engine \in {"running", "destroying"} =>
    \A r \in Reqs : answer[r] = "waiting" => <<procId[r], r>> \in procs

SocketInv ==
  /\ StoredExactly
  /\ \A s \in Sockets : sends[s] # {} => uv[s] \in {"open", "closing"}
  /\ \A s \in Sockets : ipType[s] # "ipv6_reference"

ReleaseInv ==
  /\ user => engine \in {"running", "destroying", "draining"}
  /\ engine # "destroying" => toDestroy = {}
  /\ engine = "destroying" => handles \subseteq toDestroy
  /\ engine \in {"draining", "stopped"} => procs = {} /\ handles = {}
  /\ engine = "stopped" => queries = {} /\ \A s \in Sockets : sends[s] = {}

(* Conjoined: blocks, numbers, reports and the release fit together in every *)
(* state, also of the next run of the engine.                                *)
ReqInv ==
  TypeOK /\ IdsInv /\ PendingInv /\ StoredInv /\ SocketInv /\ ReleaseInv
-----------------------------------------------------------------------------

(* The refinement: blocks of requests that were never made wait for nothing. *)
Promise == INSTANCE Answer WITH
  Blocks <- Reqs,
  engine <- IF engine \in {"destroying", "draining"} THEN "releasing" ELSE engine,
  block  <- [r \in Reqs |-> IF answer[r] = "noBlock" THEN "refused" ELSE answer[r]]

(* Every block is called at most once, only by a running engine and by the   *)
(* run it was passed to, and AE.run waits for every request.                 *)
AnswersInOrder == Promise!Init /\ [][Promise!Next]_Promise!vars

(* And every block is called or, when the engine is released, dropped.       *)
AnswersKeepPromise == Promise!Spec

-----------------------------------------------------------------------------
(* "bind IP is not valid IPv4 or IPv6" (AsyncEngineUdpSocket_new): a socket  *)
(* is bound to the IPv4 or IPv6 address it was given.                        *)
BoundAsAsked == \A s \in opened : bound[s] = "given"

(* ae_raise_last_uv_error() after a failed bind or recv_start (init_instance): *)
(* the failure is raised to the caller, it does not end the process.         *)
FailureIsRaised == engine # "crashed"

-----------------------------------------------------------------------------
(* What the engine promises to the sockets, datagrams and queries in it.     *)
Life == INSTANCE Lifetime WITH
  phase   <- engine,
  open    <- {s \in Sockets : uv[s] = "open"},
  closing <- {s \in Sockets : uv[s] = "closing"},
  pending <- queries \cup UNION {sends[s] : s \in Sockets}

(* In every run the release closes all sockets, none is opened and nothing   *)
(* is sent or asked once it is over, and AE.run returns after the last       *)
(* report: nothing is carried into the next run.                             *)
LivesInOrder == Life!Spec
=============================================================================
