------------------------------ MODULE UdpSocket ------------------------------
(* UDPSocket (ext/asyncengine/ae_udp.c), the operations of the AE thread;    *)
(* what they leave alone of the other users of the table is said in Requests. *)
(* The encoding and the contents of datagrams are left out.                  *)
EXTENDS ProcTable

CONSTANTS Sockets,      \* AE::UDPSocket objects
          BindTypes,    \* what ae_ip_parser_execute says of the bind IPs used
          UvErrors      \* the libuv calls of the constructor that may fail

ASSUME BindTypesAssumption == BindTypes \subseteq {"ipv4", "ipv6", "ipv6_reference"}
ASSUME UvErrorsAssumption == UvErrors \subseteq {"init", "bind", "recv_start"}

VARIABLES
  handles,      \* AE_handles
  opened,       \* sockets whose _uv_handle is not NULL
  ipType,       \* the ip_type of each socket
  paused,       \* sockets whose flag PAUSED is set
  uv,           \* the life of each uv_udp_t
  bound,        \* the address each uv_udp_t is bound to
  sends,        \* outstanding uv_udp_send_t of each socket, by request
  toDestroy     \* what rb_hash_foreach has still to visit

cdataVars == <<opened, ipType, paused>>
udpVars == <<handles, cdataVars, uv, bound, sends, toDestroy>>

UdpTypeOK ==
  /\ handles \subseteq Sockets /\ opened \subseteq Sockets
  /\ paused \subseteq Sockets /\ toDestroy \subseteq Sockets
  /\ ipType \in [Sockets -> {"none", "ipv4", "ipv6", "ipv6_reference"}]
  /\ uv \in [Sockets -> {"none", "open", "closing", "closed"}]
  /\ bound \in [Sockets -> {"none", "given", "any"}]
  /\ sends \in [Sockets -> SUBSET Reqs]

UdpInit ==
  /\ handles = {} /\ opened = {} /\ paused = {} /\ toDestroy = {}
  /\ ipType = [s \in Sockets |-> "none"]
  /\ uv = [s \in Sockets |-> "none"]
  /\ bound = [s \in Sockets |-> "none"]
  /\ sends = [s \in Sockets |-> {}]

-----------------------------------------------------------------------------
(* UDPSocket.new.  init_instance binds IPv4 and IPv6 addresses; for anything *)
(* else that is not no_ip no case applies, r is still 0, and                 *)
(* uv_udp_recv_start binds the socket to any address.                        *)
init_instance(s, t) ==
  /\ uv' = [uv EXCEPT ![s] = "open"]
  /\ bound' = [bound EXCEPT ![s] = IF t \in {"ipv4", "ipv6"} THEN "given" ELSE "any"]
  /\ opened' = opened \cup {s}
  /\ ipType' = [ipType EXCEPT ![s] = t]
  /\ paused' = paused \ {s}
  /\ handles' = handles \cup {s}

New(s, t) ==
  /\ user /\ AE_CHECK_STATUS /\ uv[s] = "none"
  /\ init_instance(s, t)
  /\ UNCHANGED <<engine, user, tableVars, answer, sends, toDestroy>>

(* A failure: uv_udp_init raises and leaves nothing behind.  After a failed  *)
(* bind or recv_start close_handle is called before cdata->_uv_handle is     *)
(* set, and uv_close(NULL) ends the process.                                 *)
NewFails(s, call) ==
  /\ user /\ AE_CHECK_STATUS /\ uv[s] = "none"
  /\ IF call = "init" THEN UNCHANGED <<engine, user>>
                      ELSE engine' = "crashed" /\ user' = FALSE
  /\ UNCHANGED <<tableVars, answer, udpVars>>

-----------------------------------------------------------------------------
(* send_datagram does not look at the status of the engine, only at the      *)
(* socket.  The block is stored before libuv is asked; when libuv refuses,   *)
(* an error is raised and the block stays in the table.                      *)
SendAccepted(s, r, how) ==
  /\ sends' = [sends EXCEPT ![s] = @ \cup {r}]
  /\ Ends(r, how)

SendRefused_Silent(s, r, how) == Ends(r, how) /\ UNCHANGED sends      \* mutant
SendRefused(s, r, how) == Ends(r, "refused") /\ UNCHANGED sends

(* No case applies for a reference: r is never assigned, and whatever it     *)
(* holds is taken for libuv's answer.                                        *)
SendNowhere(s, r, how) ==
  /\ Ends(r, how) \/ Ends(r, "refused")
  /\ UNCHANGED sends

uv_udp_send(s, r, how) ==
  IF ipType[s] = "ipv6_reference"
    THEN SendNowhere(s, r, how)
    ELSE SendAccepted(s, r, how) \/ SendRefused(s, r, how)

send_datagram(s, r) ==
  /\ user /\ s \in opened /\ answer[r] = "unused"
  /\ \/ ae_store_proc(r) /\ uv_udp_send(s, r, "waiting")
     \/ UNCHANGED tableVars /\ uv_udp_send(s, r, "noBlock")
  /\ UNCHANGED <<engine, user, handles, cdataVars, uv, bound, toDestroy>>

SendCallback(s, r) ==
  /\ InLoop /\ r \in sends[s]
  /\ sends' = [sends EXCEPT ![s] = @ \ {r}]
  /\ IF procId[r] # 0 THEN TakeAndCall(r)
                       ELSE UNCHANGED <<user, tableVars, answer>>
  /\ UNCHANGED <<engine, handles, cdataVars, uv, bound, toDestroy>>

(* on_datagram_received is user code; a datagram that arrives while the      *)
(* engine is RELEASING or the socket paused is lost.                         *)
RecvCallback(s) ==
  /\ InLoop /\ uv[s] = "open" /\ engine = "running" /\ s \notin paused
  /\ user' = TRUE
  /\ UNCHANGED <<engine, tableVars, answer, udpVars>>

pause(s) ==
  /\ user /\ s \in opened
  /\ paused' = paused \cup {s}
  /\ UNCHANGED <<engine, user, tableVars, answer, handles, opened, ipType, uv,
                 bound, sends, toDestroy>>

resume(s) ==
  /\ user /\ s \in opened
  /\ paused' = paused \ {s}
  /\ UNCHANGED <<engine, user, tableVars, answer, handles, opened, ipType, uv,
                 bound, sends, toDestroy>>

-----------------------------------------------------------------------------

close_handle_LeavesOpen(s) ==                           \* mutant
  /\ opened' = opened \ {s}
  /\ handles' = handles \ {s}
  /\ UNCHANGED <<uv, ipType, paused, bound, sends>>

close_handle(s) ==
  /\ uv' = [uv EXCEPT ![s] = "closing"]
  /\ opened' = opened \ {s}
  /\ handles' = handles \ {s}
  /\ UNCHANGED <<ipType, paused, bound, sends>>

close(s) ==
  /\ user /\ s \in opened
  /\ close_handle(s)
  /\ UNCHANGED <<engine, user, tableVars, answer, toDestroy>>

(* destroy_handle, for one entry of the table: the method returns false when *)
(* the socket is closed already.                                             *)
destroy(s) ==
  /\ engine = "destroying" /\ ~user /\ s \in toDestroy \cap handles
  /\ toDestroy' = toDestroy \ {s}
  /\ IF s \in opened THEN close_handle(s)
                     ELSE UNCHANGED <<handles, cdataVars, uv, bound, sends>>
  /\ UNCHANGED <<engine, user, tableVars, answer>>

(* libuv reports the sends of a closed socket, cancelled, before the close.  *)
CloseCallback(s) ==
  /\ InLoop /\ uv[s] = "closing" /\ sends[s] = {}
  /\ uv' = [uv EXCEPT ![s] = "closed"]
  /\ UNCHANGED <<engine, user, tableVars, answer, handles, cdataVars, bound,
                 sends, toDestroy>>
=============================================================================
