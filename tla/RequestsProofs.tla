--------------------------- MODULE RequestsProofs ---------------------------
(* The inductive invariant of Requests, what follows from it, and the        *)
(* requests as an implementation of Answer and of Lifetime.  Every action of *)
(* Requests is first shown to be one of a few kinds of step (ReqStep) as far *)
(* as blocks are concerned; the lemmas "...Step" then go through the kinds,  *)
(* or, for sockets and the release, through the actions.                     *)
EXTENDS Requests, TLAPS

(* A new block gets a number nobody has, and no other block is lost.         *)
LEMMA StoreAdds ==
  ASSUME TypeOK, IdsInv, NEW r \in Reqs, ae_store_proc(r)
  PROVE  /\ proc_long_id' = proc_long_id + 1 /\ proc_long_id' # 0
         /\ procs' = procs \cup {<<proc_long_id', r>>}
         /\ procId' = [procId EXCEPT ![r] = proc_long_id']
         /\ \A q \in Reqs : procId[q] # proc_long_id'
<1> USE DEF TypeOK, TableTypeOK, IdsInv, ae_store_proc, Others
<1>1. proc_long_id' = proc_long_id + 1
  OBVIOUS
<1>2. \A q \in Reqs : procId[q] # proc_long_id'
  BY <1>1
<1>3. \A entry \in procs : entry[1] # proc_long_id'
  BY <1>2
<1> QED BY <1>1, <1>2, <1>3

(* A block that is called or dropped leaves the table, alone.                *)
LEMMA TakeRemoves ==
  ASSUME TypeOK, IdsInv, NEW r \in Reqs, procId[r] # 0, TakeAndCall(r)
  PROVE  /\ procs' \subseteq procs /\ UNCHANGED <<proc_long_id, procId>>
         /\ \A entry \in procs' : entry[2] # r
         /\ \A entry \in procs : entry[2] # r => entry \in procs'
         /\ \/ answer' = [answer EXCEPT ![r] = "called"] /\ engine = "running"
            \/ answer' = [answer EXCEPT ![r] = "dropped"] /\ engine # "running"
         /\ user' \in BOOLEAN
<1> USE DEF TypeOK, TableTypeOK, TakeAndCall, ae_remove_proc, Others, Ends
<1>1. procs' = {entry \in procs : entry[1] # procId[r]} /\ UNCHANGED <<proc_long_id, procId>>
  OBVIOUS
<1>2. \A entry \in procs : entry[2] # r => entry[1] # procId[r]
  BY DEF IdsInv
<1>3. \A entry \in procs : entry[2] = r => entry[1] = procId[r]
  BY DEF IdsInv
<1>4. /\ \/ answer' = [answer EXCEPT ![r] = "called"] /\ engine = "running"
         \/ answer' = [answer EXCEPT ![r] = "dropped"] /\ engine # "running"
      /\ user' \in BOOLEAN
  OBVIOUS
<1> QED BY <1>1, <1>2, <1>3, <1>4

-----------------------------------------------------------------------------
(* The kinds of step, as blocks, numbers and reports see them.               *)
AddSend(s, r) == sends' = [sends EXCEPT ![s] = @ \cup {r}] /\ UNCHANGED queries

Passed(r) ==
  /\ user /\ answer[r] = "unused" /\ Ends(r, "waiting") /\ ae_store_proc(r)
  /\ \/ engine = "running" /\ queries' = queries \cup {r} /\ UNCHANGED sends
     \/ \E s \in opened : AddSend(s, r)
  /\ UNCHANGED engine

SentBare(r) ==
  /\ user /\ answer[r] = "unused" /\ Ends(r, "noBlock")
  /\ \E s \in opened : AddSend(s, r)
  /\ UNCHANGED <<engine, tableVars>>

Refused(r) ==
  /\ user /\ answer[r] = "unused" /\ Ends(r, "refused")
  /\ \/ ae_store_proc(r) /\ opened # {}
     \/ UNCHANGED tableVars
  /\ UNCHANGED <<engine, sends, queries>>

ReportedQuery(r) ==
  /\ InLoop /\ r \in queries /\ queries' = queries \ {r} /\ TakeAndCall(r)
  /\ UNCHANGED <<engine, sends>>

ReportedSend(s, r) ==
  /\ InLoop /\ r \in sends[s]
  /\ sends' = [sends EXCEPT ![s] = @ \ {r}]
  /\ IF procId[r] # 0 THEN TakeAndCall(r) ELSE UNCHANGED <<tableVars, answer>>
  /\ UNCHANGED <<engine, queries>>

Quiet ==
  /\ UNCHANGED <<tableVars, answer, sends, queries>>
  /\ \/ engine' = engine \/ ReleaseBegin \/ LoopExit \/ RunAgain
     \/ engine = "running" /\ engine' = "crashed"

ReqStep ==
  \/ \E r \in Reqs : Passed(r) \/ SentBare(r) \/ Refused(r) \/ ReportedQuery(r)
  \/ \E s \in Sockets, r \in Reqs : ReportedSend(s, r)
  \/ ReleaseEnd /\ UNCHANGED runs
  \/ Quiet

(* A step of a socket that was bound to an address is one of these kinds.    *)
LEMMA UdpKinds ==
  ASSUME TypeOK, SocketInv, Udp
  PROVE  ReqStep
<1> USE DEF ReqStep, Quiet, tableVars, cdataVars, udpVars
<1> PICK s \in Sockets :
       \/ \E t \in BindTypes : New(s, t)
       \/ \E call \in UvErrors : NewFails(s, call)
       \/ \E r \in Reqs : send_datagram(s, r) \/ SendCallback(s, r)
       \/ RecvCallback(s) \/ pause(s) \/ resume(s)
       \/ close(s) \/ destroy(s) \/ CloseCallback(s)
  BY DEF Udp
<1> UNCHANGED queries
  BY DEF Udp
<1>1. CASE \E t \in BindTypes : New(s, t)
  BY <1>1 DEF New
<1>2. CASE \E call \in UvErrors : NewFails(s, call)
  BY <1>2 DEF NewFails, AE_CHECK_STATUS
<1>3. ASSUME NEW r \in Reqs, send_datagram(s, r) PROVE ReqStep
  <2>1. user /\ s \in opened /\ ipType[s] # "ipv6_reference" /\ answer[r] = "unused" /\ UNCHANGED engine
    BY <1>3 DEF send_datagram, SocketInv
  <2>2. CASE ae_store_proc(r) /\ uv_udp_send(s, r, "waiting")
    BY <2>1, <2>2 DEF uv_udp_send, SendAccepted, SendRefused, Passed, AddSend, Refused
  <2>3. CASE UNCHANGED tableVars /\ uv_udp_send(s, r, "noBlock")
    BY <2>1, <2>3 DEF uv_udp_send, SendAccepted, SendRefused, SentBare, AddSend, Refused
  <2> QED BY <1>3, <2>2, <2>3 DEF send_datagram
<1>4. ASSUME NEW r \in Reqs, SendCallback(s, r) PROVE ReqStep
  BY <1>4 DEF SendCallback, ReportedSend
<1>5. CASE RecvCallback(s) \/ pause(s) \/ resume(s)
  BY <1>5 DEF RecvCallback, pause, resume
<1>6. CASE close(s) \/ destroy(s) \/ CloseCallback(s)
  BY <1>6 DEF close, destroy, CloseCallback, close_handle
<1> QED BY <1>1, <1>2, <1>3, <1>4, <1>5, <1>6

(* And so is every step of Requests.                                         *)
LEMMA Kinds ==
  ASSUME TypeOK, SocketInv, [Next]_vars
  PROVE  ReqStep
<1> USE DEF ReqStep, Quiet, tableVars, cdataVars, udpVars
<1>1. CASE Udp
  BY <1>1, UdpKinds
<1>2. ASSUME NEW r \in Reqs, UNCHANGED udpVars,
             resolve(r) \/ resolve_refused(r) \/ GetaddrinfoCallback(r)
      PROVE  ReqStep
  BY <1>2 DEF resolve, resolve_refused, GetaddrinfoCallback, Passed, Refused,
              ReportedQuery, AE_CHECK_STATUS
<1>3. CASE Loop /\ UNCHANGED runs
  BY <1>3 DEF Loop, EnterUser, UserReturn, ReleaseBegin, LoopExit
<1>4. CASE RunAgain
  BY <1>4 DEF RunAgain
<1>5. CASE UNCHANGED vars
  BY <1>5 DEF vars
<1> QED BY <1>1, <1>2, <1>3, <1>4, <1>5 DEF Next, Query

-----------------------------------------------------------------------------
(* The table and the answers keep their types.                               *)
LEMMA TableStep ==
  ASSUME TypeOK, IdsInv, ReqStep
  PROVE  /\ procs' \subseteq Nat \X Reqs /\ proc_long_id' \in Nat
         /\ procId' \in [Reqs -> Nat] /\ answer' \in [Reqs -> Answers]
         /\ queries' \subseteq Reqs /\ sends' \in [Sockets -> SUBSET Reqs]
<1> DEFINE Fits == /\ procs' \subseteq Nat \X Reqs /\ proc_long_id' \in Nat
                   /\ procId' \in [Reqs -> Nat] /\ answer' \in [Reqs -> Answers]
                   /\ queries' \subseteq Reqs /\ sends' \in [Sockets -> SUBSET Reqs]
<1> USE DEF TypeOK, TableTypeOK, UdpTypeOK, DnsTypeOK, tableVars, Ends, Answers, AddSend
<1>1. ASSUME NEW r \in Reqs, Passed(r) PROVE Fits
  BY <1>1, StoreAdds DEF Passed
<1>2. ASSUME NEW r \in Reqs, SentBare(r) PROVE Fits
  BY <1>2 DEF SentBare
<1>3. ASSUME NEW r \in Reqs, Refused(r) PROVE Fits
  BY <1>3, StoreAdds DEF Refused
<1>4. ASSUME NEW r \in Reqs, ReportedQuery(r) PROVE Fits
  BY <1>4 DEF ReportedQuery, TakeAndCall, ae_remove_proc, Others
<1>5. ASSUME NEW s \in Sockets, NEW r \in Reqs, ReportedSend(s, r) PROVE Fits
  BY <1>5 DEF ReportedSend, TakeAndCall, ae_remove_proc, Others
<1>6. CASE ReleaseEnd
  BY <1>6 DEF ReleaseEnd
<1>7. CASE Quiet
  BY <1>7 DEF Quiet
<1> QED BY <1>1, <1>2, <1>3, <1>4, <1>5, <1>6, <1>7 DEF ReqStep

(* Numbers: each is given once.                                              *)
LEMMA IdsStep ==
  ASSUME TypeOK, IdsInv, PendingInv, ReqStep
  PROVE  IdsInv'
<1> USE DEF TypeOK, TableTypeOK, tableVars, Ends
<1>1. ASSUME NEW r \in Reqs, Passed(r) PROVE IdsInv'
  BY <1>1, StoreAdds DEF Passed, IdsInv
<1>2. ASSUME NEW r \in Reqs, SentBare(r) PROVE IdsInv'
  BY <1>2 DEF SentBare, IdsInv
<1>3. ASSUME NEW r \in Reqs, Refused(r) PROVE IdsInv'
  <2>1. CASE ae_store_proc(r)
    BY <1>3, <2>1, StoreAdds DEF Refused, IdsInv
  <2>2. CASE UNCHANGED tableVars
    BY <1>3, <2>2 DEF Refused, IdsInv
  <2> QED BY <1>3, <2>1, <2>2 DEF Refused
<1>4. ASSUME NEW r \in Reqs, procId[r] # 0, TakeAndCall(r) PROVE IdsInv'
  BY <1>4, TakeRemoves DEF IdsInv
<1>5. ASSUME NEW r \in Reqs, ReportedQuery(r) PROVE IdsInv'
  BY <1>4, <1>5 DEF ReportedQuery, PendingInv, IdsInv
<1>6. ASSUME NEW s \in Sockets, NEW r \in Reqs, ReportedSend(s, r) PROVE IdsInv'
  <2>1. CASE procId[r] # 0
    BY <1>4, <1>6, <2>1 DEF ReportedSend
  <2>2. CASE procId[r] = 0
    BY <1>6, <2>2 DEF ReportedSend, IdsInv
  <2> QED BY <2>1, <2>2
<1>7. CASE ReleaseEnd
  BY <1>7 DEF ReleaseEnd, IdsInv
<1>8. CASE Quiet
  BY <1>8 DEF Quiet, IdsInv
<1> QED BY <1>1, <1>2, <1>3, <1>5, <1>6, <1>7, <1>8 DEF ReqStep

(* What libuv reports and what waits for it.                                 *)
LEMMA PendingStep ==
  ASSUME TypeOK, IdsInv, PendingInv, ReqStep
  PROVE  PendingInv'
<1> USE DEF TypeOK, TableTypeOK, UdpTypeOK, DnsTypeOK, tableVars, Ends, PendingInv, Sent
<1>1. ASSUME NEW r \in Reqs, Passed(r) PROVE PendingInv'
  <2>1. r \notin queries /\ Sent(r) = {}
    BY <1>1 DEF Passed
  <2>2. CASE queries' = queries \cup {r} /\ UNCHANGED sends
    BY <1>1, <2>1, <2>2 DEF Passed
  <2>3. ASSUME NEW s \in opened, AddSend(s, r) PROVE PendingInv'
    BY <1>1, <2>1, <2>3 DEF Passed, AddSend
  <2> QED BY <1>1, <2>2, <2>3 DEF Passed
<1>2. ASSUME NEW r \in Reqs, SentBare(r) PROVE PendingInv'
  <2>1. r \notin queries /\ Sent(r) = {}
    BY <1>2 DEF SentBare
  <2>2. PICK s \in opened : AddSend(s, r)
    BY <1>2 DEF SentBare
  <2> QED BY <1>2, <2>1, <2>2 DEF SentBare, AddSend
<1>3. ASSUME NEW r \in Reqs, Refused(r) PROVE PendingInv'
  BY <1>3 DEF Refused
<1>4. ASSUME NEW r \in Reqs, ReportedQuery(r) PROVE PendingInv'
  <2>1. procId[r] # 0
    BY <1>4 DEF ReportedQuery, IdsInv
  <2> QED BY <1>4, <2>1, TakeRemoves DEF ReportedQuery
<1>5. ASSUME NEW s \in Sockets, NEW r \in Reqs, ReportedSend(s, r) PROVE PendingInv'
  <2>1. r \notin queries /\ Sent(r) = {s}
    BY <1>5 DEF ReportedSend
  <2>2. CASE procId[r] # 0
    BY <1>5, <2>1, <2>2, TakeRemoves DEF ReportedSend
  <2>3. CASE procId[r] = 0
    BY <1>5, <2>1, <2>3 DEF ReportedSend, IdsInv
  <2> QED BY <2>2, <2>3
<1>6. CASE ReleaseEnd
  BY <1>6 DEF ReleaseEnd
<1>7. CASE Quiet
  BY <1>7 DEF Quiet
<1> QED BY <1>1, <1>2, <1>3, <1>4, <1>5, <1>6, <1>7 DEF ReqStep

(* A waiting block stays in the table while the engine runs; a block that    *)
(* waits when a run begins would not be there, but none does.                *)
LEMMA StoredStep ==
  ASSUME ReqInv, ReqStep
  PROVE  StoredInv'
<1> USE DEF ReqInv, TypeOK, TableTypeOK, StoredInv, tableVars, Ends
<1>1. ASSUME NEW r \in Reqs, Passed(r) PROVE StoredInv'
  BY <1>1, StoreAdds DEF Passed
<1>2. ASSUME NEW r \in Reqs, SentBare(r) PROVE StoredInv'
  BY <1>2 DEF SentBare
<1>3. ASSUME NEW r \in Reqs, Refused(r) PROVE StoredInv'
  BY <1>3, StoreAdds DEF Refused
<1>4. ASSUME NEW r \in Reqs, procId[r] # 0, TakeAndCall(r), UNCHANGED engine PROVE StoredInv'
  BY <1>4, TakeRemoves
<1>5. ASSUME NEW r \in Reqs, ReportedQuery(r) PROVE StoredInv'
  BY <1>4, <1>5 DEF ReportedQuery, PendingInv, IdsInv
<1>6. ASSUME NEW s \in Sockets, NEW r \in Reqs, ReportedSend(s, r) PROVE StoredInv'
  <2>1. CASE procId[r] # 0
    BY <1>4, <1>6, <2>1 DEF ReportedSend
  <2>2. CASE procId[r] = 0
    BY <1>6, <2>2 DEF ReportedSend
  <2> QED BY <2>1, <2>2
<1>7. CASE ReleaseEnd
  BY <1>7 DEF ReleaseEnd
<1>8. CASE Quiet
  <2>1. CASE engine' = engine \/ engine' = "crashed" \/ LoopExit
    BY <1>8, <2>1 DEF Quiet, LoopExit
  <2>2. CASE ReleaseBegin
    BY <1>8, <2>2 DEF Quiet, ReleaseBegin
  <2>3. CASE RunAgain
    <3>1. \A r \in Reqs : answer[r] # "waiting"
      BY <2>3 DEF RunAgain, ReleaseInv, PendingInv, Sent
    <3> QED BY <1>8, <3>1 DEF Quiet
  <2> QED BY <1>8, <2>1, <2>2, <2>3 DEF Quiet
<1> QED BY <1>1, <1>2, <1>3, <1>5, <1>6, <1>7, <1>8 DEF ReqStep

-----------------------------------------------------------------------------
(* The actions, one by one, where sockets and the release are concerned.     *)
UdpCase(s) ==
  \/ \E t \in BindTypes : New(s, t)
  \/ \E call \in UvErrors : NewFails(s, call)
  \/ \E r \in Reqs : send_datagram(s, r) \/ SendCallback(s, r)
  \/ RecvCallback(s) \/ pause(s) \/ resume(s)
  \/ close(s) \/ destroy(s) \/ CloseCallback(s)

QueryCase(r) ==
  /\ resolve(r) \/ resolve_refused(r) \/ GetaddrinfoCallback(r)
  /\ UNCHANGED udpVars

(* What queries and the engine's own steps leave alone of the sockets.       *)
LEMMA SplitStep ==
  ASSUME [Next]_vars
  PROVE  \/ \E s \in Sockets : UdpCase(s) /\ UNCHANGED <<queries, runs>>
         \/ \E r \in Reqs : QueryCase(r) /\ UNCHANGED runs
         \/ EnterUser /\ UNCHANGED runs
         \/ UserReturn /\ UNCHANGED runs
         \/ ReleaseBegin /\ UNCHANGED runs
         \/ ReleaseEnd /\ UNCHANGED runs
         \/ LoopExit /\ UNCHANGED runs
         \/ RunAgain
         \/ UNCHANGED vars
<1>1. CASE Udp /\ UNCHANGED runs
  BY <1>1 DEF Udp, UdpCase
<1>2. CASE Query /\ UNCHANGED runs
  BY <1>2 DEF Query, QueryCase
<1>3. CASE Loop /\ UNCHANGED runs
  BY <1>3 DEF Loop
<1> QED BY <1>1, <1>2, <1>3 DEF Next

LEMMA TypeStep ==
  ASSUME ReqInv, [Next]_vars
  PROVE  TypeOK'
<1>1. ReqStep /\ TypeOK /\ IdsInv
  BY Kinds DEF ReqInv
<1>2. /\ procs' \subseteq Nat \X Reqs /\ proc_long_id' \in Nat
      /\ procId' \in [Reqs -> Nat] /\ answer' \in [Reqs -> Answers]
      /\ queries' \subseteq Reqs /\ sends' \in [Sockets -> SUBSET Reqs]
  BY <1>1, TableStep
<1> DEFINE EngineOK == /\ engine \in {"running", "destroying", "draining", "stopped", "crashed"}
                       /\ user \in BOOLEAN
           SocketsOK == /\ handles \subseteq Sockets /\ opened \subseteq Sockets
                        /\ paused \subseteq Sockets /\ toDestroy \subseteq Sockets
                        /\ ipType \in [Sockets -> {"none", "ipv4", "ipv6", "ipv6_reference"}]
                        /\ uv \in [Sockets -> {"none", "open", "closing", "closed"}]
                        /\ bound \in [Sockets -> {"none", "given", "any"}]
           Fits == EngineOK' /\ SocketsOK' /\ runs' \in 1 .. MaxRuns
<1> EngineOK /\ SocketsOK /\ runs \in 1 .. MaxRuns
  BY <1>1 DEF TypeOK, TableTypeOK, UdpTypeOK
<1> USE DEF cdataVars, udpVars
<1>3. ASSUME NEW s \in Sockets, UdpCase(s), UNCHANGED runs PROVE Fits
  <2>1. CASE \E t \in BindTypes : New(s, t)
    BY <2>1, <1>3, BindTypesAssumption DEF New, init_instance
  <2>2. CASE \E call \in UvErrors : NewFails(s, call)
    BY <2>2, <1>3 DEF NewFails
  <2>3. CASE \E r \in Reqs : send_datagram(s, r)
    BY <2>3, <1>3 DEF send_datagram
  <2>4. CASE \E r \in Reqs : SendCallback(s, r)
    BY <2>4, <1>3 DEF SendCallback, TakeAndCall
  <2>5. CASE RecvCallback(s) \/ pause(s) \/ resume(s)
    BY <2>5, <1>3 DEF RecvCallback, pause, resume
  <2>6. CASE close(s) \/ destroy(s) \/ CloseCallback(s)
    BY <2>6, <1>3 DEF close, destroy, CloseCallback, close_handle
  <2> QED BY <1>3, <2>1, <2>2, <2>3, <2>4, <2>5, <2>6 DEF UdpCase
<1>4. ASSUME NEW r \in Reqs, QueryCase(r), UNCHANGED runs PROVE Fits
  BY <1>4 DEF QueryCase, resolve, resolve_refused, GetaddrinfoCallback, TakeAndCall
<1>5. (EnterUser \/ UserReturn \/ ReleaseBegin) /\ UNCHANGED runs => Fits
  BY DEF EnterUser, UserReturn, ReleaseBegin
<1>6. (ReleaseEnd \/ LoopExit) /\ UNCHANGED runs => Fits
  BY DEF ReleaseEnd, LoopExit
<1>7. RunAgain => Fits
  BY RunsAssumption DEF RunAgain
<1>8. UNCHANGED vars => Fits
  BY DEF vars
<1>9. Fits
  BY <1>3, <1>4, <1>5, <1>6, <1>7, <1>8, SplitStep
<1> QED BY <1>2, <1>9 DEF TypeOK, TableTypeOK, UdpTypeOK, DnsTypeOK

(* Objects stay protected exactly while their handle is open.                *)
LEMMA SocketStep ==
  ASSUME "ipv6_reference" \notin BindTypes, ReqInv, [Next]_vars
  PROVE  SocketInv'
<1> USE DEF SocketInv, StoredExactly, cdataVars, udpVars
<1> TypeOK /\ SocketInv /\ UdpTypeOK
  BY DEF ReqInv, TypeOK
<1>1. ASSUME NEW s \in Sockets, UdpCase(s) PROVE SocketInv'
  <2> USE DEF UdpTypeOK
  <2>1. CASE \E t \in BindTypes : New(s, t)
    BY <2>1 DEF New, init_instance
  <2>2. CASE \E call \in UvErrors : NewFails(s, call)
    BY <2>2 DEF NewFails
  <2>3. CASE \E r \in Reqs : send_datagram(s, r)
    BY <2>3 DEF send_datagram, uv_udp_send, SendAccepted, SendRefused
  <2>4. CASE \E r \in Reqs : SendCallback(s, r)
    BY <2>4 DEF SendCallback
  <2>5. CASE RecvCallback(s) \/ pause(s) \/ resume(s)
    BY <2>5 DEF RecvCallback, pause, resume
  <2>6. ASSUME s \in opened, close_handle(s) PROVE SocketInv'
    BY <2>6 DEF close_handle
  <2>7. CASE CloseCallback(s)
    BY <2>7 DEF CloseCallback
  <2>8. CASE close(s)
    BY <2>6, <2>8 DEF close
  <2>9. CASE destroy(s)
    BY <2>6, <2>9 DEF destroy
  <2> QED BY <1>1, <2>1, <2>2, <2>3, <2>4, <2>5, <2>7, <2>8, <2>9 DEF UdpCase
<1>2. ASSUME NEW r \in Reqs, QueryCase(r) PROVE SocketInv'
  BY <1>2 DEF QueryCase
<1>3. CASE EnterUser \/ UserReturn \/ ReleaseBegin \/ ReleaseEnd \/ LoopExit \/ RunAgain
  BY <1>3 DEF EnterUser, UserReturn, ReleaseBegin, ReleaseEnd, LoopExit, RunAgain
<1>4. CASE UNCHANGED vars
  BY <1>4 DEF vars
<1> QED BY <1>1, <1>2, <1>3, <1>4, SplitStep

(* The release: nothing is opened behind the back of rb_hash_foreach.        *)
LEMMA ReleaseStep ==
  ASSUME ReqInv, [Next]_vars
  PROVE  ReleaseInv'
<1> USE DEF ReleaseInv, cdataVars, udpVars, tableVars
<1> TypeOK /\ TableTypeOK /\ UdpTypeOK /\ ReleaseInv /\ SocketInv
  BY DEF ReqInv, TypeOK
<1>1. ASSUME NEW s \in Sockets, UdpCase(s), UNCHANGED queries PROVE ReleaseInv'
  <2>1. CASE \E t \in BindTypes : New(s, t)
    BY <2>1, <1>1 DEF New, init_instance, AE_CHECK_STATUS
  <2>2. CASE \E call \in UvErrors : NewFails(s, call)
    BY <2>2, <1>1 DEF NewFails, AE_CHECK_STATUS
  <2>3. CASE \E r \in Reqs : send_datagram(s, r)
    <3>1. engine \notin {"draining", "stopped"}
      BY <2>3 DEF send_datagram, SocketInv, StoredExactly
    <3> QED BY <2>3, <3>1, <1>1 DEF send_datagram
  <2>4. CASE \E r \in Reqs : SendCallback(s, r)
    BY <2>4, <1>1 DEF SendCallback, TakeAndCall, ae_remove_proc, Others, InLoop
  <2>5. CASE RecvCallback(s) \/ pause(s) \/ resume(s)
    BY <2>5, <1>1 DEF RecvCallback, pause, resume
  <2>6. CASE close(s) \/ CloseCallback(s)
    BY <2>6, <1>1 DEF close, close_handle, CloseCallback
  <2>7. CASE destroy(s)
    <3>1. s \in opened
      BY <2>7 DEF destroy, SocketInv, StoredExactly
    <3> QED BY <2>7, <3>1, <1>1 DEF destroy, close_handle
  <2> QED BY <1>1, <2>1, <2>2, <2>3, <2>4, <2>5, <2>6, <2>7 DEF UdpCase
<1>2. ASSUME NEW r \in Reqs, QueryCase(r) PROVE ReleaseInv'
  BY <1>2 DEF QueryCase, resolve, resolve_refused, GetaddrinfoCallback, TakeAndCall,
              ae_remove_proc, Others, InLoop, AE_CHECK_STATUS
<1>3. CASE EnterUser \/ UserReturn
  BY <1>3 DEF EnterUser, UserReturn
<1>4. CASE ReleaseBegin
  BY <1>4 DEF ReleaseBegin
<1>5. CASE ReleaseEnd
  <2>1. handles = {}
    BY <1>5 DEF ReleaseEnd
  <2> QED BY <1>5, <2>1 DEF ReleaseEnd
<1>6. CASE LoopExit
  BY <1>6 DEF LoopExit
<1>7. CASE RunAgain
  BY <1>7 DEF RunAgain
<1>8. CASE UNCHANGED vars
  BY <1>8 DEF vars
<1> QED BY <1>1, <1>2, <1>3, <1>4, <1>5, <1>6, <1>7, <1>8, SplitStep

-----------------------------------------------------------------------------
(* The inductive invariant, for sockets that are bound to addresses: no bind *)
(* IP is a reference (BoundAsAsked says what happens then).                  *)
THEOREM ReqInvariant ==
  ASSUME "ipv6_reference" \notin BindTypes
  PROVE  Spec => []ReqInv
<1>1. Init => ReqInv
  <2> SUFFICES ASSUME Init PROVE ReqInv
    OBVIOUS
  <2> USE DEF Init, TableInit, UdpInit, DnsInit
  <2>1. TableTypeOK
    BY DEF TableTypeOK, Answers
  <2>2. UdpTypeOK
    BY DEF UdpTypeOK
  <2>3. DnsTypeOK /\ runs \in 1 .. MaxRuns
    BY RunsAssumption DEF DnsTypeOK
  <2>4. TypeOK
    BY <2>1, <2>2, <2>3 DEF TypeOK
  <2>5. IdsInv /\ PendingInv
    BY DEF IdsInv, PendingInv, Sent
  <2>6. StoredInv /\ ReleaseInv
    BY DEF StoredInv, ReleaseInv
  <2>7. SocketInv
    BY DEF SocketInv, StoredExactly
  <2> QED BY <2>4, <2>5, <2>6, <2>7 DEF ReqInv
<1>2. ReqInv /\ [Next]_vars => ReqInv'
  <2> SUFFICES ASSUME ReqInv, [Next]_vars PROVE ReqInv'
    OBVIOUS
  <2>1. ReqStep
    BY Kinds DEF ReqInv
  <2>2. TypeOK'
    BY TypeStep
  <2>3. IdsInv' /\ PendingInv'
    BY <2>1, IdsStep, PendingStep DEF ReqInv
  <2>4. StoredInv'
    BY <2>1, StoredStep
  <2>5. SocketInv'
    BY SocketStep
  <2>6. ReleaseInv'
    BY ReleaseStep
  <2> QED BY <2>2, <2>3, <2>4, <2>5, <2>6 DEF ReqInv
<1> QED BY <1>1, <1>2, PTL DEF Spec

-----------------------------------------------------------------------------
(* Every outstanding request that has a block carries the number of that     *)
(* block, which is in the table: ae_proc_call never finds nil, nor the block *)
(* of somebody else.                                                         *)
THEOREM OwnProcHolds ==
  ASSUME "ipv6_reference" \notin BindTypes
  PROVE  Spec => []OwnProc
<1>1. ReqInv => OwnProc
  <2> SUFFICES ASSUME ReqInv, engine \in {"running", "destroying"}, NEW r \in Outstanding
               PROVE  {entry \in procs : entry[1] = procId[r]} = {<<procId[r], r>>}
    BY DEF OwnProc
  <2> USE DEF ReqInv, TypeOK, TableTypeOK, UdpTypeOK, DnsTypeOK
  <2>1. r \in Reqs /\ procId[r] # 0 /\ answer[r] = "waiting"
    BY DEF Outstanding, PendingInv, IdsInv, Sent
  <2>2. <<procId[r], r>> \in procs
    BY <2>1 DEF StoredInv
  <2>3. \A entry \in procs : entry[1] = procId[r] => entry[2] = r
    BY <2>1 DEF IdsInv
  <2>4. \A entry \in procs : entry = <<entry[1], entry[2]>>
    OBVIOUS
  <2> QED BY <2>2, <2>3, <2>4
<1> QED BY <1>1, ReqInvariant, PTL

(* A block waits exactly as long as libuv has its request.                   *)
LEMMA Waiting ==
  ASSUME ReqInv
  PROVE  WaitingIsOutstanding
<1> USE DEF ReqInv, TypeOK, TableTypeOK, UdpTypeOK, DnsTypeOK
<1>1. ASSUME NEW r \in Reqs, answer[r] = "waiting" PROVE r \in Outstanding
  BY <1>1 DEF Outstanding, PendingInv, IdsInv, Sent
<1>2. ASSUME NEW r \in Outstanding PROVE r \in Reqs /\ answer[r] = "waiting"
  BY <1>2 DEF Outstanding, PendingInv, IdsInv, Sent
<1> QED BY <1>1, <1>2 DEF WaitingIsOutstanding

THEOREM WaitingHolds ==
  ASSUME "ipv6_reference" \notin BindTypes
  PROVE  Spec => []WaitingIsOutstanding
BY Waiting, ReqInvariant, PTL

(* A stopped engine keeps no block, no socket and no request.                *)
THEOREM NothingLeftHolds ==
  ASSUME "ipv6_reference" \notin BindTypes
  PROVE  Spec => []NothingLeft
<1>1. ReqInv => NothingLeft
  BY DEF ReqInv, ReleaseInv, SocketInv, StoredExactly, NothingLeft, Outstanding
<1> QED BY <1>1, ReqInvariant, PTL

-----------------------------------------------------------------------------
(* The refinement.  What a step does to one request it does to its block.    *)
Blocks == [r \in Reqs |-> IF answer[r] = "noBlock" THEN "refused" ELSE answer[r]]
Shown(how) == IF how = "noBlock" THEN "refused" ELSE how

LEMMA EndsShown ==
  ASSUME TypeOK, NEW r \in Reqs, NEW how \in Answers, Ends(r, how)
  PROVE  Blocks' = [Blocks EXCEPT ![r] = Shown(how)]
BY DEF Blocks, Shown, Ends, TypeOK, TableTypeOK

LEMMA AnswerStep ==
  ASSUME ReqInv, ReqStep
  PROVE  [Promise!Next]_Promise!vars
<1> USE DEF ReqInv, TypeOK, TableTypeOK, Promise!Next, Promise!vars, Promise!Become
<1>1. ASSUME NEW r \in Reqs, Passed(r) PROVE Promise!Pass(r)
  <2>1. engine \in {"running", "destroying", "draining"} /\ UNCHANGED engine
    BY <1>1 DEF Passed, ReleaseInv
  <2>2. Blocks' = [Blocks EXCEPT ![r] = "waiting"] /\ Blocks[r] = "unused"
    BY <1>1, EndsShown DEF Passed, Shown, Blocks, Answers
  <2> QED BY <2>1, <2>2 DEF Blocks, Promise!Pass
<1>2. ASSUME NEW r \in Reqs, SentBare(r) \/ Refused(r) PROVE Promise!Refuse(r)
  <2>1. engine \in {"running", "destroying", "draining"} /\ UNCHANGED engine
    BY <1>2 DEF SentBare, Refused, ReleaseInv
  <2>2. Blocks' = [Blocks EXCEPT ![r] = "refused"] /\ Blocks[r] = "unused"
    BY <1>2, EndsShown DEF SentBare, Refused, Shown, Blocks, Answers
  <2> QED BY <2>1, <2>2 DEF Blocks, Promise!Refuse
<1>3. ASSUME NEW r \in Reqs, procId[r] # 0, answer[r] = "waiting", InLoop,
             TakeAndCall(r), UNCHANGED engine
      PROVE  Promise!Reply(r) \/ Promise!Drop(r)
  <2>1. Blocks[r] = "waiting"
    BY <1>3 DEF Blocks
  <2>2. CASE engine = "running"
    <3>1. Blocks' = [Blocks EXCEPT ![r] = "called"]
      BY <1>3, <2>2, EndsShown DEF TakeAndCall, Shown, Answers
    <3> QED BY <1>3, <2>1, <2>2, <3>1 DEF Blocks, Promise!Reply
  <2>3. CASE engine = "draining"
    <3>1. Blocks' = [Blocks EXCEPT ![r] = "dropped"]
      BY <1>3, <2>3, EndsShown DEF TakeAndCall, Shown, Answers
    <3> QED BY <1>3, <2>1, <2>3, <3>1 DEF Blocks, Promise!Drop
  <2> QED BY <1>3, <2>2, <2>3 DEF InLoop
<1>4. ASSUME NEW r \in Reqs, ReportedQuery(r) PROVE Promise!Reply(r) \/ Promise!Drop(r)
  <2>1. procId[r] # 0 /\ answer[r] = "waiting"
    BY <1>4 DEF ReportedQuery, PendingInv, IdsInv
  <2> QED BY <1>3, <1>4, <2>1 DEF ReportedQuery
<1>5. ASSUME NEW s \in Sockets, NEW r \in Reqs, ReportedSend(s, r)
      PROVE  \/ Promise!Reply(r) \/ Promise!Drop(r)
             \/ UNCHANGED Promise!vars
  <2>1. CASE procId[r] # 0
    <3>1. answer[r] = "waiting"
      BY <1>5, <2>1 DEF ReportedSend, PendingInv, IdsInv, Sent
    <3> QED BY <1>3, <1>5, <2>1, <3>1 DEF ReportedSend
  <2>2. CASE procId[r] = 0
    BY <1>5, <2>2 DEF ReportedSend
  <2> QED BY <2>1, <2>2
<1>6. CASE ReleaseEnd
  BY <1>6 DEF ReleaseEnd
<1>7. CASE Quiet
  <2>1. CASE engine' = engine
    BY <1>7, <2>1 DEF Quiet
  <2>2. CASE ReleaseBegin
    BY <1>7, <2>2 DEF Quiet, ReleaseBegin, Promise!Release
  <2>3. CASE LoopExit
    <3>1. \A r \in Reqs : answer[r] # "waiting"
      BY <2>3 DEF LoopExit, PendingInv, Sent
    <3> QED BY <1>7, <2>3, <3>1 DEF Quiet, LoopExit, Promise!Stop
  <2>4. CASE RunAgain
    BY <1>7, <2>4 DEF Quiet, RunAgain, Promise!Restart
  <2>5. CASE engine = "running" /\ engine' = "crashed"
    BY <1>7, <2>5 DEF Quiet, Promise!Crash
  <2> QED BY <1>7, <2>1, <2>2, <2>3, <2>4, <2>5 DEF Quiet
<1> QED BY <1>1, <1>2, <1>4, <1>5, <1>6, <1>7 DEF ReqStep

(* Every block is called at most once, by the run of the engine it was       *)
(* passed to, and AE.run does not return while one is waiting.               *)
THEOREM AnswersInOrderHolds ==
  ASSUME "ipv6_reference" \notin BindTypes
  PROVE  Spec => AnswersInOrder
<1>1. Init => Promise!Init
  BY DEF Init, TableInit, Promise!Init
<1>2. ReqInv /\ [Next]_vars => [Promise!Next]_Promise!vars
  BY Kinds, AnswerStep DEF ReqInv
<1> QED BY <1>1, <1>2, ReqInvariant, PTL DEF Spec, AnswersInOrder
-----------------------------------------------------------------------------
(* The sockets and requests as things of a lifetime.                         *)
Pending == queries \cup UNION {sends[s] : s \in Sockets}

(* While the engine runs, an open socket stays open or is closed.            *)
LEMMA LifeWork ==
  ASSUME engine = "running", engine' = engine,
         \A s \in Sockets : uv[s] = "open" => uv'[s] \in {"open", "closing"}
  PROVE  Life!Work
BY DEF Life!Work, Life!Closed

(* While release_loop destroys the sockets they are only closed, and nothing *)
(* is reported; a hook may still send.                                       *)
LEMMA LifeDestroy ==
  ASSUME engine = "destroying", engine' = engine,
         \A s \in Sockets : \/ uv'[s] = uv[s]
                            \/ uv[s] = "open" /\ uv'[s] = "closing",
         Pending \subseteq Pending'
  PROVE  Life!Destroy
BY DEF Life!Destroy, Life!Closed, Pending

(* When the loop drains, nothing is opened, sent or asked.                   *)
LEMMA LifeDrain ==
  ASSUME engine = "draining", engine' = engine,
         \A s \in Sockets : \/ uv'[s] = uv[s]
                            \/ uv[s] = "closing" /\ uv'[s] = "closed",
         Pending' \subseteq Pending
  PROVE  Life!Drain
BY DEF Life!Drain, Pending

(* A method of a socket finds the engine running or destroying: when it      *)
(* drains no socket is open.                                                 *)
LEMMA OpenedLives ==
  ASSUME ReqInv, user, NEW s \in opened
  PROVE  engine \in {"running", "destroying"} /\ uv[s] = "open"
BY DEF ReqInv, ReleaseInv, SocketInv, StoredExactly

(* What is pending, by its parts.                                            *)
LEMMA PendingGrows ==
  ASSUME queries \subseteq queries', \A s \in Sockets : sends[s] \subseteq sends'[s]
  PROVE  Pending \subseteq Pending'
BY DEF Pending

LEMMA PendingShrinks ==
  ASSUME queries' \subseteq queries, \A s \in Sockets : sends'[s] \subseteq sends[s]
  PROVE  Pending' \subseteq Pending
BY DEF Pending

(* A method called by user code.                                             *)
LEMMA MethodLives ==
  ASSUME ReqInv, NEW s \in Sockets, UNCHANGED queries,
         \/ \E t \in BindTypes : New(s, t)
         \/ \E call \in UvErrors : NewFails(s, call)
         \/ \E r \in Reqs : send_datagram(s, r)
         \/ pause(s) \/ resume(s) \/ close(s)
  PROVE  [Life!Next]_(Life!vars)
<1> USE DEF cdataVars, udpVars
<1> uv \in [Sockets -> {"none", "open", "closing", "closed"}]
  BY DEF ReqInv, TypeOK, UdpTypeOK
<1> sends \in [Sockets -> SUBSET Reqs]
  BY DEF ReqInv, TypeOK, UdpTypeOK
<1>1. ASSUME NEW t \in BindTypes, New(s, t) PROVE Life!Work
  <2>1. engine = "running" /\ engine' = engine
    BY <1>1 DEF New, AE_CHECK_STATUS
  <2>2. uv' = [uv EXCEPT ![s] = "open"]
    BY <1>1 DEF New, init_instance
  <2> QED BY <2>1, <2>2, LifeWork
<1>2. ASSUME NEW call \in UvErrors, NewFails(s, call)
      PROVE  Life!Crash \/ UNCHANGED Life!vars
  <2>1. UNCHANGED <<uv, sends>> /\ engine = "running"
    BY <1>2 DEF NewFails, AE_CHECK_STATUS
  <2>2. UNCHANGED Life!things
    BY <2>1 DEF Life!things
  <2>3. engine' = engine \/ engine' = "crashed"
    BY <1>2 DEF NewFails
  <2> QED BY <2>1, <2>2, <2>3 DEF Life!Crash, Life!Enter, Life!vars, Life!things
<1>3. ASSUME UNCHANGED engine, user, s \in opened,
             \A o \in Sockets : \/ uv'[o] = uv[o]
                                \/ uv[o] = "open" /\ uv'[o] = "closing",
             \A o \in Sockets : sends[o] \subseteq sends'[o]
      PROVE  Life!Work \/ Life!Destroy
  <2>1. engine \in {"running", "destroying"}
    BY <1>3, OpenedLives
  <2>2. Pending \subseteq Pending'
    BY <1>3, PendingGrows
  <2> QED BY <1>3, <2>1, <2>2, LifeWork, LifeDestroy
<1>4. ASSUME NEW r \in Reqs, send_datagram(s, r) PROVE Life!Work \/ Life!Destroy
  <2>1. sends' = sends \/ sends' = [sends EXCEPT ![s] = sends[s] \cup {r}]
    BY <1>4 DEF send_datagram, uv_udp_send, SendAccepted, SendRefused, SendNowhere
  <2>2. \A o \in Sockets : sends[o] \subseteq sends'[o]
    BY <2>1
  <2>3. UNCHANGED <<engine, uv>> /\ user /\ s \in opened
    BY <1>4 DEF send_datagram
  <2> QED BY <1>3, <2>2, <2>3
<1>5. ASSUME pause(s) \/ resume(s) PROVE Life!Work \/ Life!Destroy
  <2>1. UNCHANGED <<engine, uv, sends>> /\ user /\ s \in opened
    BY <1>5 DEF pause, resume
  <2> QED BY <1>3, <2>1
<1>6. ASSUME close(s) PROVE Life!Work \/ Life!Destroy
  <2>1. UNCHANGED <<engine, sends>> /\ user /\ s \in opened
    BY <1>6 DEF close, close_handle
  <2>2. uv' = [uv EXCEPT ![s] = "closing"] /\ uv[s] = "open"
    BY <1>6, <2>1, OpenedLives DEF close, close_handle
  <2> QED BY <1>3, <2>1, <2>2
<1> QED BY <1>1, <1>2, <1>4, <1>5, <1>6 DEF Life!Next

(* A report: of a datagram, of a send, of a query or of a close.             *)
LEMMA ReportLives ==
  ASSUME ReqInv,
         \/ \E s \in Sockets :
              /\ \/ RecvCallback(s) \/ CloseCallback(s)
                 \/ \E r \in Reqs : SendCallback(s, r)
              /\ UNCHANGED queries
         \/ \E r \in Reqs : GetaddrinfoCallback(r) /\ UNCHANGED udpVars
  PROVE  [Life!Next]_(Life!vars)
<1> USE DEF cdataVars, udpVars
<1> uv \in [Sockets -> {"none", "open", "closing", "closed"}]
  BY DEF ReqInv, TypeOK, UdpTypeOK
<1> sends \in [Sockets -> SUBSET Reqs]
  BY DEF ReqInv, TypeOK, UdpTypeOK
<1>1. engine \in {"running", "draining"} /\ engine' = engine
  BY DEF RecvCallback, CloseCallback, SendCallback, GetaddrinfoCallback, InLoop
<1>2. ASSUME \A s \in Sockets : \/ uv'[s] = uv[s]
                                \/ uv[s] = "closing" /\ uv'[s] = "closed",
             queries' \subseteq queries,
             \A s \in Sockets : sends'[s] \subseteq sends[s]
      PROVE  [Life!Next]_(Life!vars)
  <2>1. Pending' \subseteq Pending
    BY <1>2, PendingShrinks
  <2>2. \A s \in Sockets : uv[s] = "open" => uv'[s] \in {"open", "closing"}
    BY <1>2
  <2> QED BY <1>1, <1>2, <2>1, <2>2, LifeWork, LifeDrain DEF Life!Next
<1>3. ASSUME NEW s \in Sockets, RecvCallback(s) \/ CloseCallback(s), UNCHANGED queries
      PROVE  [Life!Next]_(Life!vars)
  BY <1>2, <1>3 DEF RecvCallback, CloseCallback
<1>4. ASSUME NEW s \in Sockets, NEW r \in Reqs, SendCallback(s, r), UNCHANGED queries
      PROVE  [Life!Next]_(Life!vars)
  <2>1. \A o \in Sockets : sends'[o] \subseteq sends[o]
    BY <1>4 DEF SendCallback
  <2> QED BY <1>2, <1>4, <2>1 DEF SendCallback
<1>5. ASSUME NEW r \in Reqs, GetaddrinfoCallback(r), UNCHANGED udpVars
      PROVE  [Life!Next]_(Life!vars)
  BY <1>2, <1>5 DEF GetaddrinfoCallback
<1> QED BY <1>3, <1>4, <1>5

(* release_loop closes one socket.                                           *)
LEMMA DestroyLives ==
  ASSUME ReqInv, NEW s \in Sockets, destroy(s), UNCHANGED queries
  PROVE  Life!Destroy
<1> USE DEF cdataVars
<1>1. uv[s] = "open" /\ s \in opened
  BY DEF destroy, ReqInv, SocketInv, StoredExactly
<1>2. uv' = [uv EXCEPT ![s] = "closing"] /\ UNCHANGED sends
  BY <1>1 DEF destroy, close_handle
<1>3. Pending \subseteq Pending'
  BY <1>2, PendingGrows
<1>4. engine = "destroying" /\ engine' = engine
  BY DEF destroy
<1> QED BY <1>1, <1>2, <1>3, <1>4, LifeDestroy DEF ReqInv, TypeOK, UdpTypeOK

(* Every step of Requests is a step of Lifetime or a stutter.                *)
LEMMA LifetimeStep ==
  ASSUME ReqInv, [Next]_vars
  PROVE  [Life!Next]_(Life!vars)
<1> USE DEF cdataVars, udpVars
<1>1. ASSUME UNCHANGED <<engine, uv, sends, queries>> PROVE UNCHANGED Life!vars
  BY <1>1 DEF Life!vars
<1>2. ASSUME UNCHANGED <<uv, sends, queries>> PROVE UNCHANGED Life!things
  BY <1>2 DEF Life!things
<1>3. ASSUME NEW s \in Sockets, UdpCase(s), UNCHANGED queries
      PROVE  [Life!Next]_(Life!vars)
  <2>1. CASE destroy(s)
    BY <1>3, <2>1, DestroyLives DEF Life!Next
  <2>2. CASE \/ RecvCallback(s) \/ CloseCallback(s)
             \/ \E r \in Reqs : SendCallback(s, r)
    BY <1>3, <2>2, ReportLives
  <2>3. CASE \/ \E t \in BindTypes : New(s, t)
             \/ \E call \in UvErrors : NewFails(s, call)
             \/ \E r \in Reqs : send_datagram(s, r)
             \/ pause(s) \/ resume(s) \/ close(s)
    BY <1>3, <2>3, MethodLives
  <2> QED BY <1>3, <2>1, <2>2, <2>3 DEF UdpCase
<1>4. ASSUME NEW r \in Reqs, QueryCase(r) PROVE [Life!Next]_(Life!vars)
  <2>1. CASE resolve(r)
    BY <1>4, <2>1, LifeWork DEF QueryCase, resolve, AE_CHECK_STATUS, Life!Next
  <2>2. CASE resolve_refused(r)
    BY <1>1, <1>4, <2>2 DEF QueryCase, resolve_refused
  <2>3. CASE GetaddrinfoCallback(r)
    BY <1>4, <2>3, ReportLives DEF QueryCase
  <2> QED BY <1>4, <2>1, <2>2, <2>3 DEF QueryCase
<1>5. CASE EnterUser \/ UserReturn
  BY <1>1, <1>5 DEF EnterUser, UserReturn
<1>6. CASE ReleaseBegin
  BY <1>2, <1>6 DEF ReleaseBegin, Life!Begin, Life!Enter, Life!Next
<1>7. CASE ReleaseEnd
  <2>1. {s \in Sockets : uv[s] = "open"} = {}
    BY <1>7 DEF ReleaseEnd, ReqInv, ReleaseInv, SocketInv, StoredExactly
  <2> QED BY <1>2, <1>7, <2>1 DEF ReleaseEnd, Life!Destroyed, Life!Enter, Life!Next
<1>8. CASE LoopExit
  <2>1. {s \in Sockets : uv[s] = "open"} = {} /\ {s \in Sockets : uv[s] = "closing"} = {}
    BY <1>8 DEF LoopExit
  <2>2. queries \cup UNION {sends[s] : s \in Sockets} = {}
    BY <1>8 DEF LoopExit
  <2> QED BY <1>2, <1>8, <2>1, <2>2 DEF LoopExit, Life!Stop, Life!Enter, Life!Next
<1>9. CASE RunAgain
  BY <1>2, <1>9 DEF RunAgain, Life!Start, Life!Enter, Life!Next
<1>10. CASE UNCHANGED vars
  BY <1>1, <1>10 DEF vars
<1> QED BY <1>3, <1>4, <1>5, <1>6, <1>7, <1>8, <1>9, <1>10, SplitStep

(* Requests implements Lifetime, for sockets that are bound to addresses: in *)
(* every run of the engine the release closes all sockets, and AE.run        *)
(* returns after the last send, query and close was reported.                *)
THEOREM RequestsLive ==
  ASSUME "ipv6_reference" \notin BindTypes
  PROVE  Spec => LivesInOrder
<1>1. Init => Life!Init
  BY DEF Init, TableInit, UdpInit, DnsInit, Life!Init
<1>2. ReqInv /\ [Next]_vars => [Life!Next]_(Life!vars)
  BY LifetimeStep
<1> QED BY <1>1, <1>2, ReqInvariant, PTL DEF Spec, LivesInOrder, Life!Spec
=============================================================================
