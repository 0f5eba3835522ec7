------------------------------ MODULE ProcTable ------------------------------
(* The table of procs (ae_store_proc and ae_remove_proc of                   *)
(* ext/asyncengine/ae_handle_common.c) behind the requests that end with a   *)
(* block: libuv keeps only the number of the block, @_procs the block.       *)
(* Requests composes the table with its users, UdpSocket and Dns, and with   *)
(* the engine that is run, released and run again.                           *)
EXTENDS Naturals

CONSTANT Reqs       \* requests an application makes, each with its own block

VARIABLES
  engine,           \* "running", "destroying" or "draining" (RELEASING), "stopped";
                    \* "crashed" when the process is gone
  user,             \* the AE thread is in user code
  procs,            \* AE_procs: pairs of a number and the request of the block
  proc_long_id,
  procId,           \* the number libuv's request carries, 0 for Qnil
  answer            \* history: what became of the block

tableVars == <<procs, proc_long_id, procId>>

Answers == {"unused", "waiting", "called", "refused", "dropped", "noBlock"}

TableTypeOK ==
  /\ engine \in {"running", "destroying", "draining", "stopped", "crashed"}
  /\ user \in BOOLEAN
  /\ procs \subseteq Nat \X Reqs
  /\ proc_long_id \in Nat /\ procId \in [Reqs -> Nat]
  /\ answer \in [Reqs -> Answers]

TableInit ==
  /\ engine = "running" /\ user = FALSE
  /\ procs = {} /\ proc_long_id = 0
  /\ procId = [r \in Reqs |-> 0]
  /\ answer = [r \in Reqs |-> "unused"]

Others(id) == {entry \in procs : entry[1] # id}

(* Numbers are never reused, not even by the next run of the engine.         *)
ae_store_proc_NotCounted(r) ==                          \* mutant
  LET id == proc_long_id + 1
  IN /\ procs' = Others(id) \cup {<<id, r>>}
     /\ procId' = [procId EXCEPT ![r] = id]
     /\ UNCHANGED proc_long_id

ae_store_proc(r) ==
  LET id == proc_long_id + 1
  IN /\ proc_long_id' = id
     /\ procs' = Others(id) \cup {<<id, r>>}
     /\ procId' = [procId EXCEPT ![r] = id]

ae_remove_proc(r) ==
  /\ procs' = Others(procId[r])
  /\ UNCHANGED <<proc_long_id, procId>>

Ends(r, how) == answer' = [answer EXCEPT ![r] = how]

InLoop == engine \in {"running", "draining"} /\ ~user     \* inside uv_run()
AE_CHECK_STATUS == engine = "running"

(* The end of _ae_send_callback and _ae_getaddrinfo_callback: the block is   *)
(* taken out of the table and, unless the engine is RELEASING, called.       *)
TakeAndCall_AlwaysCalls(r) ==                           \* mutant
  /\ ae_remove_proc(r)
  /\ Ends(r, "called") /\ user' = TRUE

TakeAndCall(r) ==
  /\ ae_remove_proc(r)
  /\ IF engine = "running" THEN Ends(r, "called") /\ user' = TRUE
                           ELSE Ends(r, "dropped") /\ UNCHANGED user
=============================================================================
