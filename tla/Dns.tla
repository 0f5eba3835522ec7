--------------------------------- MODULE Dns ---------------------------------
(* AE::DNS.resolve (ext/asyncengine/ae_dns.c), the operations of the AE      *)
(* thread.  What was resolved is left out.                                   *)
EXTENDS ProcTable

VARIABLE queries    \* outstanding uv_getaddrinfo_t, by request

DnsTypeOK == queries \subseteq Reqs
DnsInit == queries = {}

(* The block is stored once libuv has taken the query.                       *)
resolve(r) ==
  /\ user /\ AE_CHECK_STATUS /\ answer[r] = "unused"
  /\ queries' = queries \cup {r}
  /\ ae_store_proc(r)
  /\ Ends(r, "waiting")
  /\ UNCHANGED <<engine, user>>

resolve_refused(r) ==
  /\ user /\ AE_CHECK_STATUS /\ answer[r] = "unused"
  /\ Ends(r, "refused")
  /\ UNCHANGED <<engine, user, tableVars, queries>>

GetaddrinfoCallback(r) ==
  /\ InLoop /\ r \in queries
  /\ queries' = queries \ {r}
  /\ TakeAndCall(r)
  /\ UNCHANGED engine
=============================================================================
