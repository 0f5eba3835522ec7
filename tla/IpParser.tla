------------------------------ MODULE IpParser ------------------------------
(* ae_ip_parser_execute (ext/asyncengine/ip_parser.c) on every string: the   *)
(* string is not chosen beforehand, each step reads one character more.      *)
(* Beside the automaton goes the grammar of ip_parser.rl, as the set of      *)
(* things that may still follow; the properties compare the two.  Addresses  *)
(* are of bounded length, so the states are finite without a bound.          *)
(*                                                                           *)
(* A definition marked "mutant" is a deliberate fault that could replace the *)
(* definition below it; no specification uses one.                           *)
EXTENDS IpMachine

Grammar == INSTANCE IpGrammar

VARIABLES
  cs, ip_type,  \* the local variables of ae_ip_parser_execute
  p,            \* characters the loop got past
  len,          \* characters of the string
  rest          \* history: by type, what the grammar allows to follow

vars == <<cs, ip_type, p, len, rest>>

IpTypes == {"ipv4", "ipv6", "ipv6_reference"}

Init ==
  /\ cs = ae_ip_parser_start /\ ip_type = "no_ip"
  /\ p = 0 /\ len = 0
  /\ rest = Grammar!main

(* The loop leaves p on a character that has no transition.                  *)
Read(c) ==
  /\ cs # ae_ip_parser_error
  /\ cs' = Goto(cs, c)
  /\ ip_type' = IpType(cs, c, ip_type)
  /\ p' = IF Goto(cs, c) = ae_ip_parser_error THEN p ELSE p + 1
  /\ len' = len + 1
  /\ rest' = [t \in IpTypes |-> Grammar!ReadAll(rest[t], c)]

Next == \E c \in Chars : Read(c)

Spec == Init /\ [][Next]_vars

(* What the function returns for the string read so far.                     *)
Result == IF len # p THEN "no_ip" ELSE ip_type

(* compare_pure_ips copies an address and a NUL into buffers of 46 bytes,    *)
(* without the brackets of a reference.                                      *)
BufferSize == 46
PureLength_WithBrackets == len                          \* mutant
PureLength == IF Result = "ipv6_reference" THEN len - 2 ELSE len

-----------------------------------------------------------------------------
Is(t) == <<>> \in rest[t]          \* the string so far is an address of type t
Viable == \E t \in IpTypes : rest[t] # {}
Final == cs >= ae_ip_parser_first_final

(* The generated automaton recognises the language of ip_parser.rl: after    *)
(* every string it is in a final state exactly when the string is an         *)
(* address, and in the error state exactly when no address begins with it.   *)
MachineIsGrammar ==
  /\ Final <=> \E t \in IpTypes : Is(t)
  /\ cs = ae_ip_parser_error <=> ~Viable

(* Every address is accepted with the type of the alternative it belongs to, *)
(* and what is accepted as IPv4 or as a reference is one.  As IPv6 the       *)
(* beginning of an IPv6 address may be accepted too, but nothing else: no    *)
(* type that was set on the way outlives the last address it could belong to. *)
ExactUnlessIPv6 ==
  /\ \A t \in IpTypes : Is(t) => Result = t
  /\ \A t \in IpTypes : Result = t => IF t = "ipv6" THEN rest[t] # {} ELSE Is(t)

(* Whatever is accepted fits, with its NUL, the buffers compare_pure_ips     *)
(* copies it into without a check.                                           *)
FitsInBuffer == Result # "no_ip" => PureLength < BufferSize

(* "nil if at least one of the IP's is not valid IPv4, IPv6 or IPv6          *)
(* reference" (AsyncEngineIpUtils_compare_ips): only addresses are accepted. *)
OnlyAddresses == Result # "no_ip" => \E t \in IpTypes : Is(t)
=============================================================================
