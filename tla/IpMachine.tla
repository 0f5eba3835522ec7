------------------------------ MODULE IpMachine ------------------------------
(* The automaton of ae_ip_parser_execute (ext/asyncengine/ip_parser.c, the   *)
(* Ragel output for ip_parser.rl): a state is its number in the code, and    *)
(* Table[s] maps each character accepted in state s to the state it leads    *)
(* to.  Characters the automaton never tells apart are one character here.   *)
(*                                                                           *)
(* The 327 states are a few shapes in many copies; each operator of the      *)
(* first half is one shape and takes the numbers of its states, each         *)
(* definition of the second half is a stretch of the file.                   *)
EXTENDS Naturals, TLC

Digit == {"0", "1", "2", "34", "5", "69"}        \* "34": 3 or 4, "69": 6 to 9
HexDigit == Digit \cup {"af"}                    \* "af": a letter, either case
Chars == HexDigit \cup {".", ":", "[", "]", "other"}

ae_ip_parser_start == 1
ae_ip_parser_first_final == 237
ae_ip_parser_error == 0

On(C, s) == [c \in C |-> s]

-----------------------------------------------------------------------------
(* A decimal octet: z has all its digits, a read "1", m may take one digit   *)
(* more, t read "2" and t5 "25"; "then" is what may follow the octet.        *)
OctetEntry(z, a, m, t) == "0" :> z @@ "1" :> a @@ "2" :> t @@ On(Digit, m)

Octet_Past255(z, a, m, t, t5, then) ==                  \* mutant
  z :> then
  @@ a :> (On(Digit, m) @@ then)
  @@ m :> (On(Digit, z) @@ then)
  @@ t :> ("5" :> t5 @@ "69" :> z @@ On(Digit, m) @@ then)
  @@ t5 :> (On(Digit, z) @@ then)

Octet(z, a, m, t, t5, then) ==
  z :> then
  @@ a :> (On(Digit, m) @@ then)
  @@ m :> (On(Digit, z) @@ then)
  @@ t :> ("5" :> t5 @@ "69" :> z @@ On(Digit, m) @@ then)
  @@ t5 :> (On(Digit \ {"69"}, z) @@ then)

(* n states, each after one hexadecimal digit more.                          *)
HexRun(s, n, then) ==
  [i \in s .. s + n - 1 |->
     IF i = s + n - 1 THEN then ELSE On(HexDigit, i + 1) @@ then]

(* A group that may turn out to be an h16 or the first octet of an IPv4      *)
(* address: z read "0", h, h + 1 and h + 2 two to four digits that are no    *)
(* octet, a, a + 1, a + 2 "1" and the digits after it, t, t + 1, t + 2 "2",  *)
(* "25" and an octet of two digits, m a digit from 3 to 9, x a letter.       *)
GroupEntry(z, a, t, m, x) ==
  "0" :> z @@ "1" :> a @@ "2" :> t @@ On(Digit, m) @@ On(HexDigit, x)

HexStates(z, h, x, dot, then) ==
  z :> (On(HexDigit, h) @@ dot @@ then)
  @@ HexRun(h, 3, then)
  @@ x :> (On(HexDigit, h) @@ then)

OctetStates(h, a, t, m, dot, then) ==
  LET end == dot @@ then
  IN a :> (On(Digit, a + 1) @@ On(HexDigit, h) @@ end)
     @@ (a + 1) :> (On(Digit, a + 2) @@ On(HexDigit, h + 1) @@ end)
     @@ (a + 2) :> (On(HexDigit, h + 2) @@ end)
     @@ t :> ("5" :> t + 1 @@ "69" :> t + 2 @@ On(Digit, a + 1)
              @@ On(HexDigit, h) @@ end)
     @@ (t + 1) :> (On(Digit \ {"69"}, a + 2) @@ On(HexDigit, h + 1) @@ end)
     @@ (t + 2) :> (On(HexDigit, h + 1) @@ end)
     @@ m :> (On(Digit, t + 2) @@ On(HexDigit, h) @@ end)

(* "::" and the groups that may follow it: e is reached by the second colon; *)
(* inside brackets the states also accept "]", and one number is taken by    *)
(* the state "colon".                                                        *)
CompressedEntry(e) == GroupEntry(e + 1, e + 5, e + 8, e + 11, e + 12)

Compressed(e, colon, more) ==
  e :> CompressedEntry(e) @@ colon :> more
  @@ HexStates(e + 1, e + 2, e + 12, "." :> 46, ":" :> colon)
  @@ OctetStates(e + 2, e + 5, e + 8, e + 11, "." :> 46, ":" :> colon)

Close == "]" :> 237
RefEntry(e) == GroupEntry(e + 1, e + 6, e + 9, e + 12, e + 13)

RefCompressed(e, more) ==
  LET then == ":" :> (e + 5) @@ Close
  IN e :> (RefEntry(e) @@ Close) @@ (e + 5) :> more
     @@ HexStates(e + 1, e + 2, e + 13, "." :> 118, then)
     @@ OctetStates(e + 2, e + 6, e + 9, e + 12, "." :> 118, then)

-----------------------------------------------------------------------------
(* The states outside brackets.                                              *)
Start == ae_ip_parser_start :> (GroupEntry(2, 76, 79, 82, 85)
                                @@ ":" :> 83 @@ "[" :> 86)
FirstGroup == HexStates(2, 16, 85, "." :> 3, ":" :> 19)
FirstOctet == OctetStates(16, 76, 79, 82, "." :> 3, ":" :> 19)

IPv4Octets ==
  3 :> OctetEntry(4, 12, 13, 14) @@ Octet(4, 12, 13, 14, 15, "." :> 5)
  @@ 5 :> OctetEntry(6, 8, 9, 10) @@ Octet(6, 8, 9, 10, 11, "." :> 7)
  @@ 7 :> OctetEntry(237, 238, 239, 240)
  @@ Octet(237, 238, 239, 240, 241, <<>>)

(* Groups two to six; a second colon enters the block of that many groups.   *)
Groups2To6 ==
  19 :> (On(HexDigit, 20) @@ ":" :> 302) @@ HexRun(20, 4, ":" :> 24)
  @@ 24 :> (On(HexDigit, 25) @@ ":" :> 289) @@ HexRun(25, 4, ":" :> 29)
  @@ 29 :> (On(HexDigit, 30) @@ ":" :> 276) @@ HexRun(30, 4, ":" :> 34)
  @@ 34 :> (On(HexDigit, 35) @@ ":" :> 263) @@ HexRun(35, 4, ":" :> 39)
  @@ 39 :> (On(HexDigit, 40) @@ ":" :> 250) @@ HexRun(40, 4, ":" :> 44)

Group7 ==
  44 :> (GroupEntry(45, 63, 66, 69, 70) @@ ":" :> 249)
  @@ HexStates(45, 59, 70, "." :> 46, ":" :> 62)
  @@ OctetStates(59, 63, 66, 69, "." :> 46, ":" :> 62)

IPv6Octets ==
  46 :> OctetEntry(47, 55, 56, 57) @@ Octet(47, 55, 56, 57, 58, "." :> 48)
  @@ 48 :> OctetEntry(49, 51, 52, 53) @@ Octet(49, 51, 52, 53, 54, "." :> 50)
  @@ 50 :> OctetEntry(237, 242, 243, 244)
  @@ Octet(237, 242, 243, 244, 245, <<>>)

LastGroup ==
  62 :> (On(HexDigit, 246) @@ ":" :> 237) @@ 249 :> On(HexDigit, 246)
  @@ [i \in 246 .. 248 |-> On(HexDigit, IF i = 248 THEN 237 ELSE i + 1)]

(* CompressedN: "::" with room for N groups after it.                        *)
Compressed2 == Compressed(250, 71, On(HexDigit, 246))
Compressed3 == Compressed(263, 72, CompressedEntry(250))
Compressed4 == Compressed(276, 73, CompressedEntry(263))
Compressed5 == Compressed(289, 74, CompressedEntry(276))
Compressed6 == Compressed(302, 75, CompressedEntry(289))
Compressed7 == 83 :> (":" :> 315) @@ Compressed(315, 84, CompressedEntry(302))

-----------------------------------------------------------------------------
(* The same between brackets.                                                *)
RefGroups1To6 ==
  86 :> (On(HexDigit, 87) @@ ":" :> 222) @@ HexRun(87, 4, ":" :> 91)
  @@ 91 :> (On(HexDigit, 92) @@ ":" :> 208) @@ HexRun(92, 4, ":" :> 96)
  @@ 96 :> (On(HexDigit, 97) @@ ":" :> 194) @@ HexRun(97, 4, ":" :> 101)
  @@ 101 :> (On(HexDigit, 102) @@ ":" :> 180) @@ HexRun(102, 4, ":" :> 106)
  @@ 106 :> (On(HexDigit, 107) @@ ":" :> 166) @@ HexRun(107, 4, ":" :> 111)
  @@ 111 :> (On(HexDigit, 112) @@ ":" :> 152) @@ HexRun(112, 4, ":" :> 116)

RefOctets ==
  118 :> OctetEntry(119, 132, 133, 134)
  @@ Octet(119, 132, 133, 134, 135, "." :> 120)
  @@ 120 :> OctetEntry(121, 128, 129, 130)
  @@ Octet(121, 128, 129, 130, 131, "." :> 122)
  @@ 122 :> OctetEntry(123, 124, 125, 126)
  @@ Octet(123, 124, 125, 126, 127, Close)

RefGroup7 ==
  116 :> (GroupEntry(117, 143, 146, 149, 151) @@ ":" :> 150)
  @@ HexStates(117, 136, 151, "." :> 118, ":" :> 139)
  @@ OctetStates(136, 143, 146, 149, "." :> 118, ":" :> 139)

RefLastGroup ==
  139 :> (On(HexDigit, 140) @@ ":" :> 123) @@ 150 :> (On(HexDigit, 140) @@ Close)
  @@ [i \in 140 .. 142 |-> On(HexDigit, IF i = 142 THEN 123 ELSE i + 1) @@ Close]

RefCompressed2 == RefCompressed(152, On(HexDigit, 140))
RefCompressed3 == RefCompressed(166, RefEntry(152))
RefCompressed4 == RefCompressed(180, RefEntry(166))
RefCompressed5 == RefCompressed(194, RefEntry(180))
RefCompressed6 == RefCompressed(208, RefEntry(194))
RefCompressed7 == 222 :> (":" :> 223) @@ RefCompressed(223, RefEntry(208))

Table ==
  Start @@ FirstGroup @@ FirstOctet @@ IPv4Octets @@ Groups2To6 @@ Group7
  @@ IPv6Octets @@ LastGroup @@ Compressed2 @@ Compressed3 @@ Compressed4
  @@ Compressed5 @@ Compressed6 @@ Compressed7 @@ RefGroups1To6 @@ RefOctets
  @@ RefGroup7 @@ RefLastGroup @@ RefCompressed2 @@ RefCompressed3
  @@ RefCompressed4 @@ RefCompressed5 @@ RefCompressed6 @@ RefCompressed7

Goto(s, c) == IF c \in DOMAIN Table[s] THEN Table[s][c] ELSE ae_ip_parser_error

(* is_ipv4, is_ipv6 and is_ipv6_reference run on the transitions into a      *)
(* final state, and nothing else writes ip_type.                             *)
IpType_EarlyOctet(from, c, before) ==                   \* mutant
  CASE Goto(from, c) < ae_ip_parser_first_final /\ Goto(from, c) # 7 -> before
    [] from \in {5, 6, 7, 8, 9, 10, 11} \cup 238 .. 241  -> "ipv4"
    [] c = "]"                                         -> "ipv6_reference"
    [] OTHER                                           -> "ipv6"

IpType(from, c, before) ==
  CASE Goto(from, c) < ae_ip_parser_first_final -> before
    [] from \in {7} \cup 238 .. 241             -> "ipv4"
    [] c = "]"                                  -> "ipv6_reference"
    [] OTHER                                    -> "ipv6"
=============================================================================
