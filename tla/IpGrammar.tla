------------------------------ MODULE IpGrammar ------------------------------
(* The grammar of ip_parser.rl, the file the automaton is generated from.    *)
(* A language is a set of sequences of symbols; h16 and dec_octet are        *)
(* symbols themselves until one of their characters is read, which keeps the *)
(* sets small.                                                               *)
EXTENDS Naturals, Sequences

(* The characters each terminal of the grammar stands for, in the classes of *)
(* IpMachine.                                                                *)
DIGIT == {"0", "1", "2", "34", "5", "69"}

Terminals ==
  [DIGIT |-> DIGIT, HEXDIG |-> DIGIT \cup {"af"}, NonZero |-> DIGIT \ {"0"},
   UpTo4 |-> {"0", "1", "2", "34"}, UpTo5 |-> DIGIT \ {"69"},
   One |-> {"1"}, Two |-> {"2"}, Five |-> {"5"},
   Dot |-> {"."}, Colon |-> {":"}, Open |-> {"["}, Close |-> {"]"}]

-----------------------------------------------------------------------------
(* Concatenation, and the repetitions L{n}, L{,n} and L? of Ragel.           *)
Cat(L, M) == {l \o m : l \in L, m \in M}

Times(L, n) ==
  LET power[i \in 0 .. n] == IF i = 0 THEN {<<>>} ELSE Cat(power[i - 1], L)
  IN power[n]

AtMost(L, n) == UNION {Times(L, i) : i \in 0 .. n}
Maybe(L) == AtMost(L, 1)

-----------------------------------------------------------------------------
Rules ==
  [dec_octet |-> {<<"DIGIT">>, <<"NonZero", "DIGIT">>, <<"One", "DIGIT", "DIGIT">>,
                  <<"Two", "UpTo4", "DIGIT">>, <<"Two", "Five", "UpTo5">>},
   h16 |-> UNION {Times({<<"HEXDIG">>}, n) : n \in 1 .. 4}]

IPv4address == {<<"dec_octet", "Dot", "dec_octet", "Dot",
                  "dec_octet", "Dot", "dec_octet">>}

h16 == {<<"h16">>}
h16Colon == {<<"h16", "Colon">>}
ls32 == {<<"h16", "Colon", "h16">>} \cup IPv4address

(* An address with "::": at most n groups before it, then what the grammar   *)
(* lists after it.                                                           *)
Compress(before, after) ==
  Cat(IF before = 0 THEN {<<>>} ELSE Maybe(Cat(AtMost(h16Colon, before - 1), h16)),
      Cat({<<"Colon", "Colon">>}, after))

IPv6address ==
  Cat(Times(h16Colon, 6), ls32)
  \cup UNION {Compress(5 - n, Cat(Times(h16Colon, n), ls32)) : n \in 0 .. 5}
  \cup Compress(6, h16) \cup Compress(7, {<<>>})

IPv6reference == Cat({<<"Open">>}, Cat(IPv6address, {<<"Close">>}))

main == [ipv4 |-> IPv4address, ipv6 |-> IPv6address, ipv6_reference |-> IPv6reference]

-----------------------------------------------------------------------------
(* What may still follow once c was read where "rest" was expected.          *)
Read(rest, c) ==
  IF rest = <<>> THEN {}
  ELSE LET heads == IF Head(rest) \in DOMAIN Rules THEN Rules[Head(rest)]
                                                   ELSE {<<Head(rest)>>}
       IN {Tail(h) \o Tail(rest) : h \in {g \in heads : c \in Terminals[Head(g)]}}

ReadAll(rests, c) == UNION {Read(r, c) : r \in rests}
=============================================================================
