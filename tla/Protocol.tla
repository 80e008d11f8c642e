------------------------------ MODULE Protocol ------------------------------
(***************************************************************************)
(* The text of the client protocol: parseClientRequest (protocol.cpp) and  *)
(* Address::parse and str (net.cpp).  A text is a sequence of characters.  *)
(* A verb, in any mix of cases, is one character, as equalsIgnoreCase      *)
(* takes it; DELETE is the verb DEL.                                       *)
(***************************************************************************)
EXTENDS Integers, Sequences, SequencesExt, FiniteSetsExt

CONSTANT MaxPort   \* 65535

Blank == {" ", "\t"}
Verb == {"SET", "GET", "DEL", "PING", "STATUS", "QUIT"}

\* The length of the longest prefix of s with no character of C.
Span(s, C) == Min({k - 1 : k \in {j \in 1..Len(s) : s[j] \in C}} \cup {Len(s)})

TrimLeft(s) ==
  LET n == Min({k - 1 : k \in {j \in 1..Len(s) : s[j] \notin Blank}} \cup {Len(s)})
  IN  SubSeq(s, n + 1, Len(s))

TakeToken(rest) ==
  LET s == TrimLeft(rest)
      n == Span(s, Blank)
  IN  [token |-> SubSeq(s, 1, n), rest |-> SubSeq(s, n + 1, Len(s))]

\* Mutant: every blank before the value is dropped.
ValueOf_Trimmed(rest) == TrimLeft(rest)

\* The value of a SET: what follows the single space after the key.
ValueOf(rest) == IF rest # <<>> /\ rest[1] = " " THEN Tail(rest) ELSE rest

ParseClientRequest(line) ==
  LET verb == TakeToken(line)
      key == TakeToken(verb.rest)
      is(V) == verb.token \in {<<v>> : v \in V}
  IN  CASE is({"PING", "STATUS", "QUIT"}) -> {[kind |-> verb.token[1]]}
        [] is({"SET"}) /\ key.token # <<>> ->
             {[kind |-> "SET", key |-> key.token, value |-> ValueOf(key.rest)]}
        [] is({"GET", "DEL"}) /\ key.token # <<>> /\ TrimLeft(key.rest) = <<>> ->
             {[kind |-> verb.token[1], key |-> key.token, value |-> <<>>]}
        [] OTHER -> {}

-----------------------------------------------------------------------------
Digit == <<"0", "1", "2", "3", "4", "5", "6", "7", "8", "9">>

\* std::to_string.
Decimal[n \in Nat] ==
  IF n < 10 THEN <<Digit[n + 1]>> ELSE Append(Decimal[n \div 10], Digit[(n % 10) + 1])

AddressStr(a) == a.host \o <<":">> \o Decimal[a.port]

\* The port after some digits more, -1 once it is refused.
PortStep(port, c) ==
  IF port = -1 \/ c \notin Range(Digit)
  THEN -1
  ELSE LET p == port * 10 + (CHOOSE d \in 0..9 : Digit[d + 1] = c)
       IN  IF p > MaxPort THEN -1 ELSE p

\* Mutant: the host ends at the first colon.
Colon_First(s) == Min({k \in 1..Len(s) : s[k] = ":"} \cup {Len(s) + 1})

\* rfind(':'), 0 when there is none.
Colon(s) == Max({k \in 1..Len(s) : s[k] = ":"} \cup {0})

AddressParse(s) ==
  LET colon == Colon(s)
      port == FoldLeft(PortStep, 0, SubSeq(s, colon + 1, Len(s)))
  IN  IF colon > 1 /\ colon < Len(s) /\ port > 0
      THEN {[host |-> SubSeq(s, 1, colon - 1), port |-> port]}
      ELSE {}

\* Mutant: a bad item is passed over.
TakeItem_SkipsBad(out, item) ==
  IF out = {} \/ AddressParse(item) = {}
  THEN out
  ELSE {o \o <<a>> : o \in out, a \in AddressParse(item)}

\* One round of the loop of parseAddrList: an empty item is passed over, and a
\* bad one refuses the list.
TakeItem(out, item) ==
  IF item = <<>> THEN out ELSE {o \o <<a>> : o \in out, a \in AddressParse(item)}

\* The loop from start on.
RECURSIVE ParseItems(_, _)
ParseItems(csv, out) ==
  LET comma == Span(csv, {","})
      now == TakeItem(out, SubSeq(csv, 1, comma))
  IN  IF comma = Len(csv) THEN now ELSE ParseItems(SubSeq(csv, comma + 2, Len(csv)), now)

\* parseAddrList and parseServers: no address at all when an item is bad.
ParseAddrList(csv) ==
  LET out == ParseItems(csv, {<<>>})
  IN  IF out = {} THEN <<>> ELSE CHOOSE o \in out : TRUE
=============================================================================
