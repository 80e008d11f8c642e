------------------------------ MODULE Formats ------------------------------
(***************************************************************************)
(* What becomes of a value that is encoded, damaged on its way or on the   *)
(* disk, and decoded.  The damage is a write cut short, a tail of zeros    *)
(* from a file system that extended the file first, one byte changed, or   *)
(* bytes that do not belong there.                                         *)
(***************************************************************************)
EXTENDS Codec, Protocol

CONSTANTS
  Samples,    \* the values tried: a function from format to a set of values
  Texts       \* the texts tried: a function from "request" and "address"

VARIABLES
  format,     \* what bytes holds: a domain element of Samples or Texts
  value,      \* the value that was encoded
  bytes,      \* its encoding, as damaged
  damage      \* <<"none", 0>>; or what was done to bytes, and where

formatVars == <<format, value, bytes, damage>>

Encode(f, v) ==
  CASE f = "command" -> CommandEncode(v)
    [] f = "RequestVoteArgs" -> RequestVoteArgsEncode(v)
    [] f = "RequestVoteReply" -> RequestVoteReplyEncode(v)
    [] f = "AppendEntriesArgs" -> AppendEntriesArgsEncode(v)
    [] f = "AppendEntriesReply" -> AppendEntriesReplyEncode(v)
    [] f = "meta" -> MetaFile(v)
    [] f = "wal" -> WalFile(v)
    [] OTHER -> v

\* The formats a reader must take whole or not at all.
Messages == {"RequestVoteArgs", "RequestVoteReply", "AppendEntriesArgs",
             "AppendEntriesReply"}

Decode(f, b) ==
  CASE f = "command" -> CommandDecode(b)
    [] f = "RequestVoteArgs" -> RequestVoteArgsDecode(b)
    [] f = "RequestVoteReply" -> RequestVoteReplyDecode(b)
    [] f = "AppendEntriesArgs" -> AppendEntriesArgsDecode(b)
    [] f = "AppendEntriesReply" -> AppendEntriesReplyDecode(b)
    [] f = "meta" -> MetaDecode(b)
    [] f = "wal" -> {WalScan(b).entries}

FormatInit ==
  /\ damage = <<"none", 0>>
  /\ \E f \in DOMAIN Samples \cup DOMAIN Texts :
       /\ format = f
       /\ value \in IF f \in DOMAIN Samples THEN Samples[f] ELSE Texts[f]
       /\ bytes = Encode(f, value)

Damage(b, how) ==
  /\ damage = <<"none", 0>>
  /\ bytes' = b
  /\ damage' = how
  /\ UNCHANGED <<format, value>>

FormatNext ==
  /\ format \in DOMAIN Samples
  /\ \/ \E n \in 0..(Len(bytes) - 1) : Damage(SubSeq(bytes, 1, n), <<"cut", n>>)
     \/ \E n \in 1..(3 * Wide + Long) :
          Damage(bytes \o [k \in 1..n |-> 0], <<"zeros", n>>)
     \/ \E x \in Byte : Damage(Append(bytes, x), <<"more", x>>)
     \/ \E k \in 1..Len(bytes) : \E x \in Byte \ {bytes[k]} :
          Damage([bytes EXCEPT ![k] = x], <<"hit", k>>)

-----------------------------------------------------------------------------
Damaged(how) == format \in DOMAIN Samples /\ damage[1] = how

\* What is encoded is decoded to the same value, and a Raft message is never
\* taken for one of another type.  A message, a command or a meta file that was
\* cut short or has bytes too many is refused, and so is a meta file with a
\* changed byte (the encode and decode of every message, of Command, of the meta
\* file and of the WAL).
DecodesExactly ==
  /\ Damaged("none") =>
       /\ Decode(format, bytes) = {value}
       /\ format \in Messages =>
            \A f \in Messages \ {format} : Decode(f, bytes) = {}
  /\ format # "wal" /\ (Damaged("cut") \/ Damaged("zeros") \/ Damaged("more")) =>
       Decode(format, bytes) = {}
  /\ format = "meta" /\ Damaged("hit") => MetaDecode(bytes) = {}

\* The first n entries, and the number of those whose records end by byte k.
FirstEntries(n) == SubSeq(value, 1, n)
WholeRecords(k) == Max({n \in 0..Len(value) : Len(WalFile(FirstEntries(n))) <= k})

\* load recovers the records that were written whole: all of those before the
\* cut or the changed byte, none from there on, and none out of a tail of
\* zeros, although the CRC of a record of zeros is right.  A changed byte in a
\* length field loses that record or, if the CRC misses it, splits it.
WalKeepsPrefix ==
  LET got == WalScan(bytes).entries
      n == WholeRecords(damage[2] - (IF damage[1] = "hit" THEN 1 ELSE 0))
      start == Len(WalFile(FirstEntries(n)))
  IN  format = "wal" =>
        /\ Damaged("cut") => got = FirstEntries(n)
        /\ Damaged("zeros") \/ Damaged("more") => got = value
        /\ Damaged("hit") => IF damage[2] > start + Wide
                            THEN got = FirstEntries(n)
                            ELSE IsPrefix(FirstEntries(n), got)

\* The bytes load keeps are what append would have written for the entries it
\* recovers, so offsets_ and walSize_ are right for every later truncateFrom
\* and append, whatever the file held; and load throws on no file but one
\* whose next length field overflows the 32-bit sum of the size check.
ScanCanonical ==
  LET scan == WalScan(bytes)
      rest == SubSeq(bytes, scan.pos + 1, Len(bytes))
  IN  format = "wal" =>
        /\ WalFile(scan.entries) = SubSeq(bytes, 1, scan.pos)
        /\ scan.threw => \E r \in ReadInt(rest, Wide) :
                           Wide + r.val + Wide >= Radix ^ Wide

\* A request line means what its grammar says: blanks, the verb, blanks, the
\* key; the value of a SET is all that follows one space after the key, with
\* its own blanks; a GET or DEL has nothing after the key (parseClientRequest).
RequestMeaning ==
  LET end == Len(value)
      blank(i, j) == \A x \in i..j : value[x] \in Blank
      word(i, j) == /\ i <= j /\ \A x \in i..j : value[x] \notin Blank
                    /\ j = end \/ value[j + 1] \in Blank
      verbs == {v \in 1..end : /\ blank(1, v - 1) /\ word(v, v)
                               /\ value[v] \in Verb}
      keyed(S) == {p \in verbs \X (1..end) \X (1..end) :
                     /\ value[p[1]] \in S
                     /\ p[2] > p[1] /\ blank(p[1] + 1, p[2] - 1)
                     /\ word(p[2], p[3])}
      after(j) == IF j < end /\ value[j + 1] = " " THEN j + 2 ELSE j + 1
  IN  format = "request" =>
        ParseClientRequest(value) =
          {[kind |-> value[v]] : v \in {v \in verbs : value[v] \in {"PING", "STATUS", "QUIT"}}}
          \cup {[kind |-> "SET", key |-> SubSeq(value, p[2], p[3]),
                 value |-> SubSeq(value, after(p[3]), end)] : p \in keyed({"SET"})}
          \cup {[kind |-> value[p[1]], key |-> SubSeq(value, p[2], p[3]),
                 value |-> <<>>] :
                  p \in {p \in keyed({"GET", "DEL"}) : blank(p[3] + 1, end)}}

\* The address a text stands for, if any: a host that may hold colons, a colon and a
\* port in range, with any number of zeros before it.
AddressesIn(s) ==
  {[host |-> SubSeq(s, 1, x[1] - 1), port |-> x[2]] :
     x \in {y \in (2..Len(s)) \X (1..MaxPort) :
              /\ s[y[1]] = ":"
              /\ \E z \in 0..Len(s) :
                   SubSeq(s, y[1] + 1, Len(s)) =
                     [k \in 1..z |-> "0"] \o Decimal[y[2]]}}

\* Address::parse reads what its grammar says, and the address a server writes
\* into a REDIRECT is the one the client reads.  A list of addresses is read
\* item by item, so that an id means the same node in every process that was
\* given the list; a bad item refuses it whole (parseAddrList, parseServers).
AddressMeaning ==
  LET cuts == {k \in 1..Len(value) : value[k] = ","} \cup {0, Len(value) + 1}
      item(c) == SubSeq(value, c + 1, Min({d \in cuts : d > c}) - 1)
      starts == {c \in cuts : c <= Len(value) /\ item(c) # <<>>}
      addrs == ParseAddrList(value)
  IN  /\ format = "address" =>
           /\ AddressParse(value) = AddressesIn(value)
           /\ \A a \in AddressParse(value) : AddressParse(AddressStr(a)) = {a}
      /\ format = "list" =>
           IF \E c \in starts : AddressesIn(item(c)) = {}
           THEN addrs = <<>>
           ELSE /\ Len(addrs) = Cardinality(starts)
                /\ \A c \in starts :
                     addrs[Cardinality({d \in starts : d <= c})] \in AddressesIn(item(c))
=============================================================================
