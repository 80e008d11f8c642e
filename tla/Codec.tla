------------------------------- MODULE Codec -------------------------------
(***************************************************************************)
(* The byte formats: Encoder, Decoder and crc32 (codec.cpp), commands      *)
(* (command.cpp), the Raft messages (raft_msgs.cpp), and the WAL records   *)
(* and meta file of storage.cpp.                                           *)
(*                                                                         *)
(* A string of bytes is a sequence over Byte.  The width of a byte and of  *)
(* the integers are parameters, so that TLC can run over whole ranges; the *)
(* program has ByteBits = 8, Wide = 4, Long = 8.  A std::optional is a set *)
(* with no or one element.                                                 *)
(***************************************************************************)
EXTENDS Integers, Sequences, SequencesExt, FiniteSetsExt, Bitwise

CONSTANTS
  ByteBits,   \* bits of a byte
  Wide,       \* bytes of a uint32_t
  Long,       \* bytes of a uint64_t
  Poly,       \* the CRC polynomial, bit-reversed; 0xEDB88320
  Magic       \* kMetaMagic

Radix == 2 ^ ByteBits
Byte == 0..(Radix - 1)

-----------------------------------------------------------------------------
(* Encoder and Decoder.                                                     *)

\* The w bytes of v, the most significant first.
BigEndian(v, w) == [k \in 1..w |-> (v \div Radix ^ (w - k)) % Radix]

U8(v) == BigEndian(v, 1)
U32(v) == BigEndian(v, Wide)
U64(v) == BigEndian(v, Long)
Str(s) == U32(Len(s)) \o s

\* Mutant: the least significant byte first.
ReadInt_LittleEndian(d, w) ==
  IF Len(d) < w
  THEN {}
  ELSE {[val |-> FoldRight(LAMBDA b, v : v * Radix + b, SubSeq(d, 1, w), 0),
         rest |-> SubSeq(d, w + 1, Len(d))]}

\* Decoder::u8, u32 and u64 on the remaining bytes d.
ReadInt(d, w) ==
  IF Len(d) < w
  THEN {}
  ELSE {[val |-> FoldLeft(LAMBDA v, b : v * Radix + b, 0, SubSeq(d, 1, w)),
         rest |-> SubSeq(d, w + 1, Len(d))]}

\* Decoder::str.
ReadStr(d) ==
  {[val |-> SubSeq(r.rest, 1, r.val),
    rest |-> SubSeq(r.rest, r.val + 1, Len(r.rest))] :
     r \in {q \in ReadInt(d, Wide) : Len(q.rest) >= q.val}}

Read(kind, d) ==
  CASE kind = "u8" -> ReadInt(d, 1)
    [] kind = "u32" -> ReadInt(d, Wide)
    [] kind = "u64" -> ReadInt(d, Long)
    [] kind = "str" -> ReadStr(d)

\* A series of reads: their values, and the bytes that remain after them.
Fields(kinds, d) ==
  FoldLeft(LAMBDA acc, kind :
             UNION {{[vals |-> Append(a.vals, r.val), rest |-> r.rest] :
                       r \in Read(kind, a.rest)} : a \in acc},
           {[vals |-> <<>>, rest |-> d]}, kinds)

\* Mutant: done() is not asked for.
AllFields_NotDone(kinds, d) == {f.vals : f \in Fields(kinds, d)}

\* A series of reads that must leave the decoder done().
AllFields(kinds, d) ==
  {f.vals : f \in {g \in Fields(kinds, d) : g.rest = <<>>}}

-----------------------------------------------------------------------------
(* crc32.                                                                   *)

\* makeCrcTable.
CrcTable ==
  [i \in Byte |->
     FoldLeft(LAMBDA c, k : IF c % 2 = 1 THEN Poly ^^ (c \div 2) ELSE c \div 2,
              i, [k \in 1..ByteBits |-> k])]

Crc32(data) ==
  LET ones == Radix ^ Wide - 1
      step(crc, b) == CrcTable[(crc ^^ b) % Radix] ^^ (crc \div Radix)
  IN  FoldLeft(step, ones, data) ^^ ones

-----------------------------------------------------------------------------
(* Commands and Raft messages.                                              *)

SetOp == 1
GetOp == 2
DelOp == 3

CommandEncode(c) == U8(c.op) \o Str(c.key) \o Str(c.value)

CommandDecode(bytes) ==
  {[op |-> v[1], key |-> v[2], value |-> v[3]] :
     v \in {w \in AllFields(<<"u8", "str", "str">>, bytes) : w[1] \in SetOp..DelOp}}

Bool(b) == U8(IF b THEN 1 ELSE 0)

RequestVoteArgsEncode(m) ==
  U8(1) \o U64(m.term) \o U32(m.candidateId) \o U64(m.lastLogIndex)
    \o U64(m.lastLogTerm)

RequestVoteArgsDecode(bytes) ==
  {[term |-> v[2], candidateId |-> v[3], lastLogIndex |-> v[4],
    lastLogTerm |-> v[5]] :
     v \in {w \in AllFields(<<"u8", "u64", "u32", "u64", "u64">>, bytes) : w[1] = 1}}

RequestVoteReplyEncode(m) == U8(2) \o U64(m.term) \o Bool(m.voteGranted)

RequestVoteReplyDecode(bytes) ==
  {[term |-> v[2], voteGranted |-> v[3] # 0] :
     v \in {w \in AllFields(<<"u8", "u64", "u8">>, bytes) : w[1] = 2}}

AppendEntriesArgsEncode(m) ==
  U8(3) \o U64(m.term) \o U32(m.leaderId) \o U64(m.prevLogIndex)
    \o U64(m.prevLogTerm) \o U64(m.leaderCommit) \o U32(Len(m.entries))
    \o FlattenSeq([k \in 1..Len(m.entries) |->
                     U64(m.entries[k].term) \o Str(m.entries[k].command)])

\* Of count entries, n come out of the reads v.
EntriesOf(v, n) == [k \in 1..n |-> [term |-> v[2 * k - 1], command |-> v[2 * k]]]

AppendEntriesArgsDecode(bytes) ==
  UNION {LET h == f.vals
             kinds == FlattenSeq([k \in 1..h[7] |-> <<"u64", "str">>])
         IN  {[term |-> h[2], leaderId |-> h[3], prevLogIndex |-> h[4],
               prevLogTerm |-> h[5], leaderCommit |-> h[6],
               entries |-> EntriesOf(v, h[7])] : v \in AllFields(kinds, f.rest)} :
         f \in {g \in Fields(<<"u8", "u64", "u32", "u64", "u64", "u64", "u32">>,
                             bytes) : g.vals[1] = 3}}

AppendEntriesReplyEncode(m) ==
  U8(4) \o U64(m.term) \o Bool(m.success) \o U64(m.conflictIndex)

AppendEntriesReplyDecode(bytes) ==
  {[term |-> v[2], success |-> v[3] # 0, conflictIndex |-> v[4]] :
     v \in {w \in AllFields(<<"u8", "u64", "u8", "u64">>, bytes) : w[1] = 4}}

-----------------------------------------------------------------------------
(* The files of storage.cpp.                                                *)

\* The record Storage::append writes for an entry.
WalRecord(e) ==
  LET payload == U64(e.term) \o Str(e.command)
  IN  U32(Len(payload)) \o payload \o U32(Crc32(payload))

WalFile(entries) == FlattenSeq([k \in 1..Len(entries) |-> WalRecord(entries[k])])

\* Mutant: a payload of no bytes is taken for an entry of term 0.
PayloadDecode_EmptyOk(payload) ==
  IF payload = <<>>
  THEN {[term |-> 0, command |-> <<>>]}
  ELSE {[term |-> v[1], command |-> v[2]] : v \in AllFields(<<"u64", "str">>, payload)}

PayloadDecode(payload) ==
  {[term |-> v[1], command |-> v[2]] : v \in AllFields(<<"u64", "str">>, payload)}

\* Mutant: the length is compared with the bytes of the payload alone.
RecordFits_PayloadOnly(d, n) == Len(d) >= n % Radix ^ Wide

\* The size of a record in load, a sum of uint32_t, and the check with it.
RecordSize(n) == (Wide + n + Wide) % Radix ^ Wide
RecordFits(d, n) == Len(d) >= RecordSize(n)

\* One round of load's loop on the bytes d from pos on: an entry, the end of
\* the scan, or the exception of substr for a payload that ends past the file.
RecordAt(d) ==
  LET len == ReadInt(d, Wide)
      n == (CHOOSE r \in len : TRUE).val
      payload == SubSeq(d, Wide + 1, Wide + n)
      crc == ReadInt(SubSeq(d, Wide + n + 1, Min({Len(d), Wide + n + Wide})), Wide)
      entry == PayloadDecode(payload)
  IN  IF len = {} \/ ~RecordFits(d, n) THEN [is |-> "end"]
      ELSE IF Wide + n > Len(d) THEN [is |-> "throw"]
      ELSE IF Crc32(payload) \notin {r.val : r \in crc} \/ entry = {} THEN [is |-> "end"]
      ELSE [is |-> "entry", entry |-> CHOOSE e \in entry : TRUE,
            size |-> RecordSize(n)]

\* load's loop over the whole file: entries_, the final pos, and how it ended.
RECURSIVE WalScanFrom(_, _, _)
WalScanFrom(raw, pos, entries) ==
  LET r == RecordAt(SubSeq(raw, pos + 1, Len(raw)))
  IN  IF r.is = "entry"
      THEN WalScanFrom(raw, pos + r.size, Append(entries, r.entry))
      ELSE [entries |-> entries, pos |-> pos, threw |-> r.is = "throw"]

WalScan(raw) == WalScanFrom(raw, 0, <<>>)

\* static_cast between int32_t and uint32_t.
ToUnsigned(v) == v % Radix ^ Wide
ToSigned(v) == IF 2 * v >= Radix ^ Wide THEN v - Radix ^ Wide ELSE v

\* The meta file writeMetaFile writes.
MetaFile(m) ==
  LET payload == Magic \o U64(m.currentTerm) \o U32(ToUnsigned(m.votedFor))
  IN  payload \o U32(Crc32(payload))

\* load's reading of the meta file: nothing when it is taken for corrupt.
MetaDecode(raw) ==
  LET n == Len(raw) - Wide
      body == SubSeq(raw, Len(Magic) + 1, n)
  IN  IF /\ Len(raw) > Len(Magic) + Wide
         /\ SubSeq(raw, 1, Len(Magic)) = Magic
         /\ Crc32(SubSeq(raw, 1, n)) \in {r.val : r \in ReadInt(SubSeq(raw, n + 1, Len(raw)), Wide)}
      THEN {[currentTerm |-> v[1], votedFor |-> ToSigned(v[2])] :
              v \in AllFields(<<"u64", "u32">>, body)}
      ELSE {}
=============================================================================
