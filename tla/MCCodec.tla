------------------------------ MODULE MCCodec ------------------------------
(***************************************************************************)
(* The formats and the connection for TLC, one at a time: bytes of 3 bits, *)
(* a uint32_t of 2 bytes and a uint64_t of 3.                              *)
(***************************************************************************)
EXTENDS Wire, Formats

MCMagic == <<4, 6>>

vars == <<wireVars, formatVars>>

\* Of each format the values at the edges of its fields.
MCSamples ==
  LET longs == {0, 7, 8, 511}
      wides == {0, 8, 63}
      keys == {<<>>, <<7>>, <<0, 1>>}
      entry(ts, cs) == [term : ts, command : cs]
  IN  [f \in {"command", "RequestVoteArgs", "RequestVoteReply",
              "AppendEntriesArgs", "AppendEntriesReply", "meta", "wal"} |->
         CASE f = "command" -> [op : SetOp..DelOp, key : keys, value : keys]
           [] f = "RequestVoteArgs" ->
                [term : longs, candidateId : wides, lastLogIndex : longs,
                 lastLogTerm : {0, 511}]
           [] f = "RequestVoteReply" -> [term : longs, voteGranted : BOOLEAN]
           [] f = "AppendEntriesArgs" ->
                [term : {511}, leaderId : {0, 2}, prevLogIndex : {0, 64},
                 prevLogTerm : {8}, leaderCommit : {7},
                 entries : UNION {[1..n -> entry({1}, {<<>>, <<3>>})] : n \in 0..2}]
           [] f = "AppendEntriesReply" ->
                [term : longs, success : BOOLEAN, conflictIndex : longs]
           [] f = "meta" -> [currentTerm : longs, votedFor : {-1, 0, 2}]
           [] f = "wal" -> UNION {[1..n -> entry({1, 64}, {<<>>, <<0>>, <<5, 5>>})] :
                                    n \in 0..2}]

MCTexts ==
  LET texts(C, n) == UNION {[1..k -> C] : k \in 0..n}
  IN  [request |-> texts({" ", "\t", "SET", "DEL", "PING", "x"}, 5),
       address |-> texts({":", "h", "0", "1", "2"}, 5),
       list |-> texts({",", "h", ":", "1"}, 7)]

\* What is sent in a connection: two frames or two lines, long ones among them.
MCFrames == {<<>>, <<1>>, <<0, 0, 0>>, <<1, 2, 3, 4>>, <<1, 2, 3, 4, 5>>}
MCLines == {<<>>, <<"a">>, <<"a", "\r">>, <<"b", "b", "b">>, <<"c", "c", "c", "c", "c">>}

Init ==
  \/ /\ FormatInit
     /\ WireInit("none", <<>>)
  \/ /\ format = "none" /\ value = 0 /\ bytes = <<>> /\ damage = <<"none", 0>>
     /\ \E x, y \in MCFrames : WireInit("frame", <<x, y>>)
  \/ /\ format = "none" /\ value = 0 /\ bytes = <<>> /\ damage = <<"none", 0>>
     /\ \E x, y \in MCLines : WireInit("line", <<x, y>>)

Next ==
  \/ mode = "none" /\ FormatNext /\ UNCHANGED wireVars
  \/ mode # "none" /\ WireNext /\ UNCHANGED formatVars

Spec == Init /\ [][Next]_vars /\ WireFairness
=============================================================================
