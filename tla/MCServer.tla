------------------------------ MODULE MCServer ------------------------------
(* Small instances of Server: one key, and handlers that write, read and    *)
(* delete it.                                                               *)
EXTENDS ServerInvariant

CONSTANTS Writer, Reader, Remover, k1, v1, v2

MCHandler == {Writer, Reader, Remover}

MCCommand ==
  [h \in {Writer, Reader, Remover} |->
     CASE h = Writer  -> [op |-> "set", key |-> k1, value |-> v1]
       [] h = Reader  -> [op |-> "get", key |-> k1]
       [] h = Remover -> [op |-> "del", key |-> k1]]

\* Other leaders start with a no-op and then write.
MCForeign(n, t) ==
  IF n = 1 THEN NoOp ELSE [op |-> "set", key |-> k1, value |-> v2]

=============================================================================
