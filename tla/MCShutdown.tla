----------------------------- MODULE MCShutdown -----------------------------
(* A small instance of Shutdown.                                            *)
EXTENDS Shutdown

CONSTANTS p1, c1, w1, w2

\* A connection of a peer, or one of a client.
MCTraffic == {{p1}, {c1}}

=============================================================================
