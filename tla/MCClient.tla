------------------------------ MODULE MCClient ------------------------------
(* A client with a list of two servers.                                     *)
EXTENDS Client

CONSTANTS s1, s2

MCServers == <<s1, s2>>

MCScripts == {<<"set">>, <<"empty">>, <<"ping", "unknown">>, <<"quit", "set">>,
              <<"unknown", "empty", "exit">>}
=============================================================================
