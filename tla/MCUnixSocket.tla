---------------------------- MODULE MCUnixSocket ----------------------------
(* Values for the constants of UnixSocket.                                 *)
EXTENDS UnixSocket

CONSTANTS c1, c2

MCClients == {c1, c2}
=============================================================================
