--------------------------- MODULE MCEchoServers ---------------------------
(* A small instance of EchoServers for TLC. *)
EXTENDS EchoServers

CONSTANTS c1, c2
Clients == {c1, c2}
=============================================================================
