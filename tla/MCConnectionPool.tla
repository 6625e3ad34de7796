-------------------------- MODULE MCConnectionPool --------------------------
(* A small instance of ConnectionPool for TLC. *)
EXTENDS ConnectionPool, TLC

CONSTANTS w1, w2, w3, w4, w5
=============================================================================
