---------------------------- MODULE MCCounters ----------------------------
(* A small instance of Counters for TLC. *)
EXTENDS Counters
=============================================================================
