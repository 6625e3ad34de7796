--------------------------- MODULE MCSimpleQueue ---------------------------
(* A small instance of SimpleQueue for TLC. *)
EXTENDS SimpleQueue, TLC

CONSTANTS g1, g2, b1
=============================================================================
