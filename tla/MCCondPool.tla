----------------------------- MODULE MCCondPool -----------------------------
(* Small instances of CondPool for TLC. *)
EXTENDS CondPool, TLC

CONSTANTS a, b, c, d, e
=============================================================================
