---------------------------- MODULE MCLifespan ----------------------------
(* A small instance of Lifespan for TLC. *)
EXTENDS Lifespan

CONSTANTS r1, r2
Requests == {r1, r2}
=============================================================================
