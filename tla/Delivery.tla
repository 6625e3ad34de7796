------------------------------ MODULE Delivery ------------------------------
(***************************************************************************)
(* What an acknowledged-delivery queue promises for each message, as the   *)
(* state diagram of 03-simple-message-queue.md draws it.                   *)
(***************************************************************************)
CONSTANT Message

VARIABLE status  \* status[m]: where message m is in its life

Init == status = [m \in Message |-> "unsent"]

\* The messages of S move from one status to another.
Move(S, from, to) ==
  /\ \A m \in S : status[m] = from
  /\ status' = [m \in Message |-> IF m \in S THEN to ELSE status[m]]

Next == \/ \E m \in Message : \/ Move({m}, "unsent", "queued")
                              \/ Move({m}, "queued", "inflight")
                              \/ Move({m}, "inflight", "acked")
        \/ \E S \in SUBSET Message : Move(S, "inflight", "queued")

Spec == Init /\ [][Next]_status
=============================================================================
