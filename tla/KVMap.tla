------------------------------- MODULE KVMap -------------------------------
(***************************************************************************)
(* What the key-value service promises its clients, whatever connection    *)
(* pools, replicas and background clean-up stand behind it.                *)
(*                                                                         *)
(* The service keeps a set of bindings, each with the time until which it  *)
(* lives.  A request is submitted, performed at most once at one instant   *)
(* between its submission and its answer, and then settled; a request that *)
(* fails may or may not have been performed.  Nothing but a request or the *)
(* binding's own deadline ever removes a binding: reclaiming storage is    *)
(* invisible.                                                              *)
(***************************************************************************)
EXTENDS Integers

CONSTANTS Task,    \* the requests, one asyncio task each
          Forever  \* the deadline of a binding that never expires

VARIABLES clock,   \* the time in seconds
          req,     \* req[t]: the request task t carries
          lease,   \* lease[t]: the deadline that request asks for
          phase,   \* phase[t]: how far the request has come
          map      \* the bindings a reader may see now

kvVars == <<clock, req, lease, phase, map>>

Lives(b, c) == b.until = Forever \/ b.until > c

\* The bindings of m still alive at time c.
Unexpired(m, c) == {b \in m : Lives(b, c)}

Without(m, k) == {b \in m : b.key # k}

Binding(t) == [key |-> req[t].key, value |-> req[t].value, until |-> lease[t]]

Init == /\ clock \in Nat
        /\ phase = [t \in Task |-> "new"]
        /\ map = {}
        /\ lease \in [Task -> Int]

\* The request arrives, and with it the deadline it asks for.
Submit(t) == /\ phase[t] = "new"
             /\ phase' = [phase EXCEPT ![t] = "open"]
             /\ lease'[t] \in Int
             /\ lease' = [lease EXCEPT ![t] = lease'[t]]
             /\ UNCHANGED <<clock, req, map>>

\* What the operation of t does to the bindings.
Effect(t) ==
  \/ /\ req[t].op = "PUT"
     /\ map' = Unexpired(Without(map, req[t].key) \cup {Binding(t)}, clock)
  \/ /\ req[t].op = "DELETE"
     /\ map' = Without(map, req[t].key)
  \/ /\ req[t].op = "GET"
     /\ map' = map

Perform(t) == /\ phase[t] = "open"
              /\ phase' = [phase EXCEPT ![t] = "performed"]
              /\ Effect(t)
              /\ UNCHANGED <<clock, req, lease>>

\* Only what was performed is answered with success.
Settle(t) == /\ phase[t] = "performed"
             /\ phase' = [phase EXCEPT ![t] = "settled"]
             /\ UNCHANGED <<clock, req, lease, map>>

Fail(t) == /\ phase[t] \in {"open", "performed"}
           /\ phase' = [phase EXCEPT ![t] = "failed"]
           /\ UNCHANGED <<clock, req, lease, map>>

\* Time passes; the bindings whose deadline has come disappear.
Advance == /\ clock' \in Int
           /\ clock' > clock
           /\ map' = Unexpired(map, clock')
           /\ UNCHANGED <<req, lease, phase>>

Next == \/ Advance
        \/ \E t \in Task : Submit(t) \/ Perform(t) \/ Settle(t) \/ Fail(t)

Spec == Init /\ [][Next]_kvVars
=============================================================================
