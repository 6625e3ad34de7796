------------------------------- MODULE Echo -------------------------------
(***************************************************************************)
(* What both servers of 04a-select-vs-epoll.py promise ("Both do the same  *)
(* job", line 315): whoever asks while the server is up gets an answer;    *)
(* only one that is not up yet, or not any more, turns clients away.       *)
(***************************************************************************)
CONSTANT Client

VARIABLES
  server,  \* before, up or down
  client   \* client[c]: new, asked, answered or failed

vars == <<server, client>>

Init == /\ server = "before"
        /\ client = [c \in Client |-> "new"]

ServerMoves(from, to) == server = from /\ server' = to /\ UNCHANGED client

ClientMoves(c, from, to) ==
  /\ client[c] = from
  /\ client' = [client EXCEPT ![c] = to]
  /\ UNCHANGED server

Refuse(c) == server # "up" /\ ClientMoves(c, "new", "failed")

Ask(c) == server = "up" /\ ClientMoves(c, "new", "asked")

\* An answer may still be on its way when the server goes down.
Answer(c) == ClientMoves(c, "asked", "answered")

Fail(c) == server = "down" /\ ClientMoves(c, "asked", "failed")

Next ==
  \/ ServerMoves("before", "up") \/ ServerMoves("up", "down")
  \/ \E c \in Client : Refuse(c) \/ Ask(c) \/ Answer(c) \/ Fail(c)

Spec == Init /\ [][Next]_vars

\* Nobody who asked waits for ever.
FairSpec == Spec /\ \A c \in Client : WF_vars(Answer(c) \/ Fail(c))
=============================================================================
