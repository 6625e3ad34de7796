---------------------------- MODULE EchoServers ----------------------------
(***************************************************************************)
(* python-deep-dive/04a-select-vs-epoll.py: the echo server on select()    *)
(* and the one on selectors, each with its test clients.                   *)
(*                                                                         *)
(* A message is a line of MsgSize pieces, some of them white space, which  *)
(* TCP may deliver in any grouping: the first are read, the next wait in   *)
(* the server's receive buffer (inbox), the last are on the wire.          *)
(***************************************************************************)
EXTENDS Integers, FiniteSetsExt

CONSTANTS
  Client,
  MsgSize,
  Blank,    \* the pieces that are white space, the newline at the end included
  RecvSize  \* how many pieces a recv() of the server takes at most

Piece == 1 .. MsgSize
Server == "server"  \* the listening socket

ASSUME EchoAssumption ==
  /\ MsgSize \in Nat \ {0} /\ RecvSize \in Nat \ {0}
  /\ Blank \subseteq Piece /\ MsgSize \in Blank
  /\ Server \notin Client

VARIABLES
  impl,     \* which of the two servers runs
  stage,    \* of the server: starting, listening, closing, ended
  watched,  \* the clients in all_sockets, or registered with sel
  ready,    \* what select() returned and the loop has not handled yet
  srv,      \* srv[c]: the server's end of c's connection
  cl,       \* cl[c]: where client_task stands
  peer,     \* peer[c]: the client's end: open, or closed with FIN or RST
  wire, inbox,
  reply,    \* reply[c]: there is an echo in the client's receive buffer
  got,      \* got[c]: the client's recv() has returned some of it
  echoed    \* echoed[c][i]: history, how often piece i was sent back

data == <<wire, inbox, reply, got, echoed>>
vars == <<impl, stage, watched, ready, srv, cl, peer, data>>

Init == /\ impl \in {"select", "selectors"}
        /\ stage = "starting"
        /\ watched = {}
        /\ ready = {}
        /\ srv = [c \in Client |-> "none"]
        /\ cl = [c \in Client |-> "new"]
        /\ peer = [c \in Client |-> "open"]
        /\ wire = [c \in Client |-> 0]
        /\ inbox = [c \in Client |-> 0]
        /\ reply = [c \in Client |-> FALSE]
        /\ got = [c \in Client |-> FALSE]
        /\ echoed = [c \in Client |-> [i \in Piece |-> 0]]

-----------------------------------------------------------------------------
(* The client threads (client_task), and TCP.                              *)

\* connect(): the kernel accepts on behalf of a server that listens.
Connect(c) ==
  /\ cl[c] = "new" /\ stage = "listening"
  /\ cl' = [cl EXCEPT ![c] = "connected"]
  /\ srv' = [srv EXCEPT ![c] = "backlog"]
  /\ UNCHANGED <<impl, stage, watched, ready, peer, data>>

Refused(c) ==
  /\ cl[c] = "new" /\ stage # "listening"
  /\ cl' = [cl EXCEPT ![c] = "refused"]
  /\ UNCHANGED <<impl, stage, watched, ready, srv, peer, data>>

Send(c) ==
  /\ cl[c] = "connected" /\ srv[c] # "rst"
  /\ cl' = [cl EXCEPT ![c] = "waiting"]
  /\ wire' = [wire EXCEPT ![c] = MsgSize]
  /\ UNCHANGED <<impl, stage, watched, ready, srv, peer, inbox, reply, got, echoed>>

\* A number of pieces arrives; a closed end answers with RST.
Deliver(c) ==
  /\ wire[c] > 0
  /\ IF srv[c] \in {"backlog", "open"}
       THEN /\ \E k \in 1 .. wire[c] :
                 /\ wire' = [wire EXCEPT ![c] = @ - k]
                 /\ inbox' = [inbox EXCEPT ![c] = @ + k]
            /\ UNCHANGED srv
       ELSE /\ wire' = [wire EXCEPT ![c] = 0]
            /\ srv' = [srv EXCEPT ![c] = "rst"]
            /\ UNCHANGED inbox
  /\ UNCHANGED <<impl, stage, watched, ready, cl, peer, reply, got, echoed>>

\* recv() takes all or a part of what is there.
Receive(c) ==
  /\ cl[c] = "waiting" /\ reply[c]
  /\ cl' = [cl EXCEPT ![c] = "holding"]
  /\ got' = [got EXCEPT ![c] = TRUE]
  /\ \E rest \in BOOLEAN : reply' = [reply EXCEPT ![c] = rest]
  /\ UNCHANGED <<impl, stage, watched, ready, srv, peer, wire, inbox, echoed>>

\* recv() returns b"", which the client takes for a response.
ReceiveEOF(c) ==
  /\ cl[c] = "waiting" /\ ~reply[c] /\ srv[c] = "fin"
  /\ cl' = [cl EXCEPT ![c] = "holding"]
  /\ UNCHANGED <<impl, stage, watched, ready, srv, peer, data>>

\* sendall() or recv() raises; only ConnectionRefusedError is caught.
IsReset(c) ==
  /\ cl[c] \in {"connected", "waiting"} /\ srv[c] = "rst"
  /\ cl' = [cl EXCEPT ![c] = "reset"]
  /\ peer' = [peer EXCEPT ![c] = "rst"]
  /\ UNCHANGED <<impl, stage, watched, ready, srv, data>>

\* close() after the sleep, with RST if there is something unread.
Hangup(c) ==
  /\ cl[c] = "holding"
  /\ cl' = [cl EXCEPT ![c] = "done"]
  /\ peer' = [peer EXCEPT ![c] = IF reply[c] THEN "rst" ELSE "fin"]
  /\ UNCHANGED <<impl, stage, watched, ready, srv, data>>

ClientStep(c) ==
  \/ Connect(c) \/ Refused(c) \/ Send(c) \/ Receive(c) \/ ReceiveEOF(c)
  \/ IsReset(c) \/ Hangup(c)

-----------------------------------------------------------------------------
(* The server's loop.                                                      *)

\* make_server_socket, and the list or the selector with it.
Listen ==
  /\ stage = "starting"
  /\ stage' = "listening"
  /\ UNCHANGED <<impl, watched, ready, srv, cl, peer, data>>

\* The client has closed, and everything it sent before was read.
Gone(c) == /\ inbox[c] = 0
           /\ \/ peer[c] = "rst"
              \/ peer[c] = "fin" /\ wire[c] = 0

Backlog == {c \in Client : srv[c] = "backlog"}

Readable == {c \in watched : inbox[c] > 0 \/ Gone(c)}
              \cup IF Backlog # {} THEN {Server} ELSE {}

\* select() returns; with nothing ready it times out and the loop goes round.
Select ==
  /\ stage = "listening" /\ ready = {} /\ Readable # {}
  /\ ready' = Readable
  /\ UNCHANGED <<impl, stage, watched, srv, cl, peer, data>>

\* (Mutant: the new socket is read at once and closed when there is nothing.)
AcceptAndRead ==
  /\ Server \in ready
  /\ \E c \in Backlog :
       /\ srv' = [srv EXCEPT ![c] = IF inbox[c] > 0 THEN "open" ELSE "fin"]
       /\ watched' = IF inbox[c] > 0 THEN watched \cup {c} ELSE watched
  /\ ready' = ready \ {Server}
  /\ UNCHANGED <<impl, stage, cl, peer, data>>

\* (Mutant: accept() again and again, as long as the event is there.)
AcceptAll ==
  /\ Server \in ready
  /\ \E c \in Backlog : /\ srv' = [srv EXCEPT ![c] = "open"]
                        /\ watched' = watched \cup {c}
  /\ UNCHANGED <<impl, stage, ready, cl, peer, data>>

\* accept(), one connection for each event.
Accept ==
  /\ Server \in ready
  /\ \E c \in Backlog : /\ srv' = [srv EXCEPT ![c] = "open"]
                        /\ watched' = watched \cup {c}
  /\ ready' = ready \ {Server}
  /\ UNCHANGED <<impl, stage, cl, peer, data>>

\* A closed socket answers FIN, or RST with something unread.
ClosedEnd(unread) == IF unread > 0 THEN "rst" ELSE "fin"

\* (Mutant: the socket is closed and stays in the list.)
DropUnlisted(c, unread) ==
  /\ srv' = [srv EXCEPT ![c] = ClosedEnd(unread)]
  /\ UNCHANGED watched

\* Out of the list or the selector, and closed.
Drop(c, unread) ==
  /\ watched' = watched \ {c}
  /\ srv' = [srv EXCEPT ![c] = ClosedEnd(unread)]

\* recv(): how many pieces have been read, how many more it takes, and which.
Heard(c) == MsgSize - wire[c] - inbox[c]
Taken(c) == Min({inbox[c], RecvSize})
Part(c) == Heard(c) + 1 .. Heard(c) + Taken(c)

\* (Mutant: split()[0] for strip().)
FirstWord(part) ==
  {i \in part : /\ i \notin Blank
                /\ \A b \in part \cap Blank :
                     b < i => \A j \in part : j < b => j \in Blank}

\* strip(): what stands between the first and the last of the part's pieces
\* that are no white space.
Stripped(part) ==
  {i \in part : /\ \E j \in part \ Blank : j <= i
                /\ \E j \in part \ Blank : i <= j}

\* data.decode().strip(), sent back as a line; a part that is all white space
\* gives a line too.
Echoed(c) ==
  echoed' = [echoed EXCEPT ![c] =
               [i \in Piece |-> IF i \in Stripped(Part(c)) THEN @[i] + 1 ELSE @[i]]]

\* recv() and sendall(): to a client that is there, to one whose end is closed
\* and answers with RST, or, once that has arrived, sendall() raises.
HandleData(c) ==
  /\ c \in ready /\ inbox[c] > 0
  /\ ready' = ready \ {c}
  /\ inbox' = [inbox EXCEPT ![c] = @ - Taken(c)]
  /\ \/ /\ peer[c] = "open"
        /\ Echoed(c)
        /\ reply' = [reply EXCEPT ![c] = TRUE]
        /\ UNCHANGED <<peer, srv, watched>>
     \/ /\ peer[c] # "open"
        /\ Echoed(c)
        /\ peer' = [peer EXCEPT ![c] = "rst"]
        /\ UNCHANGED <<reply, srv, watched>>
     \/ /\ peer[c] = "rst"
        /\ Drop(c, inbox'[c])
        /\ UNCHANGED <<reply, peer, echoed>>
  /\ UNCHANGED <<impl, stage, cl, wire, got>>

\* (Mutant: an empty read is ignored.)
HandleGoneIgnored(c) ==
  /\ c \in ready /\ inbox[c] = 0
  /\ ready' = ready \ {c}
  /\ UNCHANGED <<impl, stage, watched, srv, cl, peer, data>>

\* recv() returns nothing or raises ConnectionResetError.
HandleGone(c) ==
  /\ c \in ready /\ inbox[c] = 0
  /\ ready' = ready \ {c}
  /\ Drop(c, inbox[c])
  /\ UNCHANGED <<impl, stage, cl, peer, data>>

Handle(c) == HandleData(c) \/ HandleGone(c)

-----------------------------------------------------------------------------
(* The end.                                                                *)

\* The duration is over: the listening socket is closed, and with it the
\* connections nobody accepted.  The selectors server closes sel too.
Deadline ==
  /\ stage = "listening" /\ ready = {}
  /\ stage' = "closing"
  /\ srv' = [c \in Client |-> IF c \in Backlog THEN "rst" ELSE srv[c]]
  /\ watched' = IF impl = "select" THEN watched ELSE {}
  /\ UNCHANGED <<impl, ready, cl, peer, data>>

\* The select server closes the sockets of its list one by one.
CloseWatched(c) ==
  /\ stage = "closing" /\ c \in watched
  /\ Drop(c, inbox[c])
  /\ UNCHANGED <<impl, stage, ready, cl, peer, data>>

\* The selectors server closes no client: its return drops the last references.
Finalize(c) ==
  /\ stage = "closing" /\ impl = "selectors" /\ srv[c] = "open"
  /\ srv' = [srv EXCEPT ![c] = ClosedEnd(inbox[c])]
  /\ UNCHANGED <<impl, stage, watched, ready, cl, peer, data>>

Returns ==
  /\ stage = "closing" /\ watched = {}
  /\ impl = "selectors" => \A c \in Client : srv[c] # "open"
  /\ stage' = "ended"
  /\ UNCHANGED <<impl, watched, ready, srv, cl, peer, data>>

Next ==
  \/ Listen \/ Select \/ Accept \/ Deadline \/ Returns
  \/ \E c \in Client : \/ ClientStep(c) \/ Deliver(c) \/ Handle(c)
                       \/ CloseWatched(c) \/ Finalize(c)

Spec == Init /\ [][Next]_vars

\* Every thread runs and TCP delivers.  Nothing is assumed of the deadline.
FairSpec ==
  /\ Spec
  /\ WF_vars(Listen) /\ WF_vars(Select) /\ WF_vars(Accept) /\ WF_vars(Returns)
  /\ \A c \in Client :
       /\ WF_vars(ClientStep(c)) /\ WF_vars(Deliver(c)) /\ WF_vars(Handle(c))
       /\ WF_vars(CloseWatched(c)) /\ WF_vars(Finalize(c))

-----------------------------------------------------------------------------
\* Every variable has its type.
TypeOK ==
  /\ impl \in {"select", "selectors"}
  /\ stage \in {"starting", "listening", "closing", "ended"}
  /\ watched \subseteq Client
  /\ ready \subseteq Client \cup {Server}
  /\ srv \in [Client -> {"none", "backlog", "open", "fin", "rst"}]
  /\ cl \in [Client -> {"new", "refused", "connected", "waiting", "holding",
                        "done", "reset"}]
  /\ peer \in [Client -> {"open", "fin", "rst"}]
  /\ wire \in [Client -> 0 .. MsgSize] /\ inbox \in [Client -> 0 .. MsgSize]
  /\ reply \in [Client -> BOOLEAN] /\ got \in [Client -> BOOLEAN]
  /\ echoed \in [Client -> [Piece -> Nat]]

\* At each call of select() the sockets passed are open, and those accepted and
\* open are passed: a closed one would raise ValueError and end the loop of all
\* clients, one left out would be deaf (lines 110, 135 and 252).  None of them
\* outlives the server's thread (lines 142-143; the selectors server leaves them
\* to the interpreter, line 262).
SocketsAccounted ==
  LET Open == {c \in Client : srv[c] = "open"}
  IN  /\ stage = "listening" => watched = Open
      /\ stage = "ended" => Open \cup Backlog = {}

\* Each event is good when the loop comes to it, whatever the handlers before
\* it did: accept() and recv() never block or raise BlockingIOError, which
\* nothing catches (lines 119, 127, 229 and 243).
EventsStayGood ==
  /\ Server \in ready => Backlog # {}
  /\ \A c \in ready \ {Server} : c \in watched /\ (inbox[c] > 0 \/ Gone(c))

\* However TCP and recv() cut a message up, what has been read of it is echoed
\* but for white space, once, and white space at most once (lines 127-131 and
\* 243-247).  The cuts decide which of the latter is lost.
TextEchoedOnce ==
  \A c \in Client :
    cl[c] \notin {"new", "refused", "connected"} /\ srv[c] \in {"backlog", "open"} =>
      \A i \in Piece :
        /\ i \notin Blank => echoed[c][i] = IF i <= Heard(c) THEN 1 ELSE 0
        /\ i \in Blank => echoed[c][i] <= 1

ServerNow == CASE stage = "starting" -> "before"
               [] stage = "listening" -> "up"
               [] OTHER -> "down"

ClientNow(c) ==
  CASE cl[c] = "new" -> "new"
    [] cl[c] \in {"connected", "waiting"} -> "asked"
    [] cl[c] \in {"holding", "done"} /\ got[c] -> "answered"
    [] OTHER -> "failed"

E1 == INSTANCE Echo WITH server <- ServerNow,
                         client <- [c \in Client |-> ClientNow(c)]

\* Both servers keep the promise of Echo: a client that asked is answered
\* unless the server ended, and never left waiting (line 315).
ImplementsEcho == E1!FairSpec

\* The server notices that a client has gone and lets go of its socket, without
\* which a readable socket would keep the loop spinning (lines 133-139, 248-258).
GoneClientsDropped ==
  \A c \in Client : cl[c] = "done" ~> srv[c] \notin {"backlog", "open"}
=============================================================================
