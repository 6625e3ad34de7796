------------------------- MODULE EchoServersProofs -------------------------
(***************************************************************************)
(* Theorems about EchoServers, for any clients and any size of message.    *)
(***************************************************************************)
EXTENDS EchoServers, TLAPS

Opened == {c \in Client : srv[c] = "open"}

\* The list or the selector against the sockets, stage by stage.
StageInv ==
  /\ watched = IF stage = "listening" \/ impl = "select" THEN Opened ELSE {}
  /\ stage # "listening" => ready = {} /\ Backlog = {}
  /\ stage = "ended" => Opened = {}

\* What a client's place says of its connection.
ClientInv(c) ==
  /\ stage = "starting" => cl[c] \in {"new", "refused"}
  /\ cl[c] \in {"new", "refused"} => srv[c] = "none"
  /\ cl[c] \in {"connected", "waiting"} /\ stage = "listening" =>
       srv[c] \in {"backlog", "open"}
  /\ cl[c] \notin {"done", "reset"} => peer[c] = "open"

\* Where the pieces of a message are, and what came back of them.
PiecesInv(c) ==
  /\ cl[c] \in {"new", "refused", "connected"} =>
       /\ wire[c] = 0 /\ inbox[c] = 0
       /\ \A i \in Piece : echoed[c][i] = 0
  /\ cl[c] \in {"new", "refused", "connected", "waiting"} => ~got[c]
  /\ wire[c] + inbox[c] <= MsgSize
  /\ cl[c] \notin {"new", "refused", "connected"} /\ srv[c] \in {"backlog", "open"} =>
       \A i \in Piece :
         /\ i <= Heard(c) => echoed[c][i] \in 0 .. 1
         /\ i <= Heard(c) /\ i \notin Blank => echoed[c][i] = 1
         /\ i > Heard(c) => echoed[c][i] = 0

Inv == /\ TypeOK /\ StageInv /\ EventsStayGood
       /\ \A c \in Client : ClientInv(c) /\ PiecesInv(c)

-----------------------------------------------------------------------------
LEMMA InitInv == Init => Inv
  BY EchoAssumption
  DEF Init, Inv, TypeOK, StageInv, EventsStayGood, ClientInv, PiecesInv,
      Opened, Backlog, Piece

\* How many pieces, in numbers.
LEMMA PiecesTyped ==
  ASSUME Inv, NEW c \in Client
  PROVE  /\ MsgSize \in Nat \ {0}
         /\ wire[c] \in Nat /\ inbox[c] \in Nat
  BY EchoAssumption DEF Inv, TypeOK

\* What a step of c leaves of the other clients.
Undisturbed(c) ==
  \A d \in Client \ {c} :
    /\ srv'[d] = srv[d] /\ cl'[d] = cl[d] /\ peer'[d] = peer[d]
    /\ wire'[d] = wire[d] /\ inbox'[d] = inbox[d]
    /\ reply'[d] = reply[d] /\ got'[d] = got[d] /\ echoed'[d] = echoed[d]

LEMMA OthersKeep ==
  ASSUME Inv, NEW c \in Client, Undisturbed(c), UNCHANGED stage,
         ClientInv(c)', PiecesInv(c)'
  PROVE  \A d \in Client : ClientInv(d)' /\ PiecesInv(d)'
  BY DEF Inv, Undisturbed, ClientInv, PiecesInv, Heard

\* A client's own steps leave the server's list alone.
LEMMA ClientInvStep ==
  ASSUME Inv, NEW c \in Client, ClientStep(c)
  PROVE  Inv'
<1> USE EchoAssumption DEF data
<1>1. CASE Connect(c) \/ Refused(c)
  <2>0. TypeOK'
    <3>1. CASE Connect(c)
      BY <3>1 DEF Inv, TypeOK, Connect
    <3>2. CASE Refused(c)
      BY <3>2 DEF Inv, TypeOK, Refused
    <3> QED
      BY <1>1, <3>1, <3>2
  <2>1. StageInv'
    BY <1>1 DEF Inv, TypeOK, StageInv, ClientInv, Opened, Backlog, Connect,
                Refused
  <2>2. EventsStayGood'
    BY <1>1 DEF Inv, TypeOK, EventsStayGood, Gone, Backlog, Connect, Refused
  <2>3. Undisturbed(c) /\ UNCHANGED stage
    BY <1>1 DEF Inv, TypeOK, Undisturbed, Connect, Refused
  <2>4. ClientInv(c)' /\ PiecesInv(c)'
    BY <1>1, PiecesTyped DEF Inv, TypeOK, ClientInv, PiecesInv, Heard, Connect, Refused
  <2> QED
    BY <2>0, <2>1, <2>2, <2>3, <2>4, OthersKeep DEF Inv
<1>2. CASE Send(c)
  <2>1. TypeOK' /\ StageInv'
    BY <1>2 DEF Inv, TypeOK, StageInv, Opened, Backlog, Send
  <2>2. EventsStayGood'
    BY <1>2 DEF Inv, TypeOK, EventsStayGood, ClientInv, Gone, Backlog, Send
  <2>3. Undisturbed(c) /\ UNCHANGED stage
    BY <1>2 DEF Inv, TypeOK, Undisturbed, Send
  <2>4. /\ cl[c] = "connected" /\ cl'[c] = "waiting"
        /\ wire'[c] = MsgSize
        /\ UNCHANGED <<stage, srv, peer, inbox, reply, got, echoed>>
    BY <1>2 DEF Inv, TypeOK, Send
  <2>5. inbox'[c] = 0 /\ ~got'[c] /\ \A i \in Piece : echoed'[c][i] = 0
    BY <2>4 DEF Inv, PiecesInv
  <2>6. Heard(c)' = 0
    BY <2>4, <2>5 DEF Heard
  <2>8. PiecesInv(c)'
    BY <2>4, <2>5, <2>6, PiecesTyped DEF PiecesInv, Piece
  <2>7. ClientInv(c)'
    BY <2>4 DEF Inv, ClientInv
  <2> QED
    BY <2>1, <2>2, <2>3, <2>7, <2>8, OthersKeep DEF Inv
<1>3. CASE Receive(c) \/ ReceiveEOF(c)
  <2>0. TypeOK'
    <3>1. reply' \in [Client -> BOOLEAN] /\ got' \in [Client -> BOOLEAN]
      <4>1. /\ reply \in [Client -> BOOLEAN] /\ got \in [Client -> BOOLEAN]
            /\ TRUE \in BOOLEAN
        BY DEF Inv, TypeOK
      <4>2. CASE ReceiveEOF(c)
        BY <4>1, <4>2 DEF ReceiveEOF
      <4>3. CASE Receive(c)
        <5>1. PICK rest \in BOOLEAN : reply' = [reply EXCEPT ![c] = rest]
          BY <4>3 DEF Receive
        <5>2. got' = [got EXCEPT ![c] = TRUE]
          BY <4>3 DEF Receive
        <5>3. reply' \in [Client -> BOOLEAN]
          BY <4>1, <5>1, Zenon
        <5>4. got' \in [Client -> BOOLEAN]
          BY <4>1, <5>2, Zenon
        <5> QED
          BY <5>3, <5>4
      <4> QED
        BY <1>3, <4>2, <4>3
    <3>2. cl' = [cl EXCEPT ![c] = "holding"]
      BY <1>3 DEF Receive, ReceiveEOF
    <3>3. UNCHANGED <<impl, stage, watched, ready, srv, peer, wire, inbox, echoed>>
      BY <1>3 DEF Receive, ReceiveEOF
    <3> QED
      BY <3>1, <3>2, <3>3 DEF Inv, TypeOK
  <2>1. StageInv'
    BY <1>3 DEF Inv, StageInv, Opened, Backlog, Receive, ReceiveEOF
  <2>2. EventsStayGood'
    BY <1>3 DEF Inv, TypeOK, EventsStayGood, Gone, Backlog, Receive, ReceiveEOF
  <2>3. Undisturbed(c) /\ UNCHANGED stage
    BY <1>3 DEF Inv, TypeOK, Undisturbed, Receive, ReceiveEOF
  <2>4. ClientInv(c)' /\ PiecesInv(c)'
    BY <1>3, PiecesTyped DEF Inv, TypeOK, ClientInv, PiecesInv, Heard, Receive,
                             ReceiveEOF
  <2> QED
    BY <2>0, <2>1, <2>2, <2>3, <2>4, OthersKeep DEF Inv
<1>4. CASE IsReset(c) \/ Hangup(c)
  <2>0. TypeOK'
    BY <1>4 DEF Inv, TypeOK, IsReset, Hangup
  <2>1. StageInv'
    BY <1>4 DEF Inv, StageInv, Opened, Backlog, IsReset, Hangup
  <2>2. EventsStayGood'
    BY <1>4 DEF Inv, TypeOK, EventsStayGood, ClientInv, Gone, Backlog, IsReset,
                Hangup
  <2>3. Undisturbed(c) /\ UNCHANGED stage
    BY <1>4 DEF Inv, TypeOK, Undisturbed, IsReset, Hangup
  <2>4. ClientInv(c)' /\ PiecesInv(c)'
    BY <1>4, PiecesTyped DEF Inv, TypeOK, ClientInv, PiecesInv, Heard, IsReset,
                             Hangup
  <2> QED
    BY <2>0, <2>1, <2>2, <2>3, <2>4, OthersKeep DEF Inv
<1> QED
  BY <1>1, <1>2, <1>3, <1>4 DEF ClientStep

LEMMA DeliverStep == ASSUME Inv, NEW c \in Client, Deliver(c) PROVE Inv'
<1> USE EchoAssumption
<1>1. CASE srv[c] \in {"backlog", "open"}
  <2>1. PICK k \in 1 .. wire[c] :
          /\ wire' = [wire EXCEPT ![c] = @ - k]
          /\ inbox' = [inbox EXCEPT ![c] = @ + k]
          /\ UNCHANGED <<impl, stage, watched, ready, srv, cl, peer, reply, got, echoed>>
    BY <1>1 DEF Deliver
  <2>2. wire[c] \in Nat /\ inbox[c] \in Nat
    BY DEF Inv, TypeOK
  <2>3. /\ wire'[c] \in Nat /\ inbox'[c] \in Nat \ {0}
        /\ wire'[c] + inbox'[c] = wire[c] + inbox[c]
        /\ \A d \in Client : d # c => wire'[d] = wire[d] /\ inbox'[d] = inbox[d]
    BY <2>1, <2>2 DEF Inv, TypeOK
  <2>4. TypeOK'
    BY <2>1, <2>2, <2>3 DEF Inv, TypeOK, PiecesInv
  <2>5. StageInv' /\ EventsStayGood'
    BY <2>1, <2>3 DEF Inv, StageInv, EventsStayGood, Opened, Backlog, Gone
  <2>6. \A d \in Client : ClientInv(d)'
    BY <2>1 DEF Inv, ClientInv
  <2>7. \A d \in Client : Heard(d)' = Heard(d)
    BY <2>1, <2>2, <2>3 DEF Heard
  <2>8. \A d \in Client : PiecesInv(d)'
    BY <2>1, <2>2, <2>3, <2>7 DEF Inv, TypeOK, PiecesInv
  <2> QED
    BY <2>4, <2>5, <2>6, <2>8 DEF Inv
<1>2. CASE srv[c] \notin {"backlog", "open"}
  <2>1. /\ wire' = [wire EXCEPT ![c] = 0]
        /\ srv' = [srv EXCEPT ![c] = "rst"]
        /\ UNCHANGED <<impl, stage, watched, ready, inbox, cl, peer, reply, got, echoed>>
    BY <1>2 DEF Deliver
  <2>2. TypeOK'
    BY <2>1 DEF Inv, TypeOK
  <2>3. Opened' = Opened /\ Backlog' = Backlog
    BY <1>2, <2>1 DEF Inv, TypeOK, Opened, Backlog
  <2>4. StageInv' /\ EventsStayGood'
    BY <2>1, <2>3 DEF Inv, TypeOK, StageInv, EventsStayGood, Gone
  <2>5. cl[c] \notin {"new", "refused"}
    BY DEF Inv, PiecesInv, Deliver
  <2>6. \A d \in Client : ClientInv(d)' /\ PiecesInv(d)'
    BY <1>2, <2>1, <2>5 DEF Inv, TypeOK, ClientInv, PiecesInv, Heard
  <2> QED
    BY <2>2, <2>4, <2>6 DEF Inv
<1> QED
  BY <1>1, <1>2

LEMMA ListenStep == ASSUME Inv, Listen PROVE Inv'
<1> USE DEF Listen, data
<1>1. Opened = {} /\ Backlog = {} /\ ready = {} /\ watched = {}
  BY DEF Inv, StageInv, ClientInv, Opened, Backlog
<1>2. TypeOK'
  BY DEF Inv, TypeOK
<1>3. Opened' = {} /\ Backlog' = {} /\ ready' = {} /\ watched' = {}
  BY <1>1 DEF Opened, Backlog
<1>4. StageInv' /\ EventsStayGood'
  BY <1>3 DEF StageInv, EventsStayGood
<1>5. \A d \in Client : ClientInv(d)' /\ PiecesInv(d)'
  BY DEF Inv, ClientInv, PiecesInv, Heard
<1> QED
  BY <1>2, <1>4, <1>5 DEF Inv

LEMMA SelectStep == ASSUME Inv, Select PROVE Inv'
  BY EchoAssumption
  DEF Inv, TypeOK, StageInv, EventsStayGood, ClientInv, PiecesInv, Opened,
      Backlog, Gone, Readable, Select, data, Heard

LEMMA AcceptStep == ASSUME Inv, Accept PROVE Inv'
<1>1. stage = "listening" /\ Server \in ready
  BY DEF Inv, StageInv, Accept
<1>2. PICK c \in Backlog : /\ srv' = [srv EXCEPT ![c] = "open"]
                           /\ watched' = watched \cup {c}
  BY DEF Accept
<1>3. /\ c \in Client /\ srv[c] = "backlog"
      /\ ready' = ready \ {Server}
      /\ UNCHANGED <<impl, stage, cl, peer, wire, inbox, reply, got, echoed>>
  BY DEF Backlog, Accept, data
<1>4. TypeOK'
  BY <1>2, <1>3 DEF Inv, TypeOK
<1>5. Opened' = Opened \cup {c}
  BY <1>2, <1>3 DEF Inv, TypeOK, Opened
<1>6. StageInv'
  BY <1>1, <1>2, <1>3, <1>5 DEF Inv, StageInv
<1>7. EventsStayGood'
  BY <1>2, <1>3 DEF Inv, EventsStayGood, Gone
<1>8. \A d \in Client : ClientInv(d)' /\ PiecesInv(d)'
  BY <1>2, <1>3 DEF Inv, TypeOK, ClientInv, PiecesInv, Heard
<1> QED
  BY <1>4, <1>6, <1>7, <1>8 DEF Inv

\* A client's end that is not open means that the client is through.
LEMMA DropInv ==
  ASSUME Inv, NEW c \in Client, NEW left \in 0 .. inbox[c],
         srv[c] = "open", peer[c] # "open" \/ stage = "closing",
         srv' = [srv EXCEPT ![c] = ClosedEnd(left)],
         watched' = watched \ {c},
         ready' = ready \ {c},
         inbox' = [inbox EXCEPT ![c] = left],
         UNCHANGED <<impl, stage, cl, peer, wire, reply, got, echoed>>
  PROVE  Inv'
<1> USE EchoAssumption
<1>1. ClosedEnd(left) \in {"fin", "rst"}
  BY DEF ClosedEnd
<1>2. left \in Nat /\ left <= inbox[c]
  BY PiecesTyped
<1>3. TypeOK'
  BY <1>1, <1>2 DEF Inv, TypeOK
<1>4. Opened' = Opened \ {c} /\ Backlog' = Backlog
  BY <1>1 DEF Inv, TypeOK, Opened, Backlog
<1>5. StageInv'
  BY <1>4 DEF Inv, StageInv
<1>6. EventsStayGood'
  BY <1>4 DEF Inv, TypeOK, EventsStayGood, Gone
<1>7. \A d \in Client : ClientInv(d)'
  BY <1>1 DEF Inv, TypeOK, ClientInv
<1>8. ASSUME NEW d \in Client PROVE PiecesInv(d)'
  <2>1. CASE d = c
    BY <1>1, <1>2, <2>1, PiecesTyped DEF Inv, TypeOK, PiecesInv
  <2>2. CASE d # c
    BY <2>2 DEF Inv, TypeOK, PiecesInv, Heard
  <2> QED
    BY <2>1, <2>2
<1> QED
  BY <1>3, <1>5, <1>6, <1>7, <1>8 DEF Inv

\* What the loop has to do with an event.
LEMMA EventGood ==
  ASSUME Inv, NEW c \in Client, c \in ready
  PROVE  /\ stage = "listening" /\ c \in watched /\ srv[c] = "open"
         /\ inbox[c] = 0 => peer[c] # "open"
  BY EchoAssumption DEF Inv, TypeOK, StageInv, EventsStayGood, Opened, Gone

\* A recv() takes something, and no more than there is.
LEMMA TakenIs ==
  ASSUME Inv, NEW c \in Client, inbox[c] > 0
  PROVE  /\ Taken(c) \in 1 .. inbox[c]
         /\ Heard(c) \in Nat /\ Heard(c) + Taken(c) <= MsgSize
<1>1. /\ inbox[c] \in Nat /\ wire[c] \in Nat /\ MsgSize \in Nat
      /\ RecvSize \in Nat \ {0} /\ wire[c] + inbox[c] <= MsgSize
  BY EchoAssumption, PiecesTyped DEF Inv, PiecesInv
<1> DEFINE S == {inbox[c], RecvSize}
<1>2. \E x \in S : \A y \in S : x <= y
  <2>1. inbox[c] <= RecvSize \/ RecvSize <= inbox[c]
    BY <1>1
  <2> QED
    BY <1>1, <2>1
<1>3. Min(S) \in S /\ \A y \in S : Min(S) <= y
  <2> HIDE DEF S
  <2> QED
    BY <1>2 DEF Min
<1>4. Taken(c) \in 1 .. inbox[c]
  BY <1>1, <1>3 DEF Taken
<1> QED
  BY <1>1, <1>4 DEF Heard

\* strip() returns pieces of the part, all that are no white space included.
LEMMA StrippedKeepsText ==
  ASSUME NEW part \in SUBSET Nat
  PROVE  Stripped(part) \subseteq part /\ part \ Blank \subseteq Stripped(part)
<1>1. \A j \in part : j <= j
  OBVIOUS
<1> QED
  BY <1>1 DEF Stripped

\* A part that is read and echoed.
LEMMA EchoedPieces ==
  ASSUME Inv, NEW c \in Client, inbox[c] > 0, Echoed(c), srv[c] = "open",
         inbox' = [inbox EXCEPT ![c] = @ - Taken(c)],
         UNCHANGED <<cl, srv, wire, got>>
  PROVE  \A d \in Client : PiecesInv(d)' /\ echoed'[d] \in [Piece -> Nat]
<1>1. /\ Taken(c) \in 1 .. inbox[c] /\ inbox[c] \in Nat /\ wire[c] \in Nat
      /\ Heard(c) \in Nat /\ Heard(c) + Taken(c) <= MsgSize
      /\ MsgSize \in Nat
  BY PiecesTyped, TakenIs
<1>2. /\ inbox'[c] = inbox[c] - Taken(c) /\ Heard(c)' = Heard(c) + Taken(c)
      /\ \A d \in Client \ {c} : inbox'[d] = inbox[d] /\ Heard(d)' = Heard(d)
  BY <1>1 DEF Inv, TypeOK, Heard
<1>3. cl[c] \notin {"new", "refused", "connected"}
  BY DEF Inv, PiecesInv
<1>4. /\ echoed'[c] = [i \in Piece |-> IF i \in Stripped(Part(c))
                                        THEN echoed[c][i] + 1 ELSE echoed[c][i]]
      /\ \A d \in Client \ {c} : echoed'[d] = echoed[d]
      /\ echoed[c] \in [Piece -> Nat]
  BY DEF Inv, TypeOK, Echoed
<1>5. /\ Stripped(Part(c)) \subseteq Part(c)
      /\ Part(c) \ Blank \subseteq Stripped(Part(c))
      /\ Part(c) \subseteq Nat
      /\ \A i \in Piece : i \in Part(c) <=> i > Heard(c) /\ i <= Heard(c)'
  <2>1. Part(c) = Heard(c) + 1 .. Heard(c) + Taken(c)
    BY DEF Part
  <2> HIDE DEF Part
  <2>2. Part(c) \in SUBSET Nat
    BY <1>1, <2>1
  <2>3. Stripped(Part(c)) \subseteq Part(c) /\ Part(c) \ Blank \subseteq Stripped(Part(c))
    BY <2>2, StrippedKeepsText
  <2>4. ASSUME NEW i \in Piece
        PROVE  i \in Part(c) <=> i > Heard(c) /\ i <= Heard(c) + Taken(c)
    BY <1>1, <2>1 DEF Piece
  <2> QED
    BY <1>2, <2>2, <2>3, <2>4
<1>6. ASSUME NEW i \in Piece
      PROVE  /\ i <= Heard(c)' => echoed'[c][i] \in 0 .. 1
             /\ i <= Heard(c)' /\ i \notin Blank => echoed'[c][i] = 1
             /\ i > Heard(c)' => echoed'[c][i] = 0
  <2>1. /\ i <= Heard(c) => echoed[c][i] \in 0 .. 1
        /\ i <= Heard(c) /\ i \notin Blank => echoed[c][i] = 1
        /\ i > Heard(c) => echoed[c][i] = 0
    BY <1>3 DEF Inv, PiecesInv
  <2>2. echoed'[c][i] = IF i \in Stripped(Part(c)) THEN echoed[c][i] + 1
                        ELSE echoed[c][i]
    BY <1>4
  <2>3. i \in Nat /\ Heard(c)' \in Nat /\ Heard(c) <= Heard(c)'
    BY <1>1, <1>2 DEF Piece
  <2>4. CASE i \in Part(c)
    BY <1>1, <1>5, <2>1, <2>2, <2>3, <2>4
  <2>5. CASE i \notin Part(c)
    BY <1>1, <1>5, <2>1, <2>2, <2>3, <2>5
  <2> QED
    BY <2>4, <2>5
<1>7. PiecesInv(c)'
  BY <1>1, <1>2, <1>3, <1>6 DEF Inv, PiecesInv
<1>8. ASSUME NEW d \in Client, d # c PROVE PiecesInv(d)'
  BY <1>2, <1>4, <1>8 DEF Inv, PiecesInv
<1>9. echoed'[c] \in [Piece -> Nat]
  BY <1>4
<1>10. \A d \in Client \ {c} : echoed'[d] \in [Piece -> Nat]
  BY <1>4 DEF Inv, TypeOK
<1> QED
  BY <1>7, <1>8, <1>9, <1>10

LEMMA HandleStep == ASSUME Inv, NEW c \in Client, Handle(c) PROVE Inv'
<1> USE EchoAssumption
<1>1. /\ c \in ready /\ stage = "listening" /\ c \in watched /\ srv[c] = "open"
      /\ inbox[c] = 0 => peer[c] # "open"
  BY EventGood DEF Handle, HandleData, HandleGone
<1>2. CASE HandleGone(c)
  <2>1. inbox' = [inbox EXCEPT ![c] = inbox[c]] /\ inbox[c] \in 0 .. inbox[c]
    BY <1>2, PiecesTyped DEF Inv, TypeOK, HandleGone, data
  <2> QED
    BY <1>1, <1>2, <2>1, DropInv DEF HandleGone, Drop, data
<1>3. CASE /\ HandleData(c) /\ peer[c] = "rst" /\ Drop(c, inbox'[c])
           /\ UNCHANGED <<reply, peer, echoed>>
  <2> DEFINE left == inbox[c] - Taken(c)
  <2>1. inbox' = [inbox EXCEPT ![c] = left] /\ left \in 0 .. inbox[c]
    BY <1>3, PiecesTyped, TakenIs DEF HandleData
  <2>2. inbox'[c] = left
    BY <2>1 DEF Inv, TypeOK
  <2> HIDE DEF left
  <2> QED
    BY <1>1, <1>3, <2>1, <2>2, DropInv DEF HandleData, Drop
<1>4. CASE HandleData(c) /\ Echoed(c) /\ UNCHANGED <<srv, watched>>
  <2>1. /\ inbox[c] > 0 /\ inbox' = [inbox EXCEPT ![c] = @ - Taken(c)]
        /\ ready' = ready \ {c}
        /\ UNCHANGED <<impl, stage, cl, wire, got, srv, watched>>
        /\ \/ reply' = [reply EXCEPT ![c] = TRUE] /\ UNCHANGED peer
           \/ peer[c] # "open" /\ peer' = [peer EXCEPT ![c] = "rst"] /\ UNCHANGED reply
           \/ UNCHANGED <<reply, peer>>
    BY <1>4 DEF HandleData
  <2>2. \A d \in Client : PiecesInv(d)' /\ echoed'[d] \in [Piece -> Nat]
    BY <1>1, <1>4, <2>1, EchoedPieces
  <2>3. echoed' \in [Client -> [Piece -> Nat]]
    <3>1. DOMAIN echoed' = Client /\ echoed' = [d \in Client |-> echoed'[d]]
      BY <1>4 DEF Inv, TypeOK, Echoed
    <3> QED
      BY <2>2, <3>1
  <2>4. inbox' \in [Client -> 0 .. MsgSize]
    <3>1. inbox[c] - Taken(c) \in 0 .. MsgSize
      BY <2>1, TakenIs DEF Inv, TypeOK
    <3> QED
      BY <2>1, <3>1 DEF Inv, TypeOK
  <2>5. TypeOK'
    BY <2>1, <2>3, <2>4 DEF Inv, TypeOK
  <2>6. StageInv'
    BY <2>1 DEF Inv, StageInv, Opened, Backlog
  <2>7. EventsStayGood'
    BY <1>1, <2>1 DEF Inv, TypeOK, EventsStayGood, Gone, Backlog
  <2>8. \A d \in Client : ClientInv(d)'
    BY <2>1 DEF Inv, TypeOK, ClientInv
  <2> QED
    BY <2>2, <2>5, <2>6, <2>7, <2>8 DEF Inv
<1> QED
  BY <1>2, <1>3, <1>4 DEF Handle, HandleData

LEMMA DeadlineStep == ASSUME Inv, Deadline PROVE Inv'
<1>1. TypeOK'
  BY DEF Inv, TypeOK, Deadline, data
<1>2. Opened' = Opened /\ Backlog' = {}
  BY DEF Inv, TypeOK, Opened, Backlog, Deadline
<1>3. StageInv' /\ EventsStayGood'
  BY <1>2 DEF Inv, TypeOK, StageInv, EventsStayGood, Deadline
<1>4. \A d \in Client : ClientInv(d)' /\ PiecesInv(d)'
  BY DEF Inv, TypeOK, ClientInv, PiecesInv, Heard, Backlog, Deadline, data
<1> QED
  BY <1>1, <1>3, <1>4 DEF Inv

LEMMA ClosingStep ==
  ASSUME Inv, NEW c \in Client, CloseWatched(c) \/ Finalize(c)
  PROVE  Inv'
<1>1. /\ stage = "closing" /\ srv[c] = "open" /\ ready = {}
      /\ Finalize(c) => watched = {}
  BY DEF Inv, StageInv, Opened, CloseWatched, Finalize
<1>2. inbox' = [inbox EXCEPT ![c] = inbox[c]] /\ inbox[c] \in 0 .. inbox[c]
  BY PiecesTyped DEF Inv, TypeOK, CloseWatched, Finalize, data
<1> QED
  BY <1>1, <1>2, DropInv DEF CloseWatched, Finalize, Drop, data

LEMMA ReturnsStep == ASSUME Inv, Returns PROVE Inv'
<1>1. Opened = {}
  BY DEF Inv, TypeOK, StageInv, Opened, Returns
<1> QED
  BY <1>1 DEF Inv, TypeOK, StageInv, EventsStayGood, ClientInv, PiecesInv,
              Opened, Backlog, Gone, Returns, data, Heard

LEMMA StepInv == Inv /\ [Next]_vars => Inv'
<1> SUFFICES ASSUME Inv, [Next]_vars PROVE Inv'
  OBVIOUS
<1>1. CASE UNCHANGED vars
  BY <1>1 DEF Inv, TypeOK, StageInv, EventsStayGood, ClientInv, PiecesInv,
              Opened, Backlog, Gone, vars, data, Heard
<1> QED
  BY <1>1, ClientInvStep, DeliverStep, ListenStep, SelectStep, AcceptStep,
     HandleStep, DeadlineStep, ClosingStep, ReturnsStep DEF Next

LEMMA AlwaysInv == Spec => []Inv
  BY InitInv, StepInv, PTL DEF Spec

\* Every variable keeps its type; no counter of pieces overflows the message.
THEOREM TypesKept == Spec => []TypeOK
<1>1. Inv => TypeOK
  BY DEF Inv
<1> QED
  BY AlwaysInv, <1>1, PTL

\* Each call of select() gets the open sockets, and none outlives the server.
THEOREM ListMatchesSockets == Spec => []SocketsAccounted
<1>1. Inv => SocketsAccounted
  BY DEF Inv, StageInv, Opened, SocketsAccounted
<1> QED
  BY AlwaysInv, <1>1, PTL

\* No event of a round is stale when its turn comes.
THEOREM NoStaleEvents == Spec => []EventsStayGood
<1>1. Inv => EventsStayGood
  BY DEF Inv
<1> QED
  BY AlwaysInv, <1>1, PTL

\* Whatever the segmentation, the size of a recv() and the places of white
\* space: of what the server has read, all text came back once, and no white
\* space twice (lines 127-131 and 243-247).
THEOREM TextEchoed == Spec => []TextEchoedOnce
<1>1. Inv => TextEchoedOnce
  <2> SUFFICES ASSUME Inv, NEW c \in Client,
                      cl[c] \notin {"new", "refused", "connected"},
                      srv[c] \in {"backlog", "open"}, NEW i \in Piece
               PROVE  /\ i \notin Blank =>
                           echoed[c][i] = IF i <= Heard(c) THEN 1 ELSE 0
                      /\ i \in Blank => echoed[c][i] <= 1
    BY DEF TextEchoedOnce
  <2>1. /\ i <= Heard(c) => echoed[c][i] \in 0 .. 1
        /\ i <= Heard(c) /\ i \notin Blank => echoed[c][i] = 1
        /\ i > Heard(c) => echoed[c][i] = 0
    BY DEF Inv, PiecesInv
  <2>2. i \in Nat /\ Heard(c) \in Int
    BY PiecesTyped DEF Piece, Heard
  <2> QED
    BY <2>1, <2>2
<1> QED
  BY AlwaysInv, <1>1, PTL

-----------------------------------------------------------------------------
(* The refinement: every step is a step of Echo, or a stutter.             *)

\* A step that changes neither the server's stage nor anybody's standing.
LEMMA Stutters ==
  ASSUME UNCHANGED ServerNow, \A c \in Client : ClientNow(c)' = ClientNow(c)
  PROVE  UNCHANGED E1!vars
  BY DEF E1!vars

\* A step that changes the standing of one client.
LEMMA OneClientMoves ==
  ASSUME NEW c \in Client, NEW from, NEW to,
         ClientNow(c) = from, ClientNow(c)' = to,
         \A d \in Client \ {c} : ClientNow(d)' = ClientNow(d),
         UNCHANGED ServerNow
  PROVE  E1!ClientMoves(c, from, to)
  BY DEF E1!ClientMoves

LEMMA OthersStand ==
  ASSUME NEW c \in Client, Undisturbed(c), UNCHANGED stage
  PROVE  /\ UNCHANGED ServerNow
         /\ \A d \in Client \ {c} : ClientNow(d)' = ClientNow(d)
  BY DEF Undisturbed, ServerNow, ClientNow

LEMMA ClientRefines ==
  ASSUME Inv, NEW c \in Client, ClientStep(c)
  PROVE  [E1!Next]_(E1!vars)
<1> USE DEF data
<1>1. Undisturbed(c) /\ UNCHANGED stage
  BY DEF Inv, TypeOK, Undisturbed, ClientStep, Connect, Refused, Send, Receive,
         ReceiveEOF, IsReset, Hangup
<1>2. /\ UNCHANGED ServerNow
      /\ \A d \in Client \ {c} : ClientNow(d)' = ClientNow(d)
  BY <1>1, OthersStand
<1>3. CASE Connect(c)
  <2>1. ClientNow(c) = "new" /\ ClientNow(c)' = "asked" /\ ServerNow = "up"
    BY <1>3 DEF Inv, TypeOK, ClientNow, ServerNow, Connect
  <2>2. E1!Ask(c)
    BY <1>2, <2>1, OneClientMoves DEF E1!Ask
  <2> QED
    BY <2>2 DEF E1!Next
<1>4. CASE Refused(c)
  <2>1. ClientNow(c) = "new" /\ ClientNow(c)' = "failed" /\ ServerNow # "up"
    BY <1>4 DEF Inv, TypeOK, ClientNow, ServerNow, Refused
  <2>2. E1!Refuse(c)
    BY <1>2, <2>1, OneClientMoves DEF E1!Refuse
  <2> QED
    BY <2>2 DEF E1!Next
<1>5. CASE Receive(c)
  <2>1. cl'[c] = "holding" /\ got'[c]
    BY <1>5 DEF Inv, TypeOK, Receive
  <2>2. ClientNow(c) = "asked" /\ ClientNow(c)' = "answered"
    BY <1>5, <2>1 DEF ClientNow, Receive
  <2>3. E1!Answer(c)
    BY <1>2, <2>2, OneClientMoves DEF E1!Answer
  <2> QED
    BY <2>3 DEF E1!Next
<1>6. CASE ReceiveEOF(c) \/ IsReset(c)
  <2>1. /\ cl[c] \in {"connected", "waiting"} /\ cl'[c] \in {"holding", "reset"}
        /\ srv[c] \in {"fin", "rst"} /\ UNCHANGED got
    BY <1>6 DEF Inv, TypeOK, ReceiveEOF, IsReset
  <2>2. ~got'[c]
    BY <2>1 DEF Inv, PiecesInv
  <2>3. ClientNow(c) = "asked" /\ ClientNow(c)' = "failed"
    BY <2>1, <2>2 DEF ClientNow
  <2>4. ServerNow = "down"
    BY <2>1 DEF Inv, ClientInv, ServerNow
  <2>5. E1!Fail(c)
    BY <1>2, <2>3, <2>4, OneClientMoves DEF E1!Fail
  <2> QED
    BY <2>5 DEF E1!Next
<1>7. CASE Send(c) \/ Hangup(c)
  <2>1. ClientNow(c)' = ClientNow(c)
    BY <1>7 DEF Inv, TypeOK, ClientNow, Send, Hangup
  <2> QED
    BY <1>2, <2>1, Stutters
<1> QED
  BY <1>3, <1>4, <1>5, <1>6, <1>7 DEF ClientStep

LEMMA StepRefines == Inv /\ [Next]_vars => [E1!Next]_(E1!vars)
<1> SUFFICES ASSUME Inv, [Next]_vars PROVE [E1!Next]_(E1!vars)
  OBVIOUS
<1>1. CASE \E c \in Client : ClientStep(c)
  BY <1>1, ClientRefines
<1>2. CASE Listen \/ Deadline
  <2>1. UNCHANGED <<cl, got>>
    BY <1>2 DEF Listen, Deadline, data
  <2>2. UNCHANGED [c \in Client |-> ClientNow(c)]
    BY <2>1 DEF ClientNow
  <2>3. \/ ServerNow = "before" /\ ServerNow' = "up"
        \/ ServerNow = "up" /\ ServerNow' = "down"
    BY <1>2 DEF Listen, Deadline, ServerNow
  <2> QED
    BY <2>2, <2>3 DEF E1!Next, E1!ServerMoves
<1>3. CASE \/ Select \/ Accept \/ Returns \/ UNCHANGED vars
           \/ \E c \in Client : \/ Deliver(c) \/ Handle(c)
                                \/ CloseWatched(c) \/ Finalize(c)
  <2>1. UNCHANGED <<cl, got>>
    BY <1>3 DEF Select, Accept, Returns, Deliver, Handle, HandleData,
                HandleGone, CloseWatched, Finalize, data, vars
  <2>2. UNCHANGED ServerNow
    BY <1>3 DEF Select, Accept, Returns, Deliver, Handle, HandleData,
                HandleGone, CloseWatched, Finalize, data, vars, ServerNow
  <2> QED
    BY <2>1, <2>2, Stutters DEF ClientNow
<1> QED
  BY <1>1, <1>2, <1>3 DEF Next

\* Both servers are Echo as far as safety goes: whoever asks while the server
\* is up can only be failed by its end.
THEOREM Refinement == Spec => E1!Spec
<1>1. Init => E1!Init
  BY DEF Init, E1!Init, ServerNow, ClientNow
<1> QED
  BY <1>1, AlwaysInv, StepRefines, PTL DEF Spec, E1!Spec
=============================================================================
