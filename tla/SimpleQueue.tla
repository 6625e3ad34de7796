---------------------------- MODULE SimpleQueue ----------------------------
(***************************************************************************)
(* python-deep-dive/03-simple-message-queue.py: the queue with             *)
(* acknowledgements and a visibility timeout, and the threads of its       *)
(* harness: a producer, good consumers that acknowledge, bad consumers     *)
(* that do not, and the monitor that requeues what has expired.            *)
(*                                                                         *)
(* A method holds the lock from its first to its last statement, except    *)
(* inside Condition.wait, so each method is one action and receive() is    *)
(* split where it waits.                                                   *)
(***************************************************************************)
EXTENDS Integers, FiniteSets, SequencesExt

CONSTANTS
  Good, Bad,          \* the consumer threads
  NumMessages,        \* messages the producer publishes, named 1, 2, ...
  VisibilityTimeout,
  NumRounds,          \* passes of the requeue monitor
  MaxTime             \* bound of the clock

ASSUME QueueAssumption ==
  /\ NumMessages \in Nat /\ VisibilityTimeout \in Nat
  /\ NumRounds \in Nat /\ MaxTime \in Nat
  /\ Good \cap Bad = {}

Consumer == Good \cup Bad
Message == 1 .. NumMessages

VARIABLES
  queue,      \* self.queue
  inFlight,   \* self.in_flight, in the dict's order of insertion
  published,  \* how many messages the producer has published
  pc,         \* pc[c]: where consumer c stands
  got,        \* got[c]: the message c has received last
  since,      \* since[c]: history, when it received it
  rounds,     \* the monitor's remaining passes
  now,        \* time.time()
  acked,      \* history, the messages ack() has deleted
  handed      \* history, the messages receive() has returned to somebody

vars == <<queue, inFlight, published, pc, got, since, rounds, now, acked, handed>>

Ids(entries) == {e.id : e \in ToSet(entries)}

\* What a loop over s keeps: its elements at the positions in I, in their order.
\* A recursive function, of which the proofs can tell what it returns.
Picked(s, I) ==
  LET pick[n \in 0 .. Len(s)] ==
        IF n = 0 THEN <<>>
        ELSE IF n \in I THEN Append(pick[n - 1], s[n])
        ELSE pick[n - 1]
  IN  pick[Len(s)]

Init == /\ queue = <<>> /\ inFlight = <<>>
        /\ published = 0 /\ rounds = NumRounds /\ now = 0
        /\ pc = [c \in Consumer |-> "idle"]
        /\ got = [c \in Consumer |-> 0]
        /\ since = [c \in Consumer |-> 0]
        /\ acked = {} /\ handed = {}

\* condition.notify_all()
NotifyAll == pc' = [c \in Consumer |-> IF pc[c] = "waiting" THEN "woken" ELSE pc[c]]

\* (Mutant: no notify_all.)
PublishSilently ==
  /\ published < NumMessages
  /\ published' = published + 1
  /\ queue' = Append(queue, published')
  /\ UNCHANGED <<inFlight, pc, got, since, rounds, now, acked, handed>>

Publish ==
  /\ published < NumMessages
  /\ published' = published + 1
  /\ queue' = Append(queue, published')
  /\ NotifyAll
  /\ UNCHANGED <<inFlight, got, since, rounds, now, acked, handed>>

\* (Mutant: the message is not remembered in in_flight.)
TakeForGood(c) ==
  /\ queue # <<>>
  /\ got' = [got EXCEPT ![c] = Head(queue)]
  /\ since' = [since EXCEPT ![c] = now]
  /\ handed' = handed \cup {Head(queue)}
  /\ queue' = Tail(queue)
  /\ pc' = [pc EXCEPT ![c] = "working"]
  /\ UNCHANGED inFlight

\* popleft, and the message is in flight from now on.
Take(c) ==
  /\ queue # <<>>
  /\ got' = [got EXCEPT ![c] = Head(queue)]
  /\ since' = [since EXCEPT ![c] = now]
  /\ handed' = handed \cup {Head(queue)}
  /\ inFlight' = Append(inFlight, [id |-> Head(queue), at |-> now, to |-> c])
  /\ queue' = Tail(queue)
  /\ pc' = [pc EXCEPT ![c] = "working"]

\* receive(), up to the first look at the queue.
Receive(c) ==
  /\ pc[c] = "idle"
  /\ \/ Take(c)
     \/ queue = <<>> /\ pc' = [pc EXCEPT ![c] = "waiting"]
                     /\ UNCHANGED <<queue, inFlight, got, since, handed>>
  /\ UNCHANGED <<published, rounds, now, acked>>

\* (Mutant: receive(timeout=None).)
NeverTimesOut(c) == pc[c] = "waiting" /\ UNCHANGED vars

\* The wait times out; c still has to get the lock back.
TimesOut(c) ==
  /\ pc[c] = "waiting"
  /\ pc' = [pc EXCEPT ![c] = "expired"]
  /\ UNCHANGED <<queue, inFlight, published, got, since, rounds, now, acked, handed>>

\* wait_for looks again, whether notified or timed out, and waits on only if
\* there is time left.
Recheck(c) ==
  /\ pc[c] \in {"woken", "expired"}
  /\ \/ Take(c)
     \/ /\ queue = <<>>
        /\ \E next \in {"waiting", "done"} :
             /\ next = "waiting" => pc[c] = "woken"
             /\ pc' = [pc EXCEPT ![c] = next]
        /\ UNCHANGED <<queue, inFlight, got, since, handed>>
  /\ UNCHANGED <<published, rounds, now, acked>>

\* A good consumer acknowledges; the entry it deletes is the one under the
\* message's id, whoever it was handed to.
Ack(c) ==
  /\ c \in Good /\ pc[c] = "working" /\ got[c] \in Ids(inFlight)
  /\ inFlight' = Picked(inFlight, {i \in DOMAIN inFlight : inFlight[i].id # got[c]})
  /\ acked' = acked \cup {got[c]}
  /\ pc' = [pc EXCEPT ![c] = "idle"]
  /\ UNCHANGED <<queue, published, got, since, rounds, now, handed>>

\* del raises KeyError and nothing catches it: the thread ends.
AckRaises(c) ==
  /\ c \in Good /\ pc[c] = "working" /\ got[c] \notin Ids(inFlight)
  /\ pc' = [pc EXCEPT ![c] = "dead"]
  /\ UNCHANGED <<queue, inFlight, published, got, since, rounds, now, acked, handed>>

\* A bad consumer returns without an ack.
GivesUp(c) ==
  /\ c \in Bad /\ pc[c] = "working"
  /\ pc' = [pc EXCEPT ![c] = "done"]
  /\ UNCHANGED <<queue, inFlight, published, got, since, rounds, now, acked, handed>>

\* (Mutant: >= for >.)
ExpiredEarly == {i \in DOMAIN inFlight : now - inFlight[i].at >= VisibilityTimeout}

\* Where the expired entries stand.
Expired == {i \in DOMAIN inFlight : now - inFlight[i].at > VisibilityTimeout}

\* (Mutant: the to_delete loop is missing.)
RequeueExpiredKeeping ==
  /\ rounds > 0
  /\ rounds' = rounds - 1
  /\ LET back == Picked(inFlight, Expired)
     IN  queue' = Reverse([i \in DOMAIN back |-> back[i].id]) \o queue
  /\ NotifyAll
  /\ UNCHANGED <<inFlight, published, got, since, now, acked, handed>>

\* (Mutant: append for appendleft.)
RequeueAtTheEnd ==
  /\ rounds > 0
  /\ rounds' = rounds - 1
  /\ LET back == Picked(inFlight, Expired)
     IN  queue' = queue \o [i \in DOMAIN back |-> back[i].id]
  /\ inFlight' = Picked(inFlight, DOMAIN inFlight \ Expired)
  /\ NotifyAll
  /\ UNCHANGED <<published, got, since, now, acked, handed>>

\* requeue_expired(): each appendleft puts its message before the last one.
RequeueExpired ==
  /\ rounds > 0
  /\ rounds' = rounds - 1
  /\ LET back == Picked(inFlight, Expired)
     IN  queue' = Reverse([i \in DOMAIN back |-> back[i].id]) \o queue
  /\ inFlight' = Picked(inFlight, DOMAIN inFlight \ Expired)
  /\ NotifyAll
  /\ UNCHANGED <<published, got, since, now, acked, handed>>

Tick == /\ now < MaxTime
        /\ now' = now + 1
        /\ UNCHANGED <<queue, inFlight, published, pc, got, since, rounds, acked, handed>>

Step(c) == Receive(c) \/ TimesOut(c) \/ Recheck(c) \/ Ack(c) \/ AckRaises(c) \/ GivesUp(c)

Next == \/ Publish
        \/ \E c \in Consumer : Step(c)
        \/ RequeueExpired
        \/ Tick

Spec == Init /\ [][Next]_vars

\* Every thread keeps running and every wait has a timeout.  A woken waiter
\* that finds the queue empty has a deadline: it does not wait for ever.
Fairness == /\ WF_vars(Publish) /\ WF_vars(RequeueExpired)
            /\ \A c \in Consumer : WF_vars(Step(c))

FairSpec == Spec /\ Fairness

-----------------------------------------------------------------------------
\* Every variable has its type.
TypeOK ==
  /\ queue \in Seq(Message)
  /\ inFlight \in Seq([id : Message, at : Nat, to : Consumer])
  /\ published \in 0 .. NumMessages
  /\ pc \in [Consumer -> {"idle", "waiting", "woken", "expired", "working", "done", "dead"}]
  /\ got \in [Consumer -> 0 .. NumMessages]
  /\ since \in [Consumer -> Nat]
  /\ rounds \in 0 .. NumRounds
  /\ now \in Nat
  /\ acked \subseteq Message /\ handed \subseteq Message

\* Every published message is in exactly one place, once: queued, in flight
\* or deleted by an ack.  Neither a crash of its consumer nor a race between
\* requeue_expired and ack loses or doubles it (lines 53, 59, 68 and 71).
Conservation ==
  /\ ToSet(queue) \cup Ids(inFlight) \cup acked = 1 .. published
  /\ Len(queue) + Len(inFlight) + Cardinality(acked) = published

\* First deliveries follow the order of publication, whatever expires and comes
\* back meanwhile: in the queue the messages that were out before stand in front
\* of those that were not, and these in their order (lines 39, 52 and 68).
FirstInFirstOut ==
  /\ \A i, j \in DOMAIN queue :
       i < j /\ queue[i] \notin handed =>
         queue[j] \notin handed /\ queue[i] < queue[j]
  /\ \A m \in handed : 1 .. m \subseteq handed

\* Two consumers work on one message only after the visibility timeout of
\* the first has run out (line 67).
ExclusiveWhileVisible ==
  \A c, d \in Consumer :
    c # d /\ pc[c] = "working" /\ pc[d] = "working" /\ got[c] = got[d] =>
      \/ now - since[c] > VisibilityTimeout
      \/ now - since[d] > VisibilityTimeout

\* No consumer sleeps while a message waits: a wake-up is never lost (lines
\* 40, 46 and 72).
NoSleeperBesideAMessage ==
  queue # <<>> => \A c \in Consumer : pc[c] # "waiting"

Status(m) == CASE m > published -> "unsent"
               [] m \in ToSet(queue) -> "queued"
               [] m \in Ids(inFlight) -> "inflight"
               [] OTHER -> "acked"

Diagram == INSTANCE Delivery WITH status <- [m \in Message |-> Status(m)]

\* The queue follows the state diagram of its document: what is acknowledged
\* never comes back, and nothing is deleted that is not in flight.
ImplementsDelivery == Diagram!Spec

\* Every consumer comes to an end and main's join() returns (lines 135-136).
AllEnd == \A c \in Consumer : pc[c] \in {"done", "dead"}
Termination == <>AllEnd
=============================================================================
