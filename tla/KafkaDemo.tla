----------------------------- MODULE KafkaDemo -----------------------------
(***************************************************************************)
(* task-delegation/kafka-example.  Two programs on one broker:             *)
(*                                                                         *)
(*  "demo"    run_demo.py: the orders are produced, then consumer threads  *)
(*            read them until an event stops them;                         *)
(*  "script"  kafka_producer.py and instances of kafka_consumer.py, which  *)
(*            are started, interrupted (Ctrl+C) and killed at any time.    *)
(*                                                                         *)
(* The broker and the client library are modelled as the code uses them:   *)
(* batches in send order per partition, groups with eager rebalancing,     *)
(* offsets committed inside the iterator and in close().                   *)
(***************************************************************************)
EXTENDS Integers, Sequences, FiniteSets

CONSTANTS
  Consumer, Group, Partition,
  Customer,   \* the keys
  Orders,     \* a sequence of customers, one for each order
  MaxCrash,   \* bound: consumers that are killed
  MaxLost     \* bound: after so many lost orders no batch fails

ASSUME KafkaAssumption ==
  /\ Orders \in Seq(Customer)
  /\ MaxCrash \in Nat /\ MaxLost \in Nat

VARIABLES
  program, groupOf,
  partitionOf,  \* hash(key) % num_partitions
  sent,         \* orders handed to producer.send()
  buffer,       \* buffer[p]: the orders the producer has not delivered
  log,          \* log[p]: the orders in partition p of the topic
  lost,         \* orders of failed batches
  phase,        \* the producer: sending, flushed
  st,           \* st[c]: where consumer c stands
  have,         \* have[c]: its partitions
  pos,          \* pos[c][p]: its position
  current,      \* current[c]: the record yielded and not handled yet
  members,      \* members[g]: the group as the broker sees it
  balanced,     \* balanced[g]: no rebalance is due
  committed,    \* committed[g][p]: the offset a new owner starts at
  handled,      \* handled[g][p]: the offsets handled, in the order of handling
  skipped,      \* skipped[g]: records yielded, committed and never handled
  stop,         \* stop_event
  crashes       \* consumers killed so far

producer == <<partitionOf, sent, buffer, log, lost, phase>>
broker == <<members, balanced, committed>>
consumer == <<st, have, pos, current>>
constants == <<program, groupOf>>
vars == <<constants, producer, broker, consumer, handled, skipped, stop, crashes>>

NumOrders == Len(Orders)
Zero == [p \in Partition |-> 0]

Init == /\ program \in {"demo", "script"}
        /\ groupOf \in [Consumer -> Group]
        /\ partitionOf \in [Customer -> Partition]
        /\ sent = 0
        /\ buffer = [p \in Partition |-> <<>>]
        /\ log = [p \in Partition |-> <<>>]
        /\ lost = {}
        /\ phase = "sending"
        /\ st = [c \in Consumer |-> "new"]
        /\ have = [c \in Consumer |-> {}]
        /\ pos = [c \in Consumer |-> Zero]
        /\ current = [c \in Consumer |-> <<>>]
        /\ members = [g \in Group |-> {}]
        /\ balanced = [g \in Group |-> TRUE]
        /\ committed = [g \in Group |-> Zero]
        /\ handled = [g \in Group |-> [p \in Partition |-> <<>>]]
        /\ skipped = [g \in Group |-> {}]
        /\ stop = FALSE
        /\ crashes = 0

-----------------------------------------------------------------------------
(* The producer.                                                           *)

others == <<constants, broker, consumer, handled, skipped, stop, crashes>>

\* producer.send(): into the buffer of the key's partition.
Send ==
  /\ phase = "sending" /\ sent < NumOrders
  /\ sent' = sent + 1
  /\ buffer' = [buffer EXCEPT ![partitionOf[Orders[sent']]] = Append(@, sent')]
  /\ UNCHANGED <<partitionOf, log, lost, phase, others>>

\* The first n orders of the buffer of p leave it as a batch.
TakeBatch(p, n) ==
  buffer' = [buffer EXCEPT ![p] = SubSeq(@, n + 1, Len(@))]

\* The broker appends a batch to the log.
Deliver(p) ==
  \E n \in 1 .. Len(buffer[p]) :
    /\ TakeBatch(p, n)
    /\ log' = [log EXCEPT ![p] = @ \o SubSeq(buffer[p], 1, n)]
    /\ UNCHANGED <<partitionOf, sent, lost, phase, others>>

\* A batch fails.  retries is 0 by default and nobody asks the future.
LoseBatch(p) ==
  \E n \in 1 .. Len(buffer[p]) :
    /\ Cardinality(lost) < MaxLost
    /\ TakeBatch(p, n)
    /\ lost' = lost \cup {buffer[p][i] : i \in 1 .. n}
    /\ UNCHANGED <<partitionOf, sent, log, phase, others>>

\* (Mutant: no flush.)
FlushAtOnce ==
  /\ phase = "sending" /\ sent = NumOrders
  /\ phase' = "flushed"
  /\ UNCHANGED <<partitionOf, sent, buffer, log, lost, others>>

\* flush() returns when no batch is outstanding; close().
Flush ==
  /\ phase = "sending" /\ sent = NumOrders
  /\ \A p \in Partition : buffer[p] = <<>>
  /\ phase' = "flushed"
  /\ UNCHANGED <<partitionOf, sent, buffer, log, lost, others>>

-----------------------------------------------------------------------------
(* The group coordinator.                                                  *)

\* A member comes or goes, and the others have to join again.
Regroup(g, S) ==
  /\ members' = [members EXCEPT ![g] = S]
  /\ balanced' = [balanced EXCEPT ![g] = S = {}]

\* (Mutant: auto_offset_reset left at its default, "latest".)
StartsAtLatest(g) ==
  [p \in Partition |-> IF committed[g][p] = 0 THEN Len(log[p]) ELSE committed[g][p]]

\* auto_offset_reset="earliest": where nothing is committed an owner starts at 0.
StartsAt(g) == committed[g]

\* All members have joined: each partition gets an owner.
Assign(g) ==
  /\ ~balanced[g] /\ \A c \in members[g] : st[c] = "joining"
  /\ \E owner \in [Partition -> members[g]] :
       have' = [c \in Consumer |->
                  IF c \in members[g] THEN {p \in Partition : owner[p] = c}
                                      ELSE have[c]]
  /\ pos' = [c \in Consumer |-> IF c \in members[g] THEN StartsAt(g) ELSE pos[c]]
  /\ st' = [c \in Consumer |-> IF c \in members[g] THEN "polling" ELSE st[c]]
  /\ balanced' = [balanced EXCEPT ![g] = TRUE]
  /\ UNCHANGED <<constants, producer, members, committed, current, handled,
                 skipped, stop, crashes>>

\* The session of a member that was killed times out.
Evict(c) ==
  /\ st[c] = "dead" /\ c \in members[groupOf[c]]
  /\ Regroup(groupOf[c], members[groupOf[c]] \ {c})
  /\ UNCHANGED <<constants, producer, consumer, committed, handled, skipped,
                 stop, crashes>>

\* The positions of c are committed.
Commit(c) ==
  committed' = [committed EXCEPT ![groupOf[c]] =
                  [p \in Partition |-> IF p \in have[c] THEN pos[c][p] ELSE @[p]]]

-----------------------------------------------------------------------------
(* A consumer: run_consumer, or the main program of kafka_consumer.py.     *)

\* KafkaConsumer() and the first poll.  The demo produces first.
Start(c) ==
  /\ st[c] = "new"
  /\ program = "demo" => phase = "flushed"
  /\ st' = [st EXCEPT ![c] = "joining"]
  /\ Regroup(groupOf[c], members[groupOf[c]] \cup {c})
  /\ UNCHANGED <<constants, producer, committed, have, pos, current, handled,
                 skipped, stop, crashes>>

\* stop was set before the thread came to its loop.
NeverStarts(c) ==
  /\ st[c] = "new" /\ stop
  /\ st' = [st EXCEPT ![c] = "closed"]
  /\ UNCHANGED <<constants, producer, broker, have, pos, current, handled,
                 skipped, stop, crashes>>

\* A poll commits when the interval is over.
AutoCommit(c) ==
  /\ st[c] = "polling"
  /\ Commit(c)
  /\ UNCHANGED <<constants, producer, consumer, members, balanced, handled,
                 skipped, stop, crashes>>

\* A poll learns of the rebalance, commits and joins again.
Rejoin(c) ==
  /\ st[c] = "polling" /\ ~balanced[groupOf[c]]
  /\ Commit(c)
  /\ st' = [st EXCEPT ![c] = "joining"]
  /\ UNCHANGED <<constants, producer, members, balanced, have, pos, current,
                 handled, skipped, stop, crashes>>

\* (Mutant: one record too many.)
YieldPastEnd(c, p) ==
  /\ st[c] = "polling" /\ p \in have[c] /\ pos[c][p] <= Len(log[p])
  /\ pos' = [pos EXCEPT ![c][p] = @ + 1]
  /\ current' = [current EXCEPT ![c] = <<p, pos'[c][p]>>]
  /\ st' = [st EXCEPT ![c] = "handling"]
  /\ UNCHANGED <<constants, producer, broker, have, handled, skipped, stop,
                 crashes>>

\* The iterator moves the position and yields the record.
Yield(c, p) ==
  /\ st[c] = "polling" /\ p \in have[c] /\ pos[c][p] < Len(log[p])
  /\ pos' = [pos EXCEPT ![c][p] = @ + 1]
  /\ current' = [current EXCEPT ![c] = <<p, pos'[c][p]>>]
  /\ st' = [st EXCEPT ![c] = "handling"]
  /\ UNCHANGED <<constants, producer, broker, have, handled, skipped, stop,
                 crashes>>

\* (Mutant: stop_event is looked at before the record is printed.)
StopBeforeHandling(c) ==
  /\ st[c] = "handling"
  /\ handled' = IF stop THEN handled
                ELSE [handled EXCEPT ![groupOf[c]][current[c][1]] =
                        Append(@, current[c][2])]
  /\ current' = [current EXCEPT ![c] = <<>>]
  /\ st' = [st EXCEPT ![c] = IF stop THEN "closing" ELSE "polling"]
  /\ UNCHANGED <<constants, producer, broker, have, pos, skipped, stop, crashes>>

\* The body of the loop: print, results.append, and a look at stop_event.
Handle(c) ==
  /\ st[c] = "handling"
  /\ handled' = [handled EXCEPT ![groupOf[c]][current[c][1]] =
                   Append(@, current[c][2])]
  /\ current' = [current EXCEPT ![c] = <<>>]
  /\ st' = [st EXCEPT ![c] = IF stop THEN "closing" ELSE "polling"]
  /\ UNCHANGED <<constants, producer, broker, have, pos, skipped, stop, crashes>>

\* (Mutant: no consumer_timeout_ms, the iterator waits for another record.)
NeverTimesOut(c) == FALSE

\* consumer_timeout_ms ends the inner loop, and stop_event the outer one.
TimesOut(c) ==
  /\ st[c] = "polling" /\ stop
  /\ st' = [st EXCEPT ![c] = "closing"]
  /\ UNCHANGED <<constants, producer, broker, have, pos, current, handled,
                 skipped, stop, crashes>>

\* (Mutant: close(autocommit=False).)
CloseUncommitted(c) ==
  /\ st[c] = "closing"
  /\ Regroup(groupOf[c], members[groupOf[c]] \ {c})
  /\ st' = [st EXCEPT ![c] = "closed"]
  /\ UNCHANGED <<constants, producer, committed, have, pos, current, handled,
                 skipped, stop, crashes>>

\* consumer.close(): commits and leaves the group.
Close(c) ==
  /\ st[c] = "closing"
  /\ Commit(c)
  /\ Regroup(groupOf[c], members[groupOf[c]] \ {c})
  /\ st' = [st EXCEPT ![c] = "closed"]
  /\ UNCHANGED <<constants, producer, have, pos, current, handled, skipped, stop,
                 crashes>>

\* KeyboardInterrupt, and finally close(), also between the yield and the print.
Interrupt(c) ==
  /\ program = "script" /\ st[c] \in {"joining", "polling", "handling"}
  /\ st' = [st EXCEPT ![c] = "closing"]
  /\ skipped' = IF st[c] = "handling"
                  THEN [skipped EXCEPT ![groupOf[c]] = @ \cup {current[c]}]
                  ELSE skipped
  /\ current' = [current EXCEPT ![c] = <<>>]
  /\ UNCHANGED <<constants, producer, broker, have, pos, handled, stop, crashes>>

\* The process is killed.
Crash(c) ==
  /\ program = "script" /\ crashes < MaxCrash
  /\ st[c] \in {"joining", "polling", "handling", "closing"}
  /\ crashes' = crashes + 1
  /\ st' = [st EXCEPT ![c] = "dead"]
  /\ current' = [current EXCEPT ![c] = <<>>]
  /\ UNCHANGED <<constants, producer, broker, have, pos, handled, skipped, stop>>

\* demo_single_group, demo_multiple_groups: stop.set() after ten seconds.
SetStop ==
  /\ program = "demo" /\ phase = "flushed" /\ ~stop
  /\ stop' = TRUE
  /\ UNCHANGED <<constants, producer, broker, consumer, handled, skipped, crashes>>

Produce == Send \/ Flush \/ \E p \in Partition : Deliver(p)

\* What the thread of a consumer does by itself.
Run(c) ==
  \/ NeverStarts(c) \/ Rejoin(c) \/ Handle(c) \/ TimesOut(c) \/ Close(c)
  \/ \E p \in Partition : Yield(c, p)

Next ==
  \/ Produce \/ SetStop
  \/ \E p \in Partition : LoseBatch(p)
  \/ \E g \in Group : Assign(g)
  \/ \E c \in Consumer :
       Start(c) \/ Run(c) \/ AutoCommit(c) \/ Interrupt(c) \/ Crash(c) \/ Evict(c)

Spec == Init /\ [][Next]_vars

\* The producer, the consumers and the broker go on.  Nobody need start, interrupt
\* or kill a script.
Fairness ==
  /\ WF_vars(Produce)
  /\ \A g \in Group : WF_vars(Assign(g))
  /\ \A c \in Consumer : WF_vars(Run(c)) /\ WF_vars(Evict(c))

FairSpec == Spec /\ Fairness

-----------------------------------------------------------------------------
\* Every variable has its type, and no position is past the end of its log.
TypeOK ==
  /\ program \in {"demo", "script"}
  /\ groupOf \in [Consumer -> Group]
  /\ partitionOf \in [Customer -> Partition]
  /\ sent \in 0 .. NumOrders
  /\ \A s \in {buffer, log} :
       s \in [Partition -> Seq(1 .. NumOrders)]
  /\ lost \subseteq 1 .. NumOrders
  /\ phase \in {"sending", "flushed"}
  /\ st \in [Consumer -> {"new", "joining", "polling", "handling", "closing",
                          "closed", "dead"}]
  /\ have \in [Consumer -> SUBSET Partition]
  /\ \A c \in Consumer, p \in Partition : pos[c][p] \in 0 .. Len(log[p])
  /\ members \in [Group -> SUBSET Consumer]
  /\ balanced \in [Group -> BOOLEAN]
  /\ \A g \in Group, p \in Partition : committed[g][p] \in 0 .. Len(log[p])
  /\ stop \in BOOLEAN
  /\ crashes \in 0 .. MaxCrash

\* The offsets of p that group g has handled, or skipped at an interrupt.
Done(g, p) == {handled[g][p][i] : i \in DOMAIN handled[g][p]}
                \cup {o \in 1 .. Len(log[p]) : <<p, o>> \in skipped[g]}

\* After flush() each order is in the log once, in the partition of its
\* customer and after that customer's earlier ones, unless its batch failed,
\* of which nothing tells the program (run_demo.py:64-65 and 87).
FlushedInOrder ==
  /\ \A p \in Partition : \A i, j \in DOMAIN log[p] : i < j => log[p][i] < log[p][j]
  /\ phase = "flushed" =>
       \A i \in 1 .. NumOrders :
         i \in lost \/ \E k \in DOMAIN log[partitionOf[Orders[i]]] :
                          log[partitionOf[Orders[i]]][k] = i

\* At least once: an offset is committed past a record only when the group has
\* handled it, whatever rebalances, stops and kills happen.  The exception is a
\* record that was yielded and interrupted before it was printed: close() counts
\* it as consumed (kafka_consumer.py:78-90).
CommittedIsDone ==
  \A g \in Group, p \in Partition : 1 .. committed[g][p] \subseteq Done(g, p)

\* Per customer in order: a group comes to a record after all earlier ones of
\* its partition, though owners change (run_demo.py:64-65).
HandledInOrder ==
  \A g \in Group, p \in Partition :
    \A i \in DOMAIN handled[g][p] :
      \A o \in 1 .. handled[g][p][i] - 1 :
        \/ <<p, o>> \in skipped[g]
        \/ \E j \in 1 .. i - 1 : handled[g][p][j] = o

\* "each message was consumed by ONLY ONE consumer in the group" (run_demo.py:183),
\* and once, as long as no consumer is killed: rebalances in the middle of a
\* partition repeat nothing.
OnceUnlessKilled ==
  crashes = 0 =>
    \A g \in Group, p \in Partition :
      \A i, j \in DOMAIN handled[g][p] : handled[g][p][i] = handled[g][p][j] => i = j

Live(g) == {c \in Consumer :
              groupOf[c] = g /\ st[c] \in {"joining", "polling", "handling"}}

\* Each group comes to the end of the log as long as it has a consumer, and
\* stop_event ends all threads, idle ones too (run_demo.py:122, 177-180, 222).
ReadsAllAndStops ==
  /\ \A g \in Group :
       phase = "flushed" /\ Live(g) # {} ~>
         \/ stop \/ Live(g) = {}
         \/ \A p \in Partition : 1 .. Len(log[p]) \subseteq Done(g, p)
  /\ stop ~> \A c \in Consumer : st[c] = "closed"
=============================================================================
