-------------------------- MODULE KafkaDemoProofs --------------------------
(***************************************************************************)
(* Theorems about KafkaDemo, for any consumers, groups, partitions, any    *)
(* orders and any number of kills and failed batches.                      *)
(***************************************************************************)
EXTENDS KafkaDemo, SequenceLemmas

\* What TypeOK leaves open.
ShapeInv ==
  /\ pos \in [Consumer -> [Partition -> Nat]]
  /\ current \in [Consumer -> (Partition \X Nat) \cup {<<>>}]
  /\ committed \in [Group -> [Partition -> Nat]]
  /\ handled \in [Group -> [Partition -> Seq(Nat)]]
  /\ skipped \in [Group -> SUBSET (Partition \X Nat)]

\* The log l and the buffer b of a partition when n orders are sent.
Ordered(l, b, n) ==
  /\ \A i, j \in 1 .. Len(l) : i < j => l[i] < l[j]
  /\ \A i, j \in 1 .. Len(b) : i < j => b[i] < b[j]
  /\ \A i \in 1 .. Len(l), j \in 1 .. Len(b) : l[i] < b[j]
  /\ \A i \in 1 .. Len(l) : l[i] <= n
  /\ \A i \in 1 .. Len(b) : b[i] <= n

\* The producer.  Per partition the orders go into the buffer and from there
\* into the log as they were sent,
SentInOrder == \A p \in Partition : Ordered(log[p], buffer[p], sent)

\* and none is forgotten.
NoneForgotten ==
  \A i \in 1 .. sent :
    LET p == partitionOf[Orders[i]]
    IN  i \in lost \cup ToSet(log[p]) \cup ToSet(buffer[p])

\* flush() has returned.
FlushedInv ==
  phase = "flushed" => sent = NumOrders /\ \A p \in Partition : buffer[p] = <<>>

OrderInv == SentInOrder /\ NoneForgotten /\ FlushedInv

\* Who takes part in its group.
Stages == {"joining", "polling", "handling", "closing"}
Active(c) == st[c] \in Stages

\* The group: who takes part is a member, and no partition has two owners.
GroupInv ==
  /\ \A c \in Consumer : Active(c) => c \in members[groupOf[c]]
  /\ \A c \in Consumer : st[c] \in {"new", "closed"} => c \notin members[groupOf[c]]
  /\ \A g \in Group : \A c \in members[g] : groupOf[c] = g
  /\ \A c \in Consumer : st[c] = "new" => have[c] = {}
  /\ \A c, d \in Consumer :
       /\ c # d /\ groupOf[c] = groupOf[d]
       /\ c \in members[groupOf[c]] /\ d \in members[groupOf[d]]
       => have[c] \cap have[d] = {}

\* Who handles a record has it at its position.
CurrentInv ==
  \A c \in Consumer :
    st[c] = "handling" =>
      \E p \in have[c] : pos[c][p] >= 1 /\ current[c] = <<p, pos[c][p]>>

\* Up to its position the records of an owner c in g are done, but for the one in
\* hand.  So what it commits is done.
DoneUpTo(c, g) ==
  \A p \in have[c] : \A o \in 1 .. pos[c][p] :
    \/ o \in Done(g, p)
    \/ st[c] = "handling" /\ current[c] = <<p, o>>

DoneInv == \A c \in Consumer : Active(c) => DoneUpTo(c, groupOf[c])

\* No handled offset of p is past o.
UpTo(g, p, o) == \A i \in DOMAIN handled[g][p] : handled[g][p][i] <= o

\* Nothing past the position of the owner is handled, the record in hand is not,
\* and an owner that joins again has committed its position.
OwnerOnce(c, g) ==
  \A p \in have[c] :
    /\ UpTo(g, p, pos[c][p])
    /\ st[c] = "handling" /\ current[c] = <<p, pos[c][p]>> => UpTo(g, p, pos[c][p] - 1)
    /\ st[c] = "joining" => committed[g][p] = pos[c][p]

\* What is handled of a partition that nobody has is committed.
UnownedOnce(g, p) ==
  (\A c \in members[g] : p \notin have[c]) => UpTo(g, p, committed[g][p])

\* So without a kill nobody comes to an offset twice.
OnceInv ==
  crashes = 0 =>
    /\ \A c \in Consumer : st[c] # "dead"
    /\ \A c \in Consumer : Active(c) => OwnerOnce(c, groupOf[c])
    /\ \A g \in Group, p \in Partition : UnownedOnce(g, p)

Inv == /\ TypeOK /\ ShapeInv /\ OrderInv /\ GroupInv /\ CurrentInv
       /\ DoneInv /\ CommittedIsDone /\ HandledInOrder /\ OnceInv /\ OnceUnlessKilled

-----------------------------------------------------------------------------
LEMMA InitInv == Init => Inv
<1> SUFFICES ASSUME Init PROVE Inv
  OBVIOUS
<1> USE KafkaAssumption DEF Init, Zero, NumOrders
<1>1. TypeOK
  <2>1. NumOrders \in Nat /\ <<>> \in Seq(1 .. NumOrders)
    OBVIOUS
  <2> DEFINE S == Seq(1 .. NumOrders)
  <2> HIDE DEF S
  <2>2. \A s \in {buffer, log} : s \in [Partition -> S]
    BY <2>1 DEF S
  <2>3. /\ \A c \in Consumer, p \in Partition : pos[c][p] \in 0 .. Len(log[p])
        /\ \A g \in Group, p \in Partition : committed[g][p] \in 0 .. Len(log[p])
    OBVIOUS
  <2>5. sent \in 0 .. NumOrders /\ lost \subseteq 1 .. NumOrders
    BY <2>1
  <2>6. crashes \in 0 .. MaxCrash
    BY KafkaAssumption
  <2>4. /\ phase \in {"sending", "flushed"}
        /\ st \in [Consumer -> {"new", "joining", "polling", "handling", "closing",
                                "closed", "dead"}]
        /\ have \in [Consumer -> SUBSET Partition]
        /\ members \in [Group -> SUBSET Consumer]
        /\ balanced \in [Group -> BOOLEAN]
        /\ stop \in BOOLEAN
    OBVIOUS
  <2> QED
    BY <2>2, <2>3, <2>5, <2>6, <2>4, Zenon DEF TypeOK, S
<1>6. ShapeInv
  BY DEF ShapeInv
<1>2. OrderInv
  BY DEF OrderInv, SentInOrder, NoneForgotten, FlushedInv, Ordered
<1>3. GroupInv /\ CurrentInv
  BY DEF GroupInv, CurrentInv, Active, Stages
<1>4. DoneInv /\ CommittedIsDone
  BY DEF DoneInv, DoneUpTo, CommittedIsDone, Active, Stages
<1>5. HandledInOrder /\ OnceInv /\ OnceUnlessKilled
  BY DEF HandledInOrder, OnceInv, OnceUnlessKilled, Active, Stages, OwnerOnce, UnownedOnce, UpTo
<1> QED
  BY <1>1, <1>2, <1>3, <1>4, <1>5, <1>6 DEF Inv

-----------------------------------------------------------------------------
(* Types.                                                                  *)

\* Cutting a buffer in two.
LEMMA Cut ==
  ASSUME NEW S, NEW s \in Seq(S), NEW n \in 1 .. Len(s)
  PROVE  /\ SubSeq(s, 1, n) \in Seq(S) /\ Len(SubSeq(s, 1, n)) = n
         /\ \A i \in 1 .. n : SubSeq(s, 1, n)[i] = s[i]
         /\ SubSeq(s, n + 1, Len(s)) \in Seq(S)
         /\ Len(SubSeq(s, n + 1, Len(s))) = Len(s) - n
         /\ \A i \in 1 .. Len(s) - n : SubSeq(s, n + 1, Len(s))[i] = s[n + i]
<1>1. n \in DOMAIN s /\ Len(s) \in Nat
  OBVIOUS
<1>2. n <= Len(s) - 1 => n + 1 \in DOMAIN s
  BY <1>1
<1>3. SubSeq(s, 1, n) \in Seq(S) /\ Len(SubSeq(s, 1, n)) = n
  OBVIOUS
<1>4. \A i \in 1 .. n : SubSeq(s, 1, n)[i] = s[i]
  BY <1>3
<1> QED
  BY <1>1, <1>3, <1>4, LastPart

\* Putting two together.
LEMMA Glue ==
  ASSUME NEW S, NEW s \in Seq(S), NEW t \in Seq(S)
  PROVE  /\ s \o t \in Seq(S) /\ Len(s \o t) = Len(s) + Len(t)
         /\ \A i \in 1 .. Len(s) : (s \o t)[i] = s[i]
         /\ \A i \in 1 .. Len(t) : (s \o t)[Len(s) + i] = t[i]
<1>1. s \o t \in Seq(S)
  OBVIOUS
<1>2. Len(s \o t) = Len(s) + Len(t) /\ Len(s) \in Nat /\ Len(t) \in Nat
  OBVIOUS
<1>3. \A i \in 1 .. Len(s) : (s \o t)[i] = s[i]
  BY <1>2
<1>4. \A i \in 1 .. Len(t) : (s \o t)[Len(s) + i] = t[i]
  BY <1>2
<1> QED
  BY <1>1, <1>2, <1>3, <1>4

\* What TypeOK says of the producer.
LEMMA Orderly ==
  ASSUME TypeOK
  PROVE  /\ NumOrders \in Nat /\ sent \in 0 .. NumOrders
         /\ \A i \in 1 .. NumOrders : partitionOf[Orders[i]] \in Partition
         /\ buffer \in [Partition -> Seq(1 .. NumOrders)]
         /\ log \in [Partition -> Seq(1 .. NumOrders)]
         /\ \A p \in Partition : Len(log[p]) \in Nat /\ Len(buffer[p]) \in Nat
         /\ lost \subseteq 1 .. NumOrders
<1>1. NumOrders \in Nat /\ \A i \in 1 .. NumOrders : Orders[i] \in Customer
  BY KafkaAssumption DEF NumOrders
<1>2. /\ buffer \in [Partition -> Seq(1 .. NumOrders)]
      /\ log \in [Partition -> Seq(1 .. NumOrders)]
  BY DEF TypeOK
<1>3. \A p \in Partition : log[p] \in Seq(1 .. NumOrders) /\ buffer[p] \in Seq(1 .. NumOrders)
  BY <1>2
<1> QED
  BY <1>1, <1>2, <1>3 DEF TypeOK

\* What a batch is, and what stays in the buffer.
LEMMA Batch ==
  ASSUME TypeOK, NEW p \in Partition, NEW n \in 1 .. Len(buffer[p]), TakeBatch(p, n)
  PROVE  /\ n \in Nat \ {0} /\ n <= Len(buffer[p])
         /\ buffer' \in [Partition -> Seq(1 .. NumOrders)]
         /\ \A q \in Partition \ {p} : buffer'[q] = buffer[q]
         /\ Len(buffer'[p]) = Len(buffer[p]) - n
         /\ \A i \in 1 .. Len(buffer[p]) - n : buffer'[p][i] = buffer[p][n + i]
         /\ SubSeq(buffer[p], 1, n) \in Seq(1 .. NumOrders)
         /\ Len(SubSeq(buffer[p], 1, n)) = n
         /\ \A i \in 1 .. n : SubSeq(buffer[p], 1, n)[i] = buffer[p][i]
         /\ \A i \in 1 .. Len(buffer[p]) : buffer[p][i] \in 1 .. NumOrders
<1> DEFINE S == 1 .. NumOrders
           b == SubSeq(buffer[p], n + 1, Len(buffer[p]))
<1>1. buffer \in [Partition -> Seq(S)] /\ buffer[p] \in Seq(S) /\ Len(buffer[p]) \in Nat
  BY Orderly
<1>2. /\ b \in Seq(S) /\ Len(b) = Len(buffer[p]) - n
      /\ \A i \in 1 .. Len(buffer[p]) - n : b[i] = buffer[p][n + i]
      /\ SubSeq(buffer[p], 1, n) \in Seq(S) /\ Len(SubSeq(buffer[p], 1, n)) = n
      /\ \A i \in 1 .. n : SubSeq(buffer[p], 1, n)[i] = buffer[p][i]
  <2> HIDE DEF S
  <2> QED
    BY <1>1, Cut
<1>3. \A i \in 1 .. Len(buffer[p]) : buffer[p][i] \in S
  <2> HIDE DEF S
  <2> QED
    BY <1>1
<1> HIDE DEF S
<1>4. buffer' = [buffer EXCEPT ![p] = b]
  BY DEF TakeBatch
<1> HIDE DEF b
<1>5. buffer'[p] = b /\ \A q \in Partition \ {p} : buffer'[q] = buffer[q]
  BY <1>1, <1>4
<1>6. buffer' \in [Partition -> Seq(S)]
  BY <1>1, <1>2, <1>4
<1> QED
  BY <1>1, <1>2, <1>3, <1>5, <1>6 DEF S

\* What delivering a batch does to the log.
LEMMA Delivered ==
  ASSUME TypeOK, NEW p \in Partition, Deliver(p)
  PROVE  \E n \in 1 .. Len(buffer[p]) :
           /\ TakeBatch(p, n)
           /\ log' \in [Partition -> Seq(1 .. NumOrders)]
           /\ \A q \in Partition \ {p} : log'[q] = log[q]
           /\ Len(log'[p]) = Len(log[p]) + n
           /\ \A i \in 1 .. Len(log[p]) : log'[p][i] = log[p][i]
           /\ \A i \in 1 .. n : log'[p][Len(log[p]) + i] = buffer[p][i]
           /\ UNCHANGED <<partitionOf, sent, lost, phase, others>>
<1> DEFINE S == 1 .. NumOrders
<1>1. PICK n \in 1 .. Len(buffer[p]) :
        /\ TakeBatch(p, n)
        /\ log' = [log EXCEPT ![p] = @ \o SubSeq(buffer[p], 1, n)]
        /\ UNCHANGED <<partitionOf, sent, lost, phase, others>>
  BY DEF Deliver
<1> DEFINE b == SubSeq(buffer[p], 1, n)
<1>2. log \in [Partition -> Seq(S)] /\ log[p] \in Seq(S) /\ Len(log[p]) \in Nat
  BY Orderly
<1>3. n \in Nat /\ b \in Seq(S) /\ Len(b) = n /\ \A i \in 1 .. n : b[i] = buffer[p][i]
  BY <1>1, Batch
<1>4. log' = [log EXCEPT ![p] = log[p] \o b]
  BY <1>1
<1> HIDE DEF S, b
<1>5. /\ log[p] \o b \in Seq(S) /\ Len(log[p] \o b) = Len(log[p]) + n
      /\ \A i \in 1 .. Len(log[p]) : (log[p] \o b)[i] = log[p][i]
      /\ \A i \in 1 .. n : (log[p] \o b)[Len(log[p]) + i] = b[i]
  <2>0. \A s, t \in Seq(S) :
          /\ s \o t \in Seq(S) /\ Len(s \o t) = Len(s) + Len(t)
          /\ \A i \in 1 .. Len(s) : (s \o t)[i] = s[i]
          /\ \A i \in 1 .. Len(t) : (s \o t)[Len(s) + i] = t[i]
    BY Glue
  <2>1. /\ log[p] \o b \in Seq(S) /\ Len(log[p] \o b) = Len(log[p]) + Len(b)
        /\ \A i \in 1 .. Len(log[p]) : (log[p] \o b)[i] = log[p][i]
        /\ \A i \in 1 .. Len(b) : (log[p] \o b)[Len(log[p]) + i] = b[i]
    BY <1>2, <1>3, <2>0, Zenon
  <2> QED
    BY <1>3, <2>1, Zenon
<1>6. log'[p] = log[p] \o b /\ \A q \in Partition \ {p} : log'[q] = log[q]
  BY <1>2, <1>4
<1>7. log' \in [Partition -> Seq(S)]
  BY <1>2, <1>4, <1>5
<1> QED
  BY <1>1, <1>3, <1>5, <1>6, <1>7 DEF S

\* A step of the producer keeps the types.
LEMMA ProducerTypes ==
  ASSUME TypeOK, ShapeInv, Produce \/ \E p \in Partition : LoseBatch(p)
  PROVE  TypeOK' /\ ShapeInv'
<1>0. ASSUME UNCHANGED others,
             buffer' \in [Partition -> Seq(1 .. NumOrders)],
             log' \in [Partition -> Seq(1 .. NumOrders)],
             partitionOf' = partitionOf, sent' \in 0 .. NumOrders,
             lost' \subseteq 1 .. NumOrders, phase' \in {"sending", "flushed"},
             \A q \in Partition : Len(log[q]) <= Len(log'[q])
      PROVE  TypeOK' /\ ShapeInv'
  <2>1. ShapeInv'
    BY <1>0 DEF ShapeInv, others, broker, consumer
  <2>2. \A q \in Partition : Len(log[q]) \in Nat /\ Len(log'[q]) \in Nat
    <3>1. \A q \in Partition : log'[q] \in Seq(1 .. NumOrders)
      BY <1>0
    <3> QED
      BY <3>1, Orderly
  <2>3. /\ \A c \in Consumer, q \in Partition : pos'[c][q] \in 0 .. Len(log'[q])
        /\ \A g \in Group, q \in Partition : committed'[g][q] \in 0 .. Len(log'[q])
    <3>1. /\ \A c \in Consumer, q \in Partition : pos[c][q] \in 0 .. Len(log[q])
          /\ \A g \in Group, q \in Partition : committed[g][q] \in 0 .. Len(log[q])
      BY DEF TypeOK
    <3>2. pos' = pos /\ committed' = committed
      BY <1>0 DEF others, broker, consumer
    <3>3. \A q \in Partition : 0 .. Len(log[q]) \subseteq 0 .. Len(log'[q])
      BY <1>0, <2>2
    <3> QED
      BY <3>1, <3>2, <3>3
  <2>4. NumOrders' = NumOrders
    BY DEF NumOrders
  <2> QED
    <3>1. UNCHANGED <<program, groupOf, st, have, members, balanced, stop, crashes>>
      BY <1>0 DEF others, constants, broker, consumer
    <3> QED
      BY <1>0, <2>1, <2>3, <2>4, <3>1 DEF TypeOK
<1>1. CASE Send
  <2>1. /\ sent + 1 \in 1 .. NumOrders /\ partitionOf[Orders[sent + 1]] \in Partition
        /\ sent' = sent + 1
    BY <1>1, Orderly DEF Send
  <2>2. buffer' \in [Partition -> Seq(1 .. NumOrders)]
    BY <1>1, <2>1, Orderly DEF Send
  <2>3. UNCHANGED <<partitionOf, log, lost, phase, others>>
    BY <1>1 DEF Send
  <2>4. /\ sent' \in 0 .. NumOrders
        /\ phase \in {"sending", "flushed"} /\ lost \subseteq 1 .. NumOrders
    BY <2>1, Orderly DEF TypeOK
  <2> QED
    BY <1>0, <2>2, <2>3, <2>4, Orderly
<1>2. CASE Flush
  BY <1>0, <1>2, Orderly DEF Flush, TypeOK
<1>3. ASSUME NEW p \in Partition, Deliver(p) PROVE TypeOK' /\ ShapeInv'
  <2>1. PICK n \in 1 .. Len(buffer[p]) :
          /\ TakeBatch(p, n)
          /\ log' \in [Partition -> Seq(1 .. NumOrders)]
          /\ \A q \in Partition \ {p} : log'[q] = log[q]
          /\ Len(log'[p]) = Len(log[p]) + n
          /\ UNCHANGED <<partitionOf, sent, lost, phase, others>>
    BY <1>3, Delivered
  <2>2. buffer' \in [Partition -> Seq(1 .. NumOrders)] /\ n \in Nat
    BY <2>1, Batch
  <2>3. \A q \in Partition : Len(log[q]) <= Len(log'[q])
    <3>1. TAKE q \in Partition
    <3>2. CASE q = p
      BY <2>1, <2>2, <3>2, Orderly
    <3>3. CASE q # p
      BY <2>1, <3>3, Orderly
    <3> QED
      BY <3>2, <3>3
  <2> QED
    BY <1>0, <2>1, <2>2, <2>3, Orderly DEF TypeOK
<1>4. ASSUME NEW p \in Partition, LoseBatch(p) PROVE TypeOK' /\ ShapeInv'
  <2>1. PICK n \in 1 .. Len(buffer[p]) :
          /\ TakeBatch(p, n)
          /\ lost' = lost \cup {buffer[p][i] : i \in 1 .. n}
          /\ UNCHANGED <<partitionOf, sent, log, phase, others>>
    BY <1>4 DEF LoseBatch
  <2>2. buffer' \in [Partition -> Seq(1 .. NumOrders)]
    BY <2>1, Batch
  <2>3. \A i \in 1 .. n : buffer[p][i] \in 1 .. NumOrders
    BY <2>1, Batch
  <2>4. lost' \subseteq 1 .. NumOrders
    BY <2>1, <2>3, Orderly
  <2>5. \A q \in Partition : Len(log[q]) <= Len(log'[q])
    BY <2>1, Orderly
  <2>6. log' \in [Partition -> Seq(1 .. NumOrders)] /\ sent' \in 0 .. NumOrders
    BY <2>1, Orderly
  <2>7. partitionOf' = partitionOf /\ phase' \in {"sending", "flushed"}
    BY <2>1 DEF TypeOK
  <2> QED
    BY <1>0, <2>1, <2>2, <2>4, <2>5, <2>6, <2>7
<1> QED
  BY <1>1, <1>2, <1>3, <1>4 DEF Produce

\* What the actions of the consumers and of the broker do between them.
Others ==
  \/ SetStop
  \/ \E g \in Group : Assign(g)
  \/ \E c \in Consumer :
       Start(c) \/ Run(c) \/ AutoCommit(c) \/ Interrupt(c) \/ Crash(c) \/ Evict(c)

\* What is committed has its type, and is in the log.
LEMMA CommitTypes ==
  ASSUME TypeOK, ShapeInv, NEW c \in Consumer, Commit(c), UNCHANGED log
  PROVE  /\ committed' \in [Group -> [Partition -> Nat]]
         /\ \A g \in Group, p \in Partition : committed'[g][p] \in 0 .. Len(log'[p])
         /\ \A g \in Group, p \in Partition :
              committed'[g][p] = IF g = groupOf[c] /\ p \in have[c] THEN pos[c][p]
                                                                    ELSE committed[g][p]
<1> DEFINE row == [p \in Partition |-> IF p \in have[c] THEN pos[c][p]
                                                         ELSE committed[groupOf[c]][p]]
<1>1. committed' = [committed EXCEPT ![groupOf[c]] = row]
  BY DEF Commit
<1>2. row \in [Partition -> Nat]
  BY DEF TypeOK, ShapeInv
<1>3. committed' \in [Group -> [Partition -> Nat]]
  BY <1>1, <1>2 DEF ShapeInv
<1>4. ASSUME NEW g \in Group, NEW p \in Partition
      PROVE  committed'[g][p] = IF g = groupOf[c] /\ p \in have[c] THEN pos[c][p]
                                                                   ELSE committed[g][p]
  BY <1>1 DEF ShapeInv
<1> QED
  BY <1>3, <1>4 DEF TypeOK

\* A step of the others keeps the types.
LEMMA OtherTypes ==
  ASSUME TypeOK, ShapeInv, CurrentInv, Others
  PROVE  TypeOK' /\ ShapeInv'
<1> DEFINE States == {"new", "joining", "polling", "handling", "closing", "closed", "dead"}
           Same == UNCHANGED <<constants, producer>>
           Goal == TypeOK' /\ ShapeInv'
<1>0. ASSUME Same, UNCHANGED <<committed, pos>>,
             st' \in [Consumer -> States], have' \in [Consumer -> SUBSET Partition],
             members' \in [Group -> SUBSET Consumer], balanced' \in [Group -> BOOLEAN],
             stop' \in BOOLEAN, crashes' \in 0 .. MaxCrash,
             current' \in [Consumer -> (Partition \X Nat) \cup {<<>>}],
             handled' \in [Group -> [Partition -> Seq(Nat)]],
             skipped' \in [Group -> SUBSET (Partition \X Nat)]
      PROVE  Goal
  BY <1>0 DEF TypeOK, ShapeInv, constants, producer, NumOrders
<1>1. CASE SetStop
  BY <1>0, <1>1 DEF SetStop, TypeOK, ShapeInv, constants, broker, consumer
<1>2. ASSUME NEW g \in Group, Assign(g) PROVE Goal
  <2>1. pos' \in [Consumer -> [Partition -> Nat]] /\ have' \in [Consumer -> SUBSET Partition]
    BY <1>2 DEF Assign, StartsAt, TypeOK, ShapeInv
  <2>2. st' \in [Consumer -> States] /\ balanced' \in [Group -> BOOLEAN]
    BY <1>2 DEF Assign, TypeOK
  <2>3. \A c \in Consumer, p \in Partition : pos'[c][p] \in 0 .. Len(log'[p])
    BY <1>2 DEF Assign, StartsAt, TypeOK, producer
  <2> QED
    BY <1>2, <2>1, <2>2, <2>3 DEF Assign, TypeOK, ShapeInv, constants, producer, NumOrders
<1> SUFFICES ASSUME NEW c \in Consumer,
                    Start(c) \/ Run(c) \/ AutoCommit(c) \/ Interrupt(c) \/ Crash(c) \/ Evict(c)
             PROVE  Goal
  BY <1>1, <1>2 DEF Others
<1>g. groupOf[c] \in Group /\ members[groupOf[c]] \in SUBSET Consumer
  BY DEF TypeOK
<1>4. ASSUME NEW S \in SUBSET Consumer, Regroup(groupOf[c], S)
      PROVE  members' \in [Group -> SUBSET Consumer] /\ balanced' \in [Group -> BOOLEAN]
  BY <1>4, <1>g DEF Regroup, TypeOK
<1>5. ASSUME NEW s \in States, st' = [st EXCEPT ![c] = s]
      PROVE  st' \in [Consumer -> States]
  BY <1>5 DEF TypeOK
<1>6. ASSUME Same, Commit(c), UNCHANGED <<pos, have, current, handled, skipped, stop, crashes>>,
             st' \in [Consumer -> States],
             members' \in [Group -> SUBSET Consumer], balanced' \in [Group -> BOOLEAN]
      PROVE  Goal
  <2>1. /\ committed' \in [Group -> [Partition -> Nat]]
        /\ \A g \in Group, p \in Partition : committed'[g][p] \in 0 .. Len(log'[p])
    BY <1>6, CommitTypes DEF producer
  <2> QED
    BY <1>6, <2>1 DEF TypeOK, ShapeInv, constants, producer, NumOrders
<1>7. CASE Start(c)
  <2>1. members' \in [Group -> SUBSET Consumer] /\ balanced' \in [Group -> BOOLEAN]
    BY <1>4, <1>7, <1>g DEF Start
  <2>2. st' \in [Consumer -> States]
    BY <1>5, <1>7 DEF Start
  <2> QED
    BY <1>0, <1>7, <2>1, <2>2 DEF Start, TypeOK, ShapeInv
<1>8. CASE NeverStarts(c)
  BY <1>0, <1>5, <1>8 DEF NeverStarts, TypeOK, ShapeInv, broker
<1>9. CASE AutoCommit(c)
  BY <1>6, <1>9 DEF AutoCommit, TypeOK, consumer
<1>10. CASE Rejoin(c)
  BY <1>5, <1>6, <1>10 DEF Rejoin, TypeOK
<1>11. ASSUME NEW p \in Partition, Yield(c, p) PROVE Goal
  <2>1. pos' \in [Consumer -> [Partition -> Nat]] /\ pos'[c][p] \in Nat
    BY <1>11 DEF Yield, ShapeInv
  <2>2. current' \in [Consumer -> (Partition \X Nat) \cup {<<>>}]
    BY <1>11, <2>1 DEF Yield, ShapeInv
  <2>3. \A d \in Consumer, q \in Partition : pos'[d][q] \in 0 .. Len(log'[q])
    <3>1. TAKE d \in Consumer, q \in Partition
    <3>2. pos[d][q] \in 0 .. Len(log[q]) /\ log' = log /\ Len(log[q]) \in Nat
      BY <1>11, Orderly DEF Yield, TypeOK, producer
    <3>3. CASE d = c /\ q = p
      BY <1>11, <3>2, <3>3 DEF Yield, ShapeInv
    <3>4. CASE ~(d = c /\ q = p)
      BY <1>11, <3>2, <3>4 DEF Yield, ShapeInv
    <3> QED
      BY <3>3, <3>4
  <2>4. st' \in [Consumer -> States]
    BY <1>5, <1>11 DEF Yield
  <2> QED
    BY <1>11, <2>1, <2>2, <2>3, <2>4
    DEF Yield, TypeOK, ShapeInv, constants, producer, broker, NumOrders
<1>12. CASE Handle(c)
  <2>1. PICK p \in Partition : current[c] = <<p, pos[c][p]>> /\ pos[c][p] \in Nat
    BY <1>12 DEF Handle, CurrentInv, TypeOK, ShapeInv
  <2>2. handled' = [handled EXCEPT ![groupOf[c]][p] = Append(@, pos[c][p])]
    BY <1>12, <2>1 DEF Handle
  <2>3. handled' \in [Group -> [Partition -> Seq(Nat)]]
    BY <1>g, <2>1, <2>2 DEF ShapeInv
  <2>4. st' \in [Consumer -> States] /\ current' \in [Consumer -> (Partition \X Nat) \cup {<<>>}]
    BY <1>12 DEF Handle, TypeOK, ShapeInv
  <2> QED
    BY <1>0, <1>12, <2>3, <2>4 DEF Handle, TypeOK, ShapeInv, broker
<1>13. CASE TimesOut(c)
  BY <1>0, <1>5, <1>13 DEF TimesOut, TypeOK, ShapeInv, broker
<1>14. CASE Close(c)
  BY <1>4, <1>5, <1>6, <1>14, <1>g DEF Close
<1>15. CASE Interrupt(c)
  <2>1. current' \in [Consumer -> (Partition \X Nat) \cup {<<>>}]
    BY <1>15 DEF Interrupt, ShapeInv
  <2>2. st[c] = "handling" => current[c] \in Partition \X Nat
    <3>1. SUFFICES ASSUME st[c] = "handling" PROVE current[c] \in Partition \X Nat
      OBVIOUS
    <3>2. PICK p \in have[c] : current[c] = <<p, pos[c][p]>>
      BY <3>1 DEF CurrentInv
    <3>3. p \in Partition /\ pos[c][p] \in Nat
      BY <3>2 DEF TypeOK, ShapeInv
    <3> QED
      BY <3>2, <3>3
  <2>3. skipped' \in [Group -> SUBSET (Partition \X Nat)]
    BY <1>15, <1>g, <2>2 DEF Interrupt, ShapeInv
  <2> QED
    BY <1>0, <1>5, <1>15, <2>1, <2>3 DEF Interrupt, TypeOK, ShapeInv, broker
<1>16. CASE Crash(c)
  <2>1. current' \in [Consumer -> (Partition \X Nat) \cup {<<>>}]
    BY <1>16 DEF Crash, ShapeInv
  <2>2. crashes' \in 0 .. MaxCrash
    BY <1>16, KafkaAssumption DEF Crash, TypeOK
  <2> QED
    BY <1>0, <1>5, <1>16, <2>1, <2>2 DEF Crash, TypeOK, ShapeInv, broker
<1>17. CASE Evict(c)
  <2>1. members' \in [Group -> SUBSET Consumer] /\ balanced' \in [Group -> BOOLEAN]
    BY <1>4, <1>17, <1>g DEF Evict
  <2> QED
    BY <1>0, <1>17, <2>1 DEF Evict, TypeOK, ShapeInv, consumer
<1> QED
  BY <1>7, <1>8, <1>9, <1>10, <1>11, <1>12, <1>13, <1>14, <1>15, <1>16, <1>17 DEF Run

-----------------------------------------------------------------------------
(* The producer.                                                           *)

\* An order is sent.
LEMMA OrderedSend ==
  ASSUME NEW l \in Seq(Nat), NEW b \in Seq(Nat), NEW n \in Nat, Ordered(l, b, n)
  PROVE  Ordered(l, b, n + 1) /\ Ordered(l, Append(b, n + 1), n + 1)
<1>1. /\ Len(l) \in Nat /\ Len(b) \in Nat
      /\ \A i \in 1 .. Len(l) : l[i] \in Nat
      /\ \A i \in 1 .. Len(b) : b[i] \in Nat
  OBVIOUS
<1>2. Ordered(l, b, n + 1)
  BY <1>1 DEF Ordered
<1> DEFINE r == Append(b, n + 1)
<1>3. /\ Len(r) = Len(b) + 1 /\ r[Len(b) + 1] = n + 1
      /\ \A i \in 1 .. Len(b) : r[i] = b[i]
  BY <1>1
<1> HIDE DEF r
<1>5. \A i \in 1 .. Len(r) : i \in 1 .. Len(b) \/ i = Len(b) + 1
  BY <1>1, <1>3
<1>6. \A i, j \in 1 .. Len(r) : i < j => i \in 1 .. Len(b)
  BY <1>1, <1>3
<1>7. /\ \A i \in 1 .. Len(b) : b[i] \in Nat /\ b[i] <= n /\ b[i] < n + 1
      /\ \A i \in 1 .. Len(l) : l[i] \in Nat /\ l[i] <= n /\ l[i] < n + 1
  BY <1>1 DEF Ordered
<1>8. \A i, j \in 1 .. Len(r) : i < j => r[i] < r[j]
  BY <1>3, <1>5, <1>6, <1>7 DEF Ordered
<1>9. \A i \in 1 .. Len(l), j \in 1 .. Len(r) : l[i] < r[j]
  BY <1>3, <1>5, <1>7 DEF Ordered
<1>10. \A i \in 1 .. Len(r) : r[i] <= n + 1
  <2>1. \A i \in 1 .. Len(b) : b[i] <= n + 1
    BY <1>7
  <2>2. n + 1 <= n + 1
    OBVIOUS
  <2> QED
    BY <1>3, <1>5, <2>1, <2>2, Zenon
<1>4. Ordered(l, r, n + 1)
  BY <1>2, <1>8, <1>9, <1>10 DEF Ordered
<1> QED
  BY <1>2, <1>4 DEF r

\* The first k orders leave the buffer, and the log or not.
LEMMA OrderedBatch ==
  ASSUME NEW l \in Seq(Nat), NEW b \in Seq(Nat), NEW n \in Nat, Ordered(l, b, n),
         NEW k \in 1 .. Len(b)
  PROVE  LET rest == SubSeq(b, k + 1, Len(b))
         IN  Ordered(l, rest, n) /\ Ordered(l \o SubSeq(b, 1, k), rest, n)
<1>1. /\ Len(l) \in Nat /\ Len(b) \in Nat /\ k \in Nat
      /\ \A i \in 1 .. Len(l) : l[i] \in Nat
      /\ \A i \in 1 .. Len(b) : b[i] \in Nat
  OBVIOUS
<1> DEFINE r == SubSeq(b, k + 1, Len(b))
           c == SubSeq(b, 1, k)
           m == l \o c
<1>2. /\ c \in Seq(Nat) /\ Len(c) = k /\ \A i \in 1 .. k : c[i] = b[i]
      /\ Len(r) = Len(b) - k
      /\ \A i \in 1 .. Len(b) - k : r[i] = b[k + i]
  BY Cut
<1> HIDE DEF c, r
<1>3. /\ Len(m) = Len(l) + k
      /\ \A i \in 1 .. Len(l) : m[i] = l[i]
      /\ \A i \in 1 .. k : m[Len(l) + i] = c[i]
  <2>1. \A t \in Seq(Nat) :
          /\ Len(l \o t) = Len(l) + Len(t)
          /\ \A i \in 1 .. Len(l) : (l \o t)[i] = l[i]
          /\ \A i \in 1 .. Len(t) : (l \o t)[Len(l) + i] = t[i]
    BY Glue
  <2> QED
    BY <1>2, <2>1, Zenon
<1> HIDE DEF m
<1>0. \A i \in 1 .. Len(r) : k + i \in 1 .. Len(b) /\ r[i] = b[k + i]
  BY <1>1, <1>2
<1>00. /\ \A i, j \in 1 .. Len(r) : i < j => k + i < k + j
       /\ \A i \in 1 .. k, j \in 1 .. Len(r) : i \in 1 .. Len(b) /\ i < k + j
  BY <1>1, <1>2
<1>4. /\ \A i, j \in 1 .. Len(r) : i < j => r[i] < r[j]
      /\ \A i \in 1 .. Len(l), j \in 1 .. Len(r) : l[i] < r[j]
      /\ \A i \in 1 .. Len(r) : r[i] <= n
      /\ \A i \in 1 .. k, j \in 1 .. Len(r) : b[i] < r[j]
  BY <1>0, <1>00 DEF Ordered
<1>5. ASSUME NEW i \in 1 .. Len(m)
      PROVE  \/ i \in 1 .. Len(l) /\ m[i] = l[i]
             \/ i - Len(l) \in 1 .. k /\ i > Len(l) /\ m[i] = b[i - Len(l)]
  <2>1. CASE i > Len(l)
    <3>1. i - Len(l) \in 1 .. k /\ Len(l) + (i - Len(l)) = i
      BY <1>1, <1>3, <2>1
    <3> QED
      BY <1>2, <1>3, <2>1, <3>1
  <2>2. CASE ~(i > Len(l))
    BY <1>1, <1>3, <2>2
  <2> QED
    BY <2>1, <2>2
<1>01. \A i \in 1 .. k : i \in 1 .. Len(b)
  BY <1>1
<1>6. \A i \in 1 .. Len(m), j \in 1 .. Len(r) : m[i] < r[j]
  BY <1>4, <1>5
<1>7. \A i \in 1 .. Len(m) : m[i] <= n
  BY <1>01, <1>5 DEF Ordered
<1>8. \A i, j \in 1 .. Len(m) : i < j => m[i] < m[j]
  <2>1. SUFFICES ASSUME NEW i \in 1 .. Len(m), NEW j \in 1 .. Len(m), i < j
                 PROVE  m[i] < m[j]
    OBVIOUS
  <2>2. Len(m) \in Nat
    BY <1>1, <1>3
  <2>3. CASE j <= Len(l)
    <3>1. i \in 1 .. Len(l) /\ j \in 1 .. Len(l)
      BY <1>1, <2>1, <2>2, <2>3
    <3> QED
      BY <1>3, <2>1, <3>1 DEF Ordered
  <2>4. CASE i <= Len(l) /\ j > Len(l)
    <3>1. i \in 1 .. Len(l) /\ j - Len(l) \in 1 .. Len(b) /\ m[j] = b[j - Len(l)]
      BY <1>1, <1>5, <1>01, <2>2, <2>4
    <3> QED
      BY <1>3, <3>1 DEF Ordered
  <2>5. CASE i > Len(l)
    <3>1. /\ i - Len(l) \in 1 .. Len(b) /\ j - Len(l) \in 1 .. Len(b)
          /\ i - Len(l) < j - Len(l)
          /\ m[i] = b[i - Len(l)] /\ m[j] = b[j - Len(l)]
      <4>1. i - Len(l) \in 1 .. k /\ m[i] = b[i - Len(l)]
        BY <1>1, <1>5, <2>5
      <4>2. j > Len(l) /\ i - Len(l) < j - Len(l)
        BY <1>1, <2>1, <2>2, <2>5
      <4>3. j - Len(l) \in 1 .. k /\ m[j] = b[j - Len(l)]
        BY <1>1, <1>5, <4>2
      <4> QED
        BY <1>01, <4>1, <4>2, <4>3
    <3> QED
      BY <3>1 DEF Ordered
  <2> QED
    BY <1>1, <2>2, <2>3, <2>4, <2>5
<1>9. Ordered(l, r, n)
  BY <1>4 DEF Ordered
<1>10. Ordered(m, r, n)
  BY <1>4, <1>6, <1>7, <1>8 DEF Ordered
<1> QED
  BY <1>9, <1>10 DEF m, c, r

\* Nothing is lost by it.
LEMMA BatchSet ==
  ASSUME NEW S, NEW l \in Seq(S), NEW b \in Seq(S), NEW k \in 1 .. Len(b)
  PROVE  LET rest == SubSeq(b, k + 1, Len(b))
         IN  /\ ToSet(b) = {b[i] : i \in 1 .. k} \cup ToSet(rest)
             /\ ToSet(l \o SubSeq(b, 1, k)) = ToSet(l) \cup {b[i] : i \in 1 .. k}
<1> DEFINE r == SubSeq(b, k + 1, Len(b))
           c == SubSeq(b, 1, k)
           m == l \o c
<1>1. Len(l) \in Nat /\ Len(b) \in Nat /\ k \in Nat
  OBVIOUS
<1>2. /\ c \in Seq(S) /\ Len(c) = k /\ \A i \in 1 .. k : c[i] = b[i]
      /\ r \in Seq(S) /\ Len(r) = Len(b) - k
      /\ \A i \in 1 .. Len(b) - k : r[i] = b[k + i]
  BY Cut
<1> HIDE DEF c, r
<1>3. /\ m \in Seq(S) /\ Len(m) = Len(l) + k
      /\ \A i \in 1 .. Len(l) : m[i] = l[i]
      /\ \A i \in 1 .. k : m[Len(l) + i] = b[i]
  <2>1. \A t \in Seq(S) :
          /\ l \o t \in Seq(S) /\ Len(l \o t) = Len(l) + Len(t)
          /\ \A i \in 1 .. Len(l) : (l \o t)[i] = l[i]
          /\ \A i \in 1 .. Len(t) : (l \o t)[Len(l) + i] = t[i]
    BY Glue
  <2>2. /\ m \in Seq(S) /\ Len(m) = Len(l) + k
        /\ \A i \in 1 .. Len(l) : m[i] = l[i]
        /\ \A i \in 1 .. k : m[Len(l) + i] = c[i]
    BY <1>2, <2>1, Zenon
  <2> QED
    BY <1>2, <2>2
<1> HIDE DEF m
<1>4. /\ ToSet(b) = {b[i] : i \in 1 .. Len(b)} /\ ToSet(l) = {l[i] : i \in 1 .. Len(l)}
      /\ ToSet(r) = {r[i] : i \in 1 .. Len(r)} /\ ToSet(m) = {m[i] : i \in 1 .. Len(m)}
  <2>1. \A s \in Seq(S) : ToSet(s) = {s[i] : i \in 1 .. Len(s)}
    BY DEF ToSet
  <2> QED
    BY <1>2, <1>3, <2>1, Zenon
<1>5. \A i \in 1 .. Len(b) : i \in 1 .. k \/ (i - k \in 1 .. Len(r) /\ r[i - k] = b[i])
  BY <1>1, <1>2
<1>6. \A i \in 1 .. Len(r) : k + i \in 1 .. Len(b) /\ r[i] = b[k + i]
  BY <1>1, <1>2
<1>7. \A i \in 1 .. k : i \in 1 .. Len(b)
  BY <1>1
<1>8. ToSet(b) = {b[i] : i \in 1 .. k} \cup ToSet(r)
  BY <1>4, <1>5, <1>6, <1>7
<1>9. \A i \in 1 .. Len(m) : \/ i \in 1 .. Len(l) /\ m[i] = l[i]
                             \/ i - Len(l) \in 1 .. k /\ m[i] = b[i - Len(l)]
  BY <1>1, <1>3
<1>10. /\ \A i \in 1 .. Len(l) : i \in 1 .. Len(m)
       /\ \A i \in 1 .. k : Len(l) + i \in 1 .. Len(m)
  BY <1>1, <1>3
<1>11. ToSet(m) = ToSet(l) \cup {b[i] : i \in 1 .. k}
  <2>1. ToSet(m) \subseteq ToSet(l) \cup {b[i] : i \in 1 .. k}
    BY <1>4, <1>9
  <2>2. ToSet(l) \cup {b[i] : i \in 1 .. k} \subseteq ToSet(m)
    BY <1>3, <1>4, <1>10
  <2> QED
    BY <2>1, <2>2
<1> QED
  BY <1>8, <1>11 DEF m, c, r

\* A step of the producer keeps the orders in order, and all of them.
LEMMA OrderStep ==
  ASSUME TypeOK, OrderInv, Produce \/ \E p \in Partition : LoseBatch(p)
  PROVE  OrderInv'
<1> DEFINE S == 1 .. NumOrders
<1>t. /\ \A p \in Partition : log[p] \in Seq(S) /\ buffer[p] \in Seq(S)
      /\ log \in [Partition -> Seq(S)] /\ buffer \in [Partition -> Seq(S)]
      /\ \A i \in 1 .. sent : partitionOf[Orders[i]] \in Partition
      /\ sent \in Nat /\ NumOrders \in Nat /\ NumOrders' = NumOrders
  <2>1. log \in [Partition -> Seq(S)] /\ buffer \in [Partition -> Seq(S)]
    BY Orderly
  <2>2. \A p \in Partition : log[p] \in Seq(S) /\ buffer[p] \in Seq(S)
    <3> HIDE DEF S
    <3> QED
      BY <2>1
  <2> QED
    BY <2>1, <2>2, Orderly DEF NumOrders
<1>n. \A p \in Partition : log[p] \in Seq(Nat) /\ buffer[p] \in Seq(Nat)
  <2>1. S \subseteq Nat
    OBVIOUS
  <2> HIDE DEF S
  <2>2. ASSUME NEW s \in Seq(S) PROVE s \in Seq(Nat)
    <3>1. Len(s) \in Nat /\ s \in [1 .. Len(s) -> S]
      OBVIOUS
    <3>2. s \in [1 .. Len(s) -> Nat]
      BY <2>1, <3>1
    <3> QED
      BY <3>1, <3>2, SeqDef
  <2> QED
    BY <1>t, <2>2
<1> HIDE DEF S
<1>1. CASE Send
  <2> DEFINE q == partitionOf[Orders[sent + 1]]
  <2>1. /\ sent' = sent + 1 /\ q \in Partition /\ phase' = "sending"
        /\ log' = log /\ partitionOf' = partitionOf /\ lost' = lost
    BY <1>1, Orderly DEF Send
  <2>2. buffer' = [buffer EXCEPT ![q] = Append(@, sent + 1)]
    BY <1>1, <2>1 DEF Send
  <2>3. sent + 1 \in Nat /\ partitionOf[Orders[sent + 1]] = q
    BY <1>t
  <2> HIDE DEF q
  <2>4. /\ buffer'[q] = Append(buffer[q], sent + 1)
        /\ \A p \in Partition \ {q} : buffer'[p] = buffer[p]
    BY <1>t, <2>1, <2>2
  <2>5. ToSet(buffer'[q]) = ToSet(buffer[q]) \cup {sent + 1}
    BY <1>n, <2>1, <2>3, <2>4, PutLast
  <2>6. SentInOrder'
    <3>1. SUFFICES ASSUME NEW p \in Partition PROVE Ordered(log[p], buffer'[p], sent + 1)
      BY <2>1 DEF SentInOrder, Ordered
    <3>2. Ordered(log[p], buffer[p], sent)
      BY DEF OrderInv, SentInOrder
    <3>3. /\ Ordered(log[p], buffer[p], sent + 1)
          /\ Ordered(log[p], Append(buffer[p], sent + 1), sent + 1)
      BY <1>t, <1>n, <3>2, OrderedSend
    <3> QED
      BY <2>4, <3>3
  <2>7. NoneForgotten'
    <3>1. SUFFICES ASSUME NEW i \in 1 .. sent'
                   PROVE  LET p == partitionOf[Orders[i]]
                          IN  i \in lost \cup ToSet(log[p]) \cup ToSet(buffer'[p])
      BY <2>1 DEF NoneForgotten
    <3>2. CASE i = sent + 1
      BY <2>3, <2>5, <3>2
    <3>3. CASE i # sent + 1
      <4>1. i \in 1 .. sent /\ partitionOf[Orders[i]] \in Partition
        BY <1>t, <2>1, <3>3
      <4> QED
        BY <2>4, <2>5, <4>1 DEF OrderInv, NoneForgotten
    <3> QED
      BY <3>2, <3>3
  <2> QED
    BY <2>1, <2>6, <2>7 DEF OrderInv, FlushedInv
<1>2. CASE Flush
  BY <1>2 DEF Flush, OrderInv, SentInOrder, NoneForgotten, FlushedInv, NumOrders, Ordered
<1>3. ASSUME NEW q \in Partition, NEW n \in 1 .. Len(buffer[q]), TakeBatch(q, n),
             UNCHANGED <<partitionOf, sent, phase>>,
             \/ log' = log /\ lost' = lost \cup {buffer[q][i] : i \in 1 .. n}
             \/ lost' = lost /\ log' = [log EXCEPT ![q] = @ \o SubSeq(buffer[q], 1, n)]
      PROVE  OrderInv'
  <2> DEFINE b == buffer[q]
             rest == SubSeq(b, n + 1, Len(b))
             batch == {b[i] : i \in 1 .. n}
             more == log[q] \o SubSeq(b, 1, n)
  <2>1. /\ buffer'[q] = rest
        /\ \A p \in Partition \ {q} : buffer'[p] = buffer[p] /\ log'[p] = log[p]
    BY <1>t, <1>3 DEF TakeBatch
  <2>2. \/ log'[q] = log[q] /\ lost' = lost \cup batch
        \/ log'[q] = more /\ lost' = lost
    BY <1>t, <1>3
  <2>3. /\ ToSet(b) = batch \cup ToSet(rest)
        /\ ToSet(more) = ToSet(log[q]) \cup batch
    <3> HIDE DEF S
    <3>1. \A l, s \in Seq(S) : \A k \in 1 .. Len(s) :
            /\ ToSet(s) = {s[i] : i \in 1 .. k} \cup ToSet(SubSeq(s, k + 1, Len(s)))
            /\ ToSet(l \o SubSeq(s, 1, k)) = ToSet(l) \cup {s[i] : i \in 1 .. k}
      BY BatchSet
    <3>2. log[q] \in Seq(S) /\ buffer[q] \in Seq(S) /\ n \in 1 .. Len(buffer[q])
      BY <1>t
    <3>3. /\ ToSet(buffer[q]) = {buffer[q][i] : i \in 1 .. n}
                                  \cup ToSet(SubSeq(buffer[q], n + 1, Len(buffer[q])))
          /\ ToSet(log[q] \o SubSeq(buffer[q], 1, n))
               = ToSet(log[q]) \cup {buffer[q][i] : i \in 1 .. n}
      BY <3>1, <3>2
    <3> QED
      BY <3>3
  <2>4. Ordered(log[q], rest, sent) /\ Ordered(more, rest, sent)
    <3>1. Ordered(log[q], b, sent)
      BY DEF OrderInv, SentInOrder
    <3> QED
      BY <1>t, <1>n, <3>1, OrderedBatch
  <2> HIDE DEF rest, batch, more
  <2>5. SentInOrder'
    <3>1. SUFFICES ASSUME NEW p \in Partition PROVE Ordered(log'[p], buffer'[p], sent)
      BY <1>3 DEF SentInOrder, Ordered
    <3>2. CASE p = q
      BY <2>1, <2>2, <2>4, <3>2
    <3>3. CASE p # q
      BY <2>1, <3>3 DEF OrderInv, SentInOrder
    <3> QED
      BY <3>2, <3>3
  <2>6. NoneForgotten'
    <3>1. SUFFICES ASSUME NEW i \in 1 .. sent
                   PROVE  LET p == partitionOf[Orders[i]]
                          IN  i \in lost' \cup ToSet(log'[p]) \cup ToSet(buffer'[p])
      BY <1>3 DEF NoneForgotten
    <3> DEFINE p == partitionOf[Orders[i]]
    <3>2. p \in Partition /\ i \in lost \cup ToSet(log[p]) \cup ToSet(buffer[p])
      BY <1>t DEF OrderInv, NoneForgotten
    <3>3. lost \subseteq lost'
      BY <2>2
    <3> HIDE DEF p
    <3>4. CASE p = q
      BY <2>1, <2>2, <2>3, <3>2, <3>4 DEF p
    <3>5. CASE p # q
      BY <2>1, <3>2, <3>3, <3>5 DEF p
    <3> QED
      BY <3>4, <3>5
  <2>7. FlushedInv'
    <3>1. b # <<>>
      BY <1>3, <1>n
    <3> QED
      BY <1>3, <3>1 DEF OrderInv, FlushedInv
  <2> QED
    BY <2>5, <2>6, <2>7 DEF OrderInv
<1>4. ASSUME NEW q \in Partition, Deliver(q) PROVE OrderInv'
  BY <1>3, <1>4 DEF Deliver
<1>5. ASSUME NEW q \in Partition, LoseBatch(q) PROVE OrderInv'
  BY <1>3, <1>5 DEF LoseBatch
<1> QED
  BY <1>1, <1>2, <1>4, <1>5 DEF Produce

-----------------------------------------------------------------------------
(* The group.                                                              *)

\* A step of the others keeps membership and ownership in order.
LEMMA GroupStep ==
  ASSUME TypeOK, GroupInv, Others
  PROVE  GroupInv'
<1>t. /\ groupOf \in [Consumer -> Group] /\ have \in [Consumer -> SUBSET Partition]
      /\ members \in [Group -> SUBSET Consumer]
      /\ \A c \in Consumer : groupOf[c] \in Group
      /\ DOMAIN st = Consumer
  BY DEF TypeOK
<1>0. ASSUME UNCHANGED <<groupOf, members, have>>,
             \A d \in Consumer :
               \/ st'[d] = st[d]
               \/ st[d] \in Stages /\ st'[d] \in Stages \cup {"dead"}
      PROVE  GroupInv'
  BY <1>0 DEF GroupInv, Active, Stages
<1>1. CASE SetStop
  BY <1>0, <1>1 DEF SetStop, constants, broker, consumer
<1>2. ASSUME NEW g \in Group, Assign(g) PROVE GroupInv'
  <2>1. PICK owner \in [Partition -> members[g]] :
          have' = [c \in Consumer |->
                     IF c \in members[g] THEN {p \in Partition : owner[p] = c}
                                         ELSE have[c]]
    BY <1>2 DEF Assign
  <2>2. /\ \A c \in members[g] : st[c] = "joining" /\ st'[c] = "polling"
        /\ \A c \in Consumer \ members[g] : st'[c] = st[c] /\ have'[c] = have[c]
        /\ \A c \in members[g] : have'[c] = {p \in Partition : owner[p] = c}
        /\ UNCHANGED <<groupOf, members>>
    BY <1>2, <1>t, <2>1 DEF Assign, constants
  <2>3. \A c \in Consumer : Active(c)' <=> Active(c)
    BY <1>t, <2>2 DEF Active, Stages
  <2>4. /\ \A c \in Consumer : Active(c)' => c \in members'[groupOf'[c]]
        /\ \A c \in Consumer : st'[c] \in {"new", "closed"} => c \notin members'[groupOf'[c]]
        /\ \A h \in Group : \A c \in members'[h] : groupOf'[c] = h
        /\ \A c \in Consumer : st'[c] = "new" => have'[c] = {}
    BY <1>t, <2>2, <2>3 DEF GroupInv
  <2>5. ASSUME NEW c \in Consumer, NEW d \in Consumer, c # d, groupOf[c] = groupOf[d],
               c \in members[groupOf[c]], d \in members[groupOf[d]]
        PROVE  have'[c] \cap have'[d] = {}
    <3>1. c \in members[g] <=> d \in members[g]
      BY <2>5 DEF GroupInv
    <3>2. CASE c \in members[g]
      BY <2>2, <2>5, <3>1, <3>2
    <3>3. CASE c \notin members[g]
      BY <2>2, <2>5, <3>1, <3>3 DEF GroupInv
    <3> QED
      BY <3>2, <3>3
  <2> QED
    BY <2>2, <2>4, <2>5 DEF GroupInv
<1> SUFFICES ASSUME NEW c \in Consumer,
                    Start(c) \/ Run(c) \/ AutoCommit(c) \/ Interrupt(c) \/ Crash(c) \/ Evict(c)
             PROVE  GroupInv'
  BY <1>1, <1>2 DEF Others
<1> DEFINE g == groupOf[c]
\* c comes or goes.
<1>3. ASSUME UNCHANGED <<groupOf, have>>, NEW S \in SUBSET Consumer, Regroup(g, S)
      PROVE  members'[g] = S /\ \A h \in Group \ {g} : members'[h] = members[h]
  BY <1>3, <1>t DEF Regroup
<1>4. CASE Start(c)
  <2>1. /\ members'[g] = members[g] \cup {c}
        /\ \A h \in Group \ {g} : members'[h] = members[h]
        /\ UNCHANGED <<groupOf, have>>
        /\ st[c] = "new" /\ st'[c] = "joining" /\ \A d \in Consumer \ {c} : st'[d] = st[d]
    BY <1>3, <1>4, <1>t DEF Start, constants
  <2>2. have[c] = {}
    BY <2>1 DEF GroupInv
  <2> QED
    BY <1>t, <2>1, <2>2 DEF GroupInv, Active, Stages
<1>5. ASSUME Regroup(g, members[g] \ {c}), UNCHANGED <<groupOf, have>>,
             st'[c] \in {"closed", "dead"}, \A d \in Consumer \ {c} : st'[d] = st[d]
      PROVE  GroupInv'
  <2>1. /\ members'[g] = members[g] \ {c}
        /\ \A h \in Group \ {g} : members'[h] = members[h]
    BY <1>3, <1>5, <1>t
  <2> QED
    BY <1>5, <1>t, <2>1 DEF GroupInv, Active, Stages
<1>6. CASE NeverStarts(c)
  BY <1>6, <1>t DEF NeverStarts, GroupInv, Active, Stages, constants, broker
<1>7. CASE AutoCommit(c)
  BY <1>0, <1>7 DEF AutoCommit, constants, consumer
<1>8. CASE Rejoin(c)
  BY <1>0, <1>8, <1>t DEF Rejoin, Stages, constants
<1>9. ASSUME NEW p \in Partition, Yield(c, p) PROVE GroupInv'
  BY <1>0, <1>9, <1>t DEF Yield, Stages, constants, broker
<1>10. CASE Handle(c)
  BY <1>0, <1>10, <1>t DEF Handle, Stages, constants, broker
<1>11. CASE TimesOut(c)
  BY <1>0, <1>11, <1>t DEF TimesOut, Stages, constants, broker
<1>12. CASE Close(c)
  BY <1>5, <1>12, <1>t DEF Close, Stages, constants
<1>13. CASE Interrupt(c)
  BY <1>0, <1>13, <1>t DEF Interrupt, Stages, constants, broker
<1>14. CASE Crash(c)
  BY <1>0, <1>14, <1>t DEF Crash, Stages, constants, broker
<1>15. CASE Evict(c)
  BY <1>5, <1>15, <1>t DEF Evict, Stages, constants, consumer
<1> QED
  BY <1>4, <1>6, <1>7, <1>8, <1>9, <1>10, <1>11, <1>12, <1>13, <1>14, <1>15 DEF Run

-----------------------------------------------------------------------------
(* What is done.                                                           *)

\* A record that is handled comes last.
LEMMA Handled ==
  ASSUME TypeOK, ShapeInv, NEW c \in Consumer, NEW p \in Partition, Handle(c),
         current[c] = <<p, pos[c][p]>>
  PROVE  LET g == groupOf[c]
         IN  /\ g \in Group
             /\ handled'[g][p] = Append(handled[g][p], pos[c][p])
             /\ \A h \in Group, q \in Partition :
                  ~(h = g /\ q = p) => handled'[h][q] = handled[h][q]
             /\ Len(handled[g][p]) \in Nat
             /\ Len(handled'[g][p]) = Len(handled[g][p]) + 1
             /\ \A i \in 1 .. Len(handled[g][p]) : handled'[g][p][i] = handled[g][p][i]
             /\ handled'[g][p][Len(handled[g][p]) + 1] = pos[c][p]
<1> DEFINE g == groupOf[c]
           o == pos[c][p]
<1>1. g \in Group /\ o \in Nat
  BY DEF TypeOK, ShapeInv
<1>2. handled' = [handled EXCEPT ![g][p] = Append(@, o)]
  BY DEF Handle
<1> HIDE DEF g, o
<1>3. handled[g][p] \in Seq(Nat)
  BY <1>1 DEF ShapeInv
<1>4. handled'[g][p] = Append(handled[g][p], o)
  BY <1>1, <1>2 DEF ShapeInv
<1>5. \A h \in Group, q \in Partition :
        ~(h = g /\ q = p) => handled'[h][q] = handled[h][q]
  BY <1>1, <1>2 DEF ShapeInv
<1>6. /\ Len(handled[g][p]) \in Nat
      /\ Len(handled'[g][p]) = Len(handled[g][p]) + 1
      /\ \A i \in 1 .. Len(handled[g][p]) : handled'[g][p][i] = handled[g][p][i]
      /\ handled'[g][p][Len(handled[g][p]) + 1] = o
  BY <1>1, <1>3, <1>4
<1> QED
  BY <1>1, <1>4, <1>5, <1>6 DEF g, o

\* What a step leaves of what is handled and skipped.
Keeps(g, p) ==
  /\ skipped[g] \subseteq skipped'[g]
  /\ Len(log[p]) <= Len(log'[p])
  /\ DOMAIN handled[g][p] \subseteq DOMAIN handled'[g][p]
  /\ \A i \in DOMAIN handled[g][p] : handled'[g][p][i] = handled[g][p][i]

LEMMA KeepsDone ==
  ASSUME TypeOK, TypeOK', NEW g \in Group, NEW p \in Partition, Keeps(g, p)
  PROVE  Done(g, p) \subseteq Done(g, p)'
<1>1. log[p] \in Seq(1 .. NumOrders) /\ log'[p] \in Seq(1 .. NumOrders')
  BY DEF TypeOK
<1>2. Len(log[p]) \in Nat /\ Len(log'[p]) \in Nat
  BY <1>1
<1> QED
  BY <1>2 DEF Keeps, Done

\* A record is handled in its turn, and what was done stays done.
LEMMA History ==
  ASSUME TypeOK, ShapeInv, CurrentInv, [Next]_vars, NEW g \in Group, NEW p \in Partition
  PROVE  Keeps(g, p)
<1>1. Len(log[p]) \in Nat
  BY Orderly
<1>2. ASSUME UNCHANGED <<handled, skipped>>, Len(log[p]) <= Len(log'[p]) PROVE Keeps(g, p)
  BY <1>2 DEF Keeps
<1>3. CASE UNCHANGED <<log, handled, skipped>>
  BY <1>1, <1>2, <1>3
<1>4. CASE Send \/ Flush
  BY <1>3, <1>4 DEF Send, Flush, others
<1>5. ASSUME NEW q \in Partition, Deliver(q) PROVE Keeps(g, p)
  <2>1. PICK n \in 1 .. Len(buffer[q]) :
          /\ \A r \in Partition \ {q} : log'[r] = log[r]
          /\ Len(log'[q]) = Len(log[q]) + n
          /\ UNCHANGED others
    BY <1>5, Delivered
  <2>2. Len(buffer[q]) \in Nat /\ n \in Nat
    BY Orderly
  <2>3. Len(log[p]) <= Len(log'[p])
    <3>1. CASE q = p
      BY <1>1, <2>1, <2>2, <3>1
    <3>2. CASE q # p
      BY <1>1, <2>1, <3>2
    <3> QED
      BY <3>1, <3>2
  <2> QED
    BY <1>2, <2>1, <2>3 DEF others
<1>6. ASSUME NEW q \in Partition, LoseBatch(q) PROVE Keeps(g, p)
  BY <1>3, <1>6 DEF LoseBatch, others
<1>7. CASE SetStop
  BY <1>3, <1>7 DEF SetStop, producer
<1>8. ASSUME NEW h \in Group, Assign(h) PROVE Keeps(g, p)
  BY <1>3, <1>8 DEF Assign, producer
<1>9. ASSUME NEW c \in Consumer, Handle(c) PROVE Keeps(g, p)
  <2>1. PICK q \in have[c] : current[c] = <<q, pos[c][q]>>
    BY <1>9 DEF Handle, CurrentInv
  <2>2. q \in Partition
    BY <2>1 DEF TypeOK
  <2>3. handled[g][p] \in Seq(Nat) /\ DOMAIN handled[g][p] = 1 .. Len(handled[g][p])
    BY DEF ShapeInv
  <2>4. skipped' = skipped /\ log' = log
    BY <1>9 DEF Handle, producer
  <2>5. CASE g = groupOf[c] /\ p = q
    <3>1. /\ Len(handled[g][p]) \in Nat
          /\ handled'[g][p] = Append(handled[g][p], pos[c][p])
          /\ \A i \in 1 .. Len(handled[g][p]) : handled'[g][p][i] = handled[g][p][i]
      BY <1>9, <2>1, <2>2, <2>5, Handled
    <3>2. DOMAIN handled'[g][p] = 1 .. Len(handled[g][p]) + 1
      BY <2>3, <3>1
    <3> QED
      BY <1>1, <2>3, <2>4, <3>1, <3>2 DEF Keeps
  <2>6. CASE ~(g = groupOf[c] /\ p = q)
    <3>1. handled'[g][p] = handled[g][p]
      BY <1>9, <2>1, <2>2, <2>6, Handled
    <3> QED
      BY <1>1, <2>4, <3>1 DEF Keeps
  <2> QED
    BY <2>5, <2>6
<1>10. ASSUME NEW c \in Consumer, Interrupt(c) PROVE Keeps(g, p)
  <2>1. skipped[g] \subseteq skipped'[g] /\ handled' = handled /\ log' = log
    BY <1>10 DEF Interrupt, ShapeInv, producer
  <2> QED
    BY <1>1, <2>1 DEF Keeps
<1>11. ASSUME NEW c \in Consumer,
              Start(c) \/ NeverStarts(c) \/ Rejoin(c) \/ TimesOut(c) \/ Close(c)
                \/ AutoCommit(c) \/ Crash(c) \/ Evict(c)
       PROVE  Keeps(g, p)
  BY <1>3, <1>11
  DEF Start, NeverStarts, Rejoin, TimesOut, Close, AutoCommit, Crash, Evict, producer
<1>12. ASSUME NEW c \in Consumer, NEW q \in Partition, Yield(c, q) PROVE Keeps(g, p)
  BY <1>3, <1>12 DEF Yield, producer
<1>13. CASE UNCHANGED vars
  BY <1>3, <1>13 DEF vars, producer
<1> QED
  BY <1>4, <1>5, <1>6, <1>7, <1>8, <1>9, <1>10, <1>11, <1>12, <1>13 DEF Next, Run, Produce

\* A step of the others keeps the record in hand at the position.
LEMMA CurrentStep ==
  ASSUME TypeOK, ShapeInv, CurrentInv, Others
  PROVE  CurrentInv'
<1>t. /\ st \in [Consumer -> {"new", "joining", "polling", "handling", "closing",
                              "closed", "dead"}]
      /\ DOMAIN st = Consumer /\ DOMAIN current = Consumer /\ DOMAIN pos = Consumer
  BY DEF TypeOK, ShapeInv
<1>0. ASSUME \A d \in Consumer : \/ st'[d] # "handling"
                                 \/ /\ st'[d] = st[d] /\ have'[d] = have[d]
                                    /\ pos'[d] = pos[d] /\ current'[d] = current[d]
      PROVE  CurrentInv'
  BY <1>0 DEF CurrentInv
<1>1. CASE SetStop
  BY <1>0, <1>1 DEF SetStop, consumer
<1>2. ASSUME NEW g \in Group, Assign(g) PROVE CurrentInv'
  <2>1. \A d \in Consumer : d \in members[g] => st'[d] = "polling"
    BY <1>2 DEF Assign
  <2>2. \A d \in Consumer : d \notin members[g] =>
          /\ st'[d] = st[d] /\ have'[d] = have[d]
          /\ pos'[d] = pos[d] /\ current'[d] = current[d]
    BY <1>2 DEF Assign
  <2> QED
    BY <1>0, <2>1, <2>2
<1>3. ASSUME NEW c \in Consumer, NEW p \in Partition, Yield(c, p) PROVE CurrentInv'
  <2>1. /\ p \in have[c] /\ have' = have
        /\ pos'[c][p] = pos[c][p] + 1 /\ pos[c][p] \in Nat
        /\ current'[c] = <<p, pos'[c][p]>>
        /\ \A d \in Consumer \ {c} : st'[d] = st[d] /\ pos'[d] = pos[d]
                                     /\ current'[d] = current[d]
    BY <1>3, <1>t DEF Yield, ShapeInv
  <2>2. pos'[c][p] >= 1
    BY <2>1
  <2> QED
    BY <2>1, <2>2 DEF CurrentInv
<1>4. ASSUME NEW c \in Consumer,
             Start(c) \/ NeverStarts(c) \/ Rejoin(c) \/ Handle(c) \/ TimesOut(c)
               \/ Close(c) \/ AutoCommit(c) \/ Crash(c) \/ Interrupt(c) \/ Evict(c)
      PROVE  CurrentInv'
  <2>1. have' = have /\ pos' = pos
    BY <1>4 DEF Start, NeverStarts, Rejoin, Handle, TimesOut, Close, AutoCommit, Crash,
                Interrupt, Evict, consumer
  <2>2. \A d \in Consumer \ {c} : st'[d] = st[d] /\ current'[d] = current[d]
    BY <1>4, <1>t
    DEF Start, NeverStarts, Rejoin, Handle, TimesOut, Close, AutoCommit, Crash,
        Interrupt, Evict, consumer
  <2>3. st'[c] # "handling" \/ (st'[c] = st[c] /\ current'[c] = current[c])
    <3>1. CASE AutoCommit(c) \/ Evict(c)
      BY <3>1 DEF AutoCommit, Evict, consumer
    <3>2. CASE Start(c) \/ NeverStarts(c) \/ Rejoin(c) \/ TimesOut(c) \/ Close(c)
      <4>1. st'[c] \in {"joining", "closing", "closed"}
        BY <3>2, <1>t DEF Start, NeverStarts, Rejoin, TimesOut, Close
      <4> QED
        BY <4>1
    <3>3. CASE Handle(c)
      <4>1. st'[c] \in {"closing", "polling"}
        BY <3>3, <1>t DEF Handle
      <4> QED
        BY <4>1
    <3>4. CASE Crash(c) \/ Interrupt(c)
      BY <3>4, <1>t DEF Crash, Interrupt
    <3> QED
      BY <1>4, <3>1, <3>2, <3>3, <3>4
  <2> QED
    BY <1>0, <2>1, <2>2, <2>3
<1> QED
  BY <1>1, <1>2, <1>3, <1>4 DEF Others, Run

LEMMA SameGroups == [Next]_vars => groupOf' = groupOf
  BY DEF Next, Run, Produce, Send, Flush, Deliver, LoseBatch, SetStop, Assign, Start,
         NeverStarts, AutoCommit, Rejoin, Yield, Handle, TimesOut, Close, Interrupt,
         Crash, Evict, others, constants, vars

\* A step keeps it, for who takes part.
LEMMA DoneStep ==
  ASSUME TypeOK, TypeOK', ShapeInv, GroupInv, CurrentInv, DoneInv, CommittedIsDone,
         [Next]_vars
  PROVE  DoneInv'
<1>t. /\ groupOf \in [Consumer -> Group] /\ groupOf' = groupOf
      /\ \A d \in Consumer : have[d] \subseteq Partition
      /\ DOMAIN st = Consumer /\ DOMAIN current = Consumer /\ DOMAIN pos = Consumer
  BY SameGroups DEF TypeOK, ShapeInv
<1> SUFFICES ASSUME NEW d \in Consumer, st'[d] \in Stages,
                    NEW g \in Group, groupOf[d] = g
             PROVE  DoneUpTo(d, g)'
  BY <1>t DEF DoneInv, DoneUpTo, Active
<1>d. ASSUME NEW p \in Partition PROVE Done(g, p) \subseteq Done(g, p)'
  BY History, KeepsDone
<1>a. st[d] \in Stages => DoneUpTo(d, g)
  BY DEF DoneInv, DoneUpTo, Active
<1>0. ASSUME st[d] \in Stages, have'[d] = have[d], pos'[d] = pos[d],
             st[d] # "handling" \/ (st'[d] = st[d] /\ current'[d] = current[d])
      PROVE  DoneUpTo(d, g)'
  <2>1. SUFFICES ASSUME NEW p \in have[d], NEW o \in 1 .. pos[d][p]
                 PROVE  \/ o \in Done(g, p)'
                        \/ st'[d] = "handling" /\ current'[d] = <<p, o>>
    BY <1>0 DEF DoneUpTo
  <2>2. \/ o \in Done(g, p)
        \/ st[d] = "handling" /\ current[d] = <<p, o>>
    BY <1>a, <1>0 DEF DoneUpTo
  <2> QED
    BY <1>0, <1>d, <1>t, <2>2
<1>1. CASE UNCHANGED consumer
  BY <1>0, <1>1 DEF consumer
<1>2. CASE Produce \/ SetStop \/ UNCHANGED vars \/ \E p \in Partition : LoseBatch(p)
  BY <1>1, <1>2 DEF Produce, Send, Flush, Deliver, LoseBatch, SetStop, vars, others
<1>3. ASSUME NEW h \in Group, Assign(h) PROVE DoneUpTo(d, g)'
  <2>1. CASE d \in members[h]
    <3>1. h = g /\ pos'[d] = committed[g] /\ have'[d] \subseteq Partition
      BY <1>3, <2>1 DEF Assign, StartsAt, GroupInv, TypeOK
    <3>2. \A p \in Partition : 1 .. committed[g][p] \subseteq Done(g, p)
      BY DEF CommittedIsDone
    <3> QED
      BY <1>d, <3>1, <3>2 DEF DoneUpTo
  <2>2. CASE d \notin members[h]
    BY <1>0, <1>3, <2>2 DEF Assign
  <2> QED
    BY <2>1, <2>2
<1>4. ASSUME NEW c \in Consumer \ {d},
             Start(c) \/ Run(c) \/ AutoCommit(c) \/ Interrupt(c) \/ Crash(c) \/ Evict(c)
      PROVE  DoneUpTo(d, g)'
  <2>1. have' = have /\ st'[d] = st[d] /\ current'[d] = current[d] /\ pos'[d] = pos[d]
    BY <1>4, <1>t DEF Run, Start, NeverStarts, AutoCommit, Rejoin, Yield, Handle, TimesOut,
                      Close, Interrupt, Crash, Evict, consumer
  <2> QED
    BY <1>0, <2>1
<1>5. CASE Start(d)
  BY <1>5 DEF Start, GroupInv, DoneUpTo
<1>6. CASE NeverStarts(d) \/ Close(d) \/ Crash(d)
  BY <1>6, <1>t DEF NeverStarts, Close, Crash, Stages
<1>7. CASE AutoCommit(d) \/ Evict(d)
  BY <1>1, <1>7 DEF AutoCommit, Evict
<1>8. CASE Rejoin(d) \/ TimesOut(d)
  BY <1>0, <1>8 DEF Rejoin, TimesOut, Stages
<1>9. ASSUME NEW q \in Partition, Yield(d, q) PROVE DoneUpTo(d, g)'
  <2>1. /\ have' = have /\ st[d] = "polling" /\ st'[d] = "handling"
        /\ pos[d][q] \in Nat /\ pos'[d][q] = pos[d][q] + 1
        /\ \A p \in Partition \ {q} : pos'[d][p] = pos[d][p]
        /\ current'[d] = <<q, pos[d][q] + 1>>
    BY <1>9, <1>t DEF Yield, ShapeInv
  <2>2. SUFFICES ASSUME NEW p \in have[d], NEW o \in 1 .. pos'[d][p]
                 PROVE  o \in Done(g, p)' \/ current'[d] = <<p, o>>
    BY <2>1 DEF DoneUpTo
  <2>3. CASE p = q /\ o = pos[d][q] + 1
    BY <2>1, <2>3
  <2>4. CASE ~(p = q /\ o = pos[d][q] + 1)
    <3>1. o \in 1 .. pos[d][p] /\ p \in Partition
      BY <1>t, <2>1, <2>4
    <3>2. o \in Done(g, p)
      BY <1>a, <2>1, <3>1 DEF DoneUpTo, Stages
    <3> QED
      BY <1>d, <3>1, <3>2
  <2> QED
    BY <2>3, <2>4
<1>10. CASE Handle(d)
  <2>1. PICK q \in have[d] : current[d] = <<q, pos[d][q]>>
    BY <1>10 DEF Handle, CurrentInv
  <2>2. st[d] = "handling" /\ have' = have /\ pos' = pos /\ q \in Partition
    BY <1>10, <1>t DEF Handle
  <2>3. pos[d][q] \in Done(g, q)'
    <3>1. /\ Len(handled[g][q]) \in Nat
          /\ handled'[g][q] = Append(handled[g][q], pos[d][q])
          /\ handled'[g][q][Len(handled[g][q]) + 1] = pos[d][q]
      BY <1>10, <2>1, <2>2, Handled
    <3>2. handled[g][q] \in Seq(Nat)
      BY <2>2 DEF ShapeInv
    <3>3. Len(handled[g][q]) + 1 \in DOMAIN handled'[g][q]
      BY <3>1, <3>2
    <3> QED
      BY <3>1, <3>3 DEF Done
  <2>4. SUFFICES ASSUME NEW p \in have[d], NEW o \in 1 .. pos[d][p]
                 PROVE  o \in Done(g, p)'
    BY <2>2 DEF DoneUpTo
  <2>5. o \in Done(g, p) \/ (p = q /\ o = pos[d][q])
    BY <1>a, <2>1, <2>2 DEF DoneUpTo, Stages
  <2> QED
    BY <1>d, <1>t, <2>3, <2>5
<1>11. CASE Interrupt(d)
  <2>0. st[d] \in Stages /\ have' = have /\ pos' = pos
    BY <1>11 DEF Interrupt, Stages
  <2>1. CASE st[d] # "handling"
    BY <1>0, <2>0, <2>1
  <2>2. CASE st[d] = "handling"
    <3>1. PICK q \in have[d] : current[d] = <<q, pos[d][q]>> /\ pos[d][q] >= 1
      BY <2>2 DEF CurrentInv
    <3>2. pos[d][q] \in Done(g, q)'
      <4>1. q \in Partition /\ log' = log /\ Len(log[q]) \in Nat
        BY <1>11, <1>t, Orderly DEF Interrupt, producer
      <4>2. pos[d][q] \in 0 .. Len(log[q])
        BY <4>1 DEF TypeOK
      <4>3. pos[d][q] \in 1 .. Len(log'[q])
        BY <3>1, <4>1, <4>2
      <4>4. <<q, pos[d][q]>> \in skipped'[g]
        BY <1>11, <2>2, <3>1 DEF Interrupt, ShapeInv
      <4> QED
        BY <4>3, <4>4 DEF Done
    <3>3. SUFFICES ASSUME NEW p \in have[d], NEW o \in 1 .. pos[d][p]
                   PROVE  o \in Done(g, p)'
      BY <2>0 DEF DoneUpTo
    <3>4. o \in Done(g, p) \/ (p = q /\ o = pos[d][q])
      BY <1>a, <2>0, <3>1 DEF DoneUpTo
    <3> QED
      BY <1>d, <1>t, <3>2, <3>4
  <2> QED
    BY <2>1, <2>2
<1>12. ASSUME NEW c \in Consumer,
              Start(c) \/ Run(c) \/ AutoCommit(c) \/ Interrupt(c) \/ Crash(c) \/ Evict(c)
       PROVE  DoneUpTo(d, g)'
  <2>1. CASE c = d
    BY <1>5, <1>6, <1>7, <1>8, <1>9, <1>10, <1>11, <1>12, <2>1 DEF Run
  <2>2. CASE c # d
    BY <1>4, <1>12, <2>2
  <2> QED
    BY <2>1, <2>2
<1> QED
  BY <1>2, <1>3, <1>12 DEF Next

\* A step commits only what is done.
LEMMA CommitStep ==
  ASSUME TypeOK, TypeOK', ShapeInv, GroupInv, CurrentInv, DoneInv, CommittedIsDone,
         [Next]_vars
  PROVE  CommittedIsDone'
<1> SUFFICES ASSUME NEW g \in Group, NEW p \in Partition
             PROVE  1 .. committed'[g][p] \subseteq Done(g, p)'
  BY DEF CommittedIsDone
<1>d. Done(g, p) \subseteq Done(g, p)'
  BY History, KeepsDone
<1>c. 1 .. committed[g][p] \subseteq Done(g, p)
  BY DEF CommittedIsDone
<1>0. CASE UNCHANGED committed
  BY <1>0, <1>c, <1>d
<1>1. CASE Produce \/ SetStop \/ UNCHANGED vars \/ \E q \in Partition : LoseBatch(q)
  BY <1>0, <1>1
  DEF Produce, Send, Flush, Deliver, LoseBatch, SetStop, vars, others, broker
<1>2. ASSUME NEW h \in Group, Assign(h) PROVE UNCHANGED committed
  BY <1>2 DEF Assign
<1>3. ASSUME NEW c \in Consumer,
             Start(c) \/ NeverStarts(c) \/ Handle(c) \/ TimesOut(c) \/ Interrupt(c)
               \/ Crash(c) \/ Evict(c) \/ \E q \in Partition : Yield(c, q)
      PROVE  UNCHANGED committed
  BY <1>3 DEF Start, NeverStarts, Handle, TimesOut, Interrupt, Crash, Evict, Yield, broker
<1>4. ASSUME NEW c \in Consumer, Rejoin(c) \/ AutoCommit(c) \/ Close(c)
      PROVE  1 .. committed'[g][p] \subseteq Done(g, p)'
  <2>1. Commit(c) /\ UNCHANGED log /\ st[c] \in Stages /\ st[c] # "handling"
    BY <1>4 DEF Rejoin, AutoCommit, Close, producer, Stages
  <2>2. committed'[g][p] = IF g = groupOf[c] /\ p \in have[c] THEN pos[c][p]
                                                              ELSE committed[g][p]
    BY <2>1, CommitTypes
  <2>3. g = groupOf[c] /\ p \in have[c] => 1 .. pos[c][p] \subseteq Done(g, p)
    BY <2>1 DEF DoneInv, DoneUpTo, Active
  <2> QED
    BY <1>c, <1>d, <2>2, <2>3
<1> QED
  BY <1>0, <1>1, <1>2, <1>3, <1>4 DEF Next, Run

\* The steps that leave what is handled.
LEMMA HandledSame ==
  ASSUME [Next]_vars, \A c \in Consumer : ~Handle(c)
  PROVE  UNCHANGED handled
BY DEF Next, Run, Produce, Send, Flush, Deliver, LoseBatch, SetStop, Assign, Start,
       NeverStarts, AutoCommit, Rejoin, Yield, TimesOut, Close, Interrupt, Crash, Evict,
       others, vars

\* A group comes to its records in order.
LEMMA HandledStep ==
  ASSUME TypeOK, TypeOK', ShapeInv, GroupInv, CurrentInv, DoneInv, HandledInOrder,
         [Next]_vars
  PROVE  HandledInOrder'
<1> SUFFICES ASSUME NEW g \in Group, NEW p \in Partition,
                    NEW i \in DOMAIN handled'[g][p],
                    NEW o \in 1 .. handled'[g][p][i] - 1
             PROVE  \/ <<p, o>> \in skipped'[g]
                    \/ \E j \in 1 .. i - 1 : handled'[g][p][j] = o
  BY DEF HandledInOrder
<1>1. /\ handled[g][p] \in Seq(Nat) /\ Len(handled[g][p]) \in Nat
      /\ DOMAIN handled[g][p] = 1 .. Len(handled[g][p])
  BY DEF ShapeInv
<1>2. Keeps(g, p)
  BY History
<1>3. ASSUME i \in DOMAIN handled[g][p]
      PROVE  \/ <<p, o>> \in skipped'[g]
             \/ \E j \in 1 .. i - 1 : handled'[g][p][j] = o
  <2>1. handled'[g][p][i] = handled[g][p][i]
    BY <1>2, <1>3 DEF Keeps
  <2>2. <<p, o>> \in skipped[g] \/ \E j \in 1 .. i - 1 : handled[g][p][j] = o
    <3>1. o \in 1 .. handled[g][p][i] - 1
      BY <2>1
    <3> QED
      BY <1>3, <3>1 DEF HandledInOrder
  <2>3. \A j \in 1 .. i - 1 : handled'[g][p][j] = handled[g][p][j]
    <3>1. \A j \in 1 .. i - 1 : j \in DOMAIN handled[g][p]
      BY <1>1, <1>3
    <3> QED
      BY <1>2, <3>1 DEF Keeps
  <2> QED
    BY <1>2, <2>2, <2>3 DEF Keeps
<1>4. ASSUME NEW c \in Consumer, Handle(c), i \notin DOMAIN handled[g][p]
      PROVE  \/ <<p, o>> \in skipped'[g]
             \/ \E j \in 1 .. i - 1 : handled'[g][p][j] = o
  <2>1. PICK q \in have[c] : current[c] = <<q, pos[c][q]>>
    BY <1>4 DEF Handle, CurrentInv
  <2>2. q \in Partition /\ st[c] = "handling" /\ skipped' = skipped
    BY <1>4, <2>1 DEF Handle, TypeOK
  <2>3. groupOf[c] = g /\ q = p
    BY <1>4, <2>1, <2>2, Handled
  <2>4. /\ Len(handled'[g][p]) = Len(handled[g][p]) + 1
        /\ handled'[g][p] = Append(handled[g][p], pos[c][p])
        /\ \A j \in 1 .. Len(handled[g][p]) : handled'[g][p][j] = handled[g][p][j]
        /\ handled'[g][p][Len(handled[g][p]) + 1] = pos[c][p]
    <3>1. current[c] = <<p, pos[c][p]>>
      BY <2>1, <2>3
    <3> QED
      <4>1. LET h == groupOf[c]
            IN  /\ handled'[h][p] = Append(handled[h][p], pos[c][p])
                /\ Len(handled'[h][p]) = Len(handled[h][p]) + 1
                /\ \A j \in 1 .. Len(handled[h][p]) : handled'[h][p][j] = handled[h][p][j]
                /\ handled'[h][p][Len(handled[h][p]) + 1] = pos[c][p]
        BY <1>4, <3>1, Handled, ZenonT(30)
      <4> QED
        BY <2>3, <4>1
  <2>5. i = Len(handled[g][p]) + 1
    <3>1. i \in 1 .. Len(handled[g][p]) + 1
      BY <1>1, <2>4
    <3> QED
      BY <1>1, <1>4, <3>1
  <2>6. pos[c][p] \in Nat /\ o \in 1 .. pos[c][p] /\ o # pos[c][p]
    BY <2>3, <2>4, <2>5, <2>2 DEF ShapeInv
  <2>7. o \in Done(g, p)
    BY <2>1, <2>2, <2>3, <2>6 DEF DoneInv, DoneUpTo, Active, Stages
  <2> QED
    BY <1>1, <2>2, <2>4, <2>5, <2>7 DEF Done
<1> QED
  BY <1>3, <1>4, HandledSame

-----------------------------------------------------------------------------
(* Once.                                                                   *)

\* A step keeps it.
LEMMA OnceStep ==
  ASSUME TypeOK, TypeOK', ShapeInv, GroupInv, CurrentInv, OnceInv, OnceUnlessKilled,
         [Next]_vars
  PROVE  OnceInv' /\ OnceUnlessKilled'
<1>t. /\ groupOf \in [Consumer -> Group] /\ groupOf' = groupOf
      /\ have \in [Consumer -> SUBSET Partition] /\ members \in [Group -> SUBSET Consumer]
      /\ DOMAIN st = Consumer /\ DOMAIN current = Consumer /\ DOMAIN pos = Consumer
      /\ crashes \in Nat /\ crashes' \in Nat
  BY SameGroups DEF TypeOK, ShapeInv
<1>h. \A g \in Group, p \in Partition :
        /\ handled[g][p] \in Seq(Nat) /\ Len(handled[g][p]) \in Nat
        /\ DOMAIN handled[g][p] = 1 .. Len(handled[g][p])
        /\ \A i \in DOMAIN handled[g][p] : handled[g][p][i] \in Nat
  BY DEF ShapeInv
<1> SUFFICES ASSUME crashes' = 0 PROVE OnceInv' /\ OnceUnlessKilled'
  BY DEF OnceInv, OnceUnlessKilled
<1>c. crashes = 0 /\ \A c \in Consumer : ~Crash(c)
  <2>1. ASSUME NEW c \in Consumer, Crash(c) PROVE FALSE
    BY <1>t, <2>1 DEF Crash
  <2> QED
    BY <1>t, <2>1
    DEF Next, Run, Produce, Send, Flush, Deliver, LoseBatch, SetStop, Assign, Start,
        NeverStarts, AutoCommit, Rejoin, Yield, Handle, TimesOut, Close, Interrupt, Evict,
        others, vars
<1>i. /\ \A c \in Consumer : st[c] # "dead"
      /\ \A g \in Group, c \in Consumer : groupOf[c] = g /\ st[c] \in Stages => OwnerOnce(c, g)
      /\ \A g \in Group, p \in Partition : UnownedOnce(g, p)
  BY <1>c DEF OnceInv, Active
<1>e. \A c \in Consumer : ~Evict(c)
  BY <1>i DEF Evict
<1> DEFINE Goal == /\ \A c \in Consumer : st'[c] # "dead"
                   /\ \A g \in Group, c \in Consumer :
                        groupOf[c] = g /\ st'[c] \in Stages => OwnerOnce(c, g)'
                   /\ \A g \in Group, p \in Partition : UnownedOnce(g, p)'
<1>o. ASSUME NEW d \in Consumer, NEW g \in Group, groupOf[d] = g, st[d] \in Stages,
             have'[d] = have[d], pos'[d] = pos[d],
             \A p \in have[d] : handled'[g][p] = handled[g][p],
             st'[d] # "handling" \/ (st'[d] = st[d] /\ current'[d] = current[d]),
             st'[d] = "joining" => \A p \in have[d] : committed'[g][p] = pos[d][p]
      PROVE  OwnerOnce(d, g)'
  <2>1. OwnerOnce(d, g)
    BY <1>i, <1>o
  <2> QED
    BY <1>o, <2>1 DEF OwnerOnce, UpTo
<1>n. ASSUME NEW g \in Group, NEW p \in Partition,
             (\A d \in members'[g] : p \notin have'[d]) =>
               /\ \A d \in members[g] : p \notin have[d]
               /\ handled'[g][p] = handled[g][p] /\ committed'[g][p] = committed[g][p]
      PROVE  UnownedOnce(g, p)'
  BY <1>i, <1>n DEF UnownedOnce, UpTo
\* c does something that hands nothing over.
<1>1. ASSUME UNCHANGED <<handled, committed, members, have, pos>>,
             \A d \in Consumer : \/ st'[d] = st[d] /\ current'[d] = current[d]
                                 \/ st[d] \in Stages /\ st'[d] = "closing"
                                 \/ st'[d] = "closed"
      PROVE  Goal
  <2>1. \A d \in Consumer : st'[d] # "dead"
    BY <1>1, <1>i
  <2>2. ASSUME NEW g \in Group, NEW d \in Consumer, groupOf[d] = g, st'[d] \in Stages
        PROVE  OwnerOnce(d, g)'
    <3>1. st[d] \in Stages
      BY <1>1, <2>2 DEF Stages
    <3>2. st'[d] # "handling" \/ (st'[d] = st[d] /\ current'[d] = current[d])
      BY <1>1
    <3>3. st'[d] = "joining" => \A p \in have[d] : committed'[g][p] = pos[d][p]
      <4>1. st'[d] = "joining" => st[d] = "joining"
        BY <1>1
      <4>2. OwnerOnce(d, g)
        BY <1>i, <2>2, <3>1
      <4> QED
        BY <1>1, <4>1, <4>2 DEF OwnerOnce
    <3> QED
      BY <1>1, <1>o, <2>2, <3>1, <3>2, <3>3
  <2>3. ASSUME NEW g \in Group, NEW p \in Partition PROVE UnownedOnce(g, p)'
    BY <1>1, <1>n
  <2> QED
    BY <2>1, <2>2, <2>3
<1>2. ASSUME Produce \/ SetStop \/ UNCHANGED vars \/ \E p \in Partition : LoseBatch(p)
      PROVE  Goal
  <2>1. UNCHANGED <<handled, committed, members, have, pos>> /\ UNCHANGED <<st, current>>
    BY <1>2
    DEF Produce, Send, Flush, Deliver, LoseBatch, SetStop, vars, others, broker, consumer
  <2>2. \A d \in Consumer : st'[d] = st[d] /\ current'[d] = current[d]
    BY <2>1
  <2> QED
    BY <1>1, <2>1, <2>2
<1>3. ASSUME NEW c \in Consumer, NeverStarts(c) \/ TimesOut(c) \/ Interrupt(c)
      PROVE  Goal
  <2>1. UNCHANGED <<handled, committed, members, have, pos>>
    BY <1>3 DEF NeverStarts, TimesOut, Interrupt, broker
  <2>2. /\ \A d \in Consumer \ {c} : st'[d] = st[d] /\ current'[d] = current[d]
        /\ (st[c] \in Stages /\ st'[c] = "closing") \/ st'[c] = "closed"
    BY <1>3, <1>t DEF NeverStarts, TimesOut, Interrupt, Stages
  <2> QED
    BY <1>1, <2>1, <2>2
<1>4. ASSUME NEW h \in Group, Assign(h) PROVE Goal
  <2>1. PICK owner \in [Partition -> members[h]] :
          have' = [c \in Consumer |->
                     IF c \in members[h] THEN {p \in Partition : owner[p] = c}
                                         ELSE have[c]]
    BY <1>4 DEF Assign
  <2>2. /\ \A d \in members[h] : st[d] = "joining" /\ st'[d] = "polling"
                                 /\ pos'[d] = committed[h]
        /\ \A d \in Consumer \ members[h] :
             /\ st'[d] = st[d] /\ have'[d] = have[d] /\ pos'[d] = pos[d]
             /\ current'[d] = current[d]
        /\ \A d \in Consumer : have'[d] \subseteq Partition
        /\ UNCHANGED <<handled, committed, members>>
    BY <1>4, <1>t, <2>1 DEF Assign, StartsAt
  <2>3. ASSUME NEW p \in Partition PROVE UpTo(h, p, committed[h][p])
    <3>1. CASE \A d \in members[h] : p \notin have[d]
      BY <1>i, <3>1 DEF UnownedOnce
    <3>2. ASSUME NEW d \in members[h], p \in have[d] PROVE UpTo(h, p, committed[h][p])
      <4>1. d \in Consumer /\ groupOf[d] = h /\ st[d] \in Stages /\ st[d] = "joining"
        BY <1>t, <2>2, <3>2 DEF GroupInv, Stages
      <4>2. OwnerOnce(d, h)
        BY <1>i, <4>1
      <4> QED
        BY <3>2, <4>1, <4>2 DEF OwnerOnce
    <3> QED
      BY <3>1, <3>2
  <2>4. \A d \in Consumer : st'[d] # "dead"
    BY <1>i, <2>2
  <2>5. ASSUME NEW g \in Group, NEW d \in Consumer, groupOf[d] = g, st'[d] \in Stages
        PROVE  OwnerOnce(d, g)'
    <3>1. CASE d \in members[h]
      <4>1. g = h
        BY <2>5, <3>1 DEF GroupInv
      <4> QED
        BY <2>2, <2>3, <3>1, <4>1 DEF OwnerOnce, UpTo
    <3>2. CASE d \notin members[h]
      <4>1. st[d] \in Stages /\ OwnerOnce(d, g)
        BY <1>i, <2>2, <2>5, <3>2
      <4> QED
        BY <2>2, <3>2, <4>1 DEF OwnerOnce, UpTo
    <3> QED
      BY <3>1, <3>2
  <2>6. ASSUME NEW g \in Group, NEW p \in Partition PROVE UnownedOnce(g, p)'
    <3>1. CASE g = h
      BY <2>2, <2>3, <3>1 DEF UnownedOnce, UpTo
    <3>2. CASE g # h
      <4>1. \A d \in members[g] : d \notin members[h] /\ d \in Consumer
        BY <1>t, <3>2 DEF GroupInv
      <4> QED
        BY <1>n, <2>2, <4>1
    <3> QED
      BY <3>1, <3>2
  <2> QED
    BY <2>4, <2>5, <2>6
\* No two members of a group have a partition.
<1>x. ASSUME NEW c \in Consumer, NEW d \in Consumer, c # d, groupOf[c] = groupOf[d],
             st[c] \in Stages, st[d] \in Stages, NEW p \in have[d]
      PROVE  p \notin have[c]
  BY <1>x DEF GroupInv, Active
<1>5. ASSUME NEW c \in Consumer, Start(c) PROVE Goal
  <2>1. /\ st[c] = "new" /\ st'[c] = "joining"
        /\ \A d \in Consumer \ {c} : st'[d] = st[d]
        /\ UNCHANGED <<handled, committed, have, pos, current>>
        /\ \A g \in Group : members[g] \subseteq members'[g]
    BY <1>5, <1>t DEF Start, Regroup
  <2>2. \A d \in Consumer : st'[d] # "dead"
    BY <1>i, <2>1
  <2>3. ASSUME NEW g \in Group, NEW d \in Consumer, groupOf[d] = g, st'[d] \in Stages
        PROVE  OwnerOnce(d, g)'
    <3>1. CASE d = c
      BY <2>1, <3>1 DEF GroupInv, OwnerOnce
    <3>2. CASE d # c
      <4>1. OwnerOnce(d, g)
        BY <1>i, <2>1, <2>3, <3>2
      <4> QED
        BY <2>1, <3>2, <4>1 DEF OwnerOnce, UpTo
    <3> QED
      BY <3>1, <3>2
  <2>4. ASSUME NEW g \in Group, NEW p \in Partition PROVE UnownedOnce(g, p)'
    BY <1>n, <2>1
  <2> QED
    BY <2>2, <2>3, <2>4
\* c commits.
<1>6. ASSUME NEW c \in Consumer, Rejoin(c) \/ AutoCommit(c) \/ Close(c) PROVE Goal
  <2>1. /\ Commit(c) /\ st[c] \in {"polling", "closing"} /\ st[c] \in Stages
        /\ UNCHANGED <<handled, have, pos, current>> /\ UNCHANGED log
        /\ \A d \in Consumer \ {c} : st'[d] = st[d]
    BY <1>6, <1>t DEF Rejoin, AutoCommit, Close, consumer, producer, Stages
  <2>2. \A g \in Group, p \in Partition :
          committed'[g][p] = IF g = groupOf[c] /\ p \in have[c] THEN pos[c][p]
                                                                ELSE committed[g][p]
    BY <2>1, CommitTypes
  <2>3. /\ \/ st'[c] = "polling" /\ members' = members
           \/ st'[c] = "joining" /\ members' = members
           \/ /\ st'[c] = "closed"
              /\ members' = [members EXCEPT ![groupOf[c]] = @ \ {c}]
    BY <1>6, <1>t DEF Rejoin, AutoCommit, Close, consumer, Regroup
  <2>4. \A d \in Consumer : st'[d] # "dead"
    BY <1>i, <2>1, <2>3
  <2>5. ASSUME NEW g \in Group, NEW d \in Consumer, groupOf[d] = g, st'[d] \in Stages
        PROVE  OwnerOnce(d, g)'
    <3>1. st[d] \in Stages
      BY <2>1, <2>5
    <3>2. st'[d] # "handling" \/ (st'[d] = st[d] /\ current'[d] = current[d])
      BY <2>1, <2>3
    <3>3. ASSUME st'[d] = "joining", NEW p \in have[d] PROVE committed'[g][p] = pos[d][p]
      <4>0. p \in Partition
        BY <1>t
      <4>1. CASE d = c
        BY <2>2, <2>5, <4>0, <4>1
      <4>2. CASE d # c
        <5>1. committed[g][p] = pos[d][p]
          BY <1>i, <2>1, <2>5, <3>1, <3>3, <4>2 DEF OwnerOnce
        <5>2. ~(g = groupOf[c] /\ p \in have[c])
          BY <1>x, <2>1, <2>5, <3>1, <4>2
        <5> QED
          BY <2>2, <4>0, <5>1, <5>2
      <4> QED
        BY <4>1, <4>2
    <3> QED
      BY <1>o, <2>1, <2>5, <3>1, <3>2, <3>3
  <2>6. ASSUME NEW g \in Group, NEW p \in Partition PROVE UnownedOnce(g, p)'
    <3>0. c \in members[groupOf[c]]
      BY <2>1 DEF GroupInv, Active
    <3>1. CASE g = groupOf[c] /\ p \in have[c]
      <4>1. UpTo(g, p, pos[c][p]) /\ committed'[g][p] = pos[c][p]
        BY <1>i, <2>1, <2>2, <3>1 DEF OwnerOnce
      <4> QED
        BY <2>1, <4>1 DEF UnownedOnce, UpTo
    <3>2. CASE ~(g = groupOf[c] /\ p \in have[c])
      <4>1. committed'[g][p] = committed[g][p]
        BY <2>2, <3>2
      <4>2. \A d \in members[g] : p \in have[d] => d \in members'[g]
        BY <1>t, <2>3, <3>2
      <4> QED
        BY <1>n, <2>1, <4>1, <4>2
    <3> QED
      BY <3>1, <3>2
  <2> QED
    BY <2>4, <2>5, <2>6
<1>7. ASSUME NEW c \in Consumer, NEW q \in Partition, Yield(c, q) PROVE Goal
  <2>1. /\ st[c] = "polling" /\ st[c] \in Stages /\ st'[c] = "handling"
        /\ UNCHANGED <<handled, committed, members, have>>
        /\ pos[c][q] \in Nat /\ pos'[c][q] = pos[c][q] + 1
        /\ \A p \in Partition \ {q} : pos'[c][p] = pos[c][p]
        /\ current'[c] = <<q, pos[c][q] + 1>>
        /\ \A d \in Consumer \ {c} : st'[d] = st[d] /\ pos'[d] = pos[d]
                                     /\ current'[d] = current[d]
    BY <1>7, <1>t DEF Yield, ShapeInv, broker, Stages
  <2>2. \A d \in Consumer : st'[d] # "dead"
    BY <1>i, <2>1
  <2>3. ASSUME NEW g \in Group, NEW d \in Consumer, groupOf[d] = g, st'[d] \in Stages
        PROVE  OwnerOnce(d, g)'
    <3>0. OwnerOnce(d, g)
      BY <1>i, <2>1, <2>3
    <3>1. CASE d = c
      <4>1. SUFFICES ASSUME NEW p \in have[c], NEW i \in DOMAIN handled[g][p]
                     PROVE  /\ handled[g][p][i] <= pos'[c][p]
                            /\ current'[c] = <<p, pos'[c][p]>> =>
                                 handled[g][p][i] <= pos'[c][p] - 1
        BY <2>1, <3>1 DEF OwnerOnce, UpTo
      <4>2. p \in Partition /\ handled[g][p][i] \in Nat /\ pos[c][p] \in Nat
        BY <1>h, <1>t DEF ShapeInv
      <4>3. handled[g][p][i] <= pos[c][p]
        BY <3>0, <3>1 DEF OwnerOnce, UpTo
      <4>4. CASE p = q
        BY <2>1, <4>2, <4>3, <4>4
      <4>5. CASE p # q
        BY <2>1, <4>2, <4>3, <4>5
      <4> QED
        BY <4>4, <4>5
    <3>2. CASE d # c
      BY <2>1, <3>0, <3>2 DEF OwnerOnce, UpTo
    <3> QED
      BY <3>1, <3>2
  <2>4. ASSUME NEW g \in Group, NEW p \in Partition PROVE UnownedOnce(g, p)'
    BY <1>n, <2>1
  <2> QED
    BY <2>2, <2>3, <2>4
\* c handles q's record: its offset is a new one.
<1>8. ASSUME NEW c \in Consumer, Handle(c) PROVE Goal /\ OnceUnlessKilled'
  <2> DEFINE k == groupOf[c]
  <2>1. PICK q \in have[c] : current[c] = <<q, pos[c][q]>>
    BY <1>8 DEF Handle, CurrentInv
  <2>2. /\ st[c] = "handling" /\ st[c] \in Stages /\ st'[c] \in {"closing", "polling"}
        /\ q \in Partition /\ pos[c][q] \in Nat /\ k \in Group
        /\ UNCHANGED <<committed, members, have, pos>>
        /\ \A d \in Consumer \ {c} : st'[d] = st[d] /\ current'[d] = current[d]
    BY <1>8, <1>t, <2>1 DEF Handle, ShapeInv, broker, Stages
  <2> DEFINE n == Len(handled[k][q])
  <2>3. /\ n \in Nat /\ handled'[k][q] = Append(handled[k][q], pos[c][q])
        /\ \A h \in Group, p \in Partition :
             ~(h = k /\ p = q) => handled'[h][p] = handled[h][p]
        /\ \A i \in 1 .. n : handled'[k][q][i] = handled[k][q][i]
        /\ handled'[k][q][n + 1] = pos[c][q]
    BY <1>8, <2>1, <2>2, Handled
  <2>4. DOMAIN handled'[k][q] = 1 .. n + 1 /\ DOMAIN handled[k][q] = 1 .. n
    BY <1>h, <2>2, <2>3
  <2> HIDE DEF n
  <2>5. OwnerOnce(c, k)
    BY <1>i, <2>2
  <2>6. \A i \in 1 .. n : handled[k][q][i] <= pos[c][q] - 1 /\ handled[k][q][i] \in Nat
    BY <1>h, <2>1, <2>2, <2>4, <2>5 DEF OwnerOnce, UpTo
  <2>7. \A i \in 1 .. n + 1 : i \in 1 .. n \/ i = n + 1
    BY <2>3
  <2>8. \A d \in Consumer : st'[d] # "dead"
    BY <1>i, <2>2
  <2>9. ASSUME NEW g \in Group, NEW d \in Consumer, groupOf[d] = g, st'[d] \in Stages
        PROVE  OwnerOnce(d, g)'
    <3>1. CASE d = c
      <4>1. SUFFICES ASSUME NEW p \in have[c], NEW i \in DOMAIN handled'[k][p]
                     PROVE  handled'[k][p][i] <= pos[c][p]
        BY <2>2, <2>9, <3>1 DEF OwnerOnce, UpTo
      <4>2. CASE p = q
        <5>1. \A o \in Nat : o <= pos[c][q] - 1 => o <= pos[c][q]
          BY <2>2
        <5>2. pos[c][q] <= pos[c][q]
          BY <2>2
        <5> QED
          <6>1. CASE i \in 1 .. n
            BY <2>3, <2>6, <4>2, <5>1, <6>1
          <6>2. CASE i = n + 1
            BY <2>3, <4>2, <5>2, <6>2
          <6>3. i \in 1 .. n + 1
            BY <2>4, <4>1, <4>2
          <6> QED
            BY <2>7, <6>1, <6>2, <6>3
      <4>3. CASE p # q
        <5>1. p \in Partition /\ UpTo(k, p, pos[c][p])
          BY <1>t, <2>5, <4>1 DEF OwnerOnce
        <5>2. handled'[k][p] = handled[k][p]
          BY <2>2, <2>3, <4>3, <5>1
        <5> QED
          BY <4>1, <5>1, <5>2 DEF UpTo
      <4> QED
        BY <4>2, <4>3
    <3>2. CASE d # c
      <4>1. st[d] \in Stages
        BY <2>2, <2>9, <3>2
      <4>2. \A p \in have[d] : handled'[g][p] = handled[g][p]
        BY <1>t, <1>x, <2>1, <2>2, <2>3, <2>9, <3>2, <4>1
      <4>3. st'[d] = "joining" => \A p \in have[d] : committed'[g][p] = pos[d][p]
        BY <1>i, <2>2, <2>9, <3>2, <4>1 DEF OwnerOnce
      <4> QED
        BY <1>o, <2>2, <2>9, <3>2, <4>1, <4>2, <4>3
    <3> QED
      BY <3>1, <3>2
  <2>10. ASSUME NEW g \in Group, NEW p \in Partition PROVE UnownedOnce(g, p)'
    <3>1. c \in members[k]
      BY <2>2 DEF GroupInv, Active
    <3>2. CASE g = k /\ p = q
      BY <1>n, <2>1, <2>2, <3>1, <3>2
    <3>3. CASE ~(g = k /\ p = q)
      BY <1>n, <2>2, <2>3, <3>3
    <3> QED
      BY <3>2, <3>3
  <2>11. OnceUnlessKilled'
    <3>1. SUFFICES ASSUME NEW g \in Group, NEW p \in Partition,
                          NEW i \in DOMAIN handled'[g][p], NEW j \in DOMAIN handled'[g][p],
                          handled'[g][p][i] = handled'[g][p][j]
                   PROVE  i = j
      BY DEF OnceUnlessKilled
    <3>2. CASE ~(g = k /\ p = q)
      <4>1. handled'[g][p] = handled[g][p]
        BY <2>3, <3>2
      <4> QED
        BY <1>c, <3>1, <4>1 DEF OnceUnlessKilled
    <3>3. CASE g = k /\ p = q
      <4>1. \A m \in 1 .. n : handled'[k][q][m] # pos[c][q]
        <5>1. \A o \in Nat : o <= pos[c][q] - 1 => o # pos[c][q]
          BY <2>2
        <5> QED
          BY <2>3, <2>6, <5>1
      <4>2. \A m, l \in 1 .. n : handled[k][q][m] = handled[k][q][l] => m = l
        BY <1>c, <2>2, <2>4 DEF OnceUnlessKilled
      <4> QED
        <5>1. /\ i \in 1 .. n \/ i = n + 1
              /\ j \in 1 .. n \/ j = n + 1
          BY <2>4, <2>7, <3>1, <3>3
        <5>2. CASE i \in 1 .. n /\ j \in 1 .. n
          BY <2>3, <3>1, <3>3, <4>2, <5>2
        <5>3. CASE i \in 1 .. n /\ j = n + 1
          BY <2>3, <3>1, <3>3, <4>1, <5>3
        <5>4. CASE i = n + 1 /\ j \in 1 .. n
          BY <2>3, <3>1, <3>3, <4>1, <5>4
        <5> QED
          BY <5>1, <5>2, <5>3, <5>4
    <3> QED
      BY <3>2, <3>3
  <2> QED
    BY <2>8, <2>9, <2>10, <2>11
<1>9. (\A c \in Consumer : ~Handle(c)) => OnceUnlessKilled'
  BY <1>c, HandledSame DEF OnceUnlessKilled
<1>10. Goal /\ OnceUnlessKilled'
  <2>1. CASE \E c \in Consumer : Handle(c)
    BY <1>8, <2>1
  <2>2. CASE \A c \in Consumer : ~Handle(c)
    <3>1. Goal
      <4>1. ASSUME NEW c \in Consumer,
                   Start(c) \/ Run(c) \/ AutoCommit(c) \/ Interrupt(c)
                     \/ Crash(c) \/ Evict(c)
            PROVE  Goal
        BY <1>3, <1>5, <1>6, <1>7, <1>c, <1>e, <2>2, <4>1 DEF Run
      <4> HIDE DEF Goal
      <4> QED
        BY <1>2, <1>4, <4>1 DEF Next
    <3> QED
      BY <1>9, <2>2, <3>1
  <2> QED
    BY <2>1, <2>2
<1> QED
  BY <1>10, <1>t DEF OnceInv, Active

-----------------------------------------------------------------------------
LEMMA StepInv == Inv /\ [Next]_vars => Inv'
<1> SUFFICES ASSUME Inv, [Next]_vars PROVE Inv'
  OBVIOUS
<1> USE DEF Inv
<1>1. CASE Produce \/ \E p \in Partition : LoseBatch(p)
  <2>1. TypeOK' /\ ShapeInv'
    BY <1>1, ProducerTypes
  <2>2. OrderInv'
    BY <1>1, OrderStep
  <2>3. UNCHANGED others
    BY <1>1 DEF Produce, Send, Flush, Deliver, LoseBatch
  <2>4. GroupInv' /\ CurrentInv'
    BY <2>3 DEF GroupInv, CurrentInv, Active, others, constants, broker, consumer
  <2> QED
    BY <2>1, <2>2, <2>4, DoneStep, CommitStep, HandledStep, OnceStep
<1>2. CASE Others
  <2>1. TypeOK' /\ ShapeInv'
    BY <1>2, OtherTypes
  <2>2. GroupInv' /\ CurrentInv'
    BY <1>2, GroupStep, CurrentStep
  <2>3. UNCHANGED producer
    BY <1>2 DEF Others, Run, SetStop, Assign, Start, NeverStarts, AutoCommit, Rejoin, Yield,
                Handle, TimesOut, Close, Interrupt, Crash, Evict
  <2>4. OrderInv'
    BY <2>3 DEF OrderInv, SentInOrder, NoneForgotten, FlushedInv, Ordered, NumOrders, producer
  <2> QED
    BY <2>1, <2>2, <2>4, DoneStep, CommitStep, HandledStep, OnceStep
<1>3. CASE UNCHANGED vars
  <2>1. TypeOK' /\ ShapeInv'
    BY <1>3 DEF TypeOK, ShapeInv, vars, constants, producer, broker, consumer, NumOrders
  <2>2. GroupInv' /\ CurrentInv'
    BY <1>3 DEF GroupInv, CurrentInv, Active, vars, constants, broker, consumer
  <2>3. OrderInv'
    BY <1>3 DEF OrderInv, SentInOrder, NoneForgotten, FlushedInv, Ordered, NumOrders, vars,
                producer
  <2> QED
    BY <2>1, <2>2, <2>3, DoneStep, CommitStep, HandledStep, OnceStep
<1> QED
  BY <1>1, <1>2, <1>3 DEF Next, Others

LEMMA Invariance == Spec => []Inv
  BY InitInv, StepInv, PTL DEF Spec

-----------------------------------------------------------------------------
\* Every variable keeps its type, and no position passes the end of its log.
THEOREM TypesKept == Spec => []TypeOK
<1>1. Inv => TypeOK
  BY DEF Inv
<1> QED
  BY <1>1, Invariance, PTL

\* For any number of orders, partitions and failed batches flush() leaves each
\* order in its customer's partition or among the failed, and each partition as
\* it was sent (run_demo.py:64-65 and 87).
THEOREM OrdersArrive == Spec => []FlushedInOrder
<1>1. Inv => FlushedInOrder
  <2> SUFFICES ASSUME Inv PROVE FlushedInOrder
    OBVIOUS
  <2>1. \A p \in Partition : DOMAIN log[p] = 1 .. Len(log[p])
    <3>1. \A p \in Partition : log[p] \in Seq(1 .. NumOrders)
      BY Orderly DEF Inv
    <3> QED
      BY <3>1
  <2>2. \A p \in Partition : \A i, j \in DOMAIN log[p] : i < j => log[p][i] < log[p][j]
    BY <2>1 DEF Inv, OrderInv, SentInOrder, Ordered
  <2>3. ASSUME phase = "flushed", NEW i \in 1 .. NumOrders
        PROVE  \/ i \in lost
               \/ \E k \in DOMAIN log[partitionOf[Orders[i]]] :
                    log[partitionOf[Orders[i]]][k] = i
    <3> DEFINE p == partitionOf[Orders[i]]
    <3>1. p \in Partition /\ i \in 1 .. sent /\ buffer[p] = <<>>
      BY <2>3, Orderly DEF Inv, OrderInv, FlushedInv
    <3>2. i \in lost \cup ToSet(log[p]) \cup ToSet(buffer[p])
      BY <3>1 DEF Inv, OrderInv, NoneForgotten
    <3> QED
      BY <3>1, <3>2 DEF ToSet
  <2> QED
    BY <2>2, <2>3 DEF FlushedInOrder
<1> QED
  BY <1>1, Invariance, PTL

\* At least once: whatever rebalances, stops, interrupts and kills happen, a
\* group commits nothing that it has not handled, an interrupted record apart
\* (kafka_consumer.py:78-90).
THEOREM AtLeastOnce == Spec => []CommittedIsDone
<1>1. Inv => CommittedIsDone
  BY DEF Inv
<1> QED
  BY <1>1, Invariance, PTL

\* A group comes to a record after all earlier ones of its partition, whoever
\* had it (run_demo.py:64-65).
THEOREM InOrderPerCustomer == Spec => []HandledInOrder
<1>1. Inv => HandledInOrder
  BY DEF Inv
<1> QED
  BY <1>1, Invariance, PTL

\* Exactly one consumer of a group handles a record, once, as long as none is
\* killed, for any number of consumers and rebalances (run_demo.py:183).
THEOREM OnceInAGroup == Spec => []OnceUnlessKilled
<1>1. Inv => OnceUnlessKilled
  BY DEF Inv
<1> QED
  BY <1>1, Invariance, PTL
=============================================================================
