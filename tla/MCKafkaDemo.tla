---------------------------- MODULE MCKafkaDemo ----------------------------
(* A small instance of KafkaDemo for TLC. *)
EXTENDS KafkaDemo

CONSTANTS a, b, g1, g2, x, y
Consumers == {a, b}
Groups == {g1, g2}
Customers == {x, y}
OrderList == <<x, y, x>>

\* Groups and partitions are interchangeable, so consumer a is in group g1 and
\* customer x in partition 0.
UpToNames == groupOf[a] = g1 /\ partitionOf[x] = 0
MCInit == Init /\ UpToNames
MCSpec == MCInit /\ [][Next]_vars /\ Fairness
=============================================================================
