----------------------------- MODULE MCKVStore -----------------------------
(* Small instances of KVStore for TLC. *)
EXTENDS KVStore, TLC

CONSTANTS t1, t2, t3, k1, k2, v1, v2

Interchangeable == Permutations(Task) \cup Permutations(Value) \cup Permutations(Key)

\* For a clock that goes from 2 to 3: a ttl that runs out, one that no BIGINT
\* of the model holds, ttl=0, a ttl already past, and none.
ShortTTLs == {1, NoTTL}
CrashTTLs == {-1, 9, NoTTL}
AllTTLs == {-1, 0, 1, NoTTL}

\* At least one of the requests reads from a replica.  Where all of them read,
\* the way to a server is the question: up to MaxCrash crashes and a clock that
\* stands still.  Where one of them writes there is one crash at most.
SomeReplicaRead == \E t \in Task : req[t].op = "GET" /\ ~req[t].consistent
OnlyReads == \A t \in Task : req[t].op = "GET"
Bounded == IF OnlyReads THEN now' = now ELSE crashes' <= 1
ReplicaInit == Init /\ SomeReplicaRead
ReplicaSpec == ReplicaInit /\ [][Next /\ Bounded]_vars
=============================================================================
