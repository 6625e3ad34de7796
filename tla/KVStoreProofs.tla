--------------------------- MODULE KVStoreProofs ---------------------------
(***************************************************************************)
(* Theorems about KVStore for every set of requests, keys and values, any  *)
(* number of replicas, and any pool and batch size.                        *)
(***************************************************************************)
EXTENDS KVStore, FiniteSetTheorems, TLAPS

-----------------------------------------------------------------------------
(* The statements.                                                         *)

\* An upsert leaves a table of rows.
LEMMA UpsertType ==
  ASSUME NEW T \in SUBSET Row, NEW k \in Key, NEW v \in Value,
         NEW e \in Int, NEW id \in Nat
  PROVE  Upsert(T, k, v, e, id) \in SUBSET Row
BY DEF Upsert, Version, Row

\* A soft delete leaves a table of rows.
LEMMA SoftDeleteType ==
  ASSUME NEW T \in SUBSET Row, NEW k \in Key, NEW c \in Int, NEW id \in Nat
  PROVE  SoftDelete(T, k, c, id) \in SUBSET Row
<1>1. ASSUME NEW row \in T
      PROVE  Version(k, row.value, -1, id) \in Row
  BY <1>1 DEF Row, Version
<1> QED BY <1>1 DEF SoftDelete

\* Committing T makes it the store and keeps all earlier states.
LEMMA CommitStore ==
  ASSUME wal \in Seq(SUBSET Row), wal # <<>>,
         NEW T \in SUBSET Row, Commit(T)
  PROVE  /\ wal' \in Seq(SUBSET Row) /\ wal' # <<>>
         /\ Store' = T
         /\ Len(wal) <= Len(wal')
<1>1. CASE T = Store
  BY <1>1 DEF Commit, Store
<1>2. CASE T # Store
  <2>1. wal' = Append(wal, T)
    BY <1>2 DEF Commit
  <2> QED BY <2>1 DEF Store
<1> QED BY <1>1, <1>2

\* The servers of the primary and of the replicas are distinct.
LEMMA Servers ==
  /\ Primary \in Server /\ Primary \notin Replica
  /\ Replica \subseteq Server /\ Replica \subseteq Nat
BY ConstantsAssumption DEF Primary, Server, Replica

\* The round robin stays among the replicas.
LEMMA ReplicaAfterType ==
  ASSUME NEW i \in Nat, NumReplicas > 0
  PROVE  ReplicaAfter(i) \in Replica
BY ConstantsAssumption, Z3 DEF ReplicaAfter, Replica

\* What a request carries.
LEMMA RequestTypes ==
  ASSUME NEW r \in Request
  PROVE  /\ r.key \in Key
         /\ r.op \in {"PUT", "GET", "DELETE"}
         /\ r.op = "PUT" => r.value \in Value /\ r.ttl \in TTL
BY DEF Request

\* The statements see tables of rows.
LEMMA Tables ==
  ASSUME TypeOK
  PROVE  /\ Store \in SUBSET Row
         /\ \A s \in Server : View(s) \in SUBSET Row
         /\ Len(wal) \in Nat /\ Len(wal) >= 1
<1>1. Store \in SUBSET Row /\ Len(wal) \in Nat /\ Len(wal) >= 1
  BY DEF TypeOK, Store
<1>2. \A r \in Replica : wal[applied[r]] \in SUBSET Row
  BY DEF TypeOK
<1> QED BY <1>1, <1>2 DEF View, Server

\* A commit only adds to the wal, so every replica still points into it.
LEMMA CommitType ==
  ASSUME TypeOK, NEW T \in SUBSET Row, Commit(T), applied' = applied
  PROVE  /\ wal' \in Seq(SUBSET Row) /\ wal' # <<>>
         /\ \A r \in Replica : applied'[r] \in 1 .. Len(wal')
<1>1. /\ wal' \in Seq(SUBSET Row) /\ wal' # <<>>
      /\ Len(wal) <= Len(wal')
  BY CommitStore DEF TypeOK
<1>2. Len(wal') \in Nat
  BY <1>1
<1>3. \A r \in Replica : applied[r] \in 1 .. Len(wal)
  BY DEF TypeOK
<1> QED BY <1>1, <1>2, <1>3, Tables

\* The snapshot a request takes of the world is a snapshot.
LEMMA WorldType ==
  ASSUME TypeOK
  PROVE  World \in Snapshot
BY Tables, Servers DEF World, Snapshot, TypeOK

-----------------------------------------------------------------------------
(* Type correctness.                                                       *)

LEMMA InitType == Init => TypeOK
<1> SUFFICES ASSUME Init PROVE TypeOK
  OBVIOUS
<1>1. /\ wal \in Seq(SUBSET Row) /\ wal # <<>> /\ Len(wal) = 1
  BY DEF Init
<1>2. World \in Snapshot
  BY <1>1, Servers, ConstantsAssumption DEF Init, World, Snapshot
<1>3. rr \in Nat /\ (NumReplicas > 0 => rr \in Replica)
  BY ConstantsAssumption DEF Init, Replica
<1>4. answer \in [Task -> Answer]
  BY DEF Init, Answer
<1> QED BY <1>1, <1>2, <1>3, <1>4, Servers, ConstantsAssumption DEF Init, TypeOK

LEMMA StepType == TypeOK /\ [Next]_vars => TypeOK'
<1> SUFFICES ASSUME TypeOK, [Next]_vars PROVE TypeOK'
  OBVIOUS
<1> USE DEF serverVars, poolVars, requestVars, cleanupVars
<1>0. World \in Snapshot
  BY WorldType
<1>1. ASSUME NEW t \in Task, PutKey(t) PROVE TypeOK'
  <2>1. req[t] \in Request
    BY DEF TypeOK
  <2>2. (IF req[t].ttl \in {NoTTL, 0} THEN 0 ELSE now + req[t].ttl) \in Int
    <3>1. req[t].ttl \in TTL
      BY <2>1, <1>1, RequestTypes DEF PutKey
    <3>2. req[t].ttl \notin {NoTTL, 0} => req[t].ttl \in Int
      BY <3>1, ConstantsAssumption
    <3>3. now \in Nat
      BY DEF TypeOK
    <3> QED BY <3>2, <3>3
  <2> QED BY <1>0, <1>1, <2>2, Servers DEF TypeOK, PutKey
<1>2. ASSUME NEW t \in Task, DeleteKey(t) PROVE TypeOK'
  BY <1>0, <1>2, Servers DEF TypeOK, DeleteKey
<1>3. ASSUME NEW t \in Task, GetFromPrimary(t) PROVE TypeOK'
  BY <1>0, <1>3, Servers DEF TypeOK, GetFromPrimary
<1>4. ASSUME NEW t \in Task, GetFromReplica(t) PROVE TypeOK'
  <2>1. rr \in Replica /\ ReplicaAfter(rr) \in Replica
    BY <1>4, Servers, ReplicaAfterType DEF TypeOK, GetFromReplica
  <2> QED BY <1>0, <1>4, <2>1, Servers DEF TypeOK, GetFromReplica
<1>5. ASSUME NEW t \in Task, ProbeAcquire(t) PROVE TypeOK'
  BY <1>5 DEF TypeOK, ProbeAcquire, AcquireConn
<1>6. ASSUME NEW t \in Task, ProbeSucceeds(t) PROVE TypeOK'
  BY <1>6 DEF TypeOK, ProbeSucceeds, ReleaseConn
<1>7. ASSUME NEW t \in Task, ProbeFails(t) PROVE TypeOK'
  <2>1. pool[t] \in Replica /\ NumReplicas > 0
    BY <1>7, ConstantsAssumption DEF TypeOK, ProbeFails, Replica
  <2>2. ReplicaAfter(pool[t]) \in Replica
    BY <2>1, Servers, ReplicaAfterType
  <2>3. /\ inUse' \in [Server -> SUBSET (Task \cup {Cleanup})]
        /\ broken' \subseteq Task \cup {Cleanup}
    <3>1. CASE UNCHANGED poolVars
      BY <3>1 DEF TypeOK
    <3>2. CASE ReleaseConn(t, pool[t])
      BY <3>2 DEF TypeOK, ReleaseConn
    <3> QED BY <1>7, <3>1, <3>2 DEF ProbeFails
  <2>4. /\ pc' \in [Task -> {"new", "probe", "probing", "acquire", "execute", "reply", "done"}]
        /\ pool' \in [Task -> Server]
        /\ \A u \in Task : pc'[u] \in {"probe", "probing"} => pool'[u] \in Replica
        /\ tries' \in [Task -> Nat]
    <3>1. \E p \in Server, d \in {"probe", "acquire"} :
            /\ pool' = [pool EXCEPT ![t] = p]
            /\ pc' = [pc EXCEPT ![t] = d]
            /\ d = "probe" => p \in Replica
      BY <1>7, <2>2, Servers DEF TypeOK, ProbeFails, TryNext
    <3>2. tries' \in [Task -> Nat]
      BY <1>7 DEF TypeOK, ProbeFails, TryNext
    <3>3. PICK p \in Server, d \in {"probe", "acquire"} :
            /\ pool' = [pool EXCEPT ![t] = p]
            /\ pc' = [pc EXCEPT ![t] = d]
            /\ d = "probe" => p \in Replica
      BY <3>1
    <3>4. /\ pc \in [Task -> {"new", "probe", "probing", "acquire", "execute", "reply", "done"}]
          /\ pool \in [Task -> Server]
          /\ \A u \in Task : pc[u] \in {"probe", "probing"} => pool[u] \in Replica
      BY DEF TypeOK
    <3> QED BY <3>2, <3>3, <3>4
  <2> QED BY <1>7, <2>3, <2>4 DEF TypeOK, ProbeFails
<1>8. ASSUME NEW t \in Task, Acquire(t) PROVE TypeOK'
  BY <1>8 DEF TypeOK, Acquire, AcquireConn
<1>9. ASSUME NEW t \in Task, AcquireFails(t) PROVE TypeOK'
  BY <1>9 DEF TypeOK, AcquireFails, Answer
<1>10. ASSUME NEW t \in Task, NEW a \in Answer, NEW T \in SUBSET Row,
              Ran(t, a), Commit(T)
       PROVE  TypeOK'
  <2>1. applied' = applied
    BY <1>10 DEF Ran
  <2> QED BY <1>10, CommitType, <2>1 DEF TypeOK, Ran
<1>11. ASSUME NEW t \in Task, ExecutePut(t) PROVE TypeOK'
  <2>1. req[t] \in Request /\ stamp[t] \in Int
    BY DEF TypeOK
  <2> DEFINE T == Upsert(Store, req[t].key, req[t].value, stamp[t], Len(wal) + 1)
  <2>2. T \in SUBSET Row
    BY <1>11, <2>1, RequestTypes, Tables, UpsertType DEF ExecutePut
  <2>3. Ok \in Answer
    BY DEF Answer
  <2> QED BY <1>10, <1>11, <2>2, <2>3 DEF ExecutePut
<1>12. ASSUME NEW t \in Task, ExecuteGet(t) PROVE TypeOK'
  <2>1. View(pool[t]) \in SUBSET Row
    BY Tables DEF TypeOK
  <2>2. PICK a \in Answer : Ran(t, a)
    BY <1>12, <2>1 DEF ExecuteGet, Answer, Matching, Row
  <2>3. Commit(Store)
    BY <1>12 DEF ExecuteGet, Commit
  <2> QED BY <1>10, <2>2, <2>3, Tables
<1>13. ASSUME NEW t \in Task, ExecuteDelete(t) PROVE TypeOK'
  <2>1. req[t] \in Request /\ stamp[t] \in Int
    BY DEF TypeOK
  <2> DEFINE T == SoftDelete(Store, req[t].key, stamp[t], Len(wal) + 1)
  <2>2. T \in SUBSET Row
    BY <2>1, RequestTypes, Tables, SoftDeleteType
  <2>3. Ok \in Answer /\ NotFound \in Answer
    BY DEF Answer
  <2> QED BY <1>10, <1>13, <2>2, <2>3 DEF ExecuteDelete
<1>14. ASSUME NEW t \in Task, Respond(t) PROVE TypeOK'
  BY <1>14 DEF TypeOK, Respond, ReleaseConn
<1>15. ASSUME NEW t \in Task, ExecuteFails(t) PROVE TypeOK'
  BY <1>15 DEF TypeOK, ExecuteFails, ReleaseConn, Answer
<1>16. CASE CleanupAcquires
  BY <1>16, Servers DEF TypeOK, CleanupAcquires, AcquireConn
<1>17. CASE CleanupSelects
  BY <1>17, Tables DEF TypeOK, CleanupSelects, Batches
<1>18. CASE CleanupDeletes
  <2>1. DeleteVersions(Store, victims) \in SUBSET Row
    BY Tables DEF DeleteVersions
  <2> QED BY <1>18, CommitType, <2>1 DEF TypeOK, CleanupDeletes
<1>19. CASE CleanupEnds
  BY <1>19 DEF TypeOK, CleanupEnds, ReleaseConn
<1>20. ASSUME NEW r \in Replica, Replay(r) PROVE TypeOK'
  BY <1>20, Tables DEF TypeOK, Replay
<1>21. ASSUME NEW s \in Server, Crash(s) PROVE TypeOK'
  BY <1>21 DEF TypeOK, Crash
<1>22. ASSUME NEW s \in Server, Restart(s) PROVE TypeOK'
  BY <1>22 DEF TypeOK, Restart
<1>23. CASE Tick
  BY <1>23 DEF TypeOK, Tick
<1>24. CASE UNCHANGED vars
  BY <1>24 DEF TypeOK, vars
<1> QED
  BY <1>1, <1>2, <1>3, <1>4, <1>5, <1>6, <1>7, <1>8, <1>9, <1>11, <1>12, <1>13,
     <1>14, <1>15, <1>16, <1>17, <1>18, <1>19, <1>20, <1>21, <1>22, <1>23, <1>24
  DEF Next, Arrive, Continue, CleanupPass

\* In every reachable state each variable has its type: no replica index
\* leaves the list of pools, and the wal only ever holds tables of rows.
THEOREM TypeCorrect == Spec => []TypeOK
<1> QED BY InitType, StepType, PTL DEF Spec

-----------------------------------------------------------------------------
(* Connections.  The invariant says who holds a connection, by where each   *)
(* task stands, and that no pool has lent more than it owns.               *)

HoldersExact == \A s \in Server : inUse[s] = Holders(s)

PoolsBounded == \A s \in Server : /\ IsFiniteSet(inUse[s])
                                  /\ Cardinality(inUse[s]) <= PoolMax(s)

LEMMA PoolMaxType == \A s \in Server : PoolMax(s) \in Nat
BY ConstantsAssumption DEF PoolMax

\* Taking a connection in a free slot keeps the pools within their sizes.
LEMMA AcquireBounded ==
  ASSUME TypeOK, PoolsBounded, NEW x, NEW s \in Server, AcquireConn(x, s)
  PROVE  PoolsBounded'
<1>1. /\ IsFiniteSet(inUse[s] \cup {x})
      /\ Cardinality(inUse[s] \cup {x}) <= Cardinality(inUse[s]) + 1
  <2>1. IsFiniteSet(inUse[s]) /\ Cardinality(inUse[s]) \in Nat
    BY FS_CardinalityType DEF PoolsBounded
  <2>2. /\ IsFiniteSet(inUse[s] \cup {x})
        /\ Cardinality(inUse[s] \cup {x}) =
             IF x \in inUse[s] THEN Cardinality(inUse[s]) ELSE Cardinality(inUse[s]) + 1
    BY <2>1, FS_AddElement
  <2> QED BY <2>1, <2>2
<1>2. Cardinality(inUse[s] \cup {x}) <= PoolMax(s)
  <2>1. Cardinality(inUse[s]) \in Nat /\ Cardinality(inUse[s] \cup {x}) \in Nat
    BY <1>1, FS_CardinalityType DEF PoolsBounded
  <2>2. Cardinality(inUse[s]) < PoolMax(s)
    BY DEF AcquireConn, FreeSlot
  <2> QED BY <1>1, <2>1, <2>2, PoolMaxType
<1> QED BY <1>1, <1>2 DEF PoolsBounded, AcquireConn, TypeOK

\* So does giving one back.
LEMMA ReleaseBounded ==
  ASSUME TypeOK, PoolsBounded, NEW x, NEW s \in Server, ReleaseConn(x, s)
  PROVE  PoolsBounded'
<1>1. /\ IsFiniteSet(inUse[s] \ {x})
      /\ Cardinality(inUse[s] \ {x}) <= Cardinality(inUse[s])
  BY FS_Subset, inUse[s] \ {x} \subseteq inUse[s] DEF PoolsBounded
<1>2. Cardinality(inUse[s] \ {x}) <= PoolMax(s)
  <2>1. Cardinality(inUse[s]) \in Nat /\ Cardinality(inUse[s] \ {x}) \in Nat
    BY <1>1, FS_CardinalityType DEF PoolsBounded
  <2>2. Cardinality(inUse[s]) <= PoolMax(s)
    BY DEF PoolsBounded
  <2> QED BY <1>1, <2>1, <2>2, PoolMaxType
<1> QED BY <1>1, <1>2 DEF PoolsBounded, ReleaseConn, TypeOK

ConnInv == TypeOK /\ HoldersExact /\ PoolsBounded

LEMMA InitConn == Init => HoldersExact /\ PoolsBounded
<1> SUFFICES ASSUME Init PROVE HoldersExact /\ PoolsBounded
  OBVIOUS
<1>1. HoldersExact
  BY DEF Init, HoldersExact, Holders
<1>2. PoolsBounded
  BY FS_EmptySet, PoolMaxType DEF Init, PoolsBounded
<1> QED BY <1>1, <1>2

\* Every step that takes or returns a connection moves its holder along.
LEMMA StepHolders == ConnInv /\ [Next]_vars => HoldersExact'
<1> SUFFICES ASSUME TypeOK, HoldersExact, [Next]_vars
             PROVE  HoldersExact'
  BY DEF ConnInv
<1> USE DEF serverVars, poolVars, requestVars, cleanupVars, HoldersExact, Holders, TypeOK
<1>0. Cleanup \notin Task
  BY ConstantsAssumption
<1>1. ASSUME NEW t \in Task, PutKey(t) PROVE HoldersExact'
  BY <1>1 DEF PutKey
<1>2. ASSUME NEW t \in Task, DeleteKey(t) PROVE HoldersExact'
  BY <1>2 DEF DeleteKey
<1>3. ASSUME NEW t \in Task, GetFromPrimary(t) PROVE HoldersExact'
  BY <1>3 DEF GetFromPrimary
<1>4. ASSUME NEW t \in Task, GetFromReplica(t) PROVE HoldersExact'
  BY <1>4 DEF GetFromReplica
<1>5. ASSUME NEW t \in Task, ProbeAcquire(t) PROVE HoldersExact'
  BY <1>5 DEF ProbeAcquire, AcquireConn
<1>6. ASSUME NEW t \in Task, ProbeSucceeds(t) PROVE HoldersExact'
  BY <1>0, <1>6 DEF ProbeSucceeds, ReleaseConn
<1>7. ASSUME NEW t \in Task, ProbeFails(t) PROVE HoldersExact'
  <2>1. \E p, d : /\ pool' = [pool EXCEPT ![t] = p]
                  /\ pc' = [pc EXCEPT ![t] = d]
                  /\ d \in {"probe", "acquire"}
    BY <1>7 DEF ProbeFails, TryNext
  <2>2. CASE pc[t] = "probe" /\ UNCHANGED poolVars
    BY <1>7, <2>1, <2>2 DEF ProbeFails
  <2>3. CASE pc[t] = "probing" /\ ReleaseConn(t, pool[t])
    BY <1>0, <1>7, <2>1, <2>3 DEF ProbeFails, ReleaseConn
  <2> QED BY <1>7, <2>2, <2>3 DEF ProbeFails
<1>8. ASSUME NEW t \in Task, Acquire(t) PROVE HoldersExact'
  BY <1>8 DEF Acquire, AcquireConn
<1>9. ASSUME NEW t \in Task, AcquireFails(t) PROVE HoldersExact'
  BY <1>9 DEF AcquireFails
<1>10. ASSUME NEW t \in Task, NEW a, Ran(t, a) PROVE HoldersExact'
  BY <1>10 DEF Ran
<1>11. ASSUME NEW t \in Task, Respond(t) PROVE HoldersExact'
  BY <1>0, <1>11 DEF Respond, ReleaseConn
<1>12. ASSUME NEW t \in Task, ExecuteFails(t) PROVE HoldersExact'
  BY <1>0, <1>12 DEF ExecuteFails, ReleaseConn
<1>13. CASE CleanupAcquires
  BY <1>0, <1>13, Servers DEF CleanupAcquires, AcquireConn
<1>14. CASE CleanupSelects
  BY <1>14 DEF CleanupSelects
<1>15. CASE CleanupDeletes
  BY <1>15 DEF CleanupDeletes
<1>16. CASE CleanupEnds
  BY <1>0, <1>16, Servers DEF CleanupEnds, ReleaseConn
<1>17. ASSUME NEW r \in Replica, Replay(r) PROVE HoldersExact'
  BY <1>17 DEF Replay
<1>18. ASSUME NEW s \in Server, Crash(s) PROVE HoldersExact'
  BY <1>18 DEF Crash
<1>19. ASSUME NEW s \in Server, Restart(s) PROVE HoldersExact'
  BY <1>19 DEF Restart
<1>20. CASE Tick
  BY <1>20 DEF Tick
<1>21. CASE UNCHANGED vars
  BY <1>21 DEF vars
<1> QED
  BY <1>1, <1>2, <1>3, <1>4, <1>5, <1>6, <1>7, <1>8, <1>9, <1>10, <1>11, <1>12,
     <1>13, <1>14, <1>15, <1>16, <1>17, <1>18, <1>19, <1>20, <1>21
  DEF Next, Arrive, Continue, CleanupPass, ExecutePut, ExecuteGet, ExecuteDelete

\* A step takes one connection in a free slot, returns one, or neither.
LEMMA StepBounded == ConnInv /\ [Next]_vars => PoolsBounded'
<1> SUFFICES ASSUME TypeOK, PoolsBounded, [Next]_vars
             PROVE  PoolsBounded'
  BY DEF ConnInv
<1> USE DEF serverVars, poolVars, requestVars, cleanupVars
<1>1. /\ Primary \in Server
      /\ \A t \in Task : pool[t] \in Server
  BY Servers DEF TypeOK
<1>2. \/ UNCHANGED inUse
      \/ \E s \in Server, x \in Task \cup {Cleanup} : AcquireConn(x, s) \/ ReleaseConn(x, s)
  <2>1. ASSUME NEW t \in Task, Arrive(t) PROVE UNCHANGED inUse
    BY <2>1 DEF Arrive, PutKey, DeleteKey, GetFromPrimary, GetFromReplica
  <2>2. ASSUME NEW t \in Task, Continue(t)
        PROVE  UNCHANGED inUse \/ AcquireConn(t, pool[t]) \/ ReleaseConn(t, pool[t])
    BY <2>2 DEF Continue, ProbeAcquire, ProbeSucceeds, ProbeFails, Acquire, AcquireFails,
                ExecutePut, ExecuteGet, ExecuteDelete, Ran, Respond, ExecuteFails
  <2>3. ASSUME CleanupPass
        PROVE  UNCHANGED inUse \/ AcquireConn(Cleanup, Primary)
                 \/ ReleaseConn(Cleanup, Primary)
    BY <2>3 DEF CleanupPass, CleanupAcquires, CleanupSelects, CleanupDeletes, CleanupEnds
  <2>4. ASSUME NEW s \in Server, \/ s \in Replica /\ Replay(s)
                                 \/ Crash(s) \/ Restart(s) \/ Tick
        PROVE  UNCHANGED inUse
    BY <2>4 DEF Replay, Crash, Restart, Tick
  <2> QED BY <1>1, <2>1, <2>2, <2>3, <2>4, Servers DEF Next, vars
<1>3. CASE UNCHANGED inUse
  BY <1>3 DEF PoolsBounded
<1> QED BY <1>2, <1>3, AcquireBounded, ReleaseBounded

LEMMA ConnInvariant == Spec => []ConnInv
<1>1. Init => ConnInv
  BY InitType, InitConn DEF ConnInv
<1>2. ConnInv /\ [Next]_vars => ConnInv'
  BY StepType, StepHolders, StepBounded DEF ConnInv
<1> QED BY <1>1, <1>2, PTL DEF Spec

\* No connection leaks, none is lent twice and no pool exceeds max_size, with
\* any number of requests and whatever crashes come between their awaits.
THEOREM ConnectionsCorrect == Spec => []ConnectionsAccounted
<1>1. ConnInv => ConnectionsAccounted
  BY DEF ConnInv, HoldersExact, PoolsBounded, ConnectionsAccounted
<1> QED BY <1>1, ConnInvariant, PTL

-----------------------------------------------------------------------------
(* Refinement of KVMap.  What the proof needs beyond types is that no time  *)
(* sampled before a statement runs is ahead of the clock, and that whatever *)
(* the clean-up is about to delete was dead when its pass began.            *)

StampsPast == \A t \in Task : req[t].op # "PUT" /\ pc[t] = "execute" => stamp[t] <= now

VictimsDoomed == cutoff <= now /\ \A row \in victims : Doomed(row, cutoff)

SampleInv == TypeOK /\ StampsPast /\ VictimsDoomed

LEMMA InitSample == Init => StampsPast /\ VictimsDoomed
BY ConstantsAssumption DEF Init, StampsPast, VictimsDoomed

LEMMA StepStamps == SampleInv /\ [Next]_vars => StampsPast'
<1> SUFFICES ASSUME TypeOK, StampsPast, [Next]_vars
             PROVE  StampsPast'
  BY DEF SampleInv
<1> USE DEF serverVars, poolVars, requestVars, cleanupVars, StampsPast, TypeOK
<1>1. ASSUME NEW t \in Task, Arrive(t) PROVE StampsPast'
  BY <1>1 DEF Arrive, PutKey, DeleteKey, GetFromPrimary, GetFromReplica
<1>2. ASSUME NEW t \in Task, Acquire(t) PROVE StampsPast'
  BY <1>2 DEF Acquire
<1>3. ASSUME NEW t \in Task, ProbeAcquire(t) \/ ProbeSucceeds(t) \/ AcquireFails(t)
                               \/ Respond(t) \/ ExecuteFails(t)
      PROVE  StampsPast'
  BY <1>3 DEF ProbeAcquire, ProbeSucceeds, AcquireFails, Respond, ExecuteFails
<1>4. ASSUME NEW t \in Task, ProbeFails(t) PROVE StampsPast'
  BY <1>4 DEF ProbeFails, TryNext
<1>5. ASSUME NEW t \in Task, NEW a, Ran(t, a) PROVE StampsPast'
  BY <1>5 DEF Ran
<1>6. CASE CleanupPass
  BY <1>6 DEF CleanupPass, CleanupAcquires, CleanupSelects, CleanupDeletes, CleanupEnds
<1>7. ASSUME NEW r \in Replica, Replay(r) PROVE StampsPast'
  BY <1>7 DEF Replay
<1>8. ASSUME NEW s \in Server, Crash(s) \/ Restart(s) PROVE StampsPast'
  BY <1>8 DEF Crash, Restart
<1>9. CASE Tick
  <2>1. now' = now + 1 /\ UNCHANGED <<req, pc, stamp>>
    BY <1>9 DEF Tick
  <2>2. \A t \in Task : stamp[t] <= now => stamp[t] <= now + 1
    OBVIOUS
  <2> QED BY <2>1, <2>2
<1>10. CASE UNCHANGED vars
  BY <1>10 DEF vars
<1> QED
  BY <1>1, <1>2, <1>3, <1>4, <1>5, <1>6, <1>7, <1>8, <1>9, <1>10
  DEF Next, Continue, ExecutePut, ExecuteGet, ExecuteDelete

\* What is dead at one time is dead at any later time.
LEMMA DoomedForever ==
  ASSUME NEW row \in Row, NEW c \in Int, NEW d \in Int, c <= d, Doomed(row, c)
  PROVE  Doomed(row, d) /\ ~Live(row, d)
BY DEF Doomed, Live, Row

LEMMA StepVictims == SampleInv /\ [Next]_vars => VictimsDoomed'
<1> SUFFICES ASSUME TypeOK, VictimsDoomed, [Next]_vars
             PROVE  VictimsDoomed'
  BY DEF SampleInv
<1> USE DEF serverVars, poolVars, requestVars, cleanupVars
<1>0. now \in Int /\ cutoff \in Int /\ victims \subseteq Row
  BY DEF TypeOK
<1>1. CASE CleanupAcquires
  <2>1. cutoff' = now /\ now' = now /\ victims' = victims
    BY <1>1 DEF CleanupAcquires
  <2>2. \A row \in victims : Doomed(row, now)
    BY <1>0, DoomedForever DEF VictimsDoomed
  <2> QED BY <1>0, <2>1, <2>2 DEF VictimsDoomed
<1>2. CASE CleanupSelects
  BY <1>2 DEF CleanupSelects, Batches, VictimsDoomed
<1>3. CASE CleanupEnds
  BY <1>3 DEF CleanupEnds, VictimsDoomed
<1>4. CASE Tick
  BY <1>0, <1>4 DEF Tick, VictimsDoomed
<1>5. CASE UNCHANGED <<now, cutoff, victims>>
  BY <1>5 DEF VictimsDoomed
<1>6. \/ CleanupAcquires \/ CleanupSelects \/ CleanupEnds \/ Tick
      \/ UNCHANGED <<now, cutoff, victims>>
  <2>1. ASSUME NEW t \in Task, Arrive(t) \/ Continue(t)
        PROVE  UNCHANGED <<now, cutoff, victims>>
    <3>1. CASE Arrive(t)
      BY <3>1 DEF Arrive, PutKey, DeleteKey, GetFromPrimary, GetFromReplica
    <3>2. CASE Continue(t)
      BY <3>2 DEF Continue, ProbeAcquire, ProbeSucceeds, ProbeFails, Acquire, AcquireFails,
                  ExecutePut, ExecuteGet, ExecuteDelete, Ran, Respond, ExecuteFails
    <3> QED BY <2>1, <3>1, <3>2
  <2>2. ASSUME NEW s \in Server, \/ s \in Replica /\ Replay(s)
                                 \/ Crash(s) \/ Restart(s)
        PROVE  UNCHANGED <<now, cutoff, victims>>
    BY <2>2 DEF Replay, Crash, Restart
  <2>3. ASSUME CleanupDeletes PROVE UNCHANGED <<now, cutoff, victims>>
    BY <2>3 DEF CleanupDeletes
  <2> QED BY <2>1, <2>2, <2>3, Servers DEF Next, CleanupPass, vars
<1> QED BY <1>1, <1>2, <1>3, <1>4, <1>5, <1>6

LEMMA SampleInvariant == Spec => []SampleInv
<1>1. Init => SampleInv
  BY InitType, InitSample DEF SampleInv
<1>2. SampleInv /\ [Next]_vars => SampleInv'
  BY StepType, StepStamps, StepVictims DEF SampleInv
<1> QED BY <1>1, <1>2, PTL DEF Spec

-----------------------------------------------------------------------------
(* What the statements do to the bindings a reader sees.                    *)

\* A row is visible exactly when its binding lives.
LEMMA BoundLives ==
  ASSUME NEW row \in Row, NEW c \in Int
  PROVE  /\ Live(row, c) <=> Promise!Lives(Bound(row), c)
         /\ Bound(row).key = row.key
BY DEF Live, Bound, Promise!Lives

LEMMA VisibleUpsert ==
  ASSUME NEW T \in SUBSET Row, NEW c \in Nat, NEW k \in Key, NEW v \in Value,
         NEW e \in Int, NEW id \in Nat
  PROVE  Visible(Upsert(T, k, v, e, id), c) =
           Promise!Unexpired(Promise!Without(Visible(T, c), k)
                               \cup {[key |-> k, value |-> v, until |-> e]}, c)
<1> DEFINE new == Version(k, v, e, id)
<1>1. new \in Row /\ Bound(new) = [key |-> k, value |-> v, until |-> e]
  BY DEF Version, Row, Bound
<1>2. ASSUME NEW b
      PROVE  b \in Visible(Upsert(T, k, v, e, id), c) <=>
               \/ \E row \in T : row.key # k /\ Live(row, c) /\ b = Bound(row)
               \/ Live(new, c) /\ b = Bound(new)
  BY DEF Visible, Upsert
<1>3. ASSUME NEW b
      PROVE  b \in Promise!Without(Visible(T, c), k) <=>
               \E row \in T : row.key # k /\ Live(row, c) /\ b = Bound(row)
  BY BoundLives DEF Visible, Promise!Without
<1>4. \A b \in Promise!Without(Visible(T, c), k) : Promise!Lives(b, c)
  BY <1>3, BoundLives
<1>5. Live(new, c) <=> Promise!Lives(Bound(new), c)
  BY <1>1, BoundLives
<1> HIDE DEF new
<1> QED BY <1>1, <1>2, <1>3, <1>4, <1>5 DEF Promise!Unexpired

LEMMA VisibleSoftDelete ==
  ASSUME NEW T \in SUBSET Row, NEW c \in Nat, NEW k \in Key,
         NEW s \in Int, s <= c, NEW id \in Nat
  PROVE  Visible(SoftDelete(T, k, s, id), c) = Promise!Without(Visible(T, c), k)
<1>1. \A row \in T : Live(row, c) => Live(row, s)
  BY DEF Live, Row
<1>2. \A row \in T : ~Live(Version(k, row.value, -1, id), c)
  BY DEF Live, Version
<1>3. ASSUME NEW b
      PROVE  b \in Visible(SoftDelete(T, k, s, id), c) <=>
               \E row \in T : row.key # k /\ Live(row, c) /\ b = Bound(row)
  <2>1. ASSUME NEW row \in T, row.key # k, Live(row, c), b = Bound(row)
        PROVE  b \in Visible(SoftDelete(T, k, s, id), c)
    BY <2>1 DEF Visible, SoftDelete
  <2>2. ASSUME b \in Visible(SoftDelete(T, k, s, id), c)
        PROVE  \E row \in T : row.key # k /\ Live(row, c) /\ b = Bound(row)
    <3>1. PICK r \in SoftDelete(T, k, s, id) : Live(r, c) /\ b = Bound(r)
      BY <2>2 DEF Visible
    <3>2. PICK row \in T : r = IF row.key = k /\ Live(row, s)
                                 THEN Version(k, row.value, -1, id) ELSE row
      BY <3>1 DEF SoftDelete
    <3>3. ~(row.key = k /\ Live(row, s)) /\ r = row
      BY <1>2, <3>1, <3>2
    <3> QED BY <1>1, <3>1, <3>3
  <2> QED BY <2>1, <2>2
<1>4. ASSUME NEW b
      PROVE  b \in Promise!Without(Visible(T, c), k) <=>
               \E row \in T : row.key # k /\ Live(row, c) /\ b = Bound(row)
  BY BoundLives DEF Visible, Promise!Without
<1>5. /\ \A b \in Visible(SoftDelete(T, k, s, id), c) : b \in Promise!Without(Visible(T, c), k)
      /\ \A b \in Promise!Without(Visible(T, c), k) : b \in Visible(SoftDelete(T, k, s, id), c)
  BY <1>3, <1>4
<1> QED BY <1>5

LEMMA VisibleDelete ==
  ASSUME NEW T \in SUBSET Row, NEW c \in Nat, NEW B \in SUBSET Row,
         \A row \in B : ~Live(row, c)
  PROVE  Visible(DeleteVersions(T, B), c) = Visible(T, c)
<1>1. {r \in DeleteVersions(T, B) : Live(r, c)} = {r \in T : Live(r, c)}
  BY DEF DeleteVersions
<1> QED BY <1>1 DEF Visible

LEMMA VisibleAdvance ==
  ASSUME NEW T \in SUBSET Row, NEW c \in Nat, NEW d \in Nat, c <= d
  PROVE  Visible(T, d) = Promise!Unexpired(Visible(T, c), d)
<1>1. \A row \in T : Live(row, d) => Live(row, c)
  BY DEF Live, Row
<1>2. ASSUME NEW b
      PROVE  b \in Visible(T, d) <=> \E row \in T : Live(row, d) /\ b = Bound(row)
  BY DEF Visible
<1>3. ASSUME NEW b
      PROVE  b \in Promise!Unexpired(Visible(T, c), d) <=>
               \E row \in T : Live(row, d) /\ b = Bound(row)
  BY <1>1, BoundLives DEF Visible, Promise!Unexpired
<1> QED BY <1>2, <1>3

-----------------------------------------------------------------------------
(* Every step is a step of KVMap or none.                                   *)

Leases == [t \in Task |-> IF req[t].op = "PUT" THEN stamp[t] ELSE 0]
Phases == [t \in Task |-> Phase(t)]

LEMMA InitRefines == Init => Promise!Init
<1> SUFFICES ASSUME Init PROVE Promise!Init
  OBVIOUS
<1>1. Visible(Store, now) = {}
  BY DEF Init, Visible, Store
<1>2. Phases = [t \in Task |-> "new"]
  BY DEF Init, Phase, Phases
<1>3. Leases \in [Task -> Int]
  BY DEF Init, Leases
<1>4. now \in Nat
  BY ConstantsAssumption DEF Init
<1> QED BY <1>1, <1>2, <1>3, <1>4 DEF Promise!Init, Phases, Leases

\* A step that leaves table, clock, phases and leases alone stutters.
LEMMA Stutter ==
  ASSUME UNCHANGED <<now, req, wal>>, Phases' = Phases, Leases' = Leases
  PROVE  UNCHANGED Promise!kvVars
<1>1. Visible(Store, now)' = Visible(Store, now)
  BY DEF Visible, Store
<1> QED BY <1>1 DEF Promise!kvVars, Phases, Leases

\* Where a task stands decides its phase.
LEMMA PhaseMoves ==
  ASSUME TypeOK, NEW t \in Task, NEW d, pc' = [pc EXCEPT ![t] = d],
         \A u \in Task : u # t => answer'[u] = answer[u]
  PROVE  /\ d \in {"probe", "probing", "acquire", "execute"} =>
              Phases' = [Phases EXCEPT ![t] = "open"]
         /\ d = "reply" => Phases' = [Phases EXCEPT ![t] = "performed"]
         /\ d = "done" => Phases' = [Phases EXCEPT ![t] =
              IF answer'[t] = ServerError THEN "failed" ELSE "settled"]
<1>1. \A u \in Task : u # t => Phase(u)' = Phase(u)
  BY DEF Phase, TypeOK
<1>2. /\ d \in {"probe", "probing", "acquire", "execute"} => Phase(t)' = "open"
      /\ d = "reply" => Phase(t)' = "performed"
      /\ d = "done" => Phase(t)' = IF answer'[t] = ServerError THEN "failed" ELSE "settled"
  BY DEF Phase, TypeOK
<1>3. ASSUME NEW p, Phase(t)' = p PROVE Phases' = [Phases EXCEPT ![t] = p]
  BY <1>1, <1>3 DEF Phases
<1> QED BY <1>2, <1>3

\* The phase of a task that stays in the same phase is not moved.
LEMMA PhaseStays ==
  ASSUME NEW t \in Task, NEW p, Phase(t) = p, Phases' = [Phases EXCEPT ![t] = p]
  PROVE  Phases' = Phases
BY DEF Phases

\* An arriving request is submitted, with the deadline put_key computes.
LEMMA ArriveRefines ==
  ASSUME TypeOK, NEW t \in Task, Arrive(t)
  PROVE  Promise!Submit(t)
<1> USE DEF serverVars, poolVars, cleanupVars
<1>1. /\ pc[t] = "new"
      /\ UNCHANGED <<now, req, wal, answer>>
      /\ \E d \in {"probe", "acquire"} : pc' = [pc EXCEPT ![t] = d]
  BY DEF Arrive, PutKey, DeleteKey, GetFromPrimary, GetFromReplica
<1>2. Phases[t] = "new" /\ Phases' = [Phases EXCEPT ![t] = "open"]
  BY <1>1, PhaseMoves DEF Phases, Phase
<1>3. Visible(Store, now)' = Visible(Store, now)
  BY <1>1 DEF Visible, Store
<1>4. /\ \A u \in Task : u # t => stamp'[u] = stamp[u]
      /\ req[t].op # "PUT" => stamp' = stamp
  BY DEF Arrive, PutKey, DeleteKey, GetFromPrimary, GetFromReplica, TypeOK
<1>5. req[t].op = "PUT" => stamp'[t] \in Int
  <2>1. SUFFICES ASSUME req[t].op = "PUT" PROVE stamp'[t] \in Int
    OBVIOUS
  <2>2. stamp'[t] = IF req[t].ttl \in {NoTTL, 0} THEN 0 ELSE now + req[t].ttl
    BY <2>1 DEF Arrive, PutKey, DeleteKey, GetFromPrimary, GetFromReplica, TypeOK
  <2>3. req[t].ttl \in TTL
    BY <2>1, RequestTypes DEF TypeOK
  <2>4. req[t].ttl \notin {NoTTL, 0} => req[t].ttl \in Int
    BY <2>3, ConstantsAssumption
  <2>5. now \in Int
    BY DEF TypeOK
  <2> QED BY <2>2, <2>4, <2>5
<1>6. Leases'[t] \in Int /\ Leases' = [Leases EXCEPT ![t] = Leases'[t]]
  <2>1. Leases' = [u \in Task |-> IF req[u].op = "PUT" THEN stamp'[u] ELSE 0]
    BY <1>1 DEF Leases
  <2>2. Leases'[t] = IF req[t].op = "PUT" THEN stamp'[t] ELSE 0
    BY <2>1
  <2>3. \A u \in Task : u # t => Leases'[u] = Leases[u]
    BY <1>4, <2>1 DEF Leases
  <2>4. Leases' = [Leases EXCEPT ![t] = Leases'[t]]
    BY <2>1, <2>3 DEF Leases
  <2> QED BY <1>5, <2>2, <2>4
<1> QED BY <1>1, <1>2, <1>3, <1>6 DEF Promise!Submit, Phases, Leases

\* Up to the statement nothing has happened yet, as seen by the clients.
LEMMA WaitRefines ==
  ASSUME TypeOK, NEW t \in Task,
         ProbeAcquire(t) \/ ProbeSucceeds(t) \/ ProbeFails(t) \/ Acquire(t)
  PROVE  UNCHANGED Promise!kvVars
<1> USE DEF serverVars, poolVars, cleanupVars
<1>1. UNCHANGED <<now, req, wal, answer>>
  BY DEF ProbeAcquire, ProbeSucceeds, ProbeFails, Acquire
<1>2. pc[t] \in {"probe", "probing", "acquire"}
  BY DEF ProbeAcquire, ProbeSucceeds, ProbeFails, Acquire
<1>3. \E d \in {"probe", "probing", "acquire", "execute"} : pc' = [pc EXCEPT ![t] = d]
  BY DEF ProbeAcquire, ProbeSucceeds, ProbeFails, TryNext, Acquire
<1>4. Phase(t) = "open"
  BY <1>2 DEF Phase
<1>5. Phases' = [Phases EXCEPT ![t] = "open"]
  BY <1>1, <1>3, PhaseMoves
<1>6. Phases' = Phases
  BY <1>4, <1>5, PhaseStays
<1>7. \A u \in Task : req[u].op = "PUT" => stamp'[u] = stamp[u]
  BY DEF ProbeAcquire, ProbeSucceeds, ProbeFails, Acquire, TypeOK
<1>8. Leases' = Leases
  BY <1>1, <1>7 DEF Leases
<1> QED BY <1>1, <1>6, <1>8, Stutter

\* A request ends settled or failed, the bindings as they are.
LEMMA EndRefines ==
  ASSUME TypeOK, NEW t \in Task, AcquireFails(t) \/ Respond(t) \/ ExecuteFails(t)
  PROVE  Promise!Settle(t) \/ Promise!Fail(t)
<1> USE DEF serverVars, poolVars, cleanupVars
<1>1. UNCHANGED <<now, req, wal, stamp>> /\ pc' = [pc EXCEPT ![t] = "done"]
  BY DEF AcquireFails, Respond, ExecuteFails
<1>2. \A u \in Task : u # t => answer'[u] = answer[u]
  BY DEF AcquireFails, Respond, ExecuteFails, TypeOK
<1>3. Phases[t] \in {"open", "performed"} /\ (Respond(t) => Phases[t] = "performed")
  BY DEF AcquireFails, Respond, ExecuteFails, Phases, Phase
<1>4. Phases' = [Phases EXCEPT ![t] =
                   IF answer'[t] = ServerError THEN "failed" ELSE "settled"]
  BY <1>1, <1>2, PhaseMoves
<1>5. AcquireFails(t) \/ ExecuteFails(t) => answer'[t] = ServerError
  BY DEF AcquireFails, ExecuteFails, TypeOK
<1>6. Visible(Store, now)' = Visible(Store, now) /\ Leases' = Leases
  BY <1>1 DEF Visible, Store, Leases
<1>7. CASE answer'[t] = ServerError
  BY <1>1, <1>3, <1>4, <1>6, <1>7 DEF Promise!Fail, Phases, Leases
<1>8. CASE answer'[t] # ServerError
  BY <1>1, <1>3, <1>4, <1>5, <1>6, <1>8 DEF Promise!Settle, Phases, Leases
<1> QED BY <1>7, <1>8

\* The statement performs the request on the bindings a reader sees.
LEMMA ExecuteRefines ==
  ASSUME SampleInv, NEW t \in Task,
         ExecutePut(t) \/ ExecuteGet(t) \/ ExecuteDelete(t)
  PROVE  Promise!Perform(t)
<1> USE DEF serverVars, poolVars, cleanupVars
<1>0. TypeOK /\ now \in Nat /\ Store \in SUBSET Row /\ Len(wal) + 1 \in Nat
      /\ wal \in Seq(SUBSET Row) /\ wal # <<>>
  BY Tables DEF SampleInv, TypeOK
<1>1. PICK a : Ran(t, a)
  BY DEF ExecutePut, ExecuteGet, ExecuteDelete
<1>2. UNCHANGED <<now, req, stamp>> /\ pc[t] = "execute"
      /\ pc' = [pc EXCEPT ![t] = "reply"]
  BY <1>1 DEF Ran
<1>3. \A u \in Task : u # t => answer'[u] = answer[u]
  BY <1>0, <1>1 DEF Ran, TypeOK
<1>4. Phases[t] = "open" /\ Phases' = [Phases EXCEPT ![t] = "performed"]
  BY <1>0, <1>2, <1>3, PhaseMoves DEF Phases, Phase
<1>5. Leases' = Leases
  BY <1>2 DEF Leases
<1>6. req[t].key \in Key /\ stamp[t] \in Int
      /\ (req[t].op = "PUT" => req[t].value \in Value)
  BY <1>0, RequestTypes DEF TypeOK
<1> DEFINE M == Visible(Store, now)
<1>7. CASE ExecutePut(t)
  <2> DEFINE T == Upsert(Store, req[t].key, req[t].value, stamp[t], Len(wal) + 1)
  <2>1. req[t].op = "PUT" /\ Commit(T)
    BY <1>7 DEF ExecutePut
  <2>2. T \in SUBSET Row
    BY <1>0, <1>6, <2>1, UpsertType
  <2>3. Store' = T
    BY <1>0, <2>1, <2>2, CommitStore
  <2>4. Visible(T, now) = Promise!Unexpired(Promise!Without(M, req[t].key)
          \cup {[key |-> req[t].key, value |-> req[t].value, until |-> stamp[t]]}, now)
    BY <1>0, <1>6, <2>1, VisibleUpsert
  <2>5. Visible(Store, now)' = Visible(T, now)
    BY <1>2, <2>3 DEF Visible
  <2>6. Leases[t] = stamp[t]
    BY <2>1 DEF Leases
  <2>7. Promise!Effect(t)
    BY <2>1, <2>4, <2>5, <2>6 DEF Promise!Effect, Promise!Binding, Leases
  <2> QED BY <1>2, <1>4, <1>5, <2>7 DEF Promise!Perform, Phases, Leases
<1>8. CASE ExecuteGet(t)
  <2>1. req[t].op = "GET" /\ Visible(Store, now)' = M
    BY <1>2, <1>8 DEF ExecuteGet, Visible, Store
  <2>2. Promise!Effect(t)
    BY <2>1 DEF Promise!Effect
  <2> QED BY <1>2, <1>4, <1>5, <2>2 DEF Promise!Perform, Phases, Leases
<1>9. CASE ExecuteDelete(t)
  <2> DEFINE T == SoftDelete(Store, req[t].key, stamp[t], Len(wal) + 1)
  <2>1. req[t].op = "DELETE" /\ Commit(T)
    BY <1>9 DEF ExecuteDelete
  <2>2. T \in SUBSET Row
    BY <1>0, <1>6, SoftDeleteType
  <2>3. Store' = T
    BY <1>0, <2>1, <2>2, CommitStore
  <2>4. stamp[t] <= now
    BY <1>2, <2>1 DEF SampleInv, StampsPast
  <2>5. Visible(T, now) = Promise!Without(M, req[t].key)
    BY <1>0, <1>6, <2>4, VisibleSoftDelete
  <2>6. Visible(Store, now)' = Visible(T, now)
    BY <1>2, <2>3 DEF Visible
  <2>7. Promise!Effect(t)
    BY <2>1, <2>5, <2>6 DEF Promise!Effect
  <2> QED BY <1>2, <1>4, <1>5, <2>7 DEF Promise!Perform, Phases, Leases
<1> QED BY <1>7, <1>8, <1>9

\* Clean-up is invisible: it deletes row versions that were dead when it
\* sampled the clock, and a renewed row is another version.
LEMMA CleanupRefines ==
  ASSUME SampleInv, CleanupPass
  PROVE  UNCHANGED Promise!kvVars
<1> USE DEF serverVars, poolVars, requestVars
<1>0. TypeOK /\ now \in Nat /\ Store \in SUBSET Row
      /\ wal \in Seq(SUBSET Row) /\ wal # <<>>
  BY Tables DEF SampleInv, TypeOK
<1>1. UNCHANGED <<now, req, pc, stamp, answer>>
  BY DEF CleanupPass, CleanupAcquires, CleanupSelects, CleanupDeletes, CleanupEnds
<1>2. Phases' = Phases /\ Leases' = Leases
  BY <1>1 DEF Phases, Phase, Leases
<1>3. CASE CleanupDeletes
  <2>1. DeleteVersions(Store, victims) \in SUBSET Row
    BY <1>0 DEF DeleteVersions
  <2>2. Store' = DeleteVersions(Store, victims)
    BY <1>0, <1>3, <2>1, CommitStore DEF CleanupDeletes
  <2>3. victims \in SUBSET Row /\ \A row \in victims : ~Live(row, now)
    BY <1>0, DoomedForever DEF SampleInv, VictimsDoomed, TypeOK
  <2>4. Visible(DeleteVersions(Store, victims), now) = Visible(Store, now)
    BY <1>0, <2>3, VisibleDelete
  <2>5. Visible(Store, now)' = Visible(Store, now)
    BY <1>1, <2>2, <2>4 DEF Visible
  <2> QED BY <1>1, <1>2, <2>5 DEF Promise!kvVars, Phases, Leases
<1>4. CASE ~CleanupDeletes
  <2>1. UNCHANGED wal
    BY <1>4 DEF CleanupPass, CleanupAcquires, CleanupSelects, CleanupEnds
  <2> QED BY <1>1, <1>2, <2>1, Stutter
<1> QED BY <1>3, <1>4

LEMMA StepRefines == SampleInv /\ [Next]_vars => [Promise!Next]_(Promise!kvVars)
<1> SUFFICES ASSUME SampleInv, [Next]_vars
             PROVE  [Promise!Next]_(Promise!kvVars)
  OBVIOUS
<1>0. TypeOK
  BY DEF SampleInv
<1>1. ASSUME NEW t \in Task, Arrive(t) PROVE Promise!Next
  BY <1>0, <1>1, ArriveRefines DEF Promise!Next
<1>2. ASSUME NEW t \in Task, Continue(t) PROVE [Promise!Next]_(Promise!kvVars)
  <2>1. CASE ProbeAcquire(t) \/ ProbeSucceeds(t) \/ ProbeFails(t) \/ Acquire(t)
    BY <1>0, <2>1, WaitRefines
  <2>2. CASE AcquireFails(t) \/ Respond(t) \/ ExecuteFails(t)
    BY <1>0, <2>2, EndRefines DEF Promise!Next
  <2>3. CASE ExecutePut(t) \/ ExecuteGet(t) \/ ExecuteDelete(t)
    BY <2>3, ExecuteRefines DEF Promise!Next
  <2> QED BY <1>2, <2>1, <2>2, <2>3 DEF Continue
<1>3. ASSUME CleanupPass PROVE UNCHANGED Promise!kvVars
  BY <1>3, CleanupRefines
<1>4. ASSUME NEW s \in Server, \/ s \in Replica /\ Replay(s)
                               \/ Crash(s) \/ Restart(s)
      PROVE  UNCHANGED Promise!kvVars
  <2>1. UNCHANGED <<now, req, wal, pc, stamp, answer>>
    BY <1>4 DEF Replay, Crash, Restart, requestVars
  <2>2. Phases' = Phases /\ Leases' = Leases
    BY <2>1 DEF Phases, Phase, Leases
  <2> QED BY <2>1, <2>2, Stutter
<1>5. ASSUME Tick PROVE Promise!Advance
  <2>1. now \in Nat /\ now' = now + 1 /\ now' \in Nat /\ now' > now
    BY <1>0, <1>5 DEF Tick, TypeOK
  <2>2. UNCHANGED <<wal, req, pc, stamp, answer>>
    BY <1>5 DEF Tick, serverVars, requestVars
  <2>3. Phases' = Phases /\ Leases' = Leases
    BY <2>2 DEF Phases, Phase, Leases
  <2>4. Visible(Store, now') = Promise!Unexpired(Visible(Store, now), now')
    BY <1>0, <2>1, Tables, VisibleAdvance
  <2>5. Visible(Store, now)' = Visible(Store, now')
    BY <2>2 DEF Visible, Store
  <2> QED BY <2>1, <2>2, <2>3, <2>4, <2>5 DEF Promise!Advance, Phases, Leases
<1>6. ASSUME UNCHANGED vars PROVE UNCHANGED Promise!kvVars
  <2>1. UNCHANGED <<now, req, wal, pc, stamp, answer>>
    BY <1>6 DEF vars, serverVars, requestVars
  <2>2. Phases' = Phases /\ Leases' = Leases
    BY <2>1 DEF Phases, Phase, Leases
  <2> QED BY <2>1, <2>2, Stutter
<1>7. \/ \E t \in Task : Arrive(t) \/ Continue(t)
      \/ CleanupPass \/ Tick \/ UNCHANGED vars
      \/ \E s \in Server : (s \in Replica /\ Replay(s)) \/ Crash(s) \/ Restart(s)
  BY Servers DEF Next
<1>8. Tick => Promise!Next
  BY <1>5 DEF Promise!Next
<1> QED BY <1>1, <1>2, <1>3, <1>4, <1>6, <1>7, <1>8

\* The service with its pools, replicas, crashes and clean-up behaves as the
\* map of KVMap does, for every workload: each request takes effect at most
\* once between its arrival and its answer, and no visible binding is lost.
THEOREM Refinement == Spec => ImplementsKVMap
<1> QED BY InitRefines, StepRefines, SampleInvariant, PTL
        DEF Spec, ImplementsKVMap, Promise!Spec

-----------------------------------------------------------------------------
(* The answers: what a request is held to was sampled at its arrival, and   *)
(* the history of the database and the clock only grow.                     *)

Grows ==
  /\ Len(wal) \in Nat /\ Len(wal') \in Nat /\ Len(wal) <= Len(wal')
  /\ \A i \in 1 .. Len(wal) : wal'[i] = wal[i]
  /\ now \in Int /\ now' \in Int /\ now <= now'
  /\ \A r \in Replica : applied[r] \in Nat /\ applied'[r] \in Nat /\ applied[r] <= applied'[r]
  /\ crashes \in Nat /\ crashes' \in Nat /\ crashes <= crashes'

Rests(t) == /\ req'[t] = req[t] /\ pc'[t] = pc[t] /\ pool'[t] = pool[t]
            /\ stamp'[t] = stamp[t] /\ answer'[t] = answer[t] /\ began'[t] = began[t]
            /\ tries'[t] = tries[t]

\* A commit leaves the earlier states alone.
LEMMA CommitGrows ==
  ASSUME TypeOK, NEW T \in SUBSET Row, Commit(T)
  PROVE  /\ Len(wal) \in Nat /\ Len(wal') \in Nat /\ Len(wal) <= Len(wal')
         /\ \A i \in 1 .. Len(wal) : wal'[i] = wal[i]
<1>1. wal \in Seq(SUBSET Row) /\ Len(wal) \in Nat
  BY DEF TypeOK
<1>2. CASE T = Store
  BY <1>1, <1>2 DEF Commit
<1>3. CASE T # Store
  <2>1. wal' = Append(wal, T)
    BY <1>3 DEF Commit
  <2> QED BY <1>1, <2>1
<1> QED BY <1>2, <1>3

\* A statement that commits commits a table.
LEMMA StatementTables ==
  ASSUME TypeOK, NEW t \in Task
  PROVE  /\ stamp[t] \in Bigint /\ req[t].op = "PUT" =>
              Upsert(Store, req[t].key, req[t].value, stamp[t], Len(wal) + 1) \in SUBSET Row
         /\ SoftDelete(Store, req[t].key, stamp[t], Len(wal) + 1) \in SUBSET Row
         /\ DeleteVersions(Store, victims) \in SUBSET Row
<1>1. /\ req[t] \in Request /\ stamp[t] \in Int /\ Len(wal) + 1 \in Nat
      /\ Store \in SUBSET Row
  BY Tables DEF TypeOK
<1>2. DeleteVersions(Store, victims) \in SUBSET Row
  BY <1>1 DEF DeleteVersions
<1> QED BY <1>1, <1>2, RequestTypes, UpsertType, SoftDeleteType

LEMMA StepGrows == TypeOK /\ TypeOK' /\ [Next]_vars => Grows
<1> SUFFICES ASSUME TypeOK, TypeOK', [Next]_vars PROVE Grows
  OBVIOUS
<1> USE DEF serverVars, poolVars, requestVars, cleanupVars
<1>0. /\ Len(wal) \in Nat /\ Len(wal') \in Nat /\ now \in Int /\ now' \in Int
      /\ crashes \in Nat /\ crashes' \in Nat
      /\ \A r \in Replica : applied[r] \in Nat /\ applied'[r] \in Nat
  BY DEF TypeOK
<1>1. CASE UNCHANGED <<now, serverVars>>
  BY <1>0, <1>1 DEF Grows
<1>2. ASSUME NEW T \in SUBSET Row, Commit(T), UNCHANGED <<now, applied, crashes>>
      PROVE  Grows
  BY <1>0, <1>2, CommitGrows DEF Grows
<1>3. ASSUME NEW t \in Task, Arrive(t) PROVE UNCHANGED <<now, serverVars>>
  BY <1>3 DEF Arrive, PutKey, DeleteKey, GetFromPrimary, GetFromReplica
<1>4. ASSUME NEW t \in Task, Continue(t) PROVE Grows
  <2>1. CASE ExecutePut(t)
    BY <1>2, <2>1, StatementTables DEF ExecutePut, Ran
  <2>2. CASE ExecuteDelete(t)
    BY <1>2, <2>2, StatementTables DEF ExecuteDelete, Ran
  <2>3. CASE \/ ProbeAcquire(t) \/ ProbeSucceeds(t) \/ ProbeFails(t)
             \/ Acquire(t) \/ AcquireFails(t) \/ ExecuteGet(t)
             \/ Respond(t) \/ ExecuteFails(t)
    <3>1. UNCHANGED <<now, serverVars>>
      BY <2>3 DEF ProbeAcquire, ProbeSucceeds, ProbeFails, Acquire, AcquireFails,
                  ExecuteGet, Ran, Respond, ExecuteFails
    <3> QED BY <1>1, <3>1
  <2> QED BY <1>4, <2>1, <2>2, <2>3 DEF Continue
<1>5. CASE CleanupPass
  <2>1. CASE CleanupDeletes
    <3>1. DeleteVersions(Store, victims) \in SUBSET Row
      BY Tables DEF DeleteVersions
    <3> QED BY <1>2, <2>1, <3>1 DEF CleanupDeletes
  <2>2. CASE CleanupAcquires \/ CleanupSelects \/ CleanupEnds
    <3>1. UNCHANGED <<now, serverVars>>
      BY <2>2 DEF CleanupAcquires, CleanupSelects, CleanupEnds
    <3> QED BY <1>1, <3>1
  <2> QED BY <1>5, <2>1, <2>2 DEF CleanupPass
<1>6. ASSUME NEW r \in Replica, Replay(r) PROVE Grows
  <2>1. /\ applied' = [applied EXCEPT ![r] = @ + 1] /\ UNCHANGED <<now, wal, crashes>>
    BY <1>6 DEF Replay
  <2>2. \A q \in Replica : applied[q] <= applied'[q]
    BY <1>0, <2>1 DEF TypeOK
  <2> QED BY <1>0, <2>1, <2>2 DEF Grows
<1>7. ASSUME NEW s \in Server, Crash(s) \/ Restart(s) PROVE Grows
  BY <1>0, <1>7 DEF Crash, Restart, Grows
<1>8. CASE Tick
  BY <1>0, <1>8 DEF Tick, Grows
<1>9. CASE UNCHANGED vars
  BY <1>1, <1>9 DEF vars
<1> QED BY <1>1, <1>3, <1>4, <1>5, <1>6, <1>7, <1>8, <1>9 DEF Next

\* A step moves at most one request.
LEMMA OneMoves ==
  ASSUME TypeOK, [Next]_vars
  PROVE  \/ \A t \in Task : Rests(t)
         \/ \E t \in Task : /\ Arrive(t) \/ Continue(t)
                            /\ \A u \in Task \ {t} : Rests(u)
<1> USE DEF serverVars, poolVars, requestVars, cleanupVars
<1>1. ASSUME NEW t \in Task, Arrive(t) PROVE \A u \in Task \ {t} : Rests(u)
  BY <1>1 DEF Arrive, PutKey, DeleteKey, GetFromPrimary, GetFromReplica, Rests, TypeOK
<1>2. ASSUME NEW t \in Task, Continue(t) PROVE \A u \in Task \ {t} : Rests(u)
  BY <1>2 DEF Continue, ProbeAcquire, ProbeSucceeds, ProbeFails, TryNext, Acquire,
              AcquireFails, ExecutePut, ExecuteGet, ExecuteDelete, Ran, Respond,
              ExecuteFails, Rests, TypeOK
<1>3. CASE UNCHANGED requestVars
  BY <1>3 DEF Rests
<1>4. CASE CleanupPass \/ Tick \/ UNCHANGED vars
  BY <1>3, <1>4 DEF CleanupPass, CleanupAcquires, CleanupSelects, CleanupDeletes,
                    CleanupEnds, Tick, vars
<1>5. CASE \/ \E r \in Replica : Replay(r)
           \/ \E s \in Server : Crash(s) \/ Restart(s)
  BY <1>3, <1>5 DEF Replay, Crash, Restart
<1> QED BY <1>1, <1>2, <1>4, <1>5 DEF Next

Oldest(t) == IF pool[t] = Primary THEN began[t].lsn ELSE began[t].seen[pool[t]]

\* The answer of t is the one that table T gives at time c.
Explains(t, T, c) ==
  IF req[t].op = "GET" THEN Reads(answer[t], T, req[t].key, c)
                       ELSE (answer[t] = Ok) = Hit(T, req[t].key, c)

WindowInv(t) ==
  /\ began[t].lsn \in 1 .. Len(wal)
  /\ \A r \in Replica : began[t].seen[r] \in 1 .. applied[r]
  /\ began[t].time \in Int /\ began[t].time <= now

AnswerInv(t) ==
  /\ pool[t] # Primary => req[t].op = "GET"
  /\ req[t].op # "PUT" /\ pc[t] = "execute" => began[t].time <= stamp[t]
  /\ req[t].op # "PUT" /\ pc[t] \in {"reply", "done"} /\ answer[t] # ServerError =>
       \E i \in Oldest(t) .. Len(wal), c \in began[t].time .. now :
         Explains(t, wal[i], c)

HistoryInv == SampleInv /\ \A t \in Task : WindowInv(t) /\ AnswerInv(t)

LEMMA OldestInWal ==
  ASSUME TypeOK, NEW t \in Task, WindowInv(t)
  PROVE  /\ Oldest(t) \in 1 .. Len(wal) /\ Len(wal) \in Nat
         /\ pool[t] # Primary => /\ pool[t] \in Replica
                                /\ Oldest(t) <= applied[pool[t]]
                                /\ applied[pool[t]] \in 1 .. Len(wal)
<1>1. /\ pool[t] \in Server /\ Len(wal) \in Nat
      /\ \A r \in Replica : applied[r] \in Nat /\ applied[r] \in 1 .. Len(wal)
  BY Tables DEF TypeOK
<1>2. pool[t] # Primary => pool[t] \in Replica
  BY <1>1 DEF Server
<1> QED BY <1>1, <1>2 DEF Oldest, WindowInv

\* What has been answered stays true: states are only added behind it.
LEMMA RestKeeps ==
  ASSUME TypeOK, Grows, NEW t \in Task, WindowInv(t), AnswerInv(t), Rests(t)
  PROVE  WindowInv(t)' /\ AnswerInv(t)'
<1>1. WindowInv(t)'
  <2>1. began'[t] = began[t]
    BY DEF Rests
  <2>2. began[t].lsn \in 1 .. Len(wal')
    BY DEF WindowInv, Grows
  <2>3. \A r \in Replica : began[t].seen[r] \in 1 .. applied'[r]
    BY DEF WindowInv, Grows
  <2>4. began[t].time \in Int /\ began[t].time <= now'
    BY DEF WindowInv, Grows
  <2> QED BY <2>1, <2>2, <2>3, <2>4 DEF WindowInv
<1>2. Oldest(t)' = Oldest(t)
  BY DEF Oldest, Rests
<1>3. /\ Oldest(t) \in 1 .. Len(wal) /\ Len(wal) \in Nat /\ Len(wal') \in Nat
      /\ Len(wal) <= Len(wal') /\ \A i \in 1 .. Len(wal) : wal'[i] = wal[i]
  BY OldestInWal DEF Grows
<1>4. ASSUME NEW i \in Oldest(t) .. Len(wal), NEW c \in began[t].time .. now,
             Explains(t, wal[i], c)
      PROVE  /\ i \in Oldest(t)' .. Len(wal') /\ c \in began'[t].time .. now'
             /\ Explains(t, wal[i], c)'
  <2>1. i \in 1 .. Len(wal) /\ i \in Oldest(t)' .. Len(wal')
    BY <1>2, <1>3
  <2>2. c \in began'[t].time .. now'
    BY DEF Grows, Rests, WindowInv
  <2>3. wal'[i] = wal[i]
    BY <1>3, <2>1
  <2> QED BY <1>4, <2>1, <2>2, <2>3 DEF Explains, Rests
<1>5. AnswerInv(t)'
  <2>1. (pool[t] # Primary => req[t].op = "GET")'
    BY DEF AnswerInv, Rests
  <2>2. (req[t].op # "PUT" /\ pc[t] = "execute" => began[t].time <= stamp[t])'
    BY DEF AnswerInv, Rests
  <2>3. ASSUME (req[t].op # "PUT" /\ pc[t] \in {"reply", "done"} /\ answer[t] # ServerError)'
        PROVE  (\E i \in Oldest(t) .. Len(wal), c \in began[t].time .. now :
                  Explains(t, wal[i], c))'
    <3>1. PICK i \in Oldest(t) .. Len(wal), c \in began[t].time .. now :
            Explains(t, wal[i], c)
      BY <2>3 DEF AnswerInv, Rests
    <3> QED BY <1>4, <3>1
  <2> QED BY <2>1, <2>2, <2>3 DEF AnswerInv
<1> QED BY <1>1, <1>5

\* An arrival takes its snapshot of the world as it is.
LEMMA ArriveKeeps ==
  ASSUME TypeOK, NEW t \in Task, Arrive(t)
  PROVE  WindowInv(t)' /\ AnswerInv(t)'
<1> USE DEF serverVars, poolVars, requestVars, cleanupVars
<1>1. /\ began'[t] = World /\ pc'[t] \in {"acquire", "probe"}
      /\ pool'[t] # Primary => req'[t].op = "GET"
      /\ UNCHANGED <<now, wal, applied>>
  BY DEF Arrive, PutKey, DeleteKey, GetFromPrimary, GetFromReplica, TypeOK
<1>2. Len(wal) \in 1 .. Len(wal) /\ now \in Int
  BY Tables DEF TypeOK
<1>3. \A r \in Replica : applied[r] \in 1 .. applied[r]
  BY DEF TypeOK
<1>4. WindowInv(t)'
  BY <1>1, <1>2, <1>3 DEF WindowInv, World
<1> QED BY <1>1, <1>4 DEF AnswerInv

\* The statement sees a state of its window at a time of its window.
LEMMA ExecuteKeeps ==
  ASSUME TypeOK, StampsPast, Grows, NEW t \in Task, WindowInv(t), AnswerInv(t),
         ExecutePut(t) \/ ExecuteGet(t) \/ ExecuteDelete(t)
  PROVE  AnswerInv(t)'
<1> USE DEF serverVars, poolVars, requestVars, cleanupVars
<1>1. /\ pc[t] = "execute" /\ pc'[t] = "reply"
      /\ UNCHANGED <<req, pool, stamp, began, now, applied>>
  BY DEF ExecutePut, ExecuteGet, ExecuteDelete, Ran, TypeOK
<1>2. CASE req[t].op = "PUT"
  BY <1>1, <1>2 DEF AnswerInv
<1>3. CASE req[t].op # "PUT"
  <2> DEFINE n == IF pool[t] = Primary THEN Len(wal) ELSE applied[pool[t]]
  <2>1. wal[n] = View(pool[t])
    BY DEF View, Store
  <2>2. /\ n \in Oldest(t) .. Len(wal) /\ n \in 1 .. Len(wal)
        /\ Len(wal) \in Nat
    BY OldestInWal DEF Oldest
  <2>3. stamp[t] \in began[t].time .. now
    BY <1>1, <1>3 DEF AnswerInv, StampsPast, WindowInv, TypeOK
  <2>4. /\ n \in Oldest(t)' .. Len(wal') /\ stamp[t] \in began'[t].time .. now'
        /\ wal'[n] = View(pool[t])
    BY <1>1, <2>1, <2>2, <2>3 DEF Oldest, Grows
  <2>5. CASE ExecuteGet(t)
    <3>1. \/ ~Hit(View(pool[t]), req[t].key, stamp[t]) /\ answer'[t] = NotFound
          \/ \E row \in Matching(View(pool[t]), req[t].key, stamp[t]) :
               answer'[t] = Found(row.value)
      BY <2>5 DEF ExecuteGet, Ran, Hit, TypeOK
    <3>2. \A v : Found(v) # NotFound
      BY DEF Found, NotFound
    <3>3. Reads(answer'[t], View(pool[t]), req[t].key, stamp[t])
      BY <3>1, <3>2 DEF Reads, Hit
    <3> QED BY <1>1, <2>4, <2>5, <3>3 DEF AnswerInv, Explains, ExecuteGet
  <2>6. CASE ExecuteDelete(t)
    <3>1. pool[t] = Primary /\ View(pool[t]) = Store
      BY <2>6 DEF AnswerInv, ExecuteDelete, View
    <3>2. Ok # NotFound
      BY DEF Ok, NotFound
    <3>3. (answer'[t] = Ok) = Hit(Store, req[t].key, stamp[t])
      BY <2>6, <3>2 DEF ExecuteDelete, Ran, Hit, TypeOK
    <3> QED BY <1>1, <2>4, <2>6, <3>1, <3>3 DEF AnswerInv, Explains, ExecuteDelete
  <2> QED BY <1>3, <2>5, <2>6 DEF ExecutePut
<1> QED BY <1>2, <1>3

\* The other awaits of a request leave its answer open, as it is, or failed.
LEMMA AwaitKeeps ==
  ASSUME TypeOK, NEW t \in Task, WindowInv(t), AnswerInv(t),
         \/ ProbeAcquire(t) \/ ProbeSucceeds(t) \/ ProbeFails(t)
         \/ Acquire(t) \/ AcquireFails(t) \/ Respond(t) \/ ExecuteFails(t)
  PROVE  AnswerInv(t)'
<1> USE DEF serverVars, poolVars, requestVars, cleanupVars
<1>1. UNCHANGED <<now, wal, req, began>>
  BY DEF ProbeAcquire, ProbeSucceeds, ProbeFails, Acquire, AcquireFails, Respond,
         ExecuteFails
<1>2. CASE ProbeAcquire(t) \/ ProbeSucceeds(t) \/ ProbeFails(t)
  <2>1. pc'[t] \in {"probing", "probe", "acquire"}
    BY <1>2 DEF ProbeAcquire, ProbeSucceeds, ProbeFails, TryNext, TypeOK
  <2>2. pool'[t] # Primary => pool[t] # Primary
    BY <1>2, Servers DEF ProbeAcquire, ProbeSucceeds, ProbeFails, TryNext, TypeOK
  <2> QED BY <1>1, <2>1, <2>2 DEF AnswerInv
<1>3. CASE Acquire(t)
  <2>1. /\ pc'[t] = "execute" /\ pool' = pool
        /\ req[t].op # "PUT" => stamp'[t] = now
    BY <1>3 DEF Acquire, TypeOK
  <2> QED BY <1>1, <2>1 DEF AnswerInv, WindowInv
<1>4. CASE AcquireFails(t) \/ ExecuteFails(t)
  <2>1. pc'[t] = "done" /\ pool' = pool /\ answer'[t] = ServerError
    BY <1>4 DEF AcquireFails, ExecuteFails, TypeOK
  <2> QED BY <1>1, <2>1 DEF AnswerInv
<1>5. CASE Respond(t)
  <2>1. pc[t] = "reply" /\ pc'[t] = "done" /\ UNCHANGED <<pool, answer>>
    BY <1>5 DEF Respond, TypeOK
  <2> QED BY <1>1, <2>1 DEF AnswerInv, Oldest, Explains
<1> QED BY <1>2, <1>3, <1>4, <1>5

LEMMA StepHistory == HistoryInv /\ [Next]_vars => HistoryInv'
<1> SUFFICES ASSUME HistoryInv, [Next]_vars PROVE HistoryInv'
  OBVIOUS
<1>1. SampleInv' /\ TypeOK /\ TypeOK' /\ StampsPast
  BY StepType, StepStamps, StepVictims DEF HistoryInv, SampleInv
<1>2. Grows
  BY <1>1, StepGrows
<1>3. ASSUME NEW t \in Task, Rests(t) PROVE WindowInv(t)' /\ AnswerInv(t)'
  BY <1>1, <1>2, <1>3, RestKeeps DEF HistoryInv
<1>4. ASSUME NEW t \in Task, Continue(t) PROVE WindowInv(t)' /\ AnswerInv(t)'
  <2>1. UNCHANGED began
    BY <1>4 DEF Continue, ProbeAcquire, ProbeSucceeds, ProbeFails, Acquire,
                AcquireFails, ExecutePut, ExecuteGet, ExecuteDelete, Ran, Respond,
                ExecuteFails
  <2>2. WindowInv(t)'
    <3>1. WindowInv(t)
      BY DEF HistoryInv
    <3>2. began'[t] = began[t]
      BY <2>1
    <3>3. began[t].lsn \in 1 .. Len(wal')
      BY <1>2, <3>1 DEF WindowInv, Grows
    <3>4. \A r \in Replica : began[t].seen[r] \in 1 .. applied'[r]
      BY <1>2, <3>1 DEF WindowInv, Grows
    <3>5. began[t].time \in Int /\ began[t].time <= now'
      BY <1>2, <3>1 DEF WindowInv, Grows
    <3> QED BY <3>2, <3>3, <3>4, <3>5 DEF WindowInv
  <2>3. AnswerInv(t)'
    BY <1>1, <1>2, <1>4, ExecuteKeeps, AwaitKeeps DEF HistoryInv, Continue
  <2> QED BY <2>2, <2>3
<1>5. \A t \in Task : WindowInv(t)' /\ AnswerInv(t)'
  BY <1>1, <1>3, <1>4, ArriveKeeps, OneMoves
<1> QED BY <1>1, <1>5 DEF HistoryInv

LEMMA InitHistory == Init => HistoryInv
<1> SUFFICES ASSUME Init PROVE HistoryInv
  OBVIOUS
<1>1. TypeOK /\ Len(wal) = 1
  BY InitType DEF Init
<1>2. \A t \in Task : /\ began[t] = World /\ pc[t] = "new" /\ pool[t] = Primary
  BY DEF Init
<1>3. \A t \in Task : WindowInv(t)
  BY <1>1, <1>2 DEF Init, WindowInv, World, TypeOK
<1> QED BY <1>1, <1>2, <1>3, InitSample DEF HistoryInv, SampleInv, AnswerInv

LEMMA HistoryInvariant == Spec => []HistoryInv
BY InitHistory, StepHistory, PTL DEF Spec

\* Strong consistency on the primary: what a GET or DELETE answers was true at
\* a moment of the request, for any number of concurrent requests.
THEOREM PrimaryIsCurrent == Spec => []PrimaryAnswersAreCurrent
<1>1. ASSUME HistoryInv PROVE PrimaryAnswersAreCurrent
  <2> SUFFICES ASSUME NEW t \in Task, pc[t] = "done", pool[t] = Primary,
                      answer[t] # ServerError, req[t].op # "PUT"
               PROVE  \E i \in began[t].lsn .. Len(wal), c \in began[t].time .. now :
                        Explains(t, wal[i], c)
    BY DEF PrimaryAnswersAreCurrent, Explains
  <2> QED BY <1>1 DEF HistoryInv, AnswerInv, Oldest
<1> QED BY <1>1, HistoryInvariant, PTL

\* Bounded staleness on the replicas: an answer is never older than what the
\* replica had replayed when the request came.
THEOREM ReplicasWereTrue == Spec => []ReplicaAnswersWereTrue
<1>1. ASSUME HistoryInv PROVE ReplicaAnswersWereTrue
  <2> SUFFICES ASSUME NEW t \in Task, pc[t] = "done", pool[t] \in Replica,
                      answer[t] # ServerError
               PROVE  \E i \in began[t].seen[pool[t]] .. Len(wal),
                         c \in began[t].time .. now :
                        Reads(answer[t], wal[i], req[t].key, c)
    BY DEF ReplicaAnswersWereTrue
  <2>1. pool[t] # Primary /\ req[t].op = "GET"
    BY <1>1, Servers DEF HistoryInv, AnswerInv
  <2> QED BY <1>1, <2>1 DEF HistoryInv, AnswerInv, Oldest, Explains
<1> QED BY <1>1, HistoryInvariant, PTL

-----------------------------------------------------------------------------
(* Failures: a request fails only if a server goes down while it runs.     *)

\* What a request that has met no crash can rely on.
Unharmed(t) ==
  began[t].crashes = crashes /\ pc[t] # "new" =>
    /\ \A s \in began[t].up : up[s]
    /\ t \notin broken
    /\ pc[t] \in {"probing", "acquire", "execute", "reply"} =>
         pool[t] = Primary \/ up[pool[t]]

\* How many tries before p the loop came by replica i, if it did.
Behind(p, i) == IF i <= p THEN p - i ELSE p - i + NumReplicas

\* The replicas the loop has left behind were down.
TriedInv(t) ==
  pc[t] \in {"probe", "probing"} =>
    /\ tries[t] < NumReplicas
    /\ crashes = began[t].crashes =>
         \A i \in Replica : Behind(pool[t], i) \in 1 .. tries[t] => i \notin began[t].up

UsedInv(t) ==
  (/\ req[t].op = "GET" /\ ~req[t].consistent /\ NumReplicas > 0
   /\ pc[t] \notin {"new", "probe", "probing"} /\ pool[t] = Primary) =>
    crashes > began[t].crashes \/ began[t].up \cap Replica = {}

HealthInv(t) ==
  /\ began[t].crashes <= crashes
  /\ t \in broken => pc[t] \in {"probing", "execute", "reply"}
  /\ Unharmed(t)
  /\ pc[t] = "reply" => answer[t] # ServerError
  /\ req[t].op = "GET" /\ pc[t] = "done" /\ answer[t] = ServerError =>
       crashes > began[t].crashes \/ Primary \notin began[t].up

FaultInv ==
  ConnInv /\ \A t \in Task : HealthInv(t) /\ TriedInv(t) /\ UsedInv(t)

\* A request that rests is harmed by crashes only, and these are counted.
LEMMA RestHealthy ==
  ASSUME TypeOK, HoldersExact, [Next]_vars, Grows,
         NEW t \in Task, HealthInv(t), Rests(t)
  PROVE  HealthInv(t)'
<1> USE DEF serverVars, poolVars, requestVars, cleanupVars
<1>1. CASE UNCHANGED <<up, crashes>> /\ (t \in broken' => t \in broken)
  BY <1>1 DEF HealthInv, Unharmed, Rests
<1>2. ASSUME NEW s \in Server, Crash(s) PROVE HealthInv(t)'
  <2>1. /\ began[t].crashes \in Nat /\ crashes \in Nat /\ crashes' = crashes + 1
        /\ broken' = broken \cup inUse[s] /\ began'[t] = began[t]
        /\ req'[t] = req[t] /\ pc'[t] = pc[t] /\ answer'[t] = answer[t]
    BY <1>2 DEF Crash, TypeOK, Snapshot, Rests
  <2>2. began'[t].crashes < crashes'
    BY <2>1 DEF HealthInv
  <2>3. t \in inUse[s] => pc[t] \in {"probing", "execute", "reply"}
    BY ConstantsAssumption DEF HoldersExact, Holders
  <2> QED BY <2>1, <2>2, <2>3 DEF HealthInv, Unharmed
<1>3. ASSUME NEW s \in Server, Restart(s) PROVE HealthInv(t)'
  BY <1>3 DEF Restart, HealthInv, Unharmed, Rests, TypeOK
<1>4. \/ UNCHANGED <<up, crashes>> /\ (t \in broken' => t \in broken)
      \/ \E s \in Server : Crash(s) \/ Restart(s)
  <2>1. ASSUME NEW u \in Task, Arrive(u)
        PROVE  UNCHANGED <<up, crashes, broken>>
    BY <2>1 DEF Arrive, PutKey, DeleteKey, GetFromPrimary, GetFromReplica
  <2>2. ASSUME NEW u \in Task, Continue(u)
        PROVE  UNCHANGED <<up, crashes>> /\ (t \in broken' => t \in broken)
    BY <2>2 DEF Continue, ProbeAcquire, ProbeSucceeds, ProbeFails, Acquire,
                AcquireFails, ExecutePut, ExecuteGet, ExecuteDelete, Ran, Respond,
                ExecuteFails, AcquireConn, ReleaseConn
  <2>3. CASE CleanupPass
    BY <2>3 DEF CleanupPass, CleanupAcquires, CleanupSelects, CleanupDeletes,
                CleanupEnds, AcquireConn, ReleaseConn
  <2>4. CASE Tick \/ (\E r \in Replica : Replay(r)) \/ UNCHANGED vars
    BY <2>4 DEF Tick, Replay, vars
  <2> QED BY <2>1, <2>2, <2>3, <2>4 DEF Next
<1> QED BY <1>1, <1>2, <1>3, <1>4

LEMMA ArriveHealthy ==
  ASSUME TypeOK, NEW t \in Task, HealthInv(t), Arrive(t)
  PROVE  HealthInv(t)'
<1> USE DEF serverVars, poolVars, requestVars, cleanupVars
<1>1. /\ pc[t] = "new" /\ began'[t] = World /\ UNCHANGED <<up, crashes, broken>>
      /\ (pc'[t] = "acquire" /\ pool'[t] = Primary) \/ pc'[t] = "probe"
  BY DEF Arrive, PutKey, DeleteKey, GetFromPrimary, GetFromReplica, TypeOK
<1>2. crashes \in Nat
  BY DEF TypeOK
<1> QED BY <1>1, <1>2 DEF HealthInv, Unharmed, World

LEMMA ContinueHealthy ==
  ASSUME TypeOK, NEW t \in Task, HealthInv(t), Continue(t)
  PROVE  HealthInv(t)'
<1> USE DEF serverVars, poolVars, requestVars, cleanupVars
<1>1. CASE ProbeAcquire(t) \/ Acquire(t)
  BY <1>1 DEF ProbeAcquire, Acquire, AcquireConn, HealthInv, Unharmed, TypeOK
<1>2. CASE ProbeSucceeds(t)
  BY <1>2 DEF ProbeSucceeds, ReleaseConn, HealthInv, Unharmed, TypeOK
<1>3. CASE ProbeFails(t)
  <2>1. UNCHANGED <<up, crashes, req, began, answer>>
    BY <1>3 DEF ProbeFails
  <2>2. pc'[t] = "probe" \/ (pc'[t] = "acquire" /\ pool'[t] = Primary)
    BY <1>3 DEF ProbeFails, TryNext, TypeOK
  <2>3. t \notin broken' /\ pc[t] # "new"
    BY <1>3 DEF ProbeFails, ReleaseConn, HealthInv
  <2> QED BY <2>1, <2>2, <2>3 DEF HealthInv, Unharmed
<1>4. CASE AcquireFails(t)
  <2>1. /\ UNCHANGED <<up, crashes, req, began, broken>>
        /\ pc[t] = "acquire" /\ pc'[t] = "done" /\ ~up[pool[t]]
    BY <1>4 DEF AcquireFails, CannotConnect, TypeOK
  <2>2. crashes \in Nat /\ began[t].crashes \in Nat
    BY DEF TypeOK, Snapshot
  <2> QED BY <2>1, <2>2 DEF HealthInv, Unharmed
<1>5. ASSUME NEW a, a # ServerError, Ran(t, a) PROVE HealthInv(t)'
  BY <1>5 DEF Ran, HealthInv, Unharmed, TypeOK
<1>6. CASE Respond(t)
  BY <1>6 DEF Respond, ReleaseConn, HealthInv, Unharmed, TypeOK
<1>7. CASE ExecuteFails(t)
  <2>1. /\ UNCHANGED <<up, crashes, req, began>> /\ t \notin broken'
        /\ pc[t] # "new" /\ pc'[t] = "done"
        /\ req[t].op # "PUT" => t \in broken
    BY <1>7 DEF ExecuteFails, ReleaseConn, TypeOK
  <2>2. crashes \in Nat /\ began[t].crashes \in Nat
    BY DEF TypeOK, Snapshot
  <2> QED BY <2>1, <2>2 DEF HealthInv, Unharmed
<1>8. /\ Ok # ServerError /\ NotFound # ServerError
      /\ \A v : Found(v) # ServerError
  BY DEF Ok, NotFound, Found, ServerError
<1> QED
  BY <1>1, <1>2, <1>3, <1>4, <1>5, <1>6, <1>7, <1>8
  DEF Continue, ExecutePut, ExecuteGet, ExecuteDelete

\* One replica further, everybody else is one further behind.
LEMMA BehindNext ==
  ASSUME NumReplicas > 0, NEW p \in Replica, NEW i \in Replica
  PROVE  /\ Behind(p, i) \in 0 .. NumReplicas - 1
         /\ Behind(p, i) = 0 => i = p
         /\ i # ReplicaAfter(p) => Behind(ReplicaAfter(p), i) = Behind(p, i) + 1
         /\ Behind(p, p) = 0
         /\ Behind(ReplicaAfter(p), ReplicaAfter(p)) = 0
<1>1. NumReplicas \in Nat /\ p \in 0 .. NumReplicas - 1 /\ i \in 0 .. NumReplicas - 1
  BY ConstantsAssumption DEF Replica
<1>2. ReplicaAfter(p) = IF p + 1 = NumReplicas THEN 0 ELSE p + 1
  BY <1>1, Z3 DEF ReplicaAfter
<1> HIDE DEF ReplicaAfter
<1> QED
  BY <1>1, <1>2 DEF Behind

\* A request at rest has found what it has found.
LEMMA RestTried ==
  ASSUME NEW t \in Task, Grows, Rests(t), HealthInv(t), TriedInv(t), UsedInv(t),
         began[t].crashes \in Nat
  PROVE  TriedInv(t)' /\ UsedInv(t)'
<1>1. /\ crashes \in Nat /\ crashes' \in Nat /\ crashes <= crashes'
      /\ began[t].crashes <= crashes
      /\ UNCHANGED <<req[t], pc[t], pool[t], began[t], tries[t]>>
  BY DEF Grows, Rests, HealthInv
<1>2. crashes' = began'[t].crashes => crashes' = crashes
  BY <1>1
<1>3. crashes > began[t].crashes => crashes' > began'[t].crashes
  BY <1>1
<1>4. TriedInv(t)'
  BY <1>1, <1>2 DEF TriedInv
<1>5. UsedInv(t)'
  BY <1>1, <1>3 DEF UsedInv
<1> QED
  BY <1>4, <1>5

LEMMA ArriveTried ==
  ASSUME TypeOK, NEW t \in Task, Arrive(t)
  PROVE  TriedInv(t)' /\ UsedInv(t)'
<1>1. CASE GetFromReplica(t)
  <2>1. pc'[t] = "probe" /\ tries'[t] = 0 /\ NumReplicas > 0
    BY <1>1 DEF GetFromReplica, TypeOK
  <2> QED
    BY <2>1 DEF TriedInv, UsedInv
<1>2. CASE PutKey(t) \/ DeleteKey(t) \/ GetFromPrimary(t)
  <2>1. /\ pc'[t] = "acquire" /\ req' = req
        /\ req[t].op # "GET" \/ req[t].consistent \/ ~(NumReplicas > 0)
    BY <1>2, ConstantsAssumption DEF PutKey, DeleteKey, GetFromPrimary, TypeOK
  <2> QED
    BY <2>1 DEF TriedInv, UsedInv
<1> QED
  BY <1>1, <1>2 DEF Arrive

\* A replica that fails its check without a crash was down all along.
LEMMA ContinueTried ==
  ASSUME TypeOK, NEW t \in Task, HealthInv(t), TriedInv(t), UsedInv(t), Continue(t)
  PROVE  TriedInv(t)' /\ UsedInv(t)'
<1> USE DEF serverVars, poolVars, requestVars, cleanupVars
<1>0. crashes \in Nat /\ began[t].crashes \in Nat /\ began[t].crashes <= crashes
  BY DEF TypeOK, Snapshot, HealthInv
<1>1. CASE ProbeFails(t)
  <2>1. /\ UNCHANGED <<crashes, req, began>> /\ pc[t] \in {"probe", "probing"}
        /\ TryNext(t)
    BY <1>1 DEF ProbeFails
  <2>2. /\ pool[t] \in Replica /\ tries[t] \in Nat /\ tries[t] < NumReplicas
        /\ NumReplicas \in Nat /\ NumReplicas > 0
    BY <2>1, ConstantsAssumption DEF TypeOK, TriedInv
  <2>3. crashes = began[t].crashes => pool[t] \notin began[t].up
    <3>1. CASE pc[t] = "probe" /\ CannotConnect(pool[t])
      BY <3>1 DEF HealthInv, Unharmed, CannotConnect
    <3>2. CASE t \in broken
      BY <2>1, <3>2 DEF HealthInv, Unharmed
    <3> QED
      BY <1>1, <3>1, <3>2 DEF ProbeFails
  <2>4. CASE tries[t] + 1 < NumReplicas
    <3>1. /\ tries'[t] = tries[t] + 1 /\ pool'[t] = ReplicaAfter(pool[t])
          /\ pc'[t] = "probe"
      BY <2>1, <2>4 DEF TryNext, TypeOK
    <3>2. ASSUME crashes = began[t].crashes, NEW i \in Replica,
                 Behind(pool'[t], i) \in 1 .. tries'[t]
          PROVE  i \notin began[t].up
      <4>1. i # ReplicaAfter(pool[t])
        BY <2>2, <3>1, <3>2, BehindNext
      <4>2. Behind(pool'[t], i) = Behind(pool[t], i) + 1
        BY <2>2, <3>1, <4>1, BehindNext
      <4>3. /\ Behind(pool[t], i) \in 0 .. NumReplicas - 1
            /\ Behind(pool[t], i) = 0 => i = pool[t]
        BY <2>2, BehindNext
      <4>4. Behind(pool[t], i) = 0 \/ Behind(pool[t], i) \in 1 .. tries[t]
        BY <2>2, <3>1, <3>2, <4>2, <4>3
      <4> QED
        BY <2>1, <2>3, <3>2, <4>3, <4>4 DEF TriedInv
    <3>3. TriedInv(t)'
      BY <2>1, <2>4, <3>1, <3>2 DEF TriedInv, Behind
    <3> QED
      BY <3>1, <3>3 DEF UsedInv
  <2>5. CASE ~(tries[t] + 1 < NumReplicas)
    <3>1. pc'[t] = "acquire"
      BY <2>1, <2>5 DEF TryNext, TypeOK
    <3>2. ASSUME crashes = began[t].crashes, NEW i \in Replica
          PROVE  i \notin began[t].up
      <4>1. /\ Behind(pool[t], i) \in 0 .. NumReplicas - 1
            /\ Behind(pool[t], i) = 0 => i = pool[t]
        BY <2>2, BehindNext
      <4>2. Behind(pool[t], i) = 0 \/ Behind(pool[t], i) \in 1 .. tries[t]
        BY <2>2, <2>5, <4>1
      <4> QED
        BY <2>1, <2>3, <3>2, <4>1, <4>2 DEF TriedInv
    <3>3. crashes' > began'[t].crashes \/ began'[t].up \cap Replica = {}
      BY <1>0, <2>1, <3>2
    <3> QED
      BY <3>1, <3>3 DEF TriedInv, UsedInv
  <2> QED
    BY <2>4, <2>5
<1>2. CASE ProbeAcquire(t)
  BY <1>2 DEF ProbeAcquire, TriedInv, UsedInv, TypeOK
<1>3. CASE ProbeSucceeds(t)
  <2>1. pc'[t] = "acquire" /\ pool'[t] \in Replica
    BY <1>3 DEF ProbeSucceeds, TypeOK
  <2> QED
    BY <2>1, Servers DEF TriedInv, UsedInv
<1>4. ASSUME UNCHANGED <<crashes, req, began, pool>>,
             pc[t] \notin {"new", "probe", "probing"},
             pc'[t] \notin {"new", "probe", "probing"}
      PROVE  TriedInv(t)' /\ UsedInv(t)'
  BY <1>4 DEF TriedInv, UsedInv
<1>5. CASE Acquire(t) \/ AcquireFails(t) \/ Respond(t) \/ ExecuteFails(t)
  BY <1>4, <1>5 DEF Acquire, AcquireFails, Respond, ExecuteFails, TypeOK
<1>6. CASE ExecutePut(t) \/ ExecuteGet(t) \/ ExecuteDelete(t)
  BY <1>4, <1>6 DEF ExecutePut, ExecuteGet, ExecuteDelete, Ran, TypeOK
<1> QED
  BY <1>1, <1>2, <1>3, <1>5, <1>6 DEF Continue

LEMMA StepFault == FaultInv /\ [Next]_vars => FaultInv'
<1> SUFFICES ASSUME FaultInv, [Next]_vars PROVE FaultInv'
  OBVIOUS
<1>1. TypeOK /\ TypeOK' /\ HoldersExact /\ ConnInv'
  BY StepType, StepHolders, StepBounded DEF FaultInv, ConnInv
<1>2. Grows
  BY <1>1, StepGrows
<1>3. \A t \in Task : HealthInv(t)'
  BY <1>1, <1>2, RestHealthy, ArriveHealthy, ContinueHealthy, OneMoves DEF FaultInv
<1>4. \A t \in Task : began[t].crashes \in Nat
  BY <1>1 DEF TypeOK, Snapshot
<1>5. \A t \in Task : TriedInv(t)' /\ UsedInv(t)'
  BY <1>1, <1>2, <1>4, RestTried, ArriveTried, ContinueTried, OneMoves DEF FaultInv
<1> QED BY <1>1, <1>3, <1>5 DEF FaultInv

LEMMA InitFault == Init => FaultInv
<1> SUFFICES ASSUME Init PROVE FaultInv
  OBVIOUS
<1>1. ConnInv
  BY InitType, InitConn DEF ConnInv
<1>2. \A t \in Task : HealthInv(t)
  BY DEF Init, World, HealthInv, Unharmed
<1>3. \A t \in Task : TriedInv(t) /\ UsedInv(t)
  BY DEF Init, TriedInv, UsedInv
<1> QED BY <1>1, <1>2, <1>3 DEF FaultInv

\* Degrading gracefully: dead replicas never cost a GET its answer.
THEOREM ReplicasMayBeDown == Spec => []DownReplicasAreSurvived
<1>1. Spec => []FaultInv
  BY InitFault, StepFault, PTL DEF Spec
<1>2. FaultInv => DownReplicasAreSurvived
  BY DEF FaultInv, HealthInv, DownReplicasAreSurvived
<1> QED BY <1>1, <1>2, PTL

\* No read goes to the primary past a replica that is up, for any number of
\* replicas and of requests that share the round robin.
THEOREM NoReplicaSkipped == Spec => []LiveReplicasAreUsed
<1>1. Spec => []FaultInv
  BY InitFault, StepFault, PTL DEF Spec
<1>2. FaultInv => LiveReplicasAreUsed
  BY DEF FaultInv, UsedInv, LiveReplicasAreUsed
<1> QED BY <1>1, <1>2, PTL
=============================================================================
