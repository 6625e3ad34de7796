------------------------------ MODULE KVStore ------------------------------
(***************************************************************************)
(* kv-store/app: the FastAPI handlers (main.py), the connection pools and  *)
(* the choice of a server for each read (db.py), the clean-up task, and    *)
(* the PostgreSQL primary with its asynchronous replicas as these use it.  *)
(*                                                                         *)
(* An action runs from one await to the next.  The table `store' changes   *)
(* only on the primary; wal keeps its successive committed states, and a   *)
(* replica has replayed a prefix of them.                                  *)
(***************************************************************************)
EXTENDS Integers, Sequences, FiniteSets

CONSTANTS
  Task,        \* client requests, each handled by an asyncio task of its own
  Key, Value,
  NoTTL,       \* ttl is None
  TTL,         \* the values of ttl a client may send
  NumReplicas, \* len(_replica_pools)
  PrimaryMax,  \* max_size of the primary's pool
  ReplicaMax,  \* max_size of a replica's pool
  BatchSize,   \* CLEANUP_BATCH_SIZE
  MaxBigint,   \* the largest value a BIGINT column holds
  Cleanup,     \* the clean-up task, as the holder of a connection
  StartTime, MaxTime, \* bounds of the clock
  MaxCrash     \* bound on the crashes of database servers

ASSUME ConstantsAssumption ==
  /\ NumReplicas \in Nat
  /\ PrimaryMax \in Nat \ {0} /\ ReplicaMax \in Nat \ {0}
  /\ BatchSize \in Nat \ {0}
  /\ NoTTL \notin Int /\ TTL \subseteq Int \cup {NoTTL}
  /\ Cleanup \notin Task
  /\ StartTime \in Nat /\ MaxTime \in Nat /\ MaxCrash \in Nat
  /\ MaxBigint \in Nat

Primary == -1
Replica == 0 .. NumReplicas - 1
Server == Replica \cup {Primary}
PoolMax(s) == IF s = Primary THEN PrimaryMax ELSE ReplicaMax

Bigint == -MaxBigint - 1 .. MaxBigint

Request == [op : {"PUT"}, key : Key, value : Value, ttl : TTL]
             \cup [op : {"GET"}, key : Key, consistent : BOOLEAN]
             \cup [op : {"DELETE"}, key : Key]

-----------------------------------------------------------------------------
(* The table `store' (init.sql) and the statements run on it.  ctid names  *)
(* a version of a row: every INSERT and UPDATE makes a new one.            *)

Row == [key : Key, value : Value, expire_at : Int, ctid : Nat]

Version(k, v, e, id) == [key |-> k, value |-> v, expire_at |-> e, ctid |-> id]

\* expire_at > c OR expire_at = 0
Live(row, c) == row.expire_at = 0 \/ row.expire_at > c

\* expire_at != 0 AND expire_at <= c
Doomed(row, c) == row.expire_at # 0 /\ row.expire_at <= c

Matching(T, k, c) == {row \in T : row.key = k /\ Live(row, c)}

\* INSERT ... ON CONFLICT (key) DO UPDATE
Upsert(T, k, v, e, id) ==
  {row \in T : row.key # k} \cup {Version(k, v, e, id)}

\* UPDATE store SET expire_at = -1 WHERE key = k AND live
SoftDelete(T, k, c, id) ==
  {IF row.key = k /\ Live(row, c)
     THEN Version(k, row.value, -1, id) ELSE row : row \in T}

\* The rows the inner SELECT ctid ... LIMIT may return: which ones is open.
Batches(T, c) ==
  LET doomed == {row \in T : Doomed(row, c)}
  IN  {B \in SUBSET doomed : Cardinality(B) <= BatchSize
                               /\ (B # doomed => Cardinality(B) = BatchSize)}

\* (Mutant: DELETE ... WHERE key IN (SELECT key ...).)
DeleteByKey(T, B) == {row \in T : \A b \in B : b.key # row.key}

\* The outer DELETE: the row versions found before, and no newer version.
DeleteVersions(T, B) == {row \in T : row \notin B}

-----------------------------------------------------------------------------
VARIABLES
  now,      \* int(time.time())
  wal,      \* the committed states of table store, the latest last
  applied,  \* applied[r]: how many of them replica r has replayed
  up,       \* up[s]: server s accepts connections
  crashes,  \* how many times a server went down
  inUse,    \* inUse[s]: who holds a connection of the pool of s
  broken,   \* the holders whose connection a crash has cut
  rr,       \* what next(_replica_rr) returns
  req,      \* req[t]: the request task t carries
  pc,       \* pc[t]: the await at which task t stands
  pool,     \* pool[t]: the server of the pool task t uses
  tries,    \* tries[t]: i of the loop over the replicas
  stamp,    \* stamp[t]: expire_at of a PUT, the sampled _now() of the others
  answer,   \* answer[t]: HTTP status and the value in the response
  began,    \* began[t]: history, the world when the request arrived
  cpc,      \* where the clean-up task stands
  cutoff,   \* the int(time.time()) it has sampled
  victims   \* the row versions its subquery has found

requestVars == <<req, pc, pool, tries, stamp, answer, began>>
cleanupVars == <<cpc, cutoff, victims>>
serverVars  == <<wal, applied, up, crashes>>
poolVars    == <<inUse, broken>>
vars == <<now, serverVars, poolVars, rr, requestVars, cleanupVars>>

Store == wal[Len(wal)]

\* What the server behind pool s shows to a SELECT.
View(s) == IF s = Primary THEN Store ELSE wal[applied[s]]

Commit(T) == wal' = IF T = Store THEN wal ELSE Append(wal, T)

\* pool.acquire() hands out a connection, or fails to open one.
FreeSlot(s) == Cardinality(inUse[s]) < PoolMax(s)

AcquireConn(x, s) == /\ up[s] /\ FreeSlot(s)
                     /\ inUse' = [inUse EXCEPT ![s] = @ \cup {x}]
                     /\ UNCHANGED broken

CannotConnect(s) == ~up[s] /\ FreeSlot(s)

\* Leaving "async with pool.acquire()", with or without an exception.
ReleaseConn(x, s) == /\ inUse' = [inUse EXCEPT ![s] = @ \ {x}]
                     /\ broken' = broken \ {x}

Pending == [status |-> "none"]
Ok == [status |-> "200"]
Found(v) == [status |-> "200", value |-> v]
NotFound == [status |-> "404"]
ServerError == [status |-> "500"]
Answer == {Pending, Ok, NotFound, ServerError} \cup {Found(v) : v \in Value}

Snapshot == [time : Int, lsn : Nat, seen : [Replica -> Nat],
             crashes : Nat, up : SUBSET Server]

\* What a request may later be held to: the clock, the last committed state,
\* how far each replica was, and which servers were up.
World == [time |-> now, lsn |-> Len(wal), seen |-> applied,
          crashes |-> crashes, up |-> {s \in Server : up[s]}]

Init ==
  /\ now = StartTime
  /\ wal = <<{}>>
  /\ applied = [r \in Replica |-> 1]
  /\ up = [s \in Server |-> TRUE]
  /\ crashes = 0
  /\ inUse = [s \in Server |-> {}]
  /\ broken = {}
  /\ rr = 0
  /\ req \in [Task -> Request]
  /\ pc = [t \in Task |-> "new"]
  /\ pool = [t \in Task |-> Primary]
  /\ tries = [t \in Task |-> 0]
  /\ stamp = [t \in Task |-> 0]
  /\ answer = [t \in Task |-> Pending]
  /\ began = [t \in Task |-> World]
  /\ cpc = "sleep"
  /\ cutoff = 0
  /\ victims = {}

-----------------------------------------------------------------------------
(* Requests up to the connection they run their statement on.              *)

\* (Mutant: the round robin does not wrap around.)
ReplicaAfterUnwrapped(i) == i + 1

\* The order of itertools.cycle and of the loop over the replicas.
ReplicaAfter(i) == (i + 1) % NumReplicas

\* put_key up to its first await: the deadline is fixed before acquire().
PutKey(t) ==
  /\ pc[t] = "new" /\ req[t].op = "PUT"
  /\ stamp' = [stamp EXCEPT ![t] =
                 IF req[t].ttl \in {NoTTL, 0} THEN 0 ELSE now + req[t].ttl]
  /\ pool' = [pool EXCEPT ![t] = Primary]
  /\ pc' = [pc EXCEPT ![t] = "acquire"]
  /\ began' = [began EXCEPT ![t] = World]
  /\ UNCHANGED <<now, serverVars, poolVars, rr, req, tries, answer, cleanupVars>>

\* delete_key up to its first await.
DeleteKey(t) ==
  /\ pc[t] = "new" /\ req[t].op = "DELETE"
  /\ pool' = [pool EXCEPT ![t] = Primary]
  /\ pc' = [pc EXCEPT ![t] = "acquire"]
  /\ began' = [began EXCEPT ![t] = World]
  /\ UNCHANGED <<now, serverVars, poolVars, rr, req, tries, stamp, answer, cleanupVars>>

\* get_key with consistent=true, or with no replica to choose from.
GetFromPrimary(t) ==
  /\ pc[t] = "new" /\ req[t].op = "GET"
  /\ req[t].consistent \/ NumReplicas = 0
  /\ pool' = [pool EXCEPT ![t] = Primary]
  /\ pc' = [pc EXCEPT ![t] = "acquire"]
  /\ began' = [began EXCEPT ![t] = World]
  /\ UNCHANGED <<now, serverVars, poolVars, rr, req, tries, stamp, answer, cleanupVars>>

\* get_key otherwise: get_replica_pool draws the first replica to try.
GetFromReplica(t) ==
  /\ pc[t] = "new" /\ req[t].op = "GET"
  /\ ~req[t].consistent /\ NumReplicas > 0
  /\ pool' = [pool EXCEPT ![t] = rr]
  /\ rr' = ReplicaAfter(rr)
  /\ tries' = [tries EXCEPT ![t] = 0]
  /\ pc' = [pc EXCEPT ![t] = "probe"]
  /\ began' = [began EXCEPT ![t] = World]
  /\ UNCHANGED <<now, serverVars, poolVars, req, stamp, answer, cleanupVars>>

\* The health check takes a connection of the replica.
ProbeAcquire(t) ==
  /\ pc[t] = "probe"
  /\ AcquireConn(t, pool[t])
  /\ pc' = [pc EXCEPT ![t] = "probing"]
  /\ UNCHANGED <<now, serverVars, rr, req, pool, tries, stamp, answer, began, cleanupVars>>

\* SELECT 1 comes back: this pool it is.
ProbeSucceeds(t) ==
  /\ pc[t] = "probing" /\ t \notin broken
  /\ ReleaseConn(t, pool[t])
  /\ pc' = [pc EXCEPT ![t] = "acquire"]
  /\ UNCHANGED <<now, serverVars, rr, req, pool, tries, stamp, answer, began, cleanupVars>>

\* (Mutant: the loop ends on the last replica instead of the primary.)
TryNextReplicaOnly(t) ==
  /\ tries' = [tries EXCEPT ![t] = @ + 1]
  /\ IF tries[t] + 1 < NumReplicas
       THEN /\ pool' = [pool EXCEPT ![t] = ReplicaAfter(@)]
            /\ pc' = [pc EXCEPT ![t] = "probe"]
       ELSE /\ pool' = pool
            /\ pc' = [pc EXCEPT ![t] = "acquire"]

\* The next replica in the loop, or the primary when all have been tried.
TryNext(t) ==
  /\ tries' = [tries EXCEPT ![t] = @ + 1]
  /\ IF tries[t] + 1 < NumReplicas
       THEN /\ pool' = [pool EXCEPT ![t] = ReplicaAfter(@)]
            /\ pc' = [pc EXCEPT ![t] = "probe"]
       ELSE /\ pool' = [pool EXCEPT ![t] = Primary]
            /\ pc' = [pc EXCEPT ![t] = "acquire"]

\* (Mutant: the loop draws from the round robin again for each try.)
ProbeFailsDrawingAgain(t) ==
  /\ \/ pc[t] = "probe" /\ CannotConnect(pool[t]) /\ UNCHANGED poolVars
     \/ pc[t] = "probing" /\ t \in broken /\ ReleaseConn(t, pool[t])
  /\ tries' = [tries EXCEPT ![t] = @ + 1]
  /\ IF tries[t] + 1 < NumReplicas
       THEN /\ pool' = [pool EXCEPT ![t] = rr]
            /\ rr' = ReplicaAfter(rr)
            /\ pc' = [pc EXCEPT ![t] = "probe"]
       ELSE /\ pool' = [pool EXCEPT ![t] = Primary]
            /\ pc' = [pc EXCEPT ![t] = "acquire"]
            /\ UNCHANGED rr
  /\ UNCHANGED <<now, serverVars, req, stamp, answer, began, cleanupVars>>

\* The health check raises: no connection, or it was cut under SELECT 1.
ProbeFails(t) ==
  /\ \/ pc[t] = "probe" /\ CannotConnect(pool[t]) /\ UNCHANGED poolVars
     \/ pc[t] = "probing" /\ t \in broken /\ ReleaseConn(t, pool[t])
  /\ TryNext(t)
  /\ UNCHANGED <<now, serverVars, rr, req, stamp, answer, began, cleanupVars>>

\* async with pool.acquire(); GET and DELETE now evaluate _now().
Acquire(t) ==
  /\ pc[t] = "acquire"
  /\ AcquireConn(t, pool[t])
  /\ pc' = [pc EXCEPT ![t] = "execute"]
  /\ stamp' = IF req[t].op = "PUT" THEN stamp ELSE [stamp EXCEPT ![t] = now]
  /\ UNCHANGED <<now, serverVars, rr, req, pool, tries, answer, began, cleanupVars>>

\* acquire() raises, and the handler has no except: HTTP 500.
AcquireFails(t) ==
  /\ pc[t] = "acquire"
  /\ CannotConnect(pool[t])
  /\ pc' = [pc EXCEPT ![t] = "done"]
  /\ answer' = [answer EXCEPT ![t] = ServerError]
  /\ UNCHANGED <<now, serverVars, poolVars, rr, req, pool, tries, stamp, began, cleanupVars>>

-----------------------------------------------------------------------------
(* The statement and its answer.                                           *)

\* The database runs the statement of t; its result is on the way back.
Ran(t, a) ==
  /\ pc[t] = "execute" /\ t \notin broken
  /\ pc' = [pc EXCEPT ![t] = "reply"]
  /\ answer' = [answer EXCEPT ![t] = a]
  /\ UNCHANGED <<now, applied, up, crashes, poolVars, rr,
                 req, pool, tries, stamp, began, cleanupVars>>

ExecutePut(t) ==
  /\ req[t].op = "PUT" /\ stamp[t] \in Bigint
  /\ Ran(t, Ok)
  /\ Commit(Upsert(Store, req[t].key, req[t].value, stamp[t], Len(wal) + 1))

\* (Mutant: SELECT without the condition on expire_at.)
ExecuteGetAnyRow(t) ==
  /\ req[t].op = "GET"
  /\ LET rows == {row \in View(pool[t]) : row.key = req[t].key}
     IN  \/ rows = {} /\ Ran(t, NotFound)
         \/ \E row \in rows : Ran(t, Found(row.value))
  /\ UNCHANGED wal

ExecuteGet(t) ==
  /\ req[t].op = "GET"
  /\ LET rows == Matching(View(pool[t]), req[t].key, stamp[t])
     IN  \/ rows = {} /\ Ran(t, NotFound)
         \/ \E row \in rows : Ran(t, Found(row.value))
  /\ UNCHANGED wal

\* "UPDATE 0" becomes a 404.
ExecuteDelete(t) ==
  /\ req[t].op = "DELETE"
  /\ Ran(t, IF Matching(Store, req[t].key, stamp[t]) = {} THEN NotFound ELSE Ok)
  /\ Commit(SoftDelete(Store, req[t].key, stamp[t], Len(wal) + 1))

\* The result arrives, the connection goes back, the handler returns.
Respond(t) ==
  /\ pc[t] = "reply"
  /\ ReleaseConn(t, pool[t])
  /\ pc' = [pc EXCEPT ![t] = "done"]
  /\ UNCHANGED <<now, serverVars, rr, req, pool, tries, stamp, answer, began, cleanupVars>>

\* (Mutant: a statement whose connection was cut is run again.)
ExecuteRetries(t) ==
  /\ pc[t] \in {"execute", "reply"} /\ t \in broken
  /\ ReleaseConn(t, pool[t])
  /\ pc' = [pc EXCEPT ![t] = "acquire"]
  /\ UNCHANGED <<now, serverVars, rr, req, pool, tries, stamp, answer, began, cleanupVars>>

\* (Mutant: acquire() and release() without async with or finally.)
ExecuteFailsHolding(t) ==
  /\ \/ pc[t] \in {"execute", "reply"} /\ t \in broken
     \/ pc[t] = "execute" /\ req[t].op = "PUT" /\ stamp[t] \notin Bigint
  /\ pc' = [pc EXCEPT ![t] = "done"]
  /\ answer' = [answer EXCEPT ![t] = ServerError]
  /\ UNCHANGED <<now, serverVars, poolVars, rr, req, pool, tries, stamp, began, cleanupVars>>

\* execute() raises: the connection was cut before the result came, or the
\* driver cannot encode expire_at as a BIGINT.  The connection goes back.
ExecuteFails(t) ==
  /\ \/ pc[t] \in {"execute", "reply"} /\ t \in broken
     \/ pc[t] = "execute" /\ req[t].op = "PUT" /\ stamp[t] \notin Bigint
  /\ ReleaseConn(t, pool[t])
  /\ pc' = [pc EXCEPT ![t] = "done"]
  /\ answer' = [answer EXCEPT ![t] = ServerError]
  /\ UNCHANGED <<now, serverVars, rr, req, pool, tries, stamp, began, cleanupVars>>

-----------------------------------------------------------------------------
(* cleanup_loop.  While the primary is down the pass fails, is logged, and *)
(* the loop sleeps again: no step of its own.                              *)

CleanupAcquires ==
  /\ cpc = "sleep"
  /\ AcquireConn(Cleanup, Primary)
  /\ cutoff' = now
  /\ cpc' = "select"
  /\ UNCHANGED <<now, serverVars, rr, requestVars, victims>>

\* The subquery reads the statement's snapshot.
CleanupSelects ==
  /\ cpc = "select" /\ Cleanup \notin broken
  /\ victims' \in Batches(Store, cutoff)
  /\ cpc' = "delete"
  /\ UNCHANGED <<now, serverVars, poolVars, rr, requestVars, cutoff>>

CleanupDeletes ==
  /\ cpc = "delete" /\ Cleanup \notin broken
  /\ Commit(DeleteVersions(Store, victims))
  /\ cpc' = "release"
  /\ UNCHANGED <<now, applied, up, crashes, poolVars, rr, requestVars, cutoff, victims>>

\* (Mutant: no except, an error ends the loop.)
CleanupEndsUncaught ==
  /\ cpc # "sleep"
  /\ cpc = "release" \/ Cleanup \in broken
  /\ ReleaseConn(Cleanup, Primary)
  /\ cpc' = (IF Cleanup \in broken THEN "stopped" ELSE "sleep") /\ victims' = {}
  /\ UNCHANGED <<now, serverVars, rr, requestVars, cutoff>>

\* The pass ends, or except Exception logs what it raised.
CleanupEnds ==
  /\ cpc # "sleep"
  /\ cpc = "release" \/ Cleanup \in broken
  /\ ReleaseConn(Cleanup, Primary)
  /\ cpc' = "sleep" /\ victims' = {}
  /\ UNCHANGED <<now, serverVars, rr, requestVars, cutoff>>

-----------------------------------------------------------------------------
(* The servers and the clock.                                              *)

Replay(r) ==
  /\ up[r] /\ applied[r] < Len(wal)
  /\ applied' = [applied EXCEPT ![r] = @ + 1]
  /\ UNCHANGED <<now, wal, up, crashes, poolVars, rr, requestVars, cleanupVars>>

\* The server goes down and every connection to it with it.
Crash(s) ==
  /\ up[s] /\ crashes < MaxCrash
  /\ up' = [up EXCEPT ![s] = FALSE]
  /\ crashes' = crashes + 1
  /\ broken' = broken \cup inUse[s]
  /\ UNCHANGED <<now, wal, applied, inUse, rr, requestVars, cleanupVars>>

\* What was committed and replayed is on disk.
Restart(s) ==
  /\ ~up[s]
  /\ up' = [up EXCEPT ![s] = TRUE]
  /\ UNCHANGED <<now, wal, applied, crashes, poolVars, rr, requestVars, cleanupVars>>

Tick ==
  /\ now < MaxTime
  /\ now' = now + 1
  /\ UNCHANGED <<serverVars, poolVars, rr, requestVars, cleanupVars>>

-----------------------------------------------------------------------------
Arrive(t) == PutKey(t) \/ DeleteKey(t) \/ GetFromPrimary(t) \/ GetFromReplica(t)

Continue(t) ==
  \/ ProbeAcquire(t) \/ ProbeSucceeds(t) \/ ProbeFails(t)
  \/ Acquire(t) \/ AcquireFails(t)
  \/ ExecutePut(t) \/ ExecuteGet(t) \/ ExecuteDelete(t)
  \/ Respond(t) \/ ExecuteFails(t)

CleanupPass == CleanupAcquires \/ CleanupSelects \/ CleanupDeletes \/ CleanupEnds

Next ==
  \/ \E t \in Task : Arrive(t) \/ Continue(t)
  \/ CleanupPass
  \/ \E r \in Replica : Replay(r)
  \/ \E s \in Server : Crash(s) \/ Restart(s)
  \/ Tick

Spec == Init /\ [][Next]_vars

\* The event loop runs every task that can run, and a server that is up
\* answers.  Fairness is strong because a connection comes and goes while a
\* task waits for it: asyncpg queues the waiters, and the clean-up task, the
\* only one that comes back, sleeps between passes.  Nothing is assumed of
\* Restart: a dead server may stay down.
Fairness == /\ \A t \in Task : SF_vars(Continue(t))
            /\ SF_vars(CleanupPass)

FairSpec == Spec /\ Fairness

-----------------------------------------------------------------------------
(* Properties.                                                             *)

\* Every variable has its type (main.py and db.py state).
TypeOK ==
  /\ now \in Nat
  /\ wal \in Seq(SUBSET Row) /\ wal # <<>>
  /\ applied \in [Replica -> Nat] /\ \A r \in Replica : applied[r] \in 1 .. Len(wal)
  /\ up \in [Server -> BOOLEAN] /\ crashes \in Nat
  /\ inUse \in [Server -> SUBSET (Task \cup {Cleanup})]
  /\ broken \subseteq Task \cup {Cleanup}
  /\ rr \in Nat /\ (NumReplicas > 0 => rr \in Replica)
  /\ req \in [Task -> Request]
  /\ pc \in [Task -> {"new", "probe", "probing", "acquire", "execute", "reply", "done"}]
  /\ pool \in [Task -> Server]
  /\ \A t \in Task : pc[t] \in {"probe", "probing"} => pool[t] \in Replica
  /\ tries \in [Task -> Nat]
  /\ stamp \in [Task -> Int]
  /\ answer \in [Task -> Answer]
  /\ began \in [Task -> Snapshot]
  /\ cpc \in {"sleep", "select", "delete", "release"}
  /\ cutoff \in Int
  /\ victims \subseteq Row

\* The holders of connections of the pool of s, by where they stand.
Holders(s) ==
  {t \in Task : pc[t] \in {"probing", "execute", "reply"} /\ pool[t] = s}
    \cup {c \in {Cleanup} : cpc # "sleep" /\ s = Primary}

\* No connection leaks and none is shared: whatever raised, crashed or was
\* cut, exactly the tasks inside an "async with pool.acquire()" block hold
\* one, never more than max_size of them (main.py:71, 179, 229, 269 and
\* db.py:152).
ConnectionsAccounted ==
  \A s \in Server : inUse[s] = Holders(s) /\ Cardinality(inUse[s]) <= PoolMax(s)

\* The answer a request for key k would get from table T at time c.
Hit(T, k, c) == \E row \in Matching(T, k, c) : TRUE
Reads(a, T, k, c) ==
  IF a = NotFound THEN ~Hit(T, k, c)
                  ELSE \E row \in Matching(T, k, c) : a = Found(row.value)

\* A GET or DELETE served by the primary answers for a committed state and a
\* clock reading that both fall inside the request: no acknowledged write
\* before it is missed, nothing expired before it is shown ("strong
\* consistency", main.py:211 and 225).
PrimaryAnswersAreCurrent ==
  \A t \in Task :
    pc[t] = "done" /\ pool[t] = Primary /\ answer[t] # ServerError =>
      \/ req[t].op = "PUT"
      \/ \E i \in began[t].lsn .. Len(wal), c \in began[t].time .. now :
           IF req[t].op = "GET" THEN Reads(answer[t], wal[i], req[t].key, c)
                                ELSE (answer[t] = Ok) = Hit(wal[i], req[t].key, c)

\* A GET served by a replica answers for a committed state no older than
\* what that replica had replayed when the request came, and never shows a
\* value that had expired before (main.py:218-222).
ReplicaAnswersWereTrue ==
  \A t \in Task :
    pc[t] = "done" /\ pool[t] \in Replica /\ answer[t] # ServerError =>
      \E i \in began[t].seen[pool[t]] .. Len(wal), c \in began[t].time .. now :
        Reads(answer[t], wal[i], req[t].key, c)

\* Replicas that are already down cost a GET nothing but the detour: unless a
\* server went down while it ran, or the primary was down at its start, it
\* is answered (db.py:160, "degrade gracefully to primary").
DownReplicasAreSurvived ==
  \A t \in Task :
    pc[t] = "done" /\ req[t].op = "GET" /\ answer[t] = ServerError =>
      crashes > began[t].crashes \/ Primary \notin began[t].up

\* A GET ends up at the primary only when it has found every replica down,
\* whatever other requests drew from the shared round robin meanwhile: none was
\* up from its start on (db.py:145-148 and 137).
LiveReplicasAreUsed ==
  \A t \in Task :
    (/\ req[t].op = "GET" /\ ~req[t].consistent /\ NumReplicas > 0
     /\ pc[t] \notin {"new", "probe", "probing"} /\ pool[t] = Primary) =>
      crashes > began[t].crashes \/ began[t].up \cap Replica = {}

\* "If ALL replicas are down -> fall back to primary" (db.py:137, and 160): a
\* GET never fails on the pool of a replica.
FallbackCoversReplicaCrash ==
  \A t \in Task :
    pc[t] = "done" /\ req[t].op = "GET" /\ answer[t] = ServerError =>
      pool[t] = Primary

\* A row that never expires was put with no ttl (models.py:6, "None = never
\* expires").
OnlyNoTTLNeverExpires ==
  \A row \in Store : row.expire_at = 0 =>
    \E t \in Task : /\ req[t].op = "PUT" /\ req[t].ttl = NoTTL
                    /\ req[t].key = row.key /\ req[t].value = row.value

\* Each binding a reader could see, and when it ends.
Bound(row) == [key |-> row.key, value |-> row.value, until |-> row.expire_at]
Visible(T, c) == {Bound(row) : row \in {r \in T : Live(r, c)}}

Phase(t) ==
  CASE pc[t] = "new" -> "new"
    [] pc[t] \in {"probe", "probing", "acquire", "execute"} -> "open"
    [] pc[t] = "reply" -> "performed"
    [] pc[t] = "done" -> IF answer[t] = ServerError THEN "failed" ELSE "settled"

Promise == INSTANCE KVMap WITH
  Forever <- 0, clock <- now, map <- Visible(Store, now),
  phase <- [t \in Task |-> Phase(t)],
  lease <- [t \in Task |-> IF req[t].op = "PUT" THEN stamp[t] ELSE 0]

\* The service implements the map of KVMap: each request takes effect once,
\* between its arrival and its answer, a success is never reported for a
\* write that did not happen, and clean-up never removes what a reader could
\* still see, even a row renewed while the clean-up statement runs.
ImplementsKVMap == Promise!Spec

\* Every request is answered, with an error if need be: no crash, and no
\* error on the way to one, leaves a task waiting for ever for a connection
\* (main.py:71, 179, 229, 269 and db.py:152).
RequestsAnswered == \A t \in Task : pc[t] # "new" ~> pc[t] = "done"

\* Expired and soft-deleted rows are reclaimed (or written again) once the
\* primary stays up, whatever crashes interrupt the passes (main.py:103).
HasDeadRow(k) == \E row \in Store : row.key = k /\ Doomed(row, now)
DeadRowsReclaimed ==
  <>[]up[Primary] => \A k \in Key : HasDeadRow(k) ~> ~HasDeadRow(k)
=============================================================================
