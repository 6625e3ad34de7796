----------------------------- MODULE Lifespan -----------------------------
(***************************************************************************)
(* kv-store: start-up and shutdown.  lifespan (main.py) opens the pools of *)
(* db.py, starts the clean-up task, lets requests be served, cancels the   *)
(* clean-up task, waits for it, and closes the pools.                      *)
(*                                                                         *)
(* What the requests and the clean-up task do with a connection is the     *)
(* subject of KVStore; here they ask for one, hold it and give it back.    *)
(* Pool 0 is the primary's, pool i the one of replica i.                   *)
(***************************************************************************)
EXTENDS Integers, FiniteSets

CONSTANTS
  Request,      \* requests in flight at a time
  NumReplicas,  \* len(REPLICA_PORTS)
  MaxSize       \* max_size of each pool

ASSUME LifespanAssumption ==
  /\ NumReplicas \in Nat
  /\ MaxSize \in Nat \ {0}

Pool == 0 .. NumReplicas

VARIABLES
  phase,      \* where lifespan stands
  pool,       \* pool[p]: not there yet, open, inside close(), or closed
  user,       \* user[r]: what request r has to do with a pool
  cleanup,    \* where the clean-up task stands
  cancelled,  \* cancel() was called, and CancelledError not yet raised
  background  \* asyncpg returns a connection whose owner was cancelled

vars == <<phase, pool, user, cleanup, cancelled, background>>

Idle == <<"idle">>
Running == <<"running">>
Waiting(p) == <<"waiting", p>>
Holding(p) == <<"holding", p>>

Place == {Idle, Running} \cup UNION {{Waiting(p), Holding(p)} : p \in Pool}

Init == /\ phase = "starting"
        /\ pool = [p \in Pool |-> "none"]
        /\ user = [r \in Request |-> Idle]
        /\ cleanup = "none"
        /\ cancelled = FALSE
        /\ background = FALSE

-----------------------------------------------------------------------------
(* A pool.                                                                 *)

\* The clean-up task has a connection of the primary.
CleanupHolds == cleanup \in {"executing", "releasing", "unwinding"}

\* The connections of pool p that are out.
InUse(p) ==
  {r \in Request : user[r] = Holding(p)}
    \cup IF p = 0 /\ CleanupHolds THEN {"cleanup"} ELSE {}
    \cup IF p = 0 /\ background THEN {"background"} ELSE {}

HasSlot(p) == pool[p] = "open" /\ Cardinality(InUse(p)) < MaxSize

-----------------------------------------------------------------------------
(* init_pools: the primary first, then the replicas in order.              *)

\* The pool that is created now.
NextToOpen(p) == /\ pool[p] = "none"
                 /\ \A q \in Pool : q < p => pool[q] # "none"

\* create_pool returns; after the last one, create_task(cleanup_loop()).
OpenPool(p) ==
  /\ phase = "starting" /\ NextToOpen(p)
  /\ pool' = [pool EXCEPT ![p] = "open"]
  /\ IF p = NumReplicas
       THEN phase' = "serving" /\ cleanup' = "sleeping"
       ELSE UNCHANGED <<phase, cleanup>>
  /\ UNCHANGED <<user, cancelled, background>>

\* create_pool raises, and so does the start-up: a server that is down now
\* stops the application, a replica included.
OpenFails ==
  /\ phase = "starting"
  /\ phase' = "failed"
  /\ UNCHANGED <<pool, user, cleanup, cancelled, background>>

-----------------------------------------------------------------------------
(* Requests.                                                               *)

Arrive(r) ==
  /\ phase = "serving" /\ user[r] = Idle
  /\ user' = [user EXCEPT ![r] = Running]
  /\ UNCHANGED <<phase, pool, cleanup, cancelled, background>>

\* get_primary_pool() or a round of get_replica_pool, then pool.acquire().
Ask(r) ==
  /\ user[r] = Running
  /\ \E p \in Pool : user' = [user EXCEPT ![r] = Waiting(p)]
  /\ UNCHANGED <<phase, pool, cleanup, cancelled, background>>

Obtain(r) ==
  \E p \in Pool :
    /\ user[r] = Waiting(p) /\ HasSlot(p)
    /\ user' = [user EXCEPT ![r] = Holding(p)]
    /\ UNCHANGED <<phase, pool, cleanup, cancelled, background>>

\* acquire() raises.
IsRefused(r) ==
  /\ \E p \in Pool : user[r] = Waiting(p)
  /\ user' = [user EXCEPT ![r] = Running]
  /\ UNCHANGED <<phase, pool, cleanup, cancelled, background>>

GiveBack(r) ==
  /\ \E p \in Pool : user[r] = Holding(p)
  /\ user' = [user EXCEPT ![r] = Running]
  /\ UNCHANGED <<phase, pool, cleanup, cancelled, background>>

Answer(r) ==
  /\ user[r] = Running
  /\ user' = [user EXCEPT ![r] = Idle]
  /\ UNCHANGED <<phase, pool, cleanup, cancelled, background>>

Serve(r) == Ask(r) \/ Obtain(r) \/ IsRefused(r) \/ GiveBack(r) \/ Answer(r)

-----------------------------------------------------------------------------
(* The clean-up task, by the await it stands at.  An Exception of acquire, *)
(* of the statement or of the return of the connection is caught, and the  *)
(* task goes back to its sleep; CancelledError is not an Exception.        *)

\* The task goes from one await to the next.
Moves(from, to) ==
  /\ cleanup = from /\ ~cancelled
  /\ cleanup' = to
  /\ UNCHANGED <<phase, pool, user, cancelled, background>>

Wakes == Moves("sleeping", "acquiring")

Acquires == HasSlot(0) /\ Moves("acquiring", "executing")

AcquireFails == Moves("acquiring", "sleeping")

\* With a result or with an exception.
Executes == Moves("executing", "releasing")

Releases == Moves("releasing", "sleeping")

\* (Mutant: a bare except catches CancelledError too.)
IsCancelledAndCaught ==
  /\ cancelled
  /\ cancelled' = FALSE
  /\ cleanup' = IF cleanup = "sleeping" THEN "ended" ELSE "sleeping"
  /\ background' = (cleanup = "releasing")
  /\ UNCHANGED <<phase, pool, user>>

\* CancelledError is raised where the task stands.  During the statement the
\* connection is given back on the way out; while it is given back already,
\* asyncpg shields that and goes on without the task.
IsCancelled ==
  /\ cancelled
  /\ cancelled' = FALSE
  /\ cleanup' = IF cleanup = "executing" THEN "unwinding" ELSE "ended"
  /\ background' = (cleanup = "releasing")
  /\ UNCHANGED <<phase, pool, user>>

Unwinds == Moves("unwinding", "ended")

\* The connection breaks while CancelledError is on its way out: the exception
\* of __aexit__ takes its place, is caught as an Exception, and the loop goes on.
UnwindFails == Moves("unwinding", "sleeping")

CleanupStep ==
  \/ Wakes \/ Executes \/ Releases \/ IsCancelled \/ Unwinds \/ UnwindFails

BackgroundReturns ==
  /\ background
  /\ background' = FALSE
  /\ UNCHANGED <<phase, pool, user, cleanup, cancelled>>

-----------------------------------------------------------------------------
(* Shutdown.                                                               *)

\* The server takes no more requests.
Signal ==
  /\ phase = "serving"
  /\ phase' = "draining"
  /\ UNCHANGED <<pool, user, cleanup, cancelled, background>>

\* All requests are answered, lifespan goes on after its yield: cancel().
Cancel ==
  /\ phase = "draining" /\ \A r \in Request : user[r] = Idle
  /\ phase' = "cancelling"
  /\ cancelled' = TRUE
  /\ UNCHANGED <<pool, user, cleanup, background>>

\* (Mutant: the task is not awaited.)
CleanupNotAwaited ==
  /\ phase = "cancelling"
  /\ phase' = "closing"
  /\ UNCHANGED <<pool, user, cleanup, cancelled, background>>

\* await cleanup_task returns.
CleanupAwaited ==
  /\ phase = "cancelling" /\ cleanup = "ended"
  /\ phase' = "closing"
  /\ UNCHANGED <<pool, user, cleanup, cancelled, background>>

\* The pool that close_pools has come to.
NextToClose(p) == /\ pool[p] # "closed"
                  /\ \A q \in Pool : q < p => pool[q] = "closed"

\* pool.close(): from now on acquire() raises.
CloseBegins(p) ==
  /\ phase = "closing" /\ NextToClose(p) /\ pool[p] = "open"
  /\ pool' = [pool EXCEPT ![p] = "closing"]
  /\ UNCHANGED <<phase, user, cleanup, cancelled, background>>

\* (Mutant: the pool is terminated, not closed.)
Terminates(p) ==
  /\ phase = "closing" /\ NextToClose(p) /\ pool[p] = "closing"
  /\ pool' = [pool EXCEPT ![p] = "closed"]
  /\ phase' = IF p = NumReplicas THEN "stopped" ELSE phase
  /\ UNCHANGED <<user, cleanup, cancelled, background>>

\* (Mutant: close_pools forgets the replicas.)
CloseEndsEarly(p) ==
  /\ phase = "closing" /\ NextToClose(p) /\ pool[p] = "closing"
  /\ InUse(p) = {}
  /\ pool' = [pool EXCEPT ![p] = "closed"]
  /\ phase' = "stopped"
  /\ UNCHANGED <<user, cleanup, cancelled, background>>

\* Every connection is back.
CloseEnds(p) ==
  /\ phase = "closing" /\ NextToClose(p) /\ pool[p] = "closing"
  /\ InUse(p) = {}
  /\ pool' = [pool EXCEPT ![p] = "closed"]
  /\ phase' = IF p = NumReplicas THEN "stopped" ELSE phase
  /\ UNCHANGED <<user, cleanup, cancelled, background>>

\* close() raises: it has terminated its own pool, the later ones stay open.
CloseFails(p) ==
  /\ phase = "closing" /\ NextToClose(p) /\ pool[p] = "closing"
  /\ InUse(p) = {}
  /\ pool' = [pool EXCEPT ![p] = "closed"]
  /\ phase' = "failed"
  /\ UNCHANGED <<user, cleanup, cancelled, background>>

LifespanStep ==
  \/ OpenFails \/ Cancel \/ CleanupAwaited
  \/ \E p \in Pool : OpenPool(p) \/ CloseBegins(p) \/ CloseEnds(p) \/ CloseFails(p)

Next ==
  \/ LifespanStep \/ Signal \/ BackgroundReturns
  \/ CleanupStep \/ Acquires \/ AcquireFails
  \/ \E r \in Request : Arrive(r) \/ Serve(r)

Spec == Init /\ [][Next]_vars

\* The event loop runs what is ready, statements and returns of connections
\* end, a pool serves those who wait in turn, and a request asks for connections
\* finitely often.  acquire() need not ever raise, and nobody need shut down.
FairSpec ==
  /\ Spec
  /\ WF_vars(LifespanStep) /\ WF_vars(BackgroundReturns)
  /\ WF_vars(CleanupStep) /\ SF_vars(Acquires)
  /\ \A r \in Request : /\ WF_vars(GiveBack(r)) /\ SF_vars(Obtain(r))
                        /\ SF_vars(Answer(r))

-----------------------------------------------------------------------------
\* Every variable has its type.
TypeOK ==
  /\ phase \in {"starting", "serving", "draining", "cancelling", "closing",
                "stopped", "failed"}
  /\ pool \in [Pool -> {"none", "open", "closing", "closed"}]
  /\ user \in [Request -> Place]
  /\ cleanup \in {"none", "sleeping", "acquiring", "executing", "releasing",
                  "unwinding", "ended"}
  /\ cancelled \in BOOLEAN
  /\ background \in BOOLEAN

\* No request and no pass of the clean-up meets a pool that is not open, half
\* started or half stopped as the application may be: the assertion of
\* get_primary_pool holds, _replica_rr is there, and acquire() never raises
\* because its pool is closing (db.py:118-121, 145, 152).
UsersMeetOpenPools ==
  (\E r \in Request : user[r] # Idle) \/ cleanup \notin {"none", "ended"}
    => \A p \in Pool : pool[p] = "open"

\* A pool is closed under nobody (db.py:92-97): what a cancelled clean-up left
\* to asyncpg is back as well.
NoneClosedUnderItsUser ==
  \A p \in Pool : pool[p] \in {"none", "closed"} => InUse(p) = {}

\* CancelledError got lost: lifespan waits for a clean-up task that goes on.
CancellationLost ==
  phase = "cancelling" /\ ~cancelled /\ cleanup \notin {"unwinding", "ended"}

\* A start-up comes to an end, and so does a shutdown, with all pools closed
\* or on an exception, unless the cancellation was lost (main.py:131-139).
StartsAndStops ==
  /\ phase = "starting" ~> phase \in {"serving", "failed"}
  /\ phase = "draining" ~>
       \/ phase = "stopped" /\ \A p \in Pool : pool[p] = "closed"
       \/ phase = "failed"
       \/ CancellationLost

\* A cancellation is lost only by a connection that breaks while the cancelled
\* clean-up gives it back: the except clause of the loop, which keeps it alive
\* (lines 101-104), takes the exception of that for one more failed pass.
LostOnlyByBrokenReturn ==
  [][CancellationLost' /\ ~CancellationLost => cleanup = "unwinding"]_vars
=============================================================================
