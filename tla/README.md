# the-grind: a verification project

The repository is a set of small programs kept beside study notes. This
directory models the programs that have state and concurrency in TLA+, checks
small instances with TLC and proves the main results for every instance with
TLAPS. Paths below are relative to the repository root.

## 1. The system

| Component | State | Operations | Speaks to | What is hard |
|---|---|---|---|---|
| **Request handlers**, `kv-store/app/main.py:145-283` | none between requests | `PUT`, `GET`, `DELETE /keys/{key}` | the pools; PostgreSQL | every `await` lets other tasks in; clock and deadline are sampled before the statement runs; errors of `acquire` and `execute` |
| **Replica routing**, `kv-store/app/db.py:124-162` | `_replica_pools`, the shared `_replica_rr` | `get_primary_pool`, `get_replica_pool` | replicas (`SELECT 1`) | a health check that is stale when used; two acquisitions of one pool by one request; fallback |
| **Clean-up task**, `main.py:41-104` | sampled `int(time.time())` | one pass per interval, in batches | primary | the subquery finds rows that change before the `DELETE` reaches them; an error must not end the loop |
| **Lifespan**, `main.py:110-139`, `db.py:61-108` | the pool singletons | `init_pools`, `close_pools`, cancellation | all of the above | a start-up that fails half-way; shutdown under a running statement; a cancellation that gets lost |
| **PostgreSQL**, `kv-store/init.sql`, `docker-compose.yml` | table `store`, two asynchronous replicas | statements, replay, crash, restart | - | lag; connections cut before or after a commit |
| **Condition pool**, `python-deep-dive/02-condition-variables.py` | `pool`, the condition's waiters | `borrow`, `return_conn` | worker threads | overtaking, time-outs racing `notify` |
| **Message queue**, `python-deep-dive/03-simple-message-queue.py` | `queue`, `in_flight` | `publish`, `receive`, `ack`, `requeue_expired` | producer, consumers, monitor | redelivery against late acknowledgements; lost wake-ups |
| **Bounded-queue pools**, `connection-pooling/pool.py`, `pool.go` | a queue / a buffered channel of connections | get, release, close | workers, main | a time-out beside a ready connection; closing while some are out |
| **Echo servers**, `python-deep-dive/04a-select-vs-epoll.py` | socket lists, selector | accept, receive, echo, disconnect | test clients | partial reads, events that go stale, clients that hang up or reset, sockets left open at the end |
| **Counters**, `python-deep-dive/01-threads-and-locks.py` | `counter`, the lock, `results` | increments | two threads | lost updates |
| **Kafka example**, `task-delegation/kafka-example` | the producer's buffer, the consumers' positions; log, groups and offsets in the broker | produce, flush, consume, stop, interrupt | broker | rebalancing, redelivery, failed batches, a kill between a record and its commit |
| **Notes and site** (`*.md`, `mkdocs.yml`, CI) | - | - | - | no behaviour |

What makes each of them correct:

- *Handlers, routing, clean-up together*: the service behaves like one map with
  expiring bindings on which each request acts at one instant; what was
  acknowledged is not lost, neither to a crash nor to the clean-up; reads of a
  replica are old but never wrong; no connection leaks; every request is
  answered; dead rows go away.
- *Lifespan*: whoever uses a pool finds it open, no pool is closed under its user,
  and a shutdown comes to an end.
- *Pools*: a connection is idle or with one borrower; a waiter is not left
  asleep beside an idle connection; the program ends with all connections back.
- *Queue*: each message is queued, in flight or acknowledged, once; one
  consumer at a time within the visibility timeout; no lost wake-up.
- *Echo servers*: both answer every client that asks while they are up, watch exactly
  the sockets they have, and close all of them.
- *Counters*: with the lock, or with a local counter each, no increment is lost.
- *Kafka example*: a group handles every order at least once and in order per customer,
  once if no consumer is killed, and the threads stop when told to.

The hazards, each at its line, are in `PROJECT.json`.

## 2. Modules

| Module | What it is |
|---|---|
| `KVMap` | abstract: the map the key-value service promises |
| `KVStore` | handlers, routing, clean-up, pools, primary and replicas |
| `KVStoreProofs` | its theorems |
| `Delivery` | abstract: the life of a message as `03-simple-message-queue.md:38-45` draws it |
| `SimpleQueue`, `SimpleQueueProofs` | the message queue with its harness, and its theorems |
| `CondPool` | the condition-variable pool |
| `ConnectionPool`, `ConnectionPoolProofs` | the pools of `pool.py` and `pool.go`, one machine with a variable `impl`, and its theorems |
| `SequenceLemmas` | induction over the naturals; what taking from, adding to, joining and reversing a sequence without repetitions does to its set of elements; used by the proofs of the pools, the queue and the Kafka example |
| `Lifespan`, `LifespanProofs` | start-up, cancellation and shutdown of the key-value service, and its theorems |
| `Echo` | abstract: what both echo servers promise |
| `EchoServers`, `EchoServersProofs` | both servers (a variable `impl`) with their clients, and its theorems |
| `Counters` | the three counters (a variable `version`) |
| `ThreadProofs` | the theorems of the two programs of threads, `CondPool` and `Counters` (whose specification is `AddSpec`) |
| `KafkaDemo`, `KafkaDemoProofs` | producer, consumers, group coordination; the demo and the scripts (a variable `program`); and its theorems |
| `MC*` | model values, value sets and symmetry for TLC |

`Lifespan` and `KVStore` are the two halves of one program. `Lifespan` shows that requests
and clean-up run between `init_pools` and `close_pools` and nowhere else, which is what
`KVStore` takes for granted; in return it keeps of a request only which pool it asks, waits
for and holds.

An operator marked *(Mutant: ...)* is not part of any specification. It is a
plausible bug of the definition that follows it; put in its place, TLC finds the
property it is meant for violated.

### KVStore and the code

An action runs from one `await` to the next; asyncio interleaves tasks there and
nowhere else.

| Action | Code |
|---|---|
| `PutKey`, `DeleteKey`, `GetFromPrimary`, `GetFromReplica` | the handler up to its first `await`: PUT fixes `expire_at`, GET draws the round robin |
| `ProbeAcquire`, `ProbeSucceeds`, `ProbeFails` (`TryNext`) | the loop of `get_replica_pool`, connection and `SELECT 1` apart |
| `Acquire`, `AcquireFails` | `async with pool.acquire()`; GET and DELETE evaluate `_now()` right after |
| `ExecutePut`, `ExecuteGet`, `ExecuteDelete` | the database runs the statement |
| `Respond`, `ExecuteFails` | the result or the exception arrives, the connection goes back |
| `CleanupAcquires`, `CleanupSelects`, `CleanupDeletes`, `CleanupEnds` | one pass; subquery and deletion are apart |
| `Replay`, `Crash`, `Restart`, `Tick` | the environment |

`inUse[s]` is the pool of server `s` as the set of its borrowers. `wal` is the
sequence of committed tables and `applied[r]` how many of them replica `r` shows.
`began[t]` is history: clock, log position, crash count and the servers up when request `t` arrived.

What is assumed of the environment, from the way `src` uses it:

- A statement runs in autocommit and takes effect at one instant. The one
  exception is the clean-up `DELETE`: it finds row versions by `ctid` first and
  removes "exactly those rows" (`main.py:82`). PostgreSQL checks a row again
  that was updated in between, and the new version has another `ctid`; that is
  `DeleteVersions`. The mutant `DeleteByKey`, which selects by key, breaks the
  refinement: this is where a renewed row would be lost.
- A crash cuts every connection that is in use, and keeps what was committed. A
  cut connection raises when it is used next. asyncpg replaces an idle dead
  connection when it is next borrowed, so idle connections are not modelled.
- `time.time()` does not go back. A clock that is set back is outside of the model
  (and would bring expired rows to life in the program too).
- Which rows a `LIMIT` returns is open.

### SimpleQueue, CondPool, ConnectionPool and the code

The methods of the queue and of the condition pool hold a lock, so each is one
action, except where a thread waits: `Receive` and `Borrow` end in the wait,
`Recheck` and `Resume` look again with the lock held. A wait that times out is two
actions (`TimesOut`, then `Recheck` or `Raise`), since the thread needs the lock
before it can act; in between it is still on the condition's list and can use up a
`notify()`, as CPython's `Condition` does. `requeue_expired` is one action; its two loops are
`Picked`, the elements of a sequence at a set of positions, in their order. `ConnectionPool` has one action per
operation of `queue.Queue` or of the channel. `pop()` on an empty list raises `IndexError`; the
mutant of `CondPool` with `if` for `while` is built so, and breaks `Termination`. The two programs of
`ConnectionPool` differ in
two places: Go's `select` may take the time-out although a connection is ready, and
Go closes the channel before it drains it.

Message identifiers are numbers in the order of publication (`uuid4` in the code, taken as unique); the numbers
exist for the properties and nothing in the model's steps depends on their order. `handed` is history: the
messages delivered at least once. The bodies, the prints and the durations of the sleeps are left out.

### Lifespan and the code

| Action | Code |
|---|---|
| `OpenPool`, `OpenFails` | one `create_pool` of `init_pools`, which `lifespan` does not catch; after the last, `create_task` |
| `Arrive`, `Ask`, `Obtain`, `IsRefused`, `GiveBack`, `Answer` | a request and the connections it asks for, any number, any pool, one at a time |
| `Wakes`, `Acquires`, `AcquireFails`, `Executes`, `Releases` | `cleanup_loop` from await to await |
| `Signal`, `Cancel`, `IsCancelled`, `CleanupAwaited` | the server drains, `cancel()`, `CancelledError` at the await, `await cleanup_task` |
| `Unwinds`, `UnwindFails`, `BackgroundReturns` | the connection of a cancelled pass goes back: on the way out, with an error, or without the task |
| `CloseBegins`, `CloseEnds`, `CloseFails` | `pool.close()` of each pool in turn: refuses newcomers, waits for borrowers, or raises |

`asyncio` delivers `CancelledError` at an await. asyncpg shields the return of a connection:
a task that is cancelled during it goes on at once, and the return is completed without
it (`background`). The server is taken to finish its requests before it resumes
`lifespan`, as uvicorn does by default.

### EchoServers and the code

One action per system call that another party can tell apart. `Select` stores what `select()` returned, and the
handlers work through it in any order, because neither server relies on one. A handler is one action: between
its `recv` and its `sendall` the server looks at nothing else. A message is a line of `MsgSize` pieces, of which
those in `Blank` are white space, the newline at its end among them. `Deliver` moves the pieces in groups of any
size and `recv` takes at most `RecvSize` of them, so a read finds any part of the line. What the server sends
back is `data.decode().strip()`: `Stripped` is the part from its first to its last piece that is no white space,
and the history `echoed` counts how often each piece was sent back. `Drop` is remove or unregister, then close.
The handlers' `except` is the third case of `HandleData` and part of `HandleGone`. `Deadline` may come at any
round of the loop. The client's own end is modelled as its code has it: it reads once, so it may hang up with
something unread, which TCP turns into a reset. `Finalize` is the interpreter: the selectors server returns
without closing its clients (line 261), and CPython closes a socket with its last reference.

### Counters and the code

`counter += 1` is `Read` and `Write`; `with lock` is `Acquire` before and the release inside
`Write`. Registers, not byte code: recent CPython versions happen not to switch threads between
the two, the language does not promise it, and the file's comments describe the switch.

### KafkaDemo and the code

| Action | Code |
|---|---|
| `Send`, `Flush` | `producer.send`, `flush` and `close`, in the demo and in `kafka_producer.py` |
| `Deliver`, `LoseBatch` | the library's sender thread: batches per partition, in order, delivered or failed (kafka-python's `retries` is 0) |
| `Start`, `Yield`, `Handle`, `TimesOut`, `NeverStarts`, `Close` | `run_consumer`, and the loop of `kafka_consumer.py` |
| `Interrupt`, `Crash` | Ctrl+C and `finally`; the process is killed |
| `AutoCommit`, `Rejoin`, `Assign`, `Evict` | the library and the coordinator: commit on a poll, commit and join again at a rebalance, assignment when all have joined, session time-out |
| `SetStop` | `stop.set()` after ten seconds |

The library's iterator sets the position past a record before it yields it; that decides what a
commit at each point covers. Rebalancing is eager, the library's default. A commit does not fail and only a
killed member is evicted (the loops do not keep a consumer from its heartbeats); `OnceUnlessKilled` rests
on both. `StartsAt` is `auto_offset_reset="earliest"`: where nothing is committed an owner starts at 0. The
partitioner is an arbitrary function of the key, drawn in `Init`, and so is the group of
each consumer, which makes both demos instances of one model.

## 3. Runs

All runs use `tlc -config X.cfg MCModule`.

| Run | Instance | Shows |
|---|---|---|
| `KVPrimary` | 3 requests of any kind, 1 key, 2 values, ttl in {1, None}, 2 connections, clock 2..3, no replica | `ImplementsKVMap`: each request acts at one instant and clean-up is invisible. `PrimaryAnswersAreCurrent`: the answer is right for a state and a second inside the request |
| `KVReplicas` | 2 requests of which one at least reads from a replica, 1 key, 1 value, ttl in {1, None}, primary and 2 replicas, pools of 1; with a write among them clock 2..3 and 1 crash, otherwise a clock that stands still and 3 crashes | `ReplicaAnswersWereTrue`: a replica answers from a state no older than it had, and nothing expired. `DownReplicasAreSurvived`: servers already down cost no request its answer. `LiveReplicasAreUsed`: none that is up is passed over for the primary. And the types |
| `KVCrash` | 2 requests, ttl in {-1, 9 (beyond the model's BIGINT), None}, 1 replica, pools of 1, 1 crash, fair | `ConnectionsAccounted` on each path, with the health check, the clean-up and the ttl that no BIGINT holds among them; `ImplementsKVMap` with cut connections, `RequestsAnswered`, `DeadRowsReclaimed` |
| `Queue` | 2 good consumers, 1 bad one, 3 messages, timeout 1, 2 monitor passes, clock 0..3, fair | `Conservation`, `FirstInFirstOut`, `ExclusiveWhileVisible`, `NoSleeperBesideAMessage`, `ImplementsDelivery`, `Termination` |
| `CondPool` | 5 threads, 2 connections, fair | `EveryConnectionOnce`, `WakeupsLostToTimeoutsOnly`, `Termination` |
| `ConnectionPool` | 5 workers, 2 connections (the demos' own numbers), both programs, fair | `ConnectionsDisjoint`, `ReleaseNeverBlocks`, `AllClosedAtEnd` |
| `Lifespan` | 2 requests, primary and 2 replicas, pools of 1, fair | `UsersMeetOpenPools`, `NoneClosedUnderItsUser`, `StartsAndStops`, `LostOnlyByBrokenReturn` |
| `EchoServers` | each server, 2 clients, messages of 4 pieces (text, blank, text, newline), reads of at most 3, fair | `SocketsAccounted`, `EventsStayGood`, `TextEchoedOnce`, `ImplementsEcho` (with its liveness), `GoneClientsDropped` |
| `KafkaDemo` | demo and scripts, 2 consumers in 1 or 2 groups, 2 partitions, 3 orders of 2 customers, 1 kill, batches fail until an order is lost, fair | `FlushedInOrder`, `CommittedIsDone`, `HandledInOrder`, `OnceUnlessKilled`, `ReadsAllAndStops`, and the types |
| `Counters` | 4 iterations, the three versions, fair | `UnsafeWithinBounds`, `ExactIfNotShared`, `AddersEnd` |
| `KVTTLZero`, `KVFallback` | 1 request, 1 key, ttl in {-1, 0, 1, None}, 1 replica, pools of 1 | see *Disagreements* |

Why the bounds are enough to be interesting. Keys do not interact except through the batch limit, so one key
with three requests contains the races: a clean-up statement between its two steps, one writer that renews the
row under it, and a reader. With a pool of one connection any leak, and any request that held its probe
connection while it asked for another, would stop everything. In `KVReplicas` three crashes take both replicas
down, or one and the primary, before or during a health check, and two requests draw from one round robin: a
loop that drew again at each try would come back to the replica it had tried. Two clock values let a deadline
pass at any point of a request. Three messages, of which several can expire in one pass, show the order
`appendleft` gives (`FirstInFirstOut`); clock 0..3 with a timeout of 1 gives a message that is redelivered and
expires again. Five threads with two connections give overtaking, and time-outs of more than one thread. With
pools of one connection the clean-up and a request compete for the primary at shutdown, and two replicas give a
start-up and a shutdown that fail in the middle. Two clients are enough for a backlog of two, and for an event
of one handled while the other hangs up; four pieces with white space inside and at the end let a cut fall
before, after and beside it. Two consumers meet in one group, and a rebalance finds the first of them at any
record; three orders give one partition two orders of a customer, with another customer's between or beside
them. Four iterations let a thread overwrite several increments of the other and still go on. The numeric bounds
are `MaxTime`, `MaxCrash`, `MaxLost`, `MaxBigint`, `NumRounds` and the size of each set; the programs bound
neither time nor crashes. One value suffices in `KVReplicas`, where a stale answer shows as a binding against
none; `KVPrimary` has two.

Deadlock is checked for the service, which never stops. The demos and the lifespan
end, and their runs say `CHECK_DEADLOCK FALSE`; that they end *well* is what
`Termination`, `AddersEnd`, `AllClosedAtEnd`, `StartsAndStops` and `ReadsAllAndStops` say.

Groups and partitions of `KafkaDemo` are interchangeable, so its run starts with the first
consumer in the first group and the first customer in the first partition.

### Fairness

- *Service*: strong fairness of each request's steps and of the clean-up task.
  The event loop runs whatever is ready, a server that is up answers, and asyncpg
  queues those who wait for a connection, so a task cannot be passed over for ever;
  weak fairness would not do, because a free slot comes and goes. Nothing is
  assumed of `Restart` or `Replay`: a dead server may stay dead, and
  `DeadRowsReclaimed` therefore starts with "if the primary stays up from
  some time on". Nor is anything assumed of arrivals.
- *Queue, pools*: weak fairness of each thread. Every wait in the demos has a
  timeout (10 s or 5 s), which is why `TimesOut` is among the fair steps.
- *Lifespan*: the event loop runs what is ready (weak fairness); a pool serves those who wait
  in turn and a request asks for connections finitely often (strong fairness of
  `Obtain`, `Acquires`, `Answer`). Nothing is assumed of errors, of arrivals, or of a
  signal.
- *Echo servers*: weak fairness of every thread, of delivery and of finalization. Nothing is
  assumed of the deadline.
- *Counters*: strong fairness of each thread: a lock that is free again and again is
  obtained at some time.
- *Kafka*: weak fairness of producer, consumers, coordinator and session time-out. Nobody
  need start, interrupt or kill a script, lose a batch, commit on a timer or set the
  stop event.

### Disagreements found

Two are runs that TLC ends with a counterexample.

- `KVTTLZero`: `PUT` with `ttl=0` stores a row that never expires (`main.py:174`
  tests truth); `models.py:6` reserves that for `None`.
- `KVFallback`: the fallback covers the health check and not the read after it: a
  replica that dies in between costs the client a 500 while the primary is up
  (`main.py:227-229` against `db.py:137` and `160`). `DownReplicasAreSurvived`
  states what does hold for requests that meet no crash, `LiveReplicasAreUsed` that for them the fallback
  is the last resort of `db.py:137`.

The others show as exceptions written into a property that passes.

- *A cancellation that gets lost.* `lifespan` relies on `cancel()` to end the clean-up
  (`main.py:134-138`). If the connection breaks while the cancelled pass gives it back,
  the exception of that replaces `CancelledError`, `except Exception` (line 101) takes it for one
  more failed pass, and the shutdown waits for ever. `LostOnlyByBrokenReturn` shows that this is
  the only way; `StartsAndStops` excepts it, and a `close()` that raises, and so says nothing about either.
- *A replica is needed to start.* `init_pools` lets the error of any replica through
  (`db.py:82-85`), so a service that survives all its replicas being down does not start
  with one of them down (`OpenFails`). A `pool.close()` that raises leaves the later pools open
  (`CloseFails`).
- *Acknowledging by message.* `ack` goes by message id, so a late one deletes the delivery of
  the next consumer, whose own ack then raises `KeyError` and ends its thread (`AckRaises`);
  the document acknowledges a receipt (`03-simple-message-queue.md:59-64`).
- *A wake-up spent on a time-out.* A `notify()` that goes to a thread whose wait has just timed out
  is not passed on; another sleeps on beside the idle connection
  (`02-condition-variables.py:15`). `WakeupsLostToTimeoutsOnly` bounds the damage.
- *White space is not echoed.* `strip()` works on each part a `recv` returns
  (`04a-select-vs-epoll.py:129`, `245`), so the newline at the end and all white space at a cut are dropped,
  and a newline is added for each part: what comes back depends on how TCP cut the line. `TextEchoedOnce`
  claims the rest only, once and complete, and white space at most once.
- *Sockets left to the interpreter.* `SocketsAccounted` holds of the selectors server only
  because of `Finalize` (line 261-262).
- *Lost without a word.* An order whose batch failed is missing after `flush()`, and nothing
  tells the program (`run_demo.py:84-87`); `FlushedInOrder` excepts it. A Ctrl+C between a record
  and its print commits the record as consumed (`kafka_consumer.py:78-90`); `CommittedIsDone`
  excepts it.

## 4. Proofs

All with TLAPS, for every value of the constants that satisfies the assumption in
the module that declares them.

- `TypeCorrect`: `Spec => []TypeOK`. `TypeOK` is inductive: it says that a probing request stands at a replica,
  which `TryNext` needs.
- `ConnectionsCorrect`: `Spec => []ConnectionsAccounted`. The invariant `ConnInv` splits it into `HoldersExact`
  (the borrowers are the tasks inside an acquire block) and `PoolsBounded`, and adds finiteness of each set of
  borrowers, without which cardinality says nothing. No assumption on crashes, errors or fairness.
- `Refinement`: `Spec => ImplementsKVMap`. The mapping takes `map` to the rows a reader would see now and folds
  the stations of a request into the phases of `KVMap`. The steps need `SampleInv`: a GET or DELETE sampled the
  clock no later than now (`StampsPast`), and what clean-up found was dead at its cutoff, hence is dead now
  (`VictimsDoomed`). From that, removing row versions is invisible, an expired row never comes back, and a soft
  delete that matches nothing by the sampled clock still has the effect of the abstract `DELETE`. Replicas,
  crashes and the clean-up's acquire and select steps map to stutters.
- `PrimaryIsCurrent`, `ReplicasWereTrue`: `HistoryInv` says of each request that the states it may answer for
  start where it began (`WindowInv`), and of each answer, from the moment the statement ran, that a state and a
  second of this window explain it (`AnswerInv`). The lemma `StepGrows` (clock, log and replay positions only
  grow) carries an explanation from one step to the next.
- `ReplicasMayBeDown`: `HealthInv`: a request that has met no crash and began with the primary up stands at a
  server that is up, on a connection that is not cut.
- `NoReplicaSkipped`: `TriedInv` names the replicas a loop has behind it, the `tries` before the one it stands
  at in the order of the round robin (`Behind`), and says that each of them was down when the request began;
  after `NumReplicas` tries these are all. It holds because a request keeps its own position: other requests
  move `rr` only.
- `NoneLostOrDoubled`, `InOrder`, `OneHolderWhileVisible`, `NoLostWakeup`, `QueueRefines` (`SimpleQueueProofs`):
  `PlacesInv` says that each published message is queued, in flight or acknowledged, once in one of the three.
  `ExclusiveWhileVisible` speaks of threads only and is not inductive; `HolderInv` ties a working consumer to
  the entry of `in_flight` that was made for it, unless its time is over or an earlier holder has acknowledged
  the message under it. Two consumers at work would then share an entry, and a message is received again only
  after its entry has expired. `InOrder` needs `OrderInv`: what is in flight was handed out and what is still to
  be published was not, so what a requeue puts in front was delivered before. `NoSleeperBesideAMessage` is
  inductive with the type of `pc`. For `QueueRefines` each step moves the status of one message (`publish`,
  `receive`, `ack`) or of a set of them (`requeue_expired`) along the diagram of `Delivery`.
- `OrdersArrive`, `AtLeastOnce`, `InOrderPerCustomer`, `OnceInAGroup` (`KafkaDemoProofs`). `OrderInv`: log and
  buffer of a partition together are increasing, and each order sent is in one of them or lost. `GroupInv`:
  members of a group never own a partition together, kept by the barrier at which the coordinator waits for all
  of them to join. `DoneInv`: up to the position of an owner its group has done everything, but for the record
  in hand; so what it commits is done, and what it handles next comes after all earlier records. `AtLeastOnce`
  and `InOrderPerCustomer` need no more and allow kills. `OnceInv` is about runs without a kill: nothing past an
  owner's position is handled, an owner that joins again has committed its position, and what is handled of a
  partition without an owner is committed. A kill breaks the last one.
- `NoneLostOrShared`, `OneWakeupPerTimeout` (`ThreadProofs`): the queue of waiters holds each waiting thread
  once and besides only expired ones (`QueueInv`), and an idle connection beside a sleeper was announced to a
  woken thread or to one that left the queue (`AnnouncedInv`). The count over threads that gave up needs the
  finer one over those no longer queued: a time-out alone loses nothing, a `notify()` to the expired thread
  does. Assumes that there are finitely many threads.
- `ConnectionsKeptApart`, `ReleaseIsImmediate` (`ConnectionPoolProofs`): disjointness is inductive with "`close`
  comes after the last worker"; room in the queue follows from it by the pigeonhole lemma of `SequenceLemmas`.
- `PoolsOpenWhenUsed`, `PoolsClosedAfterUse`, `CancellationReliable` (`LifespanProofs`): `PhaseInv` lists what
  holds in each phase (all pools open from serving to cancelling, no request left from cancelling on, the
  clean-up ended from closing on); `BackgroundInv` keeps the primary's pool from being closed over what a
  cancelled pass left behind.
- `ListMatchesSockets`, `NoStaleEvents`, `TextEchoed`, `Refinement` (`EchoServersProofs`): `StageInv` relates
  the list to the sockets stage by stage, `ClientInv` and `PiecesInv` a client's place to its connection and its
  message. An event stays good since only its own handler takes from a client's buffer or drops its socket.
  `TextEchoed` needs of `strip()` that it keeps a subset of the part with all its text (`StrippedKeepsText`),
  and that the parts of two reads do not meet. `Refinement` is the safety part of `ImplementsEcho`.
- `LostUpdatesBounded`, `ExactCounts` (`ThreadProofs`): the lower bound needs that a thread with an iteration
  behind it has read at least 1, so the last write leaves at least 2.

Every component's `TypeOK` is proved for every state too, so a theorem states each invariant the
passing runs check, and each safety part of a refinement.

Two things made the queue and the Kafka example provable. A recursive function, such as the one in `Picked`,
can be reasoned about with `Induction` of `SequenceLemmas`: it states induction for a set in place of a predicate,
so the provers need not instantiate an operator. And the lemmas about sequences say what `Tail`, `Append`,
`Front`, `RemoveAt`, `\o` and `Reverse` do to the set of elements, which is all the invariants ask.

The invariants `Inv` of `SimpleQueueProofs` and `KafkaDemoProofs` were checked by TLC on the instances of the runs
`Queue` and `KafkaDemo` before they were proved.

Only model-checked: liveness and everything under fairness, which is outside of the prover's reach:
`RequestsAnswered`, `DeadRowsReclaimed`, the `Termination` properties, `AddersEnd`, `AllClosedAtEnd`,
`StartsAndStops`, `GoneClientsDropped`, `ReadsAllAndStops` and the fair half of `ImplementsEcho`.

## 5. Plan, and what is not modelled

Every program of the repository that has state is modelled. What could be added:

1. A run of `KVStore` with two keys, where the batch limit leaves dead rows for a
   second pass (the theorems hold for any number of keys and any batch size; liveness is
   checked with one key).
2. Abstract specifications of the Kafka example and of the pools (a log with one cursor per group;
   a set of free connections), with the refinements proved; of `CondPool`, that what `WakeupsLostToTimeoutsOnly`
   bounds cannot happen without a time-out.
3. `KVStore` and `Lifespan` in one module: requests that fail because a shutdown overtakes them
   cannot occur (`UsersMeetOpenPools`), so this would show nothing new unless the server were
   allowed to abandon requests.

Not modelled: the notes, the documentation site and its workflow (no behaviour);
`borrow_busy_wait`, which nothing calls; the SQL planner and the wire protocols; socket buffers that
fill (a line of some 30 bytes does not; `sendall` on a full one would raise
`BlockingIOError`, which neither server catches); a character cut in two between reads (`decode()` would
raise; the clients send ASCII); what the demos print and count; promotion of a
replica and the loss of a disk, for which the deployment has no procedure; more than one run of
`kafka_producer.py` against one topic.
