--------------------------- MODULE ConnectionPool ---------------------------
(***************************************************************************)
(* connection-pooling: the fixed-size pool of pool.py (a queue.Queue) and  *)
(* of pool.go (a buffered channel), with the workers and the main program  *)
(* of their demos.  Both are the same machine but for two points: Go's     *)
(* select may take the time-out although a connection is there, and Go     *)
(* closes the channel before it drains it.                                 *)
(***************************************************************************)
EXTENDS Integers, SequencesExt

CONSTANTS Worker, PoolSize

ASSUME PoolSizeAssumption == PoolSize \in Nat \ {0}

Conn == 1 .. PoolSize

VARIABLES
  impl,    \* which of the two programs runs: "py" or "go"
  conns,   \* self._pool, p.conns
  sealed,  \* the channel is closed (Go)
  pc,      \* pc[w]: where worker w stands
  holds,   \* holds[w]: the connection it has borrowed, or 0
  closed,  \* the connections that have been closed
  main     \* where the main program stands

vars == <<impl, conns, sealed, pc, holds, closed, main>>

\* NewPool, ConnectionPool.__init__: the pool starts full.
Init == /\ impl \in {"py", "go"}
        /\ conns = [i \in Conn |-> i]
        /\ sealed = FALSE
        /\ pc = [w \in Worker |-> "get"]
        /\ holds = [w \in Worker |-> 0]
        /\ closed = {}
        /\ main = "join"

\* (Mutant: the connection stays in the pool.)
GetShared(w) ==
  /\ pc[w] = "get" /\ conns # <<>>
  /\ holds' = [holds EXCEPT ![w] = Head(conns)]
  /\ pc' = [pc EXCEPT ![w] = "execute"]
  /\ UNCHANGED <<impl, conns, sealed, closed, main>>

\* get_conn(), Get(): the oldest idle connection.
Get(w) ==
  /\ pc[w] = "get" /\ conns # <<>>
  /\ holds' = [holds EXCEPT ![w] = Head(conns)]
  /\ conns' = Tail(conns)
  /\ pc' = [pc EXCEPT ![w] = "execute"]
  /\ UNCHANGED <<impl, sealed, closed, main>>

\* Five seconds are over: queue.Queue looks once more, select does not.
TimesOut(w) ==
  /\ pc[w] = "get"
  /\ impl = "py" => conns = <<>>
  /\ pc' = [pc EXCEPT ![w] = "failed"]
  /\ UNCHANGED <<impl, conns, sealed, holds, closed, main>>

\* The query, or an exception (a panic) that ends the worker with the
\* connection still out, if it has been closed.
Execute(w) ==
  /\ pc[w] = "execute"
  /\ pc' = [pc EXCEPT ![w] = IF holds[w] \in closed THEN "crashed" ELSE "release"]
  /\ UNCHANGED <<impl, conns, sealed, holds, closed, main>>

\* (Mutant: returned in the worker and once more in a finally.)
ReleaseTwice(w) ==
  /\ pc[w] = "release" /\ Len(conns) < PoolSize
  /\ conns' = conns \o (IF Len(conns) + 1 < PoolSize THEN <<holds[w], holds[w]>>
                                                     ELSE <<holds[w]>>)
  /\ holds' = [holds EXCEPT ![w] = 0]
  /\ pc' = [pc EXCEPT ![w] = "done"]
  /\ UNCHANGED <<impl, sealed, closed, main>>

\* release_conn(), Release(): put() and send block while the pool is full,
\* and a send on the closed channel panics.
Release(w) ==
  /\ pc[w] = "release"
  /\ IF sealed
       THEN pc' = [pc EXCEPT ![w] = "crashed"] /\ UNCHANGED <<conns, holds>>
       ELSE /\ Len(conns) < PoolSize
            /\ conns' = Append(conns, holds[w])
            /\ holds' = [holds EXCEPT ![w] = 0]
            /\ pc' = [pc EXCEPT ![w] = "done"]
  /\ UNCHANGED <<impl, sealed, closed, main>>

Ended(w) == pc[w] \in {"done", "failed", "crashed"}

\* (Mutant: close() without join().)
CloseAtOnce ==
  /\ main = "join"
  /\ main' = "close"
  /\ sealed' = (impl = "go")
  /\ UNCHANGED <<impl, conns, pc, holds, closed>>

\* t.join(), wg.Wait(), and the call of close().
Close ==
  /\ main = "join" /\ \A w \in Worker : Ended(w)
  /\ main' = "close"
  /\ sealed' = (impl = "go")
  /\ UNCHANGED <<impl, conns, pc, holds, closed>>

Drain ==
  /\ main = "close"
  /\ IF conns = <<>>
       THEN main' = "end" /\ UNCHANGED <<conns, closed>>
       ELSE /\ closed' = closed \cup {Head(conns)}
            /\ conns' = Tail(conns)
            /\ main' = main
  /\ UNCHANGED <<impl, sealed, pc, holds>>

Work(w) == Get(w) \/ TimesOut(w) \/ Execute(w) \/ Release(w)

Next == (\E w \in Worker : Work(w)) \/ Close \/ Drain

Spec == Init /\ [][Next]_vars

\* Threads and goroutines keep running, and no wait is longer than its timeout.
FairSpec == /\ Spec
            /\ \A w \in Worker : WF_vars(Work(w))
            /\ WF_vars(Close) /\ WF_vars(Drain)

-----------------------------------------------------------------------------
\* Every variable has its type.
TypeOK ==
  /\ impl \in {"py", "go"} /\ conns \in Seq(Conn) /\ sealed \in BOOLEAN
  /\ pc \in [Worker -> {"get", "execute", "release", "done", "failed", "crashed"}]
  /\ holds \in [Worker -> 0 .. PoolSize]
  /\ closed \subseteq Conn /\ main \in {"join", "close", "end"}

Out == {w \in Worker : holds[w] # 0}

\* A connection is idle, lent to one worker or closed, never two of these
\* and never twice (pool.py:77-84 and 96, pool.go:110).
ConnectionsDisjoint ==
  /\ \A i, j \in DOMAIN conns : conns[i] = conns[j] => i = j
  /\ \A v, w \in Out : holds[v] = holds[w] => v = w
  /\ \A w \in Out : holds[w] \notin ToSet(conns) \cup closed
  /\ ToSet(conns) \cap closed = {}

\* "put() blocks if the queue is full (shouldn't happen if used correctly)"
\* (pool.py:14): there is room for every connection that comes back, and the
\* channel is still open (pool.go:123).
ReleaseNeverBlocks ==
  \A w \in Worker : pc[w] = "release" => Len(conns) < PoolSize /\ ~sealed

\* The program ends and leaves no connection open, however many workers
\* gave up waiting (pool.py:151-155, pool.go:185-188).
AllClosedAtEnd == <>(main = "end" /\ closed = Conn)
=============================================================================
