------------------------------ MODULE CondPool ------------------------------
(***************************************************************************)
(* python-deep-dive/02-condition-variables.py: SimpleConnectionPool, a     *)
(* stack of connections under a threading.Condition, and threads that run  *)
(* worker().                                                               *)
(*                                                                         *)
(* Condition is modelled as borrow and return_conn use it: wait() queues   *)
(* the thread and releases the lock; a thread whose wait has timed out     *)
(* stays queued until it has the lock again; notify() wakes the first      *)
(* thread queued, and is spent even if that thread has timed out.          *)
(***************************************************************************)
EXTENDS Integers, FiniteSets, SequencesExt

CONSTANTS Thread, Size

ASSUME PoolAssumption == Size \in Nat \ {0} /\ IsFiniteSet(Thread)

Conn == 1 .. Size

VARIABLES
  pool,     \* self.pool
  waiters,  \* the condition's queue of waiting threads
  pc,       \* pc[t]: where thread t stands
  holds     \* holds[t]: the connection it has borrowed, or 0

vars == <<pool, waiters, pc, holds>>

Init == /\ pool = [i \in Conn |-> i]
        /\ waiters = <<>>
        /\ pc = [t \in Thread |-> "new"]
        /\ holds = [t \in Thread |-> 0]

\* (Mutant: self.pool[-1] for pop().)
GrabKeeping(t) ==
  /\ pool # <<>>
  /\ holds' = [holds EXCEPT ![t] = Last(pool)]
  /\ pc' = [pc EXCEPT ![t] = "using"]
  /\ UNCHANGED pool

\* return self.pool.pop()
Grab(t) == /\ pool # <<>>
           /\ holds' = [holds EXCEPT ![t] = Last(pool)]
           /\ pool' = Front(pool)
           /\ pc' = [pc EXCEPT ![t] = "using"]

\* condition.wait(): queued, then asleep without the lock.
Sleep(t) == /\ pool = <<>>
            /\ waiters' = Append(waiters, t)
            /\ pc' = [pc EXCEPT ![t] = "waiting"]
            /\ UNCHANGED <<pool, holds>>

\* borrow() finds a connection or waits.
Borrow(t) == /\ pc[t] = "new"
             /\ (Grab(t) /\ UNCHANGED waiters) \/ Sleep(t)

\* (Mutant: if for while.  pop() of an empty list raises IndexError.)
ResumeUnchecked(t) ==
  /\ pc[t] = "woken"
  /\ \/ Grab(t)
     \/ pool = <<>> /\ pc' = [pc EXCEPT ![t] = "crashed"] /\ UNCHANGED <<pool, holds>>
  /\ UNCHANGED waiters

\* A notified thread has the lock again: another may have been faster.
Resume(t) == /\ pc[t] = "woken"
             /\ (Grab(t) /\ UNCHANGED waiters) \/ Sleep(t)

\* The time is up; the thread still has to get the lock.
TimesOut(t) == /\ pc[t] = "waiting"
               /\ pc' = [pc EXCEPT ![t] = "expired"]
               /\ UNCHANGED <<pool, waiters, holds>>

\* wait() returns False and borrow raises, whatever the pool holds now.
Raise(t) == /\ pc[t] = "expired"
            /\ \/ t \notin ToSet(waiters) /\ UNCHANGED waiters
               \/ \E i \in DOMAIN waiters :
                    waiters[i] = t /\ waiters' = RemoveAt(waiters, i)
            /\ pc' = [pc EXCEPT ![t] = "failed"]
            /\ UNCHANGED <<pool, holds>>

\* (Mutant: no notify.)
ReturnSilently(t) ==
  /\ pc[t] = "using"
  /\ pool' = Append(pool, holds[t])
  /\ holds' = [holds EXCEPT ![t] = 0]
  /\ pc' = [pc EXCEPT ![t] = "done"]
  /\ UNCHANGED waiters

\* return_conn(): append, then notify() the first thread queued.
Return(t) ==
  /\ pc[t] = "using"
  /\ pool' = Append(pool, holds[t])
  /\ holds' = [holds EXCEPT ![t] = 0]
  /\ IF waiters = <<>>
       THEN pc' = [pc EXCEPT ![t] = "done"] /\ UNCHANGED waiters
       ELSE /\ pc' = [pc EXCEPT ![t] = "done", ![Head(waiters)] =
                        IF pc[Head(waiters)] = "waiting" THEN "woken" ELSE "expired"]
            /\ waiters' = Tail(waiters)

Step(t) == Borrow(t) \/ Resume(t) \/ TimesOut(t) \/ Raise(t) \/ Return(t)

Next == \E t \in Thread : Step(t)

Spec == Init /\ [][Next]_vars

\* Every thread keeps running: its query ends, and its wait at the latest
\* when the timeout of 10 seconds is over.
FairSpec == Spec /\ \A t \in Thread : WF_vars(Step(t))

-----------------------------------------------------------------------------
\* Every variable has its type.
TypeOK ==
  /\ pool \in Seq(Conn)
  /\ waiters \in Seq(Thread)
  /\ pc \in [Thread -> {"new", "waiting", "woken", "expired", "using", "done", "failed"}]
  /\ holds \in [Thread -> 0 .. Size]

In(where) == {t \in Thread : pc[t] = where}

\* Every connection is either idle, once, or with exactly one thread that
\* uses it: the pool never hands out a connection twice and loses none,
\* whoever is woken, overtaken or times out (lines 34-43).
EveryConnectionOnce ==
  /\ Len(pool) + Cardinality(In("using")) = Size
  /\ ToSet(pool) \cup {holds[t] : t \in In("using")} = Conn

\* A thread sleeps beside an idle connection only as far as time-outs have
\* eaten the wake-ups: each loses at most one (lines 34-43).
WakeupsLostToTimeoutsOnly ==
  In("waiting") # {} =>
    Len(pool) <= Cardinality(In("woken")) + Cardinality(In("expired") \cup In("failed"))

\* Every thread gets its connection and returns it, or gives up; no
\* connection stays out and main's join() returns (lines 66-71).
AllJoined == \A t \in Thread : pc[t] \in {"done", "failed"}
Termination == <>(AllJoined /\ Len(pool) = Size)
=============================================================================
