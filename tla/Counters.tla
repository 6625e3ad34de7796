----------------------------- MODULE Counters -----------------------------
(***************************************************************************)
(* python-deep-dive/01-threads-and-locks.py: two threads count together,   *)
(* in the three versions of the program: without a lock, with one, and     *)
(* each thread on a counter of its own.                                    *)
(*                                                                         *)
(* counter += 1 is a read and a write, between which another thread may    *)
(* run (line 25).  The names are its own, so that one module can extend    *)
(* this one and CondPool (see ThreadProofs).                               *)
(***************************************************************************)
EXTENDS Integers

CONSTANT N  \* iterations of each thread

ASSUME IterationsAssumption == N \in Nat \ {0}

Adder == {1, 2}
Free == 0  \* the lock has no owner

VARIABLES
  version,  \* which version of the program runs
  counter,  \* the global counter
  lock,     \* who holds the lock, or Free
  at,       \* at[t]: where thread t stands
  done,     \* done[t]: iterations of t that are over
  reg,      \* reg[t]: the value t has read, or its local counter
  results   \* the list of the isolated version

addVars == <<version, counter, lock, at, done, reg, results>>

AddInit == /\ version \in {"unsafe", "safe", "isolated"}
           /\ counter = 0
           /\ lock = Free
           /\ at = [t \in Adder |-> "loop"]
           /\ done = [t \in Adder |-> 0]
           /\ reg = [t \in Adder |-> 0]
           /\ results = [t \in Adder |-> 0]

\* Into the with block of increment_safe.
Acquire(t) ==
  /\ version = "safe" /\ at[t] = "loop" /\ done[t] < N
  /\ lock = Free
  /\ lock' = t
  /\ at' = [at EXCEPT ![t] = "locked"]
  /\ UNCHANGED <<version, counter, done, reg, results>>

\* (Mutant: the lock is released before the counter is written.)
ReadUnlocked(t) ==
  /\ \/ version = "unsafe" /\ at[t] = "loop" /\ done[t] < N
     \/ at[t] = "locked"
  /\ reg' = [reg EXCEPT ![t] = counter]
  /\ lock' = Free
  /\ at' = [at EXCEPT ![t] = "write"]
  /\ UNCHANGED <<version, counter, done, results>>

\* counter += 1 reads.
Read(t) ==
  /\ \/ version = "unsafe" /\ at[t] = "loop" /\ done[t] < N
     \/ at[t] = "locked"
  /\ reg' = [reg EXCEPT ![t] = counter]
  /\ at' = [at EXCEPT ![t] = "write"]
  /\ UNCHANGED <<version, counter, lock, done, results>>

\* (Mutant: counter is set back to what was read.)
WriteBack(t) ==
  /\ at[t] = "write"
  /\ counter' = reg[t]
  /\ done' = [done EXCEPT ![t] = @ + 1]
  /\ lock' = IF version = "safe" THEN Free ELSE lock
  /\ at' = [at EXCEPT ![t] = "loop"]
  /\ UNCHANGED <<version, reg, results>>

\* (Mutant: the lock is acquired and not released.)
WriteHolding(t) ==
  /\ at[t] = "write"
  /\ counter' = reg[t] + 1
  /\ done' = [done EXCEPT ![t] = @ + 1]
  /\ at' = [at EXCEPT ![t] = "loop"]
  /\ UNCHANGED <<version, lock, reg, results>>

\* counter += 1 writes; increment_safe leaves its with block.
Write(t) ==
  /\ at[t] = "write"
  /\ counter' = reg[t] + 1
  /\ done' = [done EXCEPT ![t] = @ + 1]
  /\ lock' = IF version = "safe" THEN Free ELSE lock
  /\ at' = [at EXCEPT ![t] = "loop"]
  /\ UNCHANGED <<version, reg, results>>

\* local_counter += 1 of increment_isolated.
AddLocally(t) ==
  /\ version = "isolated" /\ at[t] = "loop" /\ done[t] < N
  /\ reg' = [reg EXCEPT ![t] = @ + 1]
  /\ done' = [done EXCEPT ![t] = @ + 1]
  /\ UNCHANGED <<version, counter, lock, at, results>>

\* The loop is over; increment_isolated stores its count.
Finish(t) ==
  /\ at[t] = "loop" /\ done[t] = N
  /\ results' = IF version = "isolated" THEN [results EXCEPT ![t] = reg[t]] ELSE results
  /\ at' = [at EXCEPT ![t] = "done"]
  /\ UNCHANGED <<version, counter, lock, done, reg>>

AddStep(t) == Acquire(t) \/ Read(t) \/ Write(t) \/ AddLocally(t) \/ Finish(t)

AddNext == \E t \in Adder : AddStep(t)

AddSpec == AddInit /\ [][AddNext]_addVars

\* Every thread that can run runs, and one that waits for the lock gets it.
FairAddSpec == AddSpec /\ \A t \in Adder : SF_addVars(AddStep(t))

-----------------------------------------------------------------------------
\* Every variable has its type.
AddTypeOK ==
  /\ version \in {"unsafe", "safe", "isolated"}
  /\ counter \in Nat
  /\ lock \in Adder \cup {Free}
  /\ at \in [Adder -> {"loop", "locked", "write", "done"}]
  /\ done \in [Adder -> 0 .. N]
  /\ reg \in [Adder -> Nat]
  /\ results \in [Adder -> Nat]

\* Both join() have returned, and main prints.
Joined == \A t \in Adder : at[t] = "done"

\* What the unsafe version prints: increments are lost, never invented, and
\* whatever the interleaving at least two survive, one if N = 1 (line 25;
\* the comment of line 34 promises only "less").
UnsafeWithinBounds ==
  version = "unsafe" /\ Joined =>
    /\ counter <= 2 * N
    /\ counter >= IF N = 1 THEN 1 ELSE 2

\* The lock makes the count exact (lines 49 and 59, "exactly 2,000,000"), and so
\* does a counter for each thread, without a lock (lines 72 and 82).
ExactIfNotShared ==
  Joined => /\ version = "safe" => counter = 2 * N
            /\ version = "isolated" => results[1] + results[2] = 2 * N

\* Both threads end and join() returns (lines 31, 56 and 79).
AddersEnd == <>Joined
=============================================================================
