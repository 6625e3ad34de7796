---------------------------- MODULE ThreadProofs ----------------------------
(***************************************************************************)
(* Theorems about the threads of python-deep-dive: CondPool, for any       *)
(* finite set of threads and any size, and then Counters, for any number   *)
(* of iterations.                                                          *)
(***************************************************************************)
EXTENDS CondPool, Counters, SequenceLemmas

Lent == {holds[t] : t \in In("using")}

GivenUp == In("expired") \cup In("failed")

\* Who waited in vain for a notify() that was spent, or for none.
Lost == GivenUp \ ToSet(waiters)

\* The queue holds each waiting thread once, and of the others only those
\* whose time is up.
QueueInv ==
  /\ \A i \in DOMAIN waiters : pc[waiters[i]] \in {"waiting", "expired"}
  /\ \A i, j \in DOMAIN waiters : waiters[i] = waiters[j] => i = j
  /\ In("waiting") \subseteq ToSet(waiters)

\* An idle connection beside a sleeping thread was announced to a woken one
\* or to one that has left the queue.
AnnouncedInv ==
  In("waiting") # {} => Len(pool) <= Cardinality(In("woken")) + Cardinality(Lost)

Inv == TypeOK /\ QueueInv /\ EveryConnectionOnce /\ AnnouncedInv

-----------------------------------------------------------------------------
(* Finite sets.                                                            *)

LEMMA Counting ==
  ASSUME NEW S \in SUBSET Thread
  PROVE  /\ IsFiniteSet(S) /\ Cardinality(S) \in Nat
         /\ \A t \in Thread \ S : Cardinality(S \cup {t}) = Cardinality(S) + 1
         /\ \A t \in S : Cardinality(S \ {t}) = Cardinality(S) - 1
         /\ \A T \in SUBSET S : Cardinality(T) \in Nat /\ Cardinality(T) <= Cardinality(S)
<1>1. IsFiniteSet(S) /\ Cardinality(S) \in Nat
  BY PoolAssumption, FS_Subset, FS_CardinalityType
<1>2. \A t \in Thread \ S : Cardinality(S \cup {t}) = Cardinality(S) + 1
  BY <1>1, FS_AddElement
<1>3. \A t \in S : Cardinality(S \ {t}) = Cardinality(S) - 1
  BY <1>1, FS_RemoveElement
<1>4. \A T \in SUBSET S : Cardinality(T) \in Nat /\ Cardinality(T) <= Cardinality(S)
  BY <1>1, FS_Subset, FS_CardinalityType
<1> QED
  BY <1>1, <1>2, <1>3, <1>4

-----------------------------------------------------------------------------
(* The steps.                                                              *)

LEMMA Queued ==
  ASSUME Inv
  PROVE  \A t \in ToSet(waiters) : t \in Thread /\ pc[t] \in {"waiting", "expired"}
  BY DEF Inv, TypeOK, QueueInv, ToSet

LEMMA InitInv == Init => Inv
<1> SUFFICES ASSUME Init PROVE Inv
  OBVIOUS
<1>1. /\ \A w \in {"using", "waiting", "woken", "expired", "failed"} : In(w) = {}
      /\ Lent = {} /\ waiters = <<>>
  BY DEF Init, In, Lent
<1>2. Len(pool) = Size /\ ToSet(pool) = Conn /\ pool \in Seq(Conn)
  BY PoolAssumption DEF Init, Conn, ToSet
<1>3. TypeOK
  <2>1. 0 \in 0 .. Size
    BY PoolAssumption
  <2>2. holds \in [Thread -> 0 .. Size] /\ waiters \in Seq(Thread)
    BY <2>1 DEF Init
  <2>3. pc \in [Thread -> {"new", "waiting", "woken", "expired", "using", "done",
                          "failed"}]
    BY DEF Init
  <2> QED
    BY <1>2, <2>2, <2>3 DEF TypeOK
<1>4. EveryConnectionOnce
  BY <1>1, <1>2, FS_EmptySet, PoolAssumption DEF EveryConnectionOnce, Lent
<1>5. QueueInv /\ AnnouncedInv
  BY <1>1 DEF QueueInv, AnnouncedInv
<1> QED
  BY <1>3, <1>4, <1>5 DEF Inv

LEMMA GrabStep ==
  ASSUME Inv, NEW t \in Thread, pc[t] \in {"new", "woken"}, Grab(t), UNCHANGED waiters
  PROVE  Inv'
<1>1. /\ pool # <<>> /\ pool' = Front(pool)
      /\ holds' = [holds EXCEPT ![t] = Last(pool)]
      /\ pc' = [pc EXCEPT ![t] = "using"]
  BY DEF Grab
<1>2. /\ pool' \in Seq(Conn) /\ Last(pool) \in Conn
      /\ Len(pool') = Len(pool) - 1 /\ Len(pool) \in Nat
      /\ ToSet(pool) = ToSet(pool') \cup {Last(pool)}
  BY <1>1, TakeLast DEF Inv, TypeOK
<1>3. TypeOK'
  BY <1>1, <1>2, PoolAssumption DEF Inv, TypeOK, Conn
<1>4. /\ t \notin In("using") /\ In("using")' = In("using") \cup {t}
      /\ In("waiting")' = In("waiting") /\ In("woken")' = In("woken") \ {t}
      /\ In("expired")' = In("expired") /\ In("failed")' = In("failed")
  BY <1>1 DEF Inv, TypeOK, In
<1>5. EveryConnectionOnce'
  <2>1. Cardinality(In("using")') = Cardinality(In("using")) + 1
    BY <1>4, Counting DEF In
  <2>2. Lent' = Lent \cup {Last(pool)}
    BY <1>1, <1>4 DEF Inv, TypeOK, Lent
  <2>3. /\ Cardinality(In("using")) \in Nat
        /\ Len(pool) + Cardinality(In("using")) = Size
        /\ ToSet(pool) \cup Lent = Conn
    BY Counting DEF Inv, EveryConnectionOnce, Lent, In
  <2>4. ToSet(pool') \cup Lent' = Conn
    BY <1>2, <2>2, <2>3
  <2>5. Len(pool') + Cardinality(In("using")') = Size
    BY <1>2, <2>1, <2>3, PoolAssumption
  <2> QED
    BY <2>4, <2>5 DEF EveryConnectionOnce, Lent
<1>6. QueueInv'
  <2>1. t \notin ToSet(waiters)
    BY Queued
  <2>2. \A u \in ToSet(waiters') : pc'[u] \in {"waiting", "expired"}
    BY <1>1, <2>1, Queued DEF Inv, TypeOK
  <2> QED
    BY <1>4, <2>2 DEF Inv, QueueInv, ToSet
<1>7. AnnouncedInv'
  <2>1. Lost' = Lost
    BY <1>4 DEF Lost, GivenUp
  <2>2. pc[t] = "new" => In("woken")' = In("woken")
    BY <1>4 DEF In
  <2>3. pc[t] = "woken" => Cardinality(In("woken")') = Cardinality(In("woken")) - 1
    BY <1>4, Counting DEF In
  <2>4. Cardinality(In("woken")) \in Nat /\ Cardinality(Lost) \in Nat
    BY Counting DEF In, Lost, GivenUp
  <2> QED
    BY <1>2, <1>4, <2>1, <2>2, <2>3, <2>4 DEF Inv, AnnouncedInv
<1> QED
  BY <1>3, <1>5, <1>6, <1>7 DEF Inv

LEMMA SleepStep ==
  ASSUME Inv, NEW t \in Thread, pc[t] \in {"new", "woken"}, Sleep(t)
  PROVE  Inv'
<1>1. /\ pool = <<>> /\ waiters' = Append(waiters, t)
      /\ pc' = [pc EXCEPT ![t] = "waiting"]
      /\ UNCHANGED <<pool, holds>>
  BY DEF Sleep
<1>2. t \notin ToSet(waiters)
  BY Queued
<1>3. /\ waiters' \in Seq(Thread) /\ ToSet(waiters') = ToSet(waiters) \cup {t}
      /\ \A i, j \in DOMAIN waiters' : waiters'[i] = waiters'[j] => i = j
  BY <1>1, <1>2, PutLast DEF Inv, TypeOK, QueueInv
<1>4. TypeOK'
  BY <1>1, <1>3 DEF Inv, TypeOK
<1>5. In("using")' = In("using") /\ In("waiting")' = In("waiting") \cup {t}
  BY <1>1 DEF Inv, TypeOK, In
<1>6. EveryConnectionOnce'
  BY <1>1, <1>5 DEF Inv, EveryConnectionOnce
<1>7. QueueInv'
  <2>1. \A u \in ToSet(waiters') : pc'[u] \in {"waiting", "expired"}
    BY <1>1, <1>3, Queued DEF Inv, TypeOK
  <2> QED
    BY <1>3, <1>5, <2>1 DEF Inv, QueueInv, ToSet
<1>8. AnnouncedInv'
  <2>1. Len(pool') = 0
    BY <1>1
  <2>2. Cardinality(In("woken")') \in Nat /\ Cardinality(Lost') \in Nat
    BY Counting DEF In, Lost, GivenUp
  <2> QED
    BY <2>1, <2>2 DEF AnnouncedInv
<1> QED
  BY <1>4, <1>6, <1>7, <1>8 DEF Inv

LEMMA TimesOutStep == ASSUME Inv, NEW t \in Thread, TimesOut(t) PROVE Inv'
<1>1. /\ pc[t] = "waiting" /\ pc' = [pc EXCEPT ![t] = "expired"]
      /\ UNCHANGED <<pool, waiters, holds>>
  BY DEF TimesOut
<1>2. /\ In("using")' = In("using") /\ In("waiting")' = In("waiting") \ {t}
      /\ In("woken")' = In("woken") /\ In("failed")' = In("failed")
      /\ In("expired")' = In("expired") \cup {t}
  BY <1>1 DEF Inv, TypeOK, In
<1>3. t \in ToSet(waiters)
  BY <1>1 DEF Inv, QueueInv, In
<1>4. TypeOK' /\ QueueInv'
  BY <1>1, <1>2 DEF Inv, TypeOK, QueueInv
<1>5. EveryConnectionOnce'
  BY <1>1, <1>2 DEF Inv, EveryConnectionOnce
<1>6. AnnouncedInv'
  <2>1. Lost' = Lost
    BY <1>1, <1>2, <1>3 DEF Lost, GivenUp
  <2> QED
    BY <1>1, <1>2, <2>1 DEF Inv, AnnouncedInv
<1> QED
  BY <1>4, <1>5, <1>6 DEF Inv

LEMMA RaiseStep == ASSUME Inv, NEW t \in Thread, Raise(t) PROVE Inv'
<1>1. /\ pc[t] = "expired" /\ pc' = [pc EXCEPT ![t] = "failed"]
      /\ UNCHANGED <<pool, holds>>
  BY DEF Raise
<1>2. /\ waiters' \in Seq(Thread) /\ ToSet(waiters') = ToSet(waiters) \ {t}
      /\ \A i, j \in DOMAIN waiters' : waiters'[i] = waiters'[j] => i = j
  <2>1. /\ waiters \in Seq(Thread)
        /\ \A i, j \in DOMAIN waiters : waiters[i] = waiters[j] => i = j
    BY DEF Inv, TypeOK, QueueInv
  <2>2. CASE t \notin ToSet(waiters) /\ waiters' = waiters
    BY <2>1, <2>2
  <2>3. ASSUME NEW i \in DOMAIN waiters, waiters[i] = t,
               waiters' = RemoveAt(waiters, i)
        PROVE  /\ waiters' \in Seq(Thread)
               /\ ToSet(waiters') = ToSet(waiters) \ {t}
               /\ \A j, k \in DOMAIN waiters' : waiters'[j] = waiters'[k] => j = k
    BY <2>1, <2>3, TakeOut
  <2> QED
    BY <2>2, <2>3 DEF Raise
<1>3. /\ In("using")' = In("using") /\ In("waiting")' = In("waiting")
      /\ In("woken")' = In("woken") /\ t \notin In("waiting")
      /\ In("expired")' = In("expired") \ {t}
      /\ In("failed")' = In("failed") \cup {t}
  BY <1>1 DEF Inv, TypeOK, In
<1>4. TypeOK'
  BY <1>1, <1>2 DEF Inv, TypeOK
<1>5. QueueInv'
  <2>1. \A u \in ToSet(waiters') : pc'[u] \in {"waiting", "expired"}
    BY <1>1, <1>2, Queued DEF Inv, TypeOK
  <2> QED
    BY <1>2, <1>3, <2>1 DEF Inv, QueueInv, ToSet
<1>6. EveryConnectionOnce'
  BY <1>1, <1>3 DEF Inv, EveryConnectionOnce
<1>7. AnnouncedInv'
  <2>1. Lost \subseteq Lost' /\ Lost' \subseteq Thread
    BY <1>2, <1>3 DEF Lost, GivenUp, In
  <2>2. /\ Cardinality(Lost) \in Nat /\ Cardinality(Lost') \in Nat
        /\ Cardinality(Lost) <= Cardinality(Lost')
    BY <2>1, Counting
  <2>3. Len(pool) \in Nat /\ Cardinality(In("woken")) \in Nat
    BY Counting DEF Inv, TypeOK, In
  <2> QED
    BY <1>1, <1>3, <2>2, <2>3 DEF Inv, AnnouncedInv
<1> QED
  BY <1>4, <1>5, <1>6, <1>7 DEF Inv

\* What every Return does, whoever is notified.
LEMMA ReturnBasics ==
  ASSUME Inv, NEW t \in Thread, Return(t)
  PROVE  /\ pc[t] = "using" /\ In("using")' = In("using") \ {t}
         /\ Len(pool') = Len(pool) + 1 /\ Len(pool) \in Nat
         /\ TypeOK' /\ EveryConnectionOnce'
<1>1. /\ pc[t] = "using" /\ pool' = Append(pool, holds[t])
      /\ holds' = [holds EXCEPT ![t] = 0]
  BY DEF Return
<1>2. waiters # <<>> => Head(waiters) \in ToSet(waiters)
  BY DEF Inv, TypeOK, ToSet
<1>3. waiters # <<>> =>
        Head(waiters) \in Thread /\ pc[Head(waiters)] \in {"waiting", "expired"}
  BY <1>2, Queued
<1>4. /\ pc'[t] = "done"
      /\ \A u \in Thread \ {t} : pc'[u] = "using" <=> pc[u] = "using"
      /\ pc' \in [Thread -> {"new", "waiting", "woken", "expired", "using",
                             "done", "failed"}]
      /\ waiters' \in Seq(Thread)
  <2>1. CASE waiters = <<>>
    BY <1>1, <2>1 DEF Inv, TypeOK, Return
  <2>2. CASE waiters # <<>>
    <3> DEFINE h == Head(waiters)
    <3>1. /\ waiters' = Tail(waiters)
          /\ pc' = [pc EXCEPT ![t] = "done",
                              ![h] = IF pc[h] = "waiting" THEN "woken" ELSE "expired"]
      BY <2>2 DEF Return
    <3>2. h \in Thread /\ pc[h] \in {"waiting", "expired"} /\ h # t
      BY <1>1, <1>3, <2>2
    <3>3. waiters' \in Seq(Thread)
      BY <2>2, <3>1 DEF Inv, TypeOK
    <3> HIDE DEF h
    <3> QED
      BY <1>1, <3>1, <3>2, <3>3 DEF Inv, TypeOK
  <2> QED
    BY <2>1, <2>2
<1>5. In("using")' = In("using") \ {t} /\ t \in In("using")
  BY <1>1, <1>4 DEF In
<1>6. holds[t] \in Conn
  BY <1>5 DEF Inv, EveryConnectionOnce
<1>7. /\ pool' \in Seq(Conn) /\ Len(pool') = Len(pool) + 1 /\ Len(pool) \in Nat
      /\ ToSet(pool') = ToSet(pool) \cup {holds[t]}
  BY <1>1, <1>6, PutLast DEF Inv, TypeOK
<1>8. TypeOK'
  <2>1. holds' \in [Thread -> 0 .. Size]
    BY <1>1, PoolAssumption DEF Inv, TypeOK
  <2> QED
    BY <1>4, <1>7, <2>1 DEF TypeOK
<1>9. EveryConnectionOnce'
  <2>1. /\ Cardinality(In("using")') = Cardinality(In("using")) - 1
        /\ Cardinality(In("using")) \in Nat
    BY <1>5, Counting DEF In
  <2>2. Lent = Lent' \cup {holds[t]}
    <3>1. \A u \in In("using") \ {t} : holds'[u] = holds[u]
      BY <1>1 DEF Inv, TypeOK, In
    <3> QED
      BY <1>5, <3>1 DEF Lent
  <2>3. /\ Len(pool) + Cardinality(In("using")) = Size
        /\ ToSet(pool) \cup Lent = Conn
    BY DEF Inv, EveryConnectionOnce, Lent
  <2>4. ToSet(pool') \cup Lent' = Conn
    BY <1>7, <2>2, <2>3
  <2>5. Len(pool') + Cardinality(In("using")') = Size
    BY <1>7, <2>1, <2>3, PoolAssumption
  <2> QED
    BY <2>4, <2>5 DEF EveryConnectionOnce, Lent
<1> QED
  BY <1>1, <1>5, <1>7, <1>8, <1>9

LEMMA ReturnStep == ASSUME Inv, NEW t \in Thread, Return(t) PROVE Inv'
<1>1. /\ pc[t] = "using" /\ TypeOK' /\ EveryConnectionOnce'
      /\ Len(pool') = Len(pool) + 1 /\ Len(pool) \in Nat
  BY ReturnBasics
<1>2. CASE waiters = <<>>
  <2>1. pc' = [pc EXCEPT ![t] = "done"] /\ UNCHANGED waiters
    BY <1>2 DEF Return
  <2>2. ToSet(waiters') = {} /\ In("waiting")' = {}
    BY <1>2, <2>1 DEF Inv, TypeOK, QueueInv, In, ToSet
  <2>3. QueueInv' /\ AnnouncedInv'
    BY <1>2, <2>1, <2>2 DEF QueueInv, AnnouncedInv
  <2> QED
    BY <1>1, <2>3 DEF Inv
<1>3. CASE waiters # <<>>
  <2> DEFINE h == Head(waiters)
  <2>1. /\ waiters' = Tail(waiters)
        /\ pc' = [pc EXCEPT ![t] = "done",
                            ![h] = IF pc[h] = "waiting" THEN "woken" ELSE "expired"]
    BY <1>3 DEF Return
  <2>2. /\ h \in ToSet(waiters) /\ ToSet(waiters') = ToSet(waiters) \ {h}
        /\ \A i, j \in DOMAIN waiters' : waiters'[i] = waiters'[j] => i = j
    BY <1>3, <2>1, TakeHead DEF Inv, TypeOK, QueueInv
  <2>3. h \in Thread /\ pc[h] \in {"waiting", "expired"} /\ h # t
    BY <1>1, <2>2, Queued
  <2> HIDE DEF h
  <2>4. /\ pc'[t] = "done"
        /\ pc[h] = "waiting" => pc'[h] = "woken"
        /\ pc[h] = "expired" => pc'[h] = "expired"
        /\ \A u \in Thread \ {t, h} : pc'[u] = pc[u]
    BY <2>1, <2>3 DEF Inv, TypeOK
  <2>5. /\ In("waiting")' = In("waiting") \ {h}
        /\ In("expired")' = In("expired") /\ In("failed")' = In("failed")
        /\ pc[h] = "waiting" => /\ h \notin In("woken")
                               /\ In("woken")' = In("woken") \cup {h}
        /\ pc[h] = "expired" => In("woken")' = In("woken")
    BY <1>1, <2>3, <2>4 DEF In
  <2>6. QueueInv'
    <3>1. \A u \in ToSet(waiters') : pc'[u] \in {"waiting", "expired"}
      BY <1>1, <2>2, <2>4, Queued
    <3>2. In("waiting")' \subseteq ToSet(waiters')
      BY <2>2, <2>5 DEF Inv, QueueInv
    <3> QED
      BY <2>2, <3>1, <3>2 DEF QueueInv, ToSet
  <2>7. AnnouncedInv'
    <3>1. /\ Cardinality(In("woken")) \in Nat /\ Cardinality(Lost) \in Nat
          /\ Cardinality(In("woken")') \in Nat /\ Cardinality(Lost') \in Nat
      BY Counting DEF In, Lost, GivenUp
    <3>2. In("waiting")' # {} =>
            Len(pool) <= Cardinality(In("woken")) + Cardinality(Lost)
      BY <2>5 DEF Inv, AnnouncedInv
    <3>3. CASE pc[h] = "waiting"
      <4>1. Cardinality(In("woken")') = Cardinality(In("woken")) + 1
        BY <2>3, <2>5, <3>3, Counting DEF In
      <4>2. Lost' = Lost
        BY <2>2, <2>5, <3>3 DEF Lost, GivenUp, In
      <4> QED
        BY <1>1, <3>1, <3>2, <4>1, <4>2 DEF AnnouncedInv
    <3>4. CASE pc[h] = "expired"
      <4>1. Lost' = Lost \cup {h} /\ h \in Thread \ Lost
        BY <2>2, <2>3, <2>5, <3>4 DEF Lost, GivenUp, In
      <4>2. Cardinality(Lost') = Cardinality(Lost) + 1
        BY <4>1, Counting DEF Lost, GivenUp, In
      <4> QED
        BY <1>1, <2>5, <3>1, <3>2, <3>4, <4>2 DEF AnnouncedInv
    <3> QED
      BY <2>3, <3>3, <3>4
  <2> QED
    BY <1>1, <2>6, <2>7 DEF Inv
<1> QED
  BY <1>2, <1>3

LEMMA StepInv == Inv /\ [Next]_vars => Inv'
<1> SUFFICES ASSUME Inv, [Next]_vars PROVE Inv'
  OBVIOUS
<1>1. CASE UNCHANGED vars
  BY <1>1 DEF Inv, TypeOK, QueueInv, EveryConnectionOnce, AnnouncedInv, Lost,
              GivenUp, In, vars
<1>2. ASSUME NEW t \in Thread, Step(t) PROVE Inv'
  BY <1>2, GrabStep, SleepStep, TimesOutStep, RaiseStep, ReturnStep
  DEF Step, Borrow, Resume
<1> QED
  BY <1>1, <1>2 DEF Next

LEMMA AlwaysInv == Spec => []Inv
  BY InitInv, StepInv, PTL DEF Spec

\* Every variable keeps its type.
THEOREM TypesKept == Spec => []TypeOK
<1>1. Inv => TypeOK
  BY DEF Inv
<1> QED
  BY AlwaysInv, <1>1, PTL

\* No connection is lost or handed out twice.
THEOREM NoneLostOrShared == Spec => []EveryConnectionOnce
<1>1. Inv => EveryConnectionOnce
  BY DEF Inv
<1> QED
  BY AlwaysInv, <1>1, PTL

\* Each time-out wastes one wake-up at most.
THEOREM OneWakeupPerTimeout == Spec => []WakeupsLostToTimeoutsOnly
<1>1. ASSUME Inv PROVE WakeupsLostToTimeoutsOnly
  <2>1. Lost \subseteq GivenUp /\ GivenUp \subseteq Thread
    BY DEF Lost, GivenUp, In
  <2>2. /\ Cardinality(Lost) \in Nat /\ Cardinality(GivenUp) \in Nat
        /\ Cardinality(Lost) <= Cardinality(GivenUp)
    BY <2>1, Counting
  <2>3. Len(pool) \in Nat /\ Cardinality(In("woken")) \in Nat
    BY <1>1, Counting DEF Inv, TypeOK, In
  <2> QED
    BY <1>1, <2>2, <2>3
    DEF Inv, AnnouncedInv, WakeupsLostToTimeoutsOnly, GivenUp
<1> QED
  BY AlwaysInv, <1>1, PTL

-----------------------------------------------------------------------------
(* The counters of 01-threads-and-locks.py.                                *)

Total == done[1] + done[2]

\* Inside an iteration that is not the last one's end.
InLoop(t) == at[t] \in {"locked", "write"}

\* Without the lock: what is written was read from a counter that never ran
\* ahead of the iterations done, and a thread that has one of its own
\* iterations behind it reads at least 1.  Hence the last write of all, which
\* has N - 1 iterations behind it, leaves at least 2.
UnsafeInv ==
  version = "unsafe" =>
    /\ counter <= Total
    /\ Total >= 1 => counter >= 1
    /\ Total = 2 * N /\ N >= 2 => counter >= 2
    /\ \A t \in Adder :
         at[t] = "write" =>
           /\ reg[t] <= Total
           /\ done[t] >= 1 => reg[t] >= 1

\* With the lock: who counts holds it, and what it has read is still there.
SafeInv ==
  version = "safe" =>
    /\ counter = Total
    /\ \A t \in Adder : InLoop(t) <=> lock = t
    /\ \A t \in Adder : at[t] = "write" => reg[t] = counter

\* With a counter each: the results are the local counts.
IsolatedInv ==
  version = "isolated" =>
    \A t \in Adder : /\ ~InLoop(t)
                     /\ reg[t] = done[t]
                     /\ at[t] = "done" => results[t] = done[t]

\* A thread counts only below N, and ends at N.
LoopInv ==
  \A t \in Adder : /\ InLoop(t) => done[t] < N
                   /\ at[t] = "done" => done[t] = N

AddInv == AddTypeOK /\ LoopInv /\ UnsafeInv /\ SafeInv /\ IsolatedInv

-----------------------------------------------------------------------------
LEMMA AddInitInv == AddInit => AddInv
  BY IterationsAssumption
  DEF AddInit, AddInv, AddTypeOK, LoopInv, UnsafeInv, SafeInv, IsolatedInv, Adder, Free,
      Total, InLoop

\* A step keeps the types.
LEMMA AddTypes == AddInv /\ [AddNext]_addVars => AddTypeOK'
<1> SUFFICES ASSUME AddInv, [AddNext]_addVars PROVE AddTypeOK'
  OBVIOUS
<1> USE IterationsAssumption DEF AddInv, AddTypeOK, LoopInv, Adder, Free, InLoop
<1>1. ASSUME NEW t \in Adder, Acquire(t) PROVE AddTypeOK'
  BY <1>1 DEF Acquire
<1>2. ASSUME NEW t \in Adder, Read(t) PROVE AddTypeOK'
  BY <1>2 DEF Read
<1>3. ASSUME NEW t \in Adder, Write(t) PROVE AddTypeOK'
  BY <1>3 DEF Write
<1>4. ASSUME NEW t \in Adder, AddLocally(t) PROVE AddTypeOK'
  BY <1>4 DEF AddLocally
<1>5. ASSUME NEW t \in Adder, Finish(t) PROVE AddTypeOK'
  BY <1>5 DEF Finish
<1>6. CASE UNCHANGED addVars
  BY <1>6 DEF addVars
<1> QED
  BY <1>1, <1>2, <1>3, <1>4, <1>5, <1>6 DEF AddNext, AddStep

\* A step keeps every other part of the invariant.
LEMMA AddParts ==
  AddInv /\ [AddNext]_addVars => LoopInv' /\ UnsafeInv' /\ SafeInv' /\ IsolatedInv'
<1> SUFFICES ASSUME AddInv, [AddNext]_addVars
             PROVE  LoopInv' /\ UnsafeInv' /\ SafeInv' /\ IsolatedInv'
  OBVIOUS
<1> DEFINE Goal == LoopInv' /\ UnsafeInv' /\ SafeInv' /\ IsolatedInv'
<1> USE IterationsAssumption DEF AddInv, AddTypeOK, Adder, Free, InLoop
<1>1. ASSUME NEW t \in Adder, Acquire(t) PROVE Goal
  BY <1>1 DEF Acquire, LoopInv, UnsafeInv, SafeInv, IsolatedInv, Total
<1>2. ASSUME NEW t \in Adder, Read(t) PROVE Goal
  BY <1>2 DEF Read, LoopInv, UnsafeInv, SafeInv, IsolatedInv, Total
<1>3. ASSUME NEW t \in Adder, Write(t) PROVE Goal
  <2>1. LoopInv'
    BY <1>3 DEF Write, LoopInv
  <2>2. UnsafeInv'
    BY <1>3 DEF Write, LoopInv, UnsafeInv, Total
  <2>3. SafeInv' /\ IsolatedInv'
    BY <1>3 DEF Write, SafeInv, IsolatedInv, Total
  <2> QED
    BY <2>1, <2>2, <2>3
<1>4. ASSUME NEW t \in Adder, AddLocally(t) PROVE Goal
  BY <1>4 DEF AddLocally, LoopInv, UnsafeInv, SafeInv, IsolatedInv, Total
<1>5. ASSUME NEW t \in Adder, Finish(t) PROVE Goal
  BY <1>5 DEF Finish, LoopInv, UnsafeInv, SafeInv, IsolatedInv, Total
<1>6. CASE UNCHANGED addVars
  BY <1>6 DEF addVars, LoopInv, UnsafeInv, SafeInv, IsolatedInv, Total
<1> QED
  BY <1>1, <1>2, <1>3, <1>4, <1>5, <1>6 DEF AddNext, AddStep

LEMMA AlwaysAddInv == AddSpec => []AddInv
<1>1. AddInv /\ [AddNext]_addVars => AddInv'
  BY AddTypes, AddParts DEF AddInv
<1> QED
  BY AddInitInv, <1>1, PTL DEF AddSpec

-----------------------------------------------------------------------------
\* Every variable keeps its type.
THEOREM AddTypesKept == AddSpec => []AddTypeOK
<1>1. AddInv => AddTypeOK
  BY DEF AddInv
<1> QED
  BY <1>1, AlwaysAddInv, PTL

\* However often the threads count, the unsafe version prints at least 2 (1 if
\* each counts once) and at most twice their number (lines 22-34).
THEOREM LostUpdatesBounded == AddSpec => []UnsafeWithinBounds
<1>1. AddInv => UnsafeWithinBounds
  BY IterationsAssumption
  DEF AddInv, AddTypeOK, LoopInv, UnsafeInv, UnsafeWithinBounds, Joined, Adder, Total
<1> QED
  BY <1>1, AlwaysAddInv, PTL

\* With the lock no increment is lost, nor without one when each thread counts
\* for itself (lines 46-82).
THEOREM ExactCounts == AddSpec => []ExactIfNotShared
<1>1. AddInv => ExactIfNotShared
  BY IterationsAssumption
  DEF AddInv, AddTypeOK, LoopInv, SafeInv, IsolatedInv, ExactIfNotShared, Joined, Adder,
      Total
<1> QED
  BY <1>1, AlwaysAddInv, PTL
=============================================================================
