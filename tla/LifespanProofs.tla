-------------------------- MODULE LifespanProofs --------------------------
(***************************************************************************)
(* Theorems about Lifespan, for any number of requests and of replicas.    *)
(***************************************************************************)
EXTENDS Lifespan, TLAPS

AllOpen == \A p \in Pool : pool[p] = "open"
AllIdle == \A r \in Request : user[r] = Idle

\* What holds in each phase.
PhaseInv ==
  /\ phase = "starting" =>
       /\ \A p \in Pool : pool[p] \in {"none", "open"}
       /\ cleanup = "none"
  /\ phase \in {"serving", "draining", "cancelling"} => AllOpen
  /\ phase \notin {"serving", "draining"} => AllIdle
  /\ phase \in {"closing", "stopped"} => cleanup = "ended"
  /\ phase = "failed" => cleanup \in {"none", "ended"}
  /\ phase \in {"serving", "draining"} =>
       cleanup \notin {"none", "unwinding", "ended"}
  /\ cancelled => phase = "cancelling" /\ cleanup # "ended"

\* What a cancelled clean-up left behind is in a pool that is not closed yet.
BackgroundInv == background => pool[0] \in {"open", "closing"}

Inv == TypeOK /\ PhaseInv /\ BackgroundInv

-----------------------------------------------------------------------------
LEMMA Distinct == \A p : /\ Idle # Running
                         /\ Idle # Waiting(p) /\ Idle # Holding(p)
                         /\ Running # Waiting(p) /\ Running # Holding(p)
                         /\ Waiting(p) # Holding(p)
  BY DEF Idle, Running, Waiting, Holding

LEMMA ZeroIsPool == 0 \in Pool
  BY LifespanAssumption DEF Pool

LEMMA Places ==
  {Idle, Running} \subseteq Place
    /\ \A p \in Pool : {Waiting(p), Holding(p)} \subseteq Place
  BY DEF Place

LEMMA InitInv == Init => Inv
  BY ZeroIsPool, Places DEF Init, Inv, TypeOK, PhaseInv, BackgroundInv, AllIdle

\* A step of a request changes nothing but its own place.
LEMMA RequestStep ==
  ASSUME Inv, NEW r \in Request, Arrive(r) \/ Serve(r)
  PROVE  Inv'
<1> USE Distinct
<1>1. phase \in {"serving", "draining"}
  BY DEF Inv, PhaseInv, AllIdle, Arrive, Serve, Ask, Obtain, IsRefused,
         GiveBack, Answer
<1>2. UNCHANGED <<phase, pool, cleanup, cancelled, background>>
  BY DEF Arrive, Serve, Ask, Obtain, IsRefused, GiveBack, Answer
<1>3. \E x \in Place : user' = [user EXCEPT ![r] = x]
  BY Places DEF Arrive, Serve, Ask, Obtain, IsRefused, GiveBack, Answer
<1>4. user' \in [Request -> Place]
  BY <1>3 DEF Inv, TypeOK
<1> QED
  BY <1>1, <1>2, <1>4 DEF Inv, TypeOK, PhaseInv, BackgroundInv, AllOpen

\* The clean-up task moves only while all pools are open.
LEMMA CleanupMoves ==
  ASSUME Inv, CleanupStep \/ Acquires \/ AcquireFails
  PROVE  Inv'
<1>1. /\ phase \in {"serving", "draining", "cancelling"}
      /\ UNCHANGED <<phase, pool, user>>
  BY DEF Inv, TypeOK, PhaseInv, CleanupStep, Acquires, AcquireFails, Wakes,
         Executes, Releases, IsCancelled, Unwinds, UnwindFails, Moves
<1>2. TypeOK'
  BY <1>1 DEF Inv, TypeOK, CleanupStep, Acquires, AcquireFails, Wakes, Executes,
              Releases, IsCancelled, Unwinds, UnwindFails, Moves
<1>3. /\ cancelled' => phase = "cancelling" /\ cleanup' # "ended"
      /\ phase \in {"serving", "draining"} =>
           cleanup' \notin {"none", "unwinding", "ended"}
  BY <1>1 DEF Inv, TypeOK, PhaseInv, CleanupStep, Acquires, AcquireFails, Wakes,
              Executes, Releases, IsCancelled, Unwinds, UnwindFails, Moves
<1> QED
  BY <1>1, <1>2, <1>3, ZeroIsPool
  DEF Inv, PhaseInv, BackgroundInv, AllOpen, AllIdle

LEMMA OpenStep == ASSUME Inv, OpenFails \/ \E p \in Pool : OpenPool(p) PROVE Inv'
<1> USE LifespanAssumption, ZeroIsPool DEF Inv, TypeOK, PhaseInv, BackgroundInv
<1>1. CASE OpenFails
  BY <1>1 DEF OpenFails, AllIdle
<1>2. ASSUME NEW p \in Pool, OpenPool(p) PROVE Inv'
  <2>1. /\ phase = "starting"
        /\ pool' = [pool EXCEPT ![p] = "open"]
        /\ UNCHANGED <<user, cancelled, background>>
    BY <1>2 DEF OpenPool
  <2>2. CASE p # NumReplicas
    BY <1>2, <2>1, <2>2 DEF OpenPool, AllIdle
  <2>3. CASE p = NumReplicas
    <3>1. \A q \in Pool : q # p => q < p
      BY <2>3 DEF Pool
    <3>2. AllOpen'
      BY <1>2, <2>1, <3>1 DEF OpenPool, NextToOpen, AllOpen
    <3> QED
      BY <1>2, <2>1, <2>3, <3>2 DEF OpenPool
  <2> QED
    BY <2>2, <2>3
<1> QED
  BY <1>1, <1>2

LEMMA CloseStep ==
  ASSUME Inv, NEW p \in Pool, CloseBegins(p) \/ CloseEnds(p) \/ CloseFails(p)
  PROVE  Inv'
<1> USE ZeroIsPool DEF Inv, TypeOK, PhaseInv, BackgroundInv
<1>1. CASE CloseBegins(p)
  BY <1>1 DEF CloseBegins, AllIdle
<1>2. CASE CloseEnds(p) \/ CloseFails(p)
  <2>1. p = 0 => ~background
    BY <1>2 DEF CloseEnds, CloseFails, InUse
  <2> QED
    BY <1>2, <2>1 DEF CloseEnds, CloseFails, AllIdle
<1> QED
  BY <1>1, <1>2

LEMMA StepInv == Inv /\ [Next]_vars => Inv'
<1> SUFFICES ASSUME Inv, [Next]_vars PROVE Inv'
  OBVIOUS
<1>1. CASE Signal \/ CleanupAwaited
  BY <1>1 DEF Signal, CleanupAwaited, Inv, TypeOK, PhaseInv, BackgroundInv,
              AllOpen, AllIdle
<1>3. CASE BackgroundReturns
  BY <1>3 DEF BackgroundReturns, Inv, TypeOK, PhaseInv, BackgroundInv, AllOpen,
              AllIdle
<1>4. CASE Cancel
  BY <1>4 DEF Cancel, Inv, TypeOK, PhaseInv, BackgroundInv, AllOpen, AllIdle
<1>2. CASE UNCHANGED vars
  BY <1>2 DEF vars, Inv, TypeOK, PhaseInv, BackgroundInv, AllOpen, AllIdle
<1> QED
  BY <1>1, <1>2, <1>3, <1>4, RequestStep, CleanupMoves, OpenStep, CloseStep
  DEF Next, LifespanStep

LEMMA Invariance == Spec => []Inv
  BY InitInv, StepInv, PTL DEF Spec

-----------------------------------------------------------------------------
\* Every variable keeps its type.
THEOREM TypesKept == Spec => []TypeOK
<1>1. Inv => TypeOK
  BY DEF Inv
<1> QED
  BY <1>1, Invariance, PTL

\* No request and no clean-up pass meets a pool that is not open, however far
\* start-up or shutdown got (main.py:125-139, db.py:78-108).
THEOREM PoolsOpenWhenUsed == Spec => []UsersMeetOpenPools
<1>1. Inv => UsersMeetOpenPools
  BY DEF Inv, PhaseInv, TypeOK, UsersMeetOpenPools, AllOpen, AllIdle
<1> QED
  BY <1>1, Invariance, PTL

\* A pool is closed after its last connection is back, the one of a cancelled
\* clean-up included (db.py:92-108).
THEOREM PoolsClosedAfterUse == Spec => []NoneClosedUnderItsUser
<1>1. Inv => NoneClosedUnderItsUser
  <2> SUFFICES ASSUME Inv, NEW p \in Pool, pool[p] \in {"none", "closed"}
               PROVE  InUse(p) = {}
    BY DEF NoneClosedUnderItsUser
  <2>1. phase \in {"starting", "closing", "stopped", "failed"}
    BY DEF Inv, PhaseInv, TypeOK, AllOpen
  <2>2. AllIdle /\ ~CleanupHolds
    BY <2>1 DEF Inv, PhaseInv, CleanupHolds
  <2>3. p = 0 => ~background
    BY DEF Inv, BackgroundInv
  <2> QED
    BY <2>2, <2>3, Distinct DEF InUse, AllIdle
<1> QED
  BY <1>1, Invariance, PTL

\* The clean-up task outlives its cancellation only by a connection that breaks
\* while it is given back (main.py:101-104, 132-137).
THEOREM CancellationReliable == Spec => LostOnlyByBrokenReturn
<1>1. ASSUME [Next]_vars, CancellationLost', ~CancellationLost
      PROVE  cleanup = "unwinding"
  <2>1. CASE UNCHANGED vars
    BY <1>1, <2>1 DEF vars, CancellationLost
  <2>2. CASE Next
    BY <1>1, <2>2
    DEF Next, LifespanStep, CleanupStep, CancellationLost, Signal,
        BackgroundReturns, Acquires, AcquireFails, Wakes, Executes, Releases,
        IsCancelled, Unwinds, UnwindFails, Moves, OpenFails, OpenPool, Cancel,
        CleanupAwaited, CloseBegins, CloseEnds, CloseFails, Arrive, Serve, Ask,
        Obtain, IsRefused, GiveBack, Answer
  <2> QED
    BY <1>1, <2>1, <2>2
<1> QED
  BY <1>1, PTL DEF Spec, LostOnlyByBrokenReturn
=============================================================================
