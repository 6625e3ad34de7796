------------------------ MODULE ConnectionPoolProofs ------------------------
(***************************************************************************)
(* Theorems about ConnectionPool, for any number of workers and any size   *)
(* of the pool, in both languages.                                         *)
(***************************************************************************)
EXTENDS ConnectionPool, SequenceLemmas

\* A worker has a connection while it works with it.
HoldsInv ==
  \A w \in Worker : /\ pc[w] \in {"execute", "release"} => holds[w] # 0
                    /\ pc[w] \in {"get", "done", "failed"} => holds[w] = 0

\* close() comes after the last worker.
CloseInv ==
  /\ main # "join" => \A w \in Worker : Ended(w)
  /\ sealed => main # "join"

Inv == TypeOK /\ HoldsInv /\ CloseInv /\ ConnectionsDisjoint

-----------------------------------------------------------------------------
LEMMA InitInv == Init => Inv
<1> SUFFICES ASSUME Init PROVE Inv
  OBVIOUS
<1>1. /\ closed = {} /\ Out = {} /\ main = "join" /\ ~sealed
      /\ \A w \in Worker : pc[w] = "get" /\ holds[w] = 0
  BY DEF Init, Out
<1>2. /\ conns \in Seq(Conn)
      /\ \A i, j \in DOMAIN conns : conns[i] = conns[j] => i = j
  BY PoolSizeAssumption DEF Init, Conn
<1>3. TypeOK
  <2>1. 0 \in 0 .. PoolSize
    BY PoolSizeAssumption
  <2>2. holds \in [Worker -> 0 .. PoolSize]
    BY <2>1 DEF Init
  <2>3. /\ impl \in {"py", "go"} /\ sealed \in BOOLEAN /\ closed \subseteq Conn
        /\ pc \in [Worker -> {"get", "execute", "release", "done", "failed",
                              "crashed"}]
        /\ main \in {"join", "close", "end"}
    BY DEF Init
  <2> QED
    BY <1>2, <2>2, <2>3 DEF TypeOK
<1>4. HoldsInv /\ CloseInv
  BY <1>1 DEF HoldsInv, CloseInv
<1>5. ConnectionsDisjoint
  BY <1>1, <1>2 DEF ConnectionsDisjoint
<1> QED
  BY <1>3, <1>4, <1>5 DEF Inv

LEMMA GetStep == ASSUME Inv, NEW w \in Worker, Get(w) PROVE Inv'
<1>1. /\ pc[w] = "get" /\ conns # <<>> /\ holds[w] = 0
      /\ holds' = [holds EXCEPT ![w] = Head(conns)]
      /\ conns' = Tail(conns)
      /\ pc' = [pc EXCEPT ![w] = "execute"]
      /\ UNCHANGED <<impl, sealed, closed, main>>
  BY DEF Get, Inv, HoldsInv
<1>2. /\ conns' \in Seq(Conn) /\ Head(conns) \in Conn
      /\ ToSet(conns') = ToSet(conns) \ {Head(conns)}
      /\ Head(conns) \in ToSet(conns)
      /\ \A i, j \in DOMAIN conns' : conns'[i] = conns'[j] => i = j
  BY <1>1, TakeHead DEF Inv, TypeOK, ConnectionsDisjoint
<1>3. TypeOK' /\ HoldsInv'
  BY <1>1, <1>2, PoolSizeAssumption DEF Inv, TypeOK, HoldsInv, Conn
<1>4. CloseInv'
  BY <1>1 DEF Inv, CloseInv, Ended
<1>5. ConnectionsDisjoint'
  BY <1>1, <1>2 DEF Inv, TypeOK, ConnectionsDisjoint, Out
<1> QED
  BY <1>3, <1>4, <1>5 DEF Inv

LEMMA GiveUpStep ==
  ASSUME Inv, NEW w \in Worker, TimesOut(w) \/ Execute(w)
  PROVE  Inv'
<1>1. TypeOK' /\ HoldsInv' /\ CloseInv'
  BY DEF Inv, TypeOK, HoldsInv, CloseInv, Ended, TimesOut, Execute
<1>2. ConnectionsDisjoint'
  BY DEF Inv, ConnectionsDisjoint, Out, TimesOut, Execute
<1> QED
  BY <1>1, <1>2 DEF Inv

LEMMA ReleaseStep == ASSUME Inv, NEW w \in Worker, Release(w) PROVE Inv'
<1>1. /\ pc[w] = "release" /\ holds[w] # 0 /\ ~sealed /\ main = "join"
      /\ conns' = Append(conns, holds[w])
      /\ holds' = [holds EXCEPT ![w] = 0]
      /\ pc' = [pc EXCEPT ![w] = "done"]
      /\ UNCHANGED <<impl, sealed, closed, main>>
  BY DEF Inv, TypeOK, HoldsInv, CloseInv, Ended, Release
<1>2. holds[w] \in Conn /\ holds[w] \notin ToSet(conns) \cup closed
  BY <1>1 DEF Inv, TypeOK, Conn, ConnectionsDisjoint, Out
<1>3. /\ conns' \in Seq(Conn)
      /\ ToSet(conns') = ToSet(conns) \cup {holds[w]}
      /\ \A i, j \in DOMAIN conns' : conns'[i] = conns'[j] => i = j
  BY <1>1, <1>2, PutLast DEF Inv, TypeOK, ConnectionsDisjoint
<1>4. TypeOK' /\ HoldsInv' /\ CloseInv'
  BY <1>1, <1>3, PoolSizeAssumption DEF Inv, TypeOK, HoldsInv, CloseInv
<1>5. ConnectionsDisjoint'
  BY <1>1, <1>2, <1>3 DEF Inv, TypeOK, ConnectionsDisjoint, Out
<1> QED
  BY <1>4, <1>5 DEF Inv

LEMMA CloseStep == ASSUME Inv, Close \/ Drain PROVE Inv'
<1>1. CASE Close \/ (Drain /\ conns = <<>>)
  BY <1>1 DEF Inv, TypeOK, HoldsInv, CloseInv, Ended, ConnectionsDisjoint, Out,
              Close, Drain
<1>2. CASE Drain /\ conns # <<>>
  <2>1. /\ conns' = Tail(conns) /\ closed' = closed \cup {Head(conns)}
        /\ UNCHANGED <<impl, sealed, pc, holds, main>>
    BY <1>2 DEF Drain
  <2>2. /\ conns' \in Seq(Conn) /\ Head(conns) \in Conn
        /\ ToSet(conns') = ToSet(conns) \ {Head(conns)}
        /\ Head(conns) \in ToSet(conns)
        /\ \A i, j \in DOMAIN conns' : conns'[i] = conns'[j] => i = j
    BY <1>2, <2>1, TakeHead DEF Inv, TypeOK, ConnectionsDisjoint
  <2>3. TypeOK' /\ HoldsInv' /\ CloseInv'
    BY <2>1, <2>2 DEF Inv, TypeOK, HoldsInv, CloseInv, Ended
  <2>4. ConnectionsDisjoint'
    BY <2>1, <2>2 DEF Inv, ConnectionsDisjoint, Out
  <2> QED
    BY <2>3, <2>4 DEF Inv
<1> QED
  BY <1>1, <1>2

LEMMA StepInv == Inv /\ [Next]_vars => Inv'
<1> SUFFICES ASSUME Inv, [Next]_vars PROVE Inv'
  OBVIOUS
<1>1. CASE UNCHANGED vars
  BY <1>1 DEF Inv, TypeOK, HoldsInv, CloseInv, Ended, ConnectionsDisjoint, Out,
              vars
<1> QED
  BY <1>1, GetStep, GiveUpStep, ReleaseStep, CloseStep DEF Next, Work

LEMMA AlwaysInv == Spec => []Inv
  BY InitInv, StepInv, PTL DEF Spec

\* Every variable keeps its type.
THEOREM TypesKept == Spec => []TypeOK
<1>1. Inv => TypeOK
  BY DEF Inv
<1> QED
  BY AlwaysInv, <1>1, PTL

\* No connection is idle, lent or closed at once, or lent twice.
THEOREM ConnectionsKeptApart == Spec => []ConnectionsDisjoint
<1>1. Inv => ConnectionsDisjoint
  BY DEF Inv
<1> QED
  BY AlwaysInv, <1>1, PTL

\* There is room for every connection that comes back, and close() waits for it.
THEOREM ReleaseIsImmediate == Spec => []ReleaseNeverBlocks
<1>1. ASSUME Inv PROVE ReleaseNeverBlocks
  <2> SUFFICES ASSUME NEW w \in Worker, pc[w] = "release"
               PROVE  Len(conns) < PoolSize /\ ~sealed
    BY DEF ReleaseNeverBlocks
  <2>1. holds[w] \in Conn /\ holds[w] \notin ToSet(conns)
    BY <1>1 DEF Inv, TypeOK, HoldsInv, ConnectionsDisjoint, Out, Conn
  <2>2. Len(conns) < PoolSize
    BY <1>1, <2>1, Pigeons, PoolSizeAssumption
    DEF Inv, TypeOK, ConnectionsDisjoint, Conn
  <2>3. ~sealed
    BY <1>1 DEF Inv, CloseInv, Ended
  <2> QED
    BY <2>2, <2>3
<1> QED
  BY AlwaysInv, <1>1, PTL
=============================================================================
