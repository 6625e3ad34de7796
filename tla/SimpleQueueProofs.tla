------------------------- MODULE SimpleQueueProofs -------------------------
(***************************************************************************)
(* Theorems about SimpleQueue, for any number of consumers, messages and   *)
(* requeue passes, any visibility timeout and any clock.                   *)
(***************************************************************************)
EXTENDS SimpleQueue, SequenceLemmas

Entry == [id : Message, at : Nat, to : Consumer]

Once(s) == \A i, j \in DOMAIN s : s[i] = s[j] => i = j

OncePerId(entries) ==
  \A i, j \in DOMAIN entries : entries[i].id = entries[j].id => i = j

\* Each published message is in one of three places, once.
PlacesInv ==
  /\ Once(queue) /\ OncePerId(inFlight)
  /\ ToSet(queue) \cup Ids(inFlight) \cup acked = 1 .. published
  /\ ToSet(queue) \cap Ids(inFlight) = {}
  /\ acked \cap (ToSet(queue) \cup Ids(inFlight)) = {}

\* Who works on a message has it in flight in his name, unless his time is
\* over or somebody who had it before has acknowledged it.
HolderInv ==
  \A c \in Consumer :
    pc[c] = "working" =>
      \/ now - since[c] > VisibilityTimeout
      \/ got[c] \in acked
      \/ \E i \in DOMAIN inFlight :
           inFlight[i] = [id |-> got[c], at |-> since[c], to |-> c]

\* What was never handed out is at the end of the queue, in order.
OrderInv ==
  /\ Ids(inFlight) \cup acked \subseteq handed /\ handed \subseteq 1 .. published
  /\ FirstInFirstOut

Inv == TypeOK /\ PlacesInv /\ HolderInv /\ ExclusiveWhileVisible /\ OrderInv

-----------------------------------------------------------------------------
(* What Picked returns.                                                    *)

IsPick(pick, s, I, k) ==
  pick = [n \in 0 .. k |->
            IF n = 0 THEN <<>>
            ELSE IF n \in I THEN Append(pick[n - 1], s[n])
            ELSE pick[n - 1]]

\* The recursion of Picked has a solution up to every length.
LEMMA PickExists ==
  ASSUME NEW s, NEW I, NEW k \in Nat
  PROVE  \E f : IsPick(f, s, I, k)
<1> DEFINE T == {n \in Nat : \E f : IsPick(f, s, I, n)}
<1>1. 0 \in T
  <2> DEFINE f == [n \in 0 .. 0 |-> <<>>]
  <2>1. IsPick(f, s, I, 0)
    BY DEF IsPick
  <2> QED
    BY <2>1
<1>2. ASSUME NEW n \in Nat, n \in T PROVE n + 1 \in T
  <2>1. PICK f : IsPick(f, s, I, n)
    BY <1>2
  <2> DEFINE g == [m \in 0 .. n + 1 |->
                     IF m <= n THEN f[m]
                     ELSE IF m \in I THEN Append(f[n], s[m])
                     ELSE f[n]]
  <2>2. \A m \in 0 .. n :
          f[m] = IF m = 0 THEN <<>>
                 ELSE IF m \in I THEN Append(f[m - 1], s[m])
                 ELSE f[m - 1]
    BY <2>1 DEF IsPick
  <2>3. ASSUME NEW m \in 0 .. n + 1
        PROVE  g[m] = IF m = 0 THEN <<>>
                      ELSE IF m \in I THEN Append(g[m - 1], s[m])
                      ELSE g[m - 1]
    <3>1. CASE m <= n
      <4>1. m # 0 => m - 1 \in 0 .. n + 1 /\ m - 1 <= n
        BY <3>1
      <4> QED
        BY <2>2, <3>1, <4>1
    <3>2. CASE m = n + 1
      BY <3>2
    <3> QED
      BY <3>1, <3>2
  <2> HIDE DEF g
  <2>4. DOMAIN g = 0 .. n + 1 /\ g = [m \in DOMAIN g |-> g[m]]
    BY DEF g
  <2>5. IsPick(g, s, I, n + 1)
    BY <2>3, <2>4 DEF IsPick
  <2> QED
    BY <2>5
<1> HIDE DEF T
<1> QED
  BY <1>1, <1>2, Induction DEF T

\* The elements at the positions in I, each once, in their order.
Subsequence(p, s, I, k) ==
  \E f \in [DOMAIN p -> I \cap (1 .. k)] :
    /\ \A i \in DOMAIN p : p[i] = s[f[i]]
    /\ \A i, j \in DOMAIN p : f[i] = f[j] => i = j
    /\ \A m \in I \cap (1 .. k) : \E i \in DOMAIN p : f[i] = m

LEMMA PickedIsSubsequence ==
  ASSUME NEW S, NEW s \in Seq(S), NEW I
  PROVE  Picked(s, I) \in Seq(S) /\ Subsequence(Picked(s, I), s, I, Len(s))
<1>1. Len(s) \in Nat /\ \A n \in 1 .. Len(s) : s[n] \in S
  OBVIOUS
<1>2. PICK pick : /\ Picked(s, I) = pick[Len(s)]
                  /\ IsPick(pick, s, I, Len(s))
  <2> DEFINE pick == CHOOSE f : IsPick(f, s, I, Len(s))
  <2>1. Picked(s, I) = pick[Len(s)]
    BY Zenon DEF Picked, IsPick
  <2>2. IsPick(pick, s, I, Len(s))
    BY <1>1, PickExists, Zenon
  <2> QED
    BY <2>1, <2>2
<1>3. \A n \in 0 .. Len(s) :
        pick[n] = IF n = 0 THEN <<>>
                  ELSE IF n \in I THEN Append(pick[n - 1], s[n])
                  ELSE pick[n - 1]
  BY <1>2 DEF IsPick
<1> DEFINE T == {n \in Nat : n <= Len(s) =>
                   pick[n] \in Seq(S) /\ Subsequence(pick[n], s, I, n)}
<1>4. 0 \in T
  <2>1. pick[0] = <<>>
    BY <1>1, <1>3
  <2>2. Subsequence(<<>>, s, I, 0)
    <3> DEFINE f == [i \in {} |-> 0]
    <3>1. DOMAIN <<>> = {} /\ f \in [{} -> I \cap (1 .. 0)] /\ 1 .. 0 = {}
      OBVIOUS
    <3> QED
      BY <3>1 DEF Subsequence
  <2>3. <<>> \in Seq(S)
    OBVIOUS
  <2> QED
    BY <2>1, <2>2, <2>3
<1>5. ASSUME NEW n \in Nat, n \in T PROVE n + 1 \in T
  <2> SUFFICES ASSUME n + 1 <= Len(s)
               PROVE  /\ pick[n + 1] \in Seq(S)
                      /\ Subsequence(pick[n + 1], s, I, n + 1)
    OBVIOUS
  <2> DEFINE p == pick[n]
  <2>1. p \in Seq(S) /\ Subsequence(p, s, I, n)
    BY <1>1, <1>5
  <2>2. /\ (n + 1) - 1 = n /\ n + 1 # 0
        /\ n + 1 \in 0 .. Len(s) /\ s[n + 1] \in S
    BY <1>1
  <2>3. pick[n + 1] = IF n + 1 \in I THEN Append(p, s[n + 1]) ELSE p
    BY <1>3, <2>2
  <2> HIDE DEF p
  <2>4. PICK f \in [DOMAIN p -> I \cap (1 .. n)] :
          /\ \A i \in DOMAIN p : p[i] = s[f[i]]
          /\ \A i, j \in DOMAIN p : f[i] = f[j] => i = j
          /\ \A m \in I \cap (1 .. n) : \E i \in DOMAIN p : f[i] = m
    BY <2>1 DEF Subsequence
  <2>5. CASE n + 1 \notin I
    <3>1. I \cap (1 .. n + 1) = I \cap (1 .. n)
      BY <2>5
    <3>2. Subsequence(p, s, I, n + 1)
      BY <2>4, <3>1 DEF Subsequence
    <3> QED
      BY <2>1, <2>3, <2>5, <3>2
  <2>6. CASE n + 1 \in I
    <3> DEFINE q == Append(p, s[n + 1])
               g == [i \in DOMAIN q |-> IF i \in DOMAIN p THEN f[i] ELSE n + 1]
    <3>1. /\ q \in Seq(S) /\ Len(p) \in Nat
          /\ DOMAIN p = 1 .. Len(p) /\ DOMAIN q = 1 .. Len(p) + 1
          /\ \A i \in DOMAIN p : q[i] = p[i]
          /\ q[Len(p) + 1] = s[n + 1]
      BY <2>1, <2>2
    <3> HIDE DEF q
    <3>2. \A i \in DOMAIN q : i \in DOMAIN p \/ i = Len(p) + 1
      BY <3>1
    <3>3. Len(p) + 1 \in DOMAIN q /\ Len(p) + 1 \notin DOMAIN p
            /\ DOMAIN p \subseteq DOMAIN q
      BY <3>1
    <3>4. /\ g \in [DOMAIN q -> I \cap (1 .. n + 1)]
          /\ \A i \in DOMAIN p : g[i] = f[i] /\ f[i] \in 1 .. n
          /\ g[Len(p) + 1] = n + 1
      BY <2>4, <2>6, <3>2, <3>3
    <3> HIDE DEF g
    <3>5. \A i \in DOMAIN q : q[i] = s[g[i]]
      BY <2>4, <3>1, <3>2, <3>4
    <3>6. \A i, j \in DOMAIN q : g[i] = g[j] => i = j
      BY <2>4, <3>2, <3>4
    <3>7. \A m \in I \cap (1 .. n + 1) : \E i \in DOMAIN q : g[i] = m
      <4>1. \A m \in 1 .. n + 1 : m \in 1 .. n \/ m = n + 1
        OBVIOUS
      <4> QED
        BY <2>4, <3>3, <3>4, <4>1
    <3>8. Subsequence(q, s, I, n + 1)
      BY <3>4, <3>5, <3>6, <3>7 DEF Subsequence
    <3> QED
      BY <2>3, <2>6, <3>1, <3>8 DEF q
  <2> QED
    BY <2>5, <2>6
<1> HIDE DEF T
<1>6. Len(s) \in T
  BY <1>1, <1>4, <1>5, Induction
<1> QED
  BY <1>1, <1>2, <1>6 DEF T

LEMMA EntryAt ==
  ASSUME NEW s \in Seq(Entry), NEW i \in DOMAIN s
  PROVE  s[i] \in Entry /\ s[i].id \in Message
<1>1. s[i] \in Entry
  OBVIOUS
<1> QED
  BY <1>1 DEF Entry

\* Of in_flight, Picked returns the chosen entries, still one for each id.
LEMMA PickedEntries ==
  ASSUME NEW s \in Seq(Entry), OncePerId(s), NEW I \in SUBSET DOMAIN s
  PROVE  /\ Picked(s, I) \in Seq(Entry) /\ OncePerId(Picked(s, I))
         /\ ToSet(Picked(s, I)) = {s[i] : i \in I}
         /\ Ids(Picked(s, I)) = {s[i].id : i \in I}
<1> DEFINE p == Picked(s, I)
<1>1. p \in Seq(Entry) /\ Subsequence(p, s, I, Len(s))
  BY PickedIsSubsequence
<1> HIDE DEF p
<1>2. I \cap (1 .. Len(s)) = I
  OBVIOUS
<1>3. PICK f \in [DOMAIN p -> I] :
        /\ \A i \in DOMAIN p : p[i] = s[f[i]]
        /\ \A i, j \in DOMAIN p : f[i] = f[j] => i = j
        /\ \A m \in I : \E i \in DOMAIN p : f[i] = m
  BY <1>1, <1>2 DEF Subsequence
<1>4. OncePerId(p)
  BY <1>3 DEF OncePerId
<1>5. ToSet(p) = {s[i] : i \in I}
  BY <1>3 DEF ToSet
<1>6. Ids(p) = {s[i].id : i \in I}
  BY <1>5 DEF Ids
<1> QED
  BY <1>1, <1>4, <1>5, <1>6 DEF p

-----------------------------------------------------------------------------
(* The invariant.                                                          *)

LEMMA InitInv == Init => Inv
<1> SUFFICES ASSUME Init PROVE Inv
  OBVIOUS
<1>1. DOMAIN <<>> = {} /\ ToSet(<<>>) = {} /\ Ids(<<>>) = {}
  BY DEF ToSet, Ids
<1>2. TypeOK
  BY QueueAssumption DEF Init, TypeOK
<1>3. PlacesInv
  BY <1>1 DEF Init, PlacesInv, Once, OncePerId
<1>4. HolderInv /\ ExclusiveWhileVisible
  BY DEF Init, HolderInv, ExclusiveWhileVisible
<1>5. OrderInv
  BY <1>1 DEF Init, OrderInv, FirstInFirstOut
<1> QED
  BY <1>2, <1>3, <1>4, <1>5 DEF Inv

\* notify_all wakes sleepers and disturbs nobody who works.
LEMMA NotifyAllWakes ==
  ASSUME TypeOK, NotifyAll
  PROVE  /\ pc' \in [Consumer -> {"idle", "waiting", "woken", "expired",
                                  "working", "done", "dead"}]
         /\ \A c \in Consumer : pc'[c] # "waiting"
         /\ \A c \in Consumer : pc'[c] = "working" <=> pc[c] = "working"
BY DEF TypeOK, NotifyAll

\* What is over stays over.
LEMMA Over ==
  ASSUME NEW n \in Nat, NEW m \in Nat, m >= n, NEW t \in Nat, NEW v \in Nat,
         n - t > v
  PROVE  m - t > v
OBVIOUS

\* As long as nothing but entries whose time is over leaves in_flight, and
\* nobody begins to work, holders stay holders.
LEMMA HoldersStay ==
  ASSUME Inv, UNCHANGED <<got, since>>, now' \in Nat, now' >= now,
         acked \subseteq acked',
         \A c \in Consumer : pc'[c] = "working" => pc[c] = "working",
         \A i \in DOMAIN inFlight :
           \/ inFlight[i] \in ToSet(inFlight')
           \/ now - inFlight[i].at > VisibilityTimeout
           \/ inFlight[i].id \in acked'
  PROVE  HolderInv' /\ ExclusiveWhileVisible'
<1>1. ASSUME NEW t \in Nat, now - t > VisibilityTimeout
      PROVE  now' - t > VisibilityTimeout
  <2>1. now \in Nat /\ VisibilityTimeout \in Nat
    BY QueueAssumption DEF Inv, TypeOK
  <2> QED
    BY <1>1, <2>1, Over
<1> USE DEF Inv, TypeOK
<1>2. \A c \in Consumer : since[c] \in Nat
  OBVIOUS
<1>3. ASSUME NEW c \in Consumer, pc'[c] = "working"
      PROVE  \/ now' - since'[c] > VisibilityTimeout
             \/ got'[c] \in acked'
             \/ \E i \in DOMAIN inFlight' :
                  inFlight'[i] = [id |-> got'[c], at |-> since'[c], to |-> c]
  <2>1. CASE now - since[c] > VisibilityTimeout \/ got[c] \in acked
    BY <1>1, <1>2, <2>1
  <2>2. CASE \E i \in DOMAIN inFlight :
               inFlight[i] = [id |-> got[c], at |-> since[c], to |-> c]
    <3>1. PICK i \in DOMAIN inFlight :
            inFlight[i] = [id |-> got[c], at |-> since[c], to |-> c]
      BY <2>2
    <3>2. inFlight[i].at = since[c] /\ inFlight[i].id = got[c]
      BY <3>1
    <3>3. inFlight[i] \in ToSet(inFlight') =>
            \E j \in DOMAIN inFlight' : inFlight'[j] = inFlight[i]
      BY DEF ToSet
    <3> QED
      BY <1>1, <1>2, <3>1, <3>2, <3>3
  <2> QED
    BY <1>3, <2>1, <2>2 DEF HolderInv
<1>4. HolderInv'
  BY <1>3 DEF HolderInv
<1>5. ExclusiveWhileVisible'
  BY <1>1, <1>2 DEF ExclusiveWhileVisible
<1> QED
  BY <1>4, <1>5

LEMMA PublishStep == ASSUME Inv, Publish PROVE Inv'
<1> USE QueueAssumption
<1>1. /\ queue \in Seq(Message) /\ published \in Nat /\ published' = published + 1
      /\ published' \in Message /\ published' \in 0 .. NumMessages
      /\ queue' = Append(queue, published')
      /\ UNCHANGED <<inFlight, got, since, rounds, now, acked, handed>>
      /\ NotifyAll
  BY DEF Inv, TypeOK, Publish, Message
<1>2. published' \notin ToSet(queue) \cup Ids(inFlight) \cup acked
  BY <1>1 DEF Inv, PlacesInv
<1>3. /\ queue' \in Seq(Message) /\ ToSet(queue') = ToSet(queue) \cup {published'}
      /\ Once(queue) => Once(queue')
  <2>1. \A e \in Message :
          /\ Append(queue, e) \in Seq(Message)
          /\ ToSet(Append(queue, e)) = ToSet(queue) \cup {e}
          /\ e \notin ToSet(queue) /\ Once(queue) => Once(Append(queue, e))
    BY <1>1, PutLast DEF Once
  <2> QED
    BY <1>1, <1>2, <2>1
<1>4. TypeOK'
  BY <1>1, <1>3, NotifyAllWakes DEF Inv, TypeOK
<1>5. PlacesInv'
  <2>1. 1 .. published' = (1 .. published) \cup {published'}
    BY <1>1
  <2> QED
    BY <1>1, <1>2, <1>3, <2>1 DEF Inv, PlacesInv, Ids
<1>6. HolderInv' /\ ExclusiveWhileVisible'
  <2>1. now' \in Nat /\ now' >= now
    BY <1>1 DEF Inv, TypeOK
  <2>2. \A i \in DOMAIN inFlight : inFlight[i] \in ToSet(inFlight')
    BY <1>1 DEF ToSet
  <2> QED
    BY <1>1, <2>1, <2>2, NotifyAllWakes, HoldersStay DEF Inv
<1>7. OrderInv'
  <2>1. /\ handed \subseteq 1 .. published /\ handed' = handed
        /\ ToSet(queue) \subseteq 1 .. published
        /\ Ids(inFlight') \cup acked' \subseteq handed'
    BY <1>1 DEF Inv, PlacesInv, OrderInv, Ids
  <2>2. handed' \subseteq 1 .. published'
    BY <1>1, <2>1
  <2>3. /\ Len(queue) \in Nat /\ DOMAIN queue = 1 .. Len(queue)
        /\ DOMAIN queue' = 1 .. Len(queue) + 1
        /\ \A i \in DOMAIN queue : queue'[i] = queue[i] /\ queue[i] \in 1 .. published
        /\ queue'[Len(queue) + 1] = published'
    BY <1>1, <2>1 DEF ToSet
  <2>4. published' \notin handed'
    BY <1>1, <2>1
  <2>5. ASSUME NEW i \in DOMAIN queue', NEW j \in DOMAIN queue', i < j,
               queue'[i] \notin handed'
        PROVE  queue'[j] \notin handed' /\ queue'[i] < queue'[j]
    <3>1. i \in DOMAIN queue
      BY <2>3, <2>5
    <3>2. CASE j \in DOMAIN queue
      BY <2>1, <2>3, <2>5, <3>1, <3>2 DEF Inv, OrderInv, FirstInFirstOut
    <3>3. CASE j = Len(queue) + 1
      <4>1. queue'[j] = published + 1 /\ queue'[i] \in 1 .. published
        BY <1>1, <2>3, <3>1, <3>3
      <4> QED
        BY <1>1, <2>3, <2>4, <3>3, <4>1
    <3> QED
      BY <2>3, <3>2, <3>3
  <2> QED
    BY <2>1, <2>2, <2>5 DEF Inv, OrderInv, FirstInFirstOut
<1> QED
  BY <1>4, <1>5, <1>6, <1>7 DEF Inv

\* Who takes the first message is its only holder in time: nobody else had it
\* in flight.
LEMMA TakeStep ==
  ASSUME Inv, NEW c \in Consumer, Take(c), UNCHANGED <<published, rounds, now, acked>>
  PROVE  Inv'
<1> DEFINE m == Head(queue)
           e == [id |-> m, at |-> now, to |-> c]
<1>1. /\ queue \in Seq(Message) /\ queue # <<>> /\ Once(queue)
      /\ inFlight \in Seq(Entry) /\ OncePerId(inFlight)
      /\ Message \subseteq Nat /\ Message \subseteq 0 .. NumMessages
      /\ now \in Nat /\ got \in [Consumer -> 0 .. NumMessages]
      /\ since \in [Consumer -> Nat]
  BY QueueAssumption DEF Inv, TypeOK, PlacesInv, Take, Message, Entry
<1>2. /\ m \in Message /\ m \in ToSet(queue)
      /\ Tail(queue) \in Seq(Message) /\ ToSet(Tail(queue)) = ToSet(queue) \ {m}
      /\ Once(Tail(queue))
  BY <1>1, TakeHead DEF Once
<1>3. e \in Entry /\ e.id = m /\ e.at = now /\ e.to = c
  BY <1>1, <1>2 DEF Entry
<1>4. m \notin Ids(inFlight) \cup acked
  BY <1>2 DEF Inv, PlacesInv
<1> HIDE DEF m
<1>5. /\ queue' = Tail(queue) /\ inFlight' = Append(inFlight, e)
      /\ got' = [got EXCEPT ![c] = m] /\ since' = [since EXCEPT ![c] = now]
      /\ pc' = [pc EXCEPT ![c] = "working"]
  BY DEF Take, m
<1> HIDE DEF e
<1>6. /\ inFlight' \in Seq(Entry) /\ ToSet(inFlight') = ToSet(inFlight) \cup {e}
      /\ Len(inFlight) \in Nat /\ DOMAIN inFlight = 1 .. Len(inFlight)
      /\ DOMAIN inFlight' = 1 .. Len(inFlight) + 1
      /\ \A i \in DOMAIN inFlight : inFlight'[i] = inFlight[i]
      /\ inFlight'[Len(inFlight) + 1] = e
  BY <1>1, <1>3, <1>5, PutLast
<1>7. Ids(inFlight') = Ids(inFlight) \cup {m}
  BY <1>3, <1>6 DEF Ids
<1>8. TypeOK'
  <2>1. pc' \in [Consumer -> {"idle", "waiting", "woken", "expired",
                              "working", "done", "dead"}]
    BY <1>5 DEF Inv, TypeOK
  <2>2. got' \in [Consumer -> 0 .. NumMessages] /\ since' \in [Consumer -> Nat]
    BY <1>1, <1>2, <1>5
  <2>3. handed' \subseteq Message
    BY <1>2 DEF Inv, TypeOK, Take, m
  <2> QED
    BY <1>2, <1>5, <1>6, <2>1, <2>2, <2>3 DEF Inv, TypeOK, Entry
<1>9. PlacesInv'
  <2>1. OncePerId(inFlight')
    <3>1. \A i \in DOMAIN inFlight' : i \in DOMAIN inFlight \/ i = Len(inFlight) + 1
      BY <1>6
    <3>2. \A i \in DOMAIN inFlight : inFlight[i].id # m
      BY <1>4 DEF Ids, ToSet
    <3> QED
      BY <1>1, <1>3, <1>6, <3>1, <3>2 DEF OncePerId
  <2> QED
    BY <1>2, <1>4, <1>5, <1>7, <2>1 DEF Inv, PlacesInv
<1>10. ASSUME NEW d \in Consumer, d # c
       PROVE  /\ pc'[d] = pc[d] /\ got'[d] = got[d] /\ since'[d] = since[d]
              /\ pc[d] = "working" /\ got[d] = m =>
                   now - since[d] > VisibilityTimeout
  <2>1. pc'[d] = pc[d] /\ got'[d] = got[d] /\ since'[d] = since[d]
    BY <1>1, <1>5, <1>10 DEF Inv, TypeOK
  <2>2. \A i \in DOMAIN inFlight : inFlight[i].id # m
    BY <1>4 DEF Ids, ToSet
  <2> QED
    BY <1>4, <2>1, <2>2 DEF Inv, HolderInv
<1>11. pc'[c] = "working" /\ got'[c] = m /\ since'[c] = now
  BY <1>1, <1>5 DEF Inv, TypeOK
<1>12. HolderInv'
  <2>1. ASSUME NEW d \in Consumer, pc'[d] = "working"
        PROVE  \/ now' - since'[d] > VisibilityTimeout
               \/ got'[d] \in acked'
               \/ \E i \in DOMAIN inFlight' :
                    inFlight'[i] = [id |-> got'[d], at |-> since'[d], to |-> d]
    <3>1. CASE d = c
      <4>1. inFlight'[Len(inFlight) + 1] = [id |-> got'[d], at |-> since'[d], to |-> d]
        BY <1>6, <1>11, <3>1 DEF e
      <4>2. Len(inFlight) + 1 \in DOMAIN inFlight'
        BY <1>6
      <4> QED
        BY <4>1, <4>2
    <3>2. CASE d # c
      <4>1. \A i \in DOMAIN inFlight : i \in DOMAIN inFlight'
        BY <1>6
      <4> QED
        BY <1>6, <1>10, <2>1, <3>2, <4>1 DEF Inv, HolderInv
    <3> QED
      BY <3>1, <3>2
  <2> QED
    BY <2>1 DEF HolderInv
<1>13. ExclusiveWhileVisible'
  BY <1>10, <1>11 DEF Inv, ExclusiveWhileVisible
<1>14. OrderInv'
  <2>1. handed' = handed \cup {m} /\ m = queue[1]
    BY <1>1 DEF Take, m
  <2>2. /\ Ids(inFlight') \cup acked' \subseteq handed'
        /\ handed' \subseteq 1 .. published'
    BY <1>2, <1>7, <2>1 DEF Inv, PlacesInv, OrderInv
  <2>3. /\ Len(queue) \in Nat \ {0} /\ DOMAIN queue = 1 .. Len(queue)
        /\ DOMAIN queue' = 1 .. Len(queue) - 1
        /\ \A i \in DOMAIN queue' :
             i + 1 \in DOMAIN queue /\ queue'[i] = queue[i + 1]
    BY <1>1, <1>5
  <2>4. ASSUME NEW i \in DOMAIN queue', NEW j \in DOMAIN queue', i < j,
               queue'[i] \notin handed'
        PROVE  queue'[j] \notin handed' /\ queue'[i] < queue'[j]
    <3>1. i + 1 \in DOMAIN queue /\ j + 1 \in DOMAIN queue /\ i + 1 < j + 1
      BY <2>3, <2>4
    <3>2. queue[i + 1] \notin handed
      BY <2>1, <2>3, <2>4
    <3>3. queue[j + 1] \notin handed /\ queue[i + 1] < queue[j + 1]
      BY <3>1, <3>2 DEF Inv, OrderInv, FirstInFirstOut
    <3>4. queue[j + 1] # m
      <4>1. 1 \in DOMAIN queue /\ j + 1 # 1
        BY <2>3
      <4> QED
        BY <1>1, <2>1, <3>1, <4>1 DEF Once
    <3> QED
      BY <2>1, <2>3, <3>3, <3>4
  <2>5. ASSUME NEW n \in 1 .. m PROVE n \in handed'
    <3>1. n \in ToSet(queue) \/ n \in handed
      <4>1. m \in 1 .. published /\ published \in Nat
        BY <1>2 DEF Inv, PlacesInv, TypeOK
      <4>2. n \in 1 .. published
        BY <4>1
      <4> QED
        BY <4>2 DEF Inv, PlacesInv, OrderInv
    <3>2. ASSUME n \notin handed, n # m PROVE FALSE
      <4>1. PICK j \in DOMAIN queue : queue[j] = n
        BY <3>1, <3>2 DEF ToSet
      <4>2. 1 \in DOMAIN queue /\ 1 < j
        BY <2>1, <2>3, <3>2, <4>1
      <4>3. CASE m \in handed
        BY <2>5, <3>2, <4>3 DEF Inv, OrderInv, FirstInFirstOut
      <4>4. CASE m \notin handed
        <5>1. m < n
          BY <2>1, <4>1, <4>2, <4>4 DEF Inv, OrderInv, FirstInFirstOut
        <5> QED
          BY <1>2, <5>1 DEF Message
      <4> QED
        BY <4>3, <4>4
    <3> QED
      BY <2>1, <3>2
  <2>6. \A n \in handed' : 1 .. n \subseteq handed'
    BY <2>1, <2>5 DEF Inv, OrderInv, FirstInFirstOut
  <2> QED
    BY <2>2, <2>4, <2>6 DEF OrderInv, FirstInFirstOut
<1> QED
  BY <1>8, <1>9, <1>12, <1>13, <1>14 DEF Inv

\* An acknowledgement takes the message's only entry out of in_flight.
LEMMA AckStep == ASSUME Inv, NEW c \in Consumer, Ack(c) PROVE Inv'
<1> DEFINE m == got[c]
           I == {i \in DOMAIN inFlight : inFlight[i].id # m}
<1>1. /\ inFlight \in Seq(Entry) /\ OncePerId(inFlight) /\ m \in Ids(inFlight)
      /\ inFlight' = Picked(inFlight, I) /\ acked' = acked \cup {m}
      /\ pc' = [pc EXCEPT ![c] = "idle"]
      /\ UNCHANGED <<queue, published, got, since, rounds, now, handed>>
  BY DEF Inv, TypeOK, PlacesInv, Ack, Entry
<1>2. /\ inFlight' \in Seq(Entry) /\ OncePerId(inFlight')
      /\ ToSet(inFlight') = {inFlight[i] : i \in I}
      /\ Ids(inFlight') = {inFlight[i].id : i \in I}
  BY <1>1, PickedEntries
<1>3. Ids(inFlight) = {inFlight[i].id : i \in DOMAIN inFlight}
  BY DEF Ids, ToSet
<1>4. Ids(inFlight') = Ids(inFlight) \ {m}
  BY <1>2, <1>3
<1>5. m \in Message
  <2>1. \A i \in DOMAIN inFlight : inFlight[i].id \in Message
    BY <1>1, EntryAt
  <2> QED
    BY <1>1, <1>3, <2>1
<1>6. TypeOK'
  BY <1>1, <1>2, <1>5 DEF Inv, TypeOK, Entry
<1>7. PlacesInv'
  BY <1>1, <1>2, <1>4 DEF Inv, PlacesInv
<1>8. HolderInv' /\ ExclusiveWhileVisible'
  <2>1. \A d \in Consumer : pc'[d] = "working" => pc[d] = "working"
    BY <1>1 DEF Inv, TypeOK
  <2>2. now' \in Nat /\ now' >= now
    BY <1>1 DEF Inv, TypeOK
  <2>3. \A i \in DOMAIN inFlight :
          inFlight[i] \in ToSet(inFlight') \/ inFlight[i].id \in acked'
    BY <1>1, <1>2
  <2> QED
    BY <1>1, <2>1, <2>2, <2>3, HoldersStay DEF Inv
<1>9. OrderInv'
  BY <1>1, <1>4 DEF Inv, OrderInv, FirstInFirstOut
<1> QED
  BY <1>6, <1>7, <1>8, <1>9 DEF Inv

\* What requeue_expired takes out of in_flight is in the queue afterwards, and
\* nothing else changes place.
LEMMA RequeueMoves ==
  ASSUME Inv, RequeueExpired
  PROVE  /\ queue' \in Seq(Message) /\ Once(queue')
         /\ inFlight' \in Seq(Entry) /\ OncePerId(inFlight')
         /\ ToSet(queue') = ToSet(queue) \cup {inFlight[i].id : i \in Expired}
         /\ ToSet(inFlight') = {inFlight[i] : i \in DOMAIN inFlight \ Expired}
         /\ Ids(inFlight') = Ids(inFlight) \ {inFlight[i].id : i \in Expired}
         /\ {inFlight[i].id : i \in Expired} \subseteq Ids(inFlight)
         /\ \E front \in Seq(Message) :
              queue' = front \o queue /\ ToSet(front) \subseteq Ids(inFlight)
<1> DEFINE back == Picked(inFlight, Expired)
           ids == [i \in DOMAIN back |-> back[i].id]
<1>1. /\ inFlight \in Seq(Entry) /\ OncePerId(inFlight)
      /\ Expired \in SUBSET DOMAIN inFlight
      /\ queue \in Seq(Message) /\ Once(queue)
      /\ queue' = Reverse(ids) \o queue
      /\ inFlight' = Picked(inFlight, DOMAIN inFlight \ Expired)
  BY DEF Inv, TypeOK, PlacesInv, Entry, Expired, RequeueExpired
<1>2. /\ back \in Seq(Entry) /\ OncePerId(back)
      /\ Ids(back) = {inFlight[i].id : i \in Expired}
  BY <1>1, PickedEntries
<1>3. /\ inFlight' \in Seq(Entry) /\ OncePerId(inFlight')
      /\ ToSet(inFlight') = {inFlight[i] : i \in DOMAIN inFlight \ Expired}
      /\ Ids(inFlight') = {inFlight[i].id : i \in DOMAIN inFlight \ Expired}
  <2>1. DOMAIN inFlight \ Expired \in SUBSET DOMAIN inFlight
    OBVIOUS
  <2> QED
    BY <1>1, <2>1, PickedEntries
<1>4. Ids(inFlight) = {inFlight[i].id : i \in DOMAIN inFlight}
  BY DEF Ids, ToSet
<1>5. Ids(inFlight') = Ids(inFlight) \ {inFlight[i].id : i \in Expired}
  <2>1. \A i \in DOMAIN inFlight, j \in Expired :
          inFlight[i].id = inFlight[j].id => i \in Expired
    BY <1>1 DEF OncePerId
  <2>2. \A x : x \in Ids(inFlight') <=>
               x \in Ids(inFlight) /\ x \notin {inFlight[i].id : i \in Expired}
    BY <1>1, <1>3, <1>4, <2>1
  <2> QED
    BY <2>2
<1> HIDE DEF back
<1>6. ids \in Seq(Message) /\ Once(ids) /\ ToSet(ids) = Ids(back)
  <2>1. Len(back) \in Nat /\ DOMAIN back = 1 .. Len(back)
    BY <1>2
  <2>2. \A i \in DOMAIN back : back[i].id \in Message
    BY <1>2, EntryAt
  <2>3. ids \in Seq(Message)
    BY <2>1, <2>2
  <2>4. DOMAIN ids = DOMAIN back /\ \A i \in DOMAIN back : ids[i] = back[i].id
    OBVIOUS
  <2> HIDE DEF ids
  <2>5. Once(ids)
    BY <1>2, <2>4 DEF Once, OncePerId
  <2>6. ToSet(ids) = Ids(back)
    BY <2>4 DEF Ids, ToSet
  <2> QED
    BY <2>3, <2>5, <2>6
<1> HIDE DEF ids
<1>7. /\ Reverse(ids) \in Seq(Message) /\ Once(Reverse(ids))
      /\ ToSet(Reverse(ids)) = Ids(back)
  BY <1>6, Reversed DEF Once
<1>8. ToSet(Reverse(ids)) \cap ToSet(queue) = {}
  BY <1>1, <1>2, <1>4, <1>7 DEF Inv, PlacesInv
<1>9. /\ queue' \in Seq(Message) /\ Once(queue')
      /\ ToSet(queue') = ToSet(Reverse(ids)) \cup ToSet(queue)
  <2>1. \A s, t \in Seq(Message) :
          Once(s) /\ Once(t) /\ ToSet(s) \cap ToSet(t) = {} =>
            /\ s \o t \in Seq(Message) /\ Once(s \o t)
            /\ ToSet(s \o t) = ToSet(s) \cup ToSet(t)
    <3>1. SUFFICES ASSUME NEW s \in Seq(Message), NEW t \in Seq(Message),
                          Once(s), Once(t), ToSet(s) \cap ToSet(t) = {}
                   PROVE  /\ s \o t \in Seq(Message) /\ Once(s \o t)
                          /\ ToSet(s \o t) = ToSet(s) \cup ToSet(t)
      OBVIOUS
    <3>2. /\ \A i, j \in DOMAIN s : s[i] = s[j] => i = j
          /\ \A i, j \in DOMAIN t : t[i] = t[j] => i = j
      BY <3>1 DEF Once
    <3>3. /\ s \o t \in Seq(Message)
          /\ ToSet(s \o t) = ToSet(s) \cup ToSet(t)
          /\ \A i, j \in DOMAIN (s \o t) : (s \o t)[i] = (s \o t)[j] => i = j
      BY <3>1, <3>2, PutTogether, Zenon
    <3> QED
      BY <3>3, Zenon DEF Once
  <2> QED
    BY <1>1, <1>7, <1>8, <2>1
<1>10. \E front \in Seq(Message) :
         queue' = front \o queue /\ ToSet(front) \subseteq Ids(inFlight)
  BY <1>1, <1>2, <1>4, <1>7
<1> QED
  BY <1>1, <1>2, <1>3, <1>4, <1>5, <1>7, <1>9, <1>10

\* What stands before the queue has been handed out before.
LEMMA RequeueOrder == ASSUME Inv, RequeueExpired PROVE OrderInv'
<1>1. /\ UNCHANGED <<published, acked, handed>>
      /\ queue \in Seq(Message)
  BY DEF Inv, TypeOK, RequeueExpired
<1>2. PICK back \in Seq(Message) :
        queue' = back \o queue /\ ToSet(back) \subseteq Ids(inFlight)
  BY RequeueMoves
<1>3. Ids(inFlight') \cup acked' \subseteq handed' /\ handed' \subseteq 1 .. published'
  BY <1>1, RequeueMoves DEF Inv, OrderInv
<1> DEFINE k == Len(back)
<1>4. /\ k \in Nat /\ Len(queue) \in Nat
      /\ DOMAIN back = 1 .. k /\ DOMAIN queue = 1 .. Len(queue)
      /\ DOMAIN queue' = 1 .. k + Len(queue)
      /\ \A i \in DOMAIN back : queue'[i] = back[i]
      /\ \A i \in DOMAIN queue' \ DOMAIN back : queue'[i] = queue[i - k]
  BY <1>1, <1>2
<1> HIDE DEF k
<1>5. \A i \in DOMAIN back : queue'[i] \in handed
  BY <1>2, <1>4 DEF Inv, OrderInv, ToSet
<1>6. ASSUME NEW i \in DOMAIN queue', NEW j \in DOMAIN queue', i < j,
             queue'[i] \notin handed'
      PROVE  queue'[j] \notin handed' /\ queue'[i] < queue'[j]
  <2>1. i \notin DOMAIN back
    BY <1>1, <1>5, <1>6
  <2>2. j \notin DOMAIN back
    BY <1>4, <1>6, <2>1
  <2>3. i - k \in DOMAIN queue /\ j - k \in DOMAIN queue /\ i - k < j - k
    BY <1>4, <1>6, <2>1, <2>2
  <2>4. queue'[i] = queue[i - k] /\ queue'[j] = queue[j - k]
    BY <1>4, <2>1, <2>2
  <2> QED
    BY <1>1, <1>6, <2>3, <2>4 DEF Inv, OrderInv, FirstInFirstOut
<1> QED
  BY <1>1, <1>3, <1>6 DEF Inv, OrderInv, FirstInFirstOut

LEMMA RequeueStep == ASSUME Inv, RequeueExpired PROVE Inv'
<1> DEFINE X == {inFlight[i].id : i \in Expired}
<1>1. /\ NotifyAll /\ rounds' = rounds - 1 /\ rounds > 0
      /\ UNCHANGED <<published, got, since, now, acked, handed>>
  BY DEF RequeueExpired
<1>2. TypeOK'
  <2>1. queue' \in Seq(Message) /\ inFlight' \in Seq(Entry)
    BY RequeueMoves
  <2>2. pc' \in [Consumer -> {"idle", "waiting", "woken", "expired",
                             "working", "done", "dead"}]
    BY <1>1, NotifyAllWakes DEF Inv
  <2>3. rounds' \in 0 .. NumRounds
    BY <1>1, QueueAssumption DEF Inv, TypeOK
  <2> QED
    BY <1>1, <2>1, <2>2, <2>3 DEF Inv, TypeOK, Entry
<1>3. PlacesInv'
  <2>1. /\ Once(queue') /\ OncePerId(inFlight')
        /\ ToSet(queue') = ToSet(queue) \cup X
        /\ Ids(inFlight') = Ids(inFlight) \ X /\ X \subseteq Ids(inFlight)
    BY RequeueMoves
  <2> HIDE DEF X
  <2> QED
    BY <1>1, <2>1 DEF Inv, PlacesInv
<1>4. HolderInv' /\ ExclusiveWhileVisible'
  <2>1. \A d \in Consumer : pc'[d] = "working" => pc[d] = "working"
    BY <1>1, NotifyAllWakes DEF Inv
  <2>2. now' \in Nat /\ now' >= now
    BY <1>1 DEF Inv, TypeOK
  <2>3. \A i \in DOMAIN inFlight :
          \/ inFlight[i] \in ToSet(inFlight')
          \/ now - inFlight[i].at > VisibilityTimeout
    BY RequeueMoves DEF Expired
  <2> QED
    BY <1>1, <2>1, <2>2, <2>3, HoldersStay DEF Inv
<1> QED
  BY <1>2, <1>3, <1>4, RequeueOrder DEF Inv

\* A step that leaves messages and receipts alone: a wait, a failed ack, a
\* worker that gives up, the clock.
QuietStep ==
  /\ UNCHANGED <<queue, inFlight, published, got, since, rounds, acked, handed>>
  /\ now' \in {now, now + 1}
  /\ pc' \in [Consumer -> {"idle", "waiting", "woken", "expired", "working",
                           "done", "dead"}]
  /\ \A c \in Consumer : pc'[c] = "working" => pc[c] = "working"

LEMMA QuietInv == ASSUME Inv, QuietStep PROVE Inv'
<1>1. TypeOK'
  BY DEF Inv, TypeOK, QuietStep
<1>2. PlacesInv'
  BY DEF Inv, PlacesInv, QuietStep, Ids
<1>3. HolderInv' /\ ExclusiveWhileVisible'
  <2>1. now' \in Nat /\ now' >= now
    BY DEF Inv, TypeOK, QuietStep
  <2>2. \A i \in DOMAIN inFlight : inFlight[i] \in ToSet(inFlight')
    BY DEF QuietStep, ToSet
  <2> QED
    BY <2>1, <2>2, HoldersStay DEF QuietStep
<1>4. OrderInv'
  BY DEF Inv, OrderInv, FirstInFirstOut, QuietStep, Ids
<1> QED
  BY <1>1, <1>2, <1>3, <1>4 DEF Inv

\* What a step is, as far as messages are concerned.
LEMMA StepKinds ==
  ASSUME Inv, [Next]_vars
  PROVE  \/ Publish \/ RequeueExpired \/ QuietStep
         \/ \E c \in Consumer : Ack(c)
         \/ \E c \in Consumer : Take(c) /\ UNCHANGED <<published, rounds, now, acked>>
<1> USE DEF Inv, TypeOK
<1>1. CASE Tick \/ UNCHANGED vars
  BY <1>1 DEF Tick, vars, QuietStep
<1>2. ASSUME NEW c \in Consumer, Receive(c), ~Take(c) PROVE QuietStep
  BY <1>2 DEF Receive, QuietStep
<1>3. ASSUME NEW c \in Consumer, Recheck(c), ~Take(c) PROVE QuietStep
  BY <1>3 DEF Recheck, QuietStep
<1>4. ASSUME NEW c \in Consumer, TimesOut(c) \/ AckRaises(c) \/ GivesUp(c)
      PROVE  QuietStep
  BY <1>4 DEF TimesOut, AckRaises, GivesUp, QuietStep
<1>5. ASSUME NEW c \in Consumer, Receive(c) \/ Recheck(c)
      PROVE  UNCHANGED <<published, rounds, now, acked>>
  BY <1>5 DEF Receive, Recheck
<1> HIDE DEF Inv, TypeOK
<1> QED
  BY <1>1, <1>2, <1>3, <1>4, <1>5 DEF Next, Step

LEMMA StepInv == Inv /\ [Next]_vars => Inv'
BY StepKinds, PublishStep, RequeueStep, QuietInv, AckStep, TakeStep

LEMMA Invariance == Spec => []Inv
BY InitInv, StepInv, PTL DEF Spec

-----------------------------------------------------------------------------
\* Every variable keeps its type.
THEOREM TypesKept == Spec => []TypeOK
<1>1. Inv => TypeOK
  BY DEF Inv
<1> QED
  BY <1>1, Invariance, PTL

\* However redelivery, late acknowledgements and consumers that never
\* acknowledge meet, every published message is queued, in flight or
\* acknowledged, and only once (03-simple-message-queue.py:53-71).
THEOREM NoneLostOrDoubled == Spec => []Conservation
<1>1. Inv => Conservation
  <2> SUFFICES ASSUME Inv PROVE Conservation
    OBVIOUS
  <2> DEFINE Q == ToSet(queue)
             F == Ids(inFlight)
             ids == [i \in DOMAIN inFlight |-> inFlight[i].id]
  <2>1. /\ queue \in Seq(Message) /\ inFlight \in Seq(Entry)
        /\ Once(queue) /\ OncePerId(inFlight) /\ published \in Nat
        /\ Q \cup F \cup acked = 1 .. published
        /\ Q \cap F = {} /\ acked \cap (Q \cup F) = {}
    BY QueueAssumption DEF Inv, TypeOK, PlacesInv, Entry
  <2>2. IsFiniteSet(Q) /\ Cardinality(Q) = Len(queue)
    BY <2>1, DistinctLength DEF Once
  <2>3. IsFiniteSet(F) /\ Cardinality(F) = Len(inFlight)
    <3>1. Len(inFlight) \in Nat /\ DOMAIN inFlight = 1 .. Len(inFlight)
      BY <2>1
    <3>2. \A i \in DOMAIN inFlight : inFlight[i].id \in Message
      BY <2>1, EntryAt
    <3>3. ids \in Seq(Message) /\ Len(ids) = Len(inFlight)
      BY <3>1, <3>2
    <3>4. DOMAIN ids = DOMAIN inFlight /\ \A i \in DOMAIN inFlight : ids[i] = inFlight[i].id
      OBVIOUS
    <3> HIDE DEF ids
    <3>5. \A i, j \in DOMAIN ids : ids[i] = ids[j] => i = j
      BY <2>1, <3>4 DEF OncePerId
    <3>6. ToSet(ids) = F
      BY <3>4 DEF Ids, ToSet
    <3> QED
      BY <3>3, <3>5, <3>6, DistinctLength
  <2> HIDE DEF Q, F
  <2>4. IsFiniteSet(1 .. published) /\ Cardinality(1 .. published) = published
    BY <2>1, FS_Interval
  <2>5. IsFiniteSet(acked)
    BY <2>1, <2>4, FS_Subset
  <2>6. IsFiniteSet(Q \cup F) /\ Cardinality(Q \cup F) = Len(queue) + Len(inFlight)
    <3>1. Cardinality(Q \cap F) = 0
      BY <2>1, FS_EmptySet
    <3>2. Len(queue) \in Nat /\ Len(inFlight) \in Nat
      BY <2>1
    <3>3. /\ IsFiniteSet(Q \cup F)
          /\ Cardinality(Q \cup F) = Cardinality(Q) + Cardinality(F) - Cardinality(Q \cap F)
      BY <2>2, <2>3, FS_Union
    <3> QED
      BY <2>2, <2>3, <3>1, <3>2, <3>3
  <2>7. Cardinality((Q \cup F) \cup acked) = Cardinality(Q \cup F) + Cardinality(acked)
    <3> DEFINE U == Q \cup F
    <3>1. Cardinality(U \cap acked) = 0
      BY <2>1, FS_EmptySet
    <3>2. IsFiniteSet(U) /\ Cardinality(U) \in Nat /\ Cardinality(acked) \in Nat
      BY <2>5, <2>6, FS_CardinalityType
    <3> HIDE DEF U
    <3>3. Cardinality(U \cup acked)
            = Cardinality(U) + Cardinality(acked) - Cardinality(U \cap acked)
      BY <2>5, <3>2, FS_Union
    <3>4. Cardinality(U \cup acked) = Cardinality(U) + Cardinality(acked)
      BY <3>1, <3>2, <3>3
    <3> QED
      BY <3>4 DEF U
  <2>8. Len(queue) + Len(inFlight) + Cardinality(acked) = published
    BY <2>1, <2>4, <2>6, <2>7
  <2> QED
    BY <2>1, <2>8 DEF Conservation, Q, F
<1> QED
  BY <1>1, Invariance, PTL

\* Redelivered messages go ahead, and first deliveries keep the order of
\* publication, for any consumers and any expiries (lines 39, 52 and 68).
THEOREM InOrder == Spec => []FirstInFirstOut
<1>1. Inv => FirstInFirstOut
  BY DEF Inv, OrderInv
<1> QED
  BY <1>1, Invariance, PTL

\* Two consumers never work on one message while both are within its
\* visibility timeout, whatever expires and is acknowledged late (line 67).
THEOREM OneHolderWhileVisible == Spec => []ExclusiveWhileVisible
<1>1. Inv => ExclusiveWhileVisible
  BY DEF Inv
<1> QED
  BY <1>1, Invariance, PTL

-----------------------------------------------------------------------------
\* A consumer goes to sleep only when the queue is empty.
LEMMA StepSleep ==
  ASSUME TypeOK, NoSleeperBesideAMessage, [Next]_vars
  PROVE  NoSleeperBesideAMessage'
<1> USE DEF TypeOK, NoSleeperBesideAMessage
<1>1. CASE Publish \/ RequeueExpired
  <2>1. NotifyAll
    BY <1>1 DEF Publish, RequeueExpired
  <2> QED
    BY <2>1, NotifyAllWakes
<1>2. ASSUME NEW c \in Consumer, Take(c) PROVE NoSleeperBesideAMessage'
  BY <1>2 DEF Take
<1>3. ASSUME NEW c \in Consumer, Receive(c) PROVE NoSleeperBesideAMessage'
  <2>1. CASE queue' = queue /\ queue = <<>>
    BY <2>1
  <2> QED
    BY <1>2, <1>3, <2>1 DEF Receive
<1>4. ASSUME NEW c \in Consumer, Recheck(c) PROVE NoSleeperBesideAMessage'
  <2>1. CASE queue' = queue /\ queue = <<>>
    BY <2>1
  <2> QED
    BY <1>2, <1>4, <2>1 DEF Recheck
<1>5. ASSUME NEW c \in Consumer, TimesOut(c) \/ Ack(c) \/ AckRaises(c) \/ GivesUp(c)
      PROVE  NoSleeperBesideAMessage'
  BY <1>5 DEF TimesOut, Ack, AckRaises, GivesUp
<1>6. CASE Tick \/ UNCHANGED vars
  BY <1>6 DEF Tick, vars
<1> QED
  BY <1>1, <1>3, <1>4, <1>5, <1>6 DEF Next, Step

\* However publish, receive and requeue_expired interleave, and whichever
\* waits time out, no consumer sleeps while the queue holds a message.
THEOREM NoLostWakeup == Spec => []NoSleeperBesideAMessage
<1>1. Init => NoSleeperBesideAMessage
  BY DEF Init, NoSleeperBesideAMessage
<1>2. Inv /\ NoSleeperBesideAMessage /\ [Next]_vars => NoSleeperBesideAMessage'
  BY StepSleep DEF Inv
<1> QED
  BY <1>1, <1>2, Invariance, PTL DEF Spec

-----------------------------------------------------------------------------
(* The queue implements Delivery.                                          *)

St == [m \in Message |-> Status(m)]

\* Where a message is, is well defined.
LEMMA StatusIs ==
  ASSUME TypeOK, PlacesInv, NEW m \in Message
  PROVE  /\ Status(m) \in {"unsent", "queued", "inflight", "acked"}
         /\ Status(m) = "unsent" <=> m > published
         /\ Status(m) = "queued" <=> m \in ToSet(queue)
         /\ Status(m) = "inflight" <=> m \in Ids(inFlight)
         /\ Status(m) = "acked" <=> m \in acked
<1>1. published \in Nat /\ m \in Nat \ {0}
  BY QueueAssumption DEF TypeOK, Message
<1>2. m <= published <=> m \in ToSet(queue) \cup Ids(inFlight) \cup acked
  BY <1>1 DEF PlacesInv
<1> QED
  BY <1>1, <1>2 DEF Status, PlacesInv

LEMMA StatusPrime ==
  ASSUME TypeOK', PlacesInv', NEW m \in Message
  PROVE  /\ St'[m] = Status(m)'
         /\ Status(m)' \in {"unsent", "queued", "inflight", "acked"}
         /\ Status(m)' = "unsent" <=> m > published'
         /\ Status(m)' = "queued" <=> m \in ToSet(queue')
         /\ Status(m)' = "inflight" <=> m \in Ids(inFlight')
         /\ Status(m)' = "acked" <=> m \in acked'
<1>1. published' \in Nat /\ m \in Nat \ {0}
  BY QueueAssumption DEF TypeOK, Message
<1>2. m <= published' <=> m \in ToSet(queue') \cup Ids(inFlight') \cup acked'
  BY <1>1 DEF PlacesInv, Ids
<1> QED
  BY <1>1, <1>2 DEF Status, PlacesInv, St, Ids

\* The messages of S, and no others, go from one place to another.
LEMMA MoveIs ==
  ASSUME NEW S \in SUBSET Message, NEW from, NEW to,
         \A m \in S : Status(m) = from,
         \A m \in Message : Status(m)' = IF m \in S THEN to ELSE Status(m)
  PROVE  Diagram!Move(S, from, to)
BY DEF Diagram!Move, St

LEMMA StepMoves == ASSUME Inv, Inv', [Next]_vars PROVE [Diagram!Next]_St
<1>0. TypeOK /\ PlacesInv /\ TypeOK' /\ PlacesInv'
  BY DEF Inv
<1>1. CASE Publish
  <2> DEFINE m == published'
  <2>1. m \in Message /\ m = published + 1 /\ published \in Nat
    BY <1>0, <1>1, QueueAssumption DEF Publish, TypeOK, Message
  <2>2. UNCHANGED <<inFlight, acked>>
    BY <1>1 DEF Publish
  <2>3. Status(m) = "unsent"
    BY <1>0, <2>1, StatusIs
  <2>4. ASSUME NEW n \in Message
        PROVE  Status(n)' = IF n = m THEN "queued" ELSE Status(n)
    <3>1. n \in Nat /\ (n > published' <=> n > published /\ n # m)
      BY <2>1 DEF Message
    <3>2. Ids(inFlight') = Ids(inFlight) /\ acked' = acked
      BY <2>2
    <3>3. m \notin Ids(inFlight) \cup acked
      BY <1>0, <2>1, <2>3, StatusIs
    <3> QED
      BY <1>0, <2>1, <3>1, <3>2, <3>3, StatusIs, StatusPrime
  <2> HIDE DEF m
  <2>5. Diagram!Move({m}, "unsent", "queued")
    BY <2>1, <2>3, <2>4, MoveIs
  <2> QED
    BY <2>1, <2>5 DEF Diagram!Next
<1>2. ASSUME NEW c \in Consumer, Take(c), UNCHANGED <<published, rounds, now, acked>>
      PROVE  Diagram!Next
  <2> DEFINE m == Head(queue)
  <2>1. /\ m \in Message /\ m \in ToSet(queue)
        /\ ToSet(queue') = ToSet(queue) \ {m}
    BY <1>2, <1>0, TakeHead DEF TypeOK, PlacesInv, Once, Take
  <2>2. Status(m) = "queued"
    BY <1>0, <2>1, StatusIs
  <2>3. published' = published /\ acked' = acked
    BY <1>2
  <2>4. ASSUME NEW n \in Message
        PROVE  Status(n)' = IF n = m THEN "inflight" ELSE Status(n)
    <3>1. n \in ToSet(queue') <=> n \in ToSet(queue) /\ n # m
      BY <2>1
    <3>2. /\ Status(n) \in {"unsent", "queued", "inflight", "acked"}
          /\ Status(n) = "unsent" <=> n > published
          /\ Status(n) = "queued" <=> n \in ToSet(queue)
          /\ Status(n) = "acked" <=> n \in acked
      BY <1>0, StatusIs
    <3>3. /\ Status(n)' \in {"unsent", "queued", "inflight", "acked"}
          /\ Status(n)' = "unsent" <=> n > published
          /\ Status(n)' = "queued" <=> n \in ToSet(queue')
          /\ Status(n)' = "acked" <=> n \in acked
      BY <1>0, <2>3, StatusPrime
    <3>4. m \notin acked /\ ~(m > published)
      BY <1>0, <2>1, <2>2, StatusIs
    <3> QED
      BY <2>1, <2>2, <3>1, <3>2, <3>3, <3>4
  <2> HIDE DEF m
  <2>5. Diagram!Move({m}, "queued", "inflight")
    BY <2>1, <2>2, <2>4, MoveIs
  <2> QED
    BY <2>1, <2>5 DEF Diagram!Next
<1>3. ASSUME NEW c \in Consumer, Ack(c) PROVE Diagram!Next
  <2> DEFINE m == got[c]
  <2>1. /\ m \in Ids(inFlight) /\ acked' = acked \cup {m}
        /\ queue' = queue /\ published' = published
    BY <1>3 DEF Ack
  <2>2. m \in Message
    <3>1. inFlight \in Seq(Entry)
      BY <1>0 DEF TypeOK, Entry
    <3> QED
      BY <2>1, <3>1, EntryAt DEF Ids, ToSet
  <2>3. Status(m) = "inflight"
    BY <1>0, <2>1, <2>2, StatusIs
  <2>4. ASSUME NEW n \in Message
        PROVE  Status(n)' = IF n = m THEN "acked" ELSE Status(n)
    BY <1>0, <2>1, <2>2, <2>3, StatusIs, StatusPrime
  <2> HIDE DEF m
  <2>5. Diagram!Move({m}, "inflight", "acked")
    BY <2>2, <2>3, <2>4, MoveIs
  <2> QED
    BY <2>2, <2>5 DEF Diagram!Next
<1>4. CASE RequeueExpired
  <2> DEFINE X == {inFlight[i].id : i \in Expired}
  <2>1. /\ ToSet(queue') = ToSet(queue) \cup X /\ X \subseteq Ids(inFlight)
        /\ Ids(inFlight') = Ids(inFlight) \ X
    BY <1>4, RequeueMoves
  <2>2. published' = published /\ acked' = acked
    BY <1>4 DEF RequeueExpired
  <2>3. X \subseteq Message
    <3>1. inFlight \in Seq(Entry)
      BY <1>0 DEF TypeOK, Entry
    <3> QED
      BY <3>1, EntryAt DEF Expired
  <2> HIDE DEF X
  <2>4. \A m \in X : Status(m) = "inflight"
    BY <1>0, <2>1, <2>3, StatusIs
  <2>5. ASSUME NEW n \in Message
        PROVE  Status(n)' = IF n \in X THEN "queued" ELSE Status(n)
    BY <1>0, <2>1, <2>2, <2>3, <2>4, StatusIs, StatusPrime
  <2>6. Diagram!Move(X, "inflight", "queued")
    BY <2>3, <2>4, <2>5, MoveIs
  <2> QED
    BY <2>3, <2>6 DEF Diagram!Next
<1>5. CASE QuietStep
  BY <1>5 DEF QuietStep, St, Status, Ids
<1> QED
  BY <1>1, <1>2, <1>3, <1>4, <1>5, StepKinds

\* The queue keeps to the state diagram of its document for every message
\* (03-simple-message-queue.md:38-45): what is acknowledged was in flight and
\* never comes back.
THEOREM QueueRefines == Spec => ImplementsDelivery
<1>1. Init => Diagram!Init
  <2>1. Init => \A m \in Message : Status(m) = "unsent"
    <3> SUFFICES ASSUME Init, NEW m \in Message PROVE Status(m) = "unsent"
      OBVIOUS
    <3>1. published = 0 /\ m > 0
      BY QueueAssumption DEF Init, Message
    <3> QED
      BY <3>1, InitInv, StatusIs DEF Inv
  <2> QED
    BY <2>1 DEF Diagram!Init
<1>2. Inv /\ Inv' /\ [Next]_vars => [Diagram!Next]_St
  BY StepMoves
<1> QED
  BY <1>1, <1>2, Invariance, PTL DEF Spec, ImplementsDelivery, Diagram!Spec, St
=============================================================================
