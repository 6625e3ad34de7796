--------------------------- MODULE SequenceLemmas ---------------------------
(***************************************************************************)
(* What the pools' queues and stacks, sequences in which every element     *)
(* occurs once, hold after an element has come or gone.                    *)
(***************************************************************************)
EXTENDS Integers, SequencesExt, FiniteSetTheorems, SequenceTheorems,
        WellFoundedInduction, TLAPS

\* Induction, for a set instead of a predicate: the provers cannot instantiate
\* the one of NaturalsInduction.
LEMMA Induction ==
  ASSUME NEW T, 0 \in T, \A n \in Nat : n \in T => n + 1 \in T
  PROVE  Nat \subseteq T
<1> DEFINE R == OpToRel(<, Nat)
           B == Nat \ T
<1>1. IsWellFoundedOn(R, Nat)
  BY NatLessThanWellFounded
<1>2. \A m, n \in Nat : <<m, n>> \in R <=> m < n
  BY DEF OpToRel
<1> HIDE DEF R
<1> SUFFICES ASSUME B # {} PROVE FALSE
  OBVIOUS
<1>3. PICK n \in B : \A m \in B : <<m, n>> \notin R
  <2>1. B \subseteq Nat
    OBVIOUS
  <2> HIDE DEF B
  <2> QED
    BY <1>1, <2>1, WFMin
<1>4. n \in Nat \ {0} /\ n - 1 \in Nat /\ n - 1 < n /\ (n - 1) + 1 = n
  BY <1>3
<1>5. n - 1 \in T
  BY <1>2, <1>3, <1>4
<1> QED
  BY <1>3, <1>4, <1>5

\* The first element leaves a queue without repetitions.
LEMMA TakeHead ==
  ASSUME NEW S, NEW s \in Seq(S), s # <<>>,
         \A i, j \in DOMAIN s : s[i] = s[j] => i = j
  PROVE  /\ Tail(s) \in Seq(S) /\ Head(s) \in S
         /\ ToSet(Tail(s)) = ToSet(s) \ {Head(s)} /\ Head(s) \in ToSet(s)
         /\ \A i, j \in DOMAIN Tail(s) : Tail(s)[i] = Tail(s)[j] => i = j
<1>1. /\ Len(s) \in Nat \ {0} /\ DOMAIN s = 1 .. Len(s)
      /\ Tail(s) \in Seq(S) /\ Head(s) \in S /\ Head(s) = s[1]
      /\ DOMAIN Tail(s) = 1 .. Len(s) - 1
      /\ \A i \in 1 .. Len(s) - 1 : Tail(s)[i] = s[i + 1]
  OBVIOUS
<1>2. ToSet(Tail(s)) = ToSet(s) \ {Head(s)}
  <2>1. ASSUME NEW i \in 1 .. Len(s), s[i] # s[1]
        PROVE  i - 1 \in DOMAIN Tail(s) /\ Tail(s)[i - 1] = s[i]
    BY <1>1, <2>1
  <2>2. ASSUME NEW i \in DOMAIN Tail(s)
        PROVE  i + 1 \in DOMAIN s /\ Tail(s)[i] = s[i + 1] /\ s[i + 1] # s[1]
    BY <1>1, <2>2
  <2>3. ASSUME NEW x \in ToSet(s), x # Head(s) PROVE x \in ToSet(Tail(s))
    <3>1. PICK i \in 1 .. Len(s) : s[i] = x
      BY <1>1 DEF ToSet
    <3> QED
      BY <1>1, <2>1, <2>3, <3>1 DEF ToSet
  <2>4. ASSUME NEW x \in ToSet(Tail(s)) PROVE x \in ToSet(s) /\ x # Head(s)
    <3>1. PICK i \in DOMAIN Tail(s) : Tail(s)[i] = x
      BY DEF ToSet
    <3> QED
      BY <1>1, <2>2, <3>1 DEF ToSet
  <2> QED
    BY <2>3, <2>4
<1>3. \A i, j \in DOMAIN Tail(s) : Tail(s)[i] = Tail(s)[j] => i = j
  <2> SUFFICES ASSUME NEW i \in DOMAIN Tail(s), NEW j \in DOMAIN Tail(s),
                      Tail(s)[i] = Tail(s)[j]
               PROVE  i = j
    OBVIOUS
  <2>1. i + 1 = j + 1
    BY <1>1
  <2> QED
    BY <1>1, <2>1
<1>4. Head(s) \in ToSet(s)
  BY <1>1 DEF ToSet
<1> QED
  BY <1>1, <1>2, <1>3, <1>4

\* The last element leaves a stack.
LEMMA TakeLast ==
  ASSUME NEW S, NEW s \in Seq(S), s # <<>>
  PROVE  /\ Front(s) \in Seq(S) /\ Last(s) \in S
         /\ Len(Front(s)) = Len(s) - 1 /\ Len(s) \in Nat \ {0}
         /\ ToSet(s) = ToSet(Front(s)) \cup {Last(s)}
<1>0. /\ Len(s) \in Nat \ {0} /\ DOMAIN s = 1 .. Len(s)
      /\ Last(s) \in S /\ Last(s) = s[Len(s)]
  BY DEF Last
<1>1. /\ Front(s) \in Seq(S) /\ Len(Front(s)) = Len(s) - 1
      /\ DOMAIN Front(s) = 1 .. Len(s) - 1
      /\ \A i \in 1 .. Len(s) - 1 : Front(s)[i] = s[i]
  BY <1>0, SubSeqProperties DEF Front
<1>2. \A i \in DOMAIN s : i \in DOMAIN Front(s) \/ i = Len(s)
  BY <1>0, <1>1
<1>3. DOMAIN Front(s) \subseteq DOMAIN s /\ Len(s) \in DOMAIN s
  BY <1>0, <1>1
<1>4. \A x : x \in ToSet(s) <=> \E i \in DOMAIN s : s[i] = x
  BY DEF ToSet
<1>5. \A x : x \in ToSet(Front(s)) <=> \E i \in DOMAIN Front(s) : Front(s)[i] = x
  BY DEF ToSet
<1>6. ASSUME NEW x \in ToSet(s) PROVE x \in ToSet(Front(s)) \cup {Last(s)}
  BY <1>0, <1>1, <1>2, <1>4, <1>5
<1>7. ASSUME NEW x \in ToSet(Front(s)) \cup {Last(s)} PROVE x \in ToSet(s)
  BY <1>0, <1>1, <1>3, <1>4, <1>5
<1> QED
  BY <1>0, <1>1, <1>6, <1>7

\* An element joins at the end.
LEMMA PutLast ==
  ASSUME NEW S, NEW s \in Seq(S), NEW e \in S
  PROVE  /\ Append(s, e) \in Seq(S)
         /\ Len(Append(s, e)) = Len(s) + 1 /\ Len(s) \in Nat
         /\ ToSet(Append(s, e)) = ToSet(s) \cup {e}
         /\ e \notin ToSet(s) /\ (\A i, j \in DOMAIN s : s[i] = s[j] => i = j) =>
              \A i, j \in DOMAIN Append(s, e) :
                Append(s, e)[i] = Append(s, e)[j] => i = j
<1>1. /\ Len(s) \in Nat /\ DOMAIN s = 1 .. Len(s)
      /\ Append(s, e) \in Seq(S) /\ Len(Append(s, e)) = Len(s) + 1
      /\ DOMAIN Append(s, e) = 1 .. Len(s) + 1
      /\ \A i \in 1 .. Len(s) : Append(s, e)[i] = s[i]
      /\ Append(s, e)[Len(s) + 1] = e
  OBVIOUS
<1>2. \A i \in DOMAIN Append(s, e) : i \in DOMAIN s \/ i = Len(s) + 1
  BY <1>1
<1>3. DOMAIN s \subseteq DOMAIN Append(s, e) /\ Len(s) + 1 \in DOMAIN Append(s, e)
  BY <1>1
<1>4. ASSUME NEW x \in ToSet(Append(s, e)) PROVE x \in ToSet(s) \cup {e}
  <2>1. PICK i \in DOMAIN Append(s, e) : Append(s, e)[i] = x
    BY DEF ToSet
  <2> QED
    BY <1>1, <1>2, <2>1 DEF ToSet
<1>5. ASSUME NEW x \in ToSet(s) \cup {e} PROVE x \in ToSet(Append(s, e))
  <2>1. x = e \/ \E i \in DOMAIN s : s[i] = x
    BY <1>5 DEF ToSet
  <2> QED
    BY <1>1, <1>3, <2>1 DEF ToSet
<1>6. ASSUME e \notin ToSet(s), \A i, j \in DOMAIN s : s[i] = s[j] => i = j,
             NEW i \in DOMAIN Append(s, e), NEW j \in DOMAIN Append(s, e),
             Append(s, e)[i] = Append(s, e)[j]
      PROVE  i = j
  <2>1. \A k \in DOMAIN s : s[k] # e
    BY <1>6 DEF ToSet
  <2> QED
    BY <1>1, <1>2, <1>6, <2>1
<1> QED
  BY <1>1, <1>4, <1>5, <1>6

\* What comes before an element.
LEMMA FirstPart ==
  ASSUME NEW S, NEW s \in Seq(S), NEW k \in DOMAIN s
  PROVE  /\ SubSeq(s, 1, k - 1) \in Seq(S)
         /\ Len(SubSeq(s, 1, k - 1)) = k - 1
         /\ \A i \in 1 .. k - 1 : SubSeq(s, 1, k - 1)[i] = s[i]
<1>1. SubSeq(s, 1, k - 1) \in Seq(S)
  OBVIOUS
<1>2. Len(SubSeq(s, 1, k - 1)) = k - 1
  OBVIOUS
<1>3. ASSUME NEW i \in 1 .. k - 1 PROVE SubSeq(s, 1, k - 1)[i] = s[i]
  OBVIOUS
<1> QED
  BY <1>1, <1>2, <1>3

\* What comes after it.
LEMMA LastPart ==
  ASSUME NEW S, NEW s \in Seq(S), NEW k \in DOMAIN s
  PROVE  /\ SubSeq(s, k + 1, Len(s)) \in Seq(S)
         /\ Len(SubSeq(s, k + 1, Len(s))) = Len(s) - k
         /\ \A i \in 1 .. Len(s) - k : SubSeq(s, k + 1, Len(s))[i] = s[k + i]
<1>1. SubSeq(s, k + 1, Len(s)) \in Seq(S)
  OBVIOUS
<1>2. Len(SubSeq(s, k + 1, Len(s))) = Len(s) - k
  OBVIOUS
<1>3. ASSUME NEW i \in 1 .. Len(s) - k PROVE SubSeq(s, k + 1, Len(s))[i] = s[k + i]
  OBVIOUS
<1> QED
  BY <1>1, <1>2, <1>3

\* One element is taken out of a queue without repetitions.
LEMMA TakeOut ==
  ASSUME NEW S, NEW s \in Seq(S), NEW k \in DOMAIN s,
         \A i, j \in DOMAIN s : s[i] = s[j] => i = j
  PROVE  /\ RemoveAt(s, k) \in Seq(S)
         /\ ToSet(RemoveAt(s, k)) = ToSet(s) \ {s[k]}
         /\ \A i, j \in DOMAIN RemoveAt(s, k) :
              RemoveAt(s, k)[i] = RemoveAt(s, k)[j] => i = j
<1> DEFINE a == SubSeq(s, 1, k - 1)
           b == SubSeq(s, k + 1, Len(s))
           r == RemoveAt(s, k)
<1>1. /\ Len(s) \in Nat /\ DOMAIN s = 1 .. Len(s) /\ k \in 1 .. Len(s)
  OBVIOUS
<1>2. /\ a \in Seq(S) /\ Len(a) = k - 1
      /\ b \in Seq(S) /\ Len(b) = Len(s) - k
      /\ \A i \in 1 .. k - 1 : a[i] = s[i]
      /\ \A i \in 1 .. Len(s) - k : b[i] = s[k + i]
  <2>1. /\ a \in Seq(S) /\ Len(a) = k - 1
        /\ \A i \in 1 .. k - 1 : a[i] = s[i]
    BY FirstPart, Zenon
  <2>2. /\ b \in Seq(S) /\ Len(b) = Len(s) - k
        /\ \A i \in 1 .. Len(s) - k : b[i] = s[k + i]
    BY LastPart, Zenon
  <2> QED
    BY <2>1, <2>2
<1>3. /\ r \in Seq(S) /\ Len(r) = Len(s) - 1 /\ DOMAIN r = 1 .. Len(s) - 1
      /\ \A i \in 1 .. k - 1 : r[i] = s[i]
      /\ \A i \in k .. Len(s) - 1 : r[i] = s[i + 1]
  <2>1. r = a \o b
    BY DEF RemoveAt
  <2> HIDE DEF a, b, r
  <2>2. a \in Seq(S) /\ b \in Seq(S)
    BY <1>2
  <2>3. /\ a \o b \in Seq(S) /\ Len(a \o b) = Len(a) + Len(b)
        /\ \A i \in 1 .. Len(a) + Len(b) :
             (a \o b)[i] = IF i <= Len(a) THEN a[i] ELSE b[i - Len(a)]
    BY <2>2, ConcatProperties
  <2>4. /\ r \in Seq(S) /\ Len(r) = Len(a) + Len(b)
        /\ \A i \in 1 .. Len(a) + Len(b) :
             r[i] = IF i <= Len(a) THEN a[i] ELSE b[i - Len(a)]
    BY <2>1, <2>3
  <2>5. ASSUME NEW i \in 1 .. k - 1 PROVE r[i] = s[i]
    BY <1>1, <1>2, <2>4
  <2>6. ASSUME NEW i \in k .. Len(s) - 1 PROVE r[i] = s[i + 1]
    <3>1. /\ i \in 1 .. Len(a) + Len(b) /\ ~(i <= Len(a))
          /\ i - Len(a) \in 1 .. Len(s) - k /\ k + (i - Len(a)) = i + 1
      BY <1>1, <1>2
    <3> QED
      BY <1>2, <2>4, <3>1
  <2> QED
    BY <1>1, <1>2, <2>4, <2>5, <2>6
<1> HIDE DEF r
<1>4. ASSUME NEW i \in DOMAIN r
      PROVE  \/ i < k /\ i \in DOMAIN s /\ r[i] = s[i]
             \/ i >= k /\ i + 1 \in DOMAIN s /\ r[i] = s[i + 1]
  BY <1>1, <1>3
<1>5. ASSUME NEW i \in DOMAIN s, i # k
      PROVE  \E j \in DOMAIN r : r[j] = s[i]
  <2>1. CASE i < k
    <3>1. i \in DOMAIN r /\ r[i] = s[i]
      BY <1>1, <1>3, <2>1
    <3> QED
      BY <3>1
  <2>2. CASE i > k
    <3>1. i - 1 \in k .. Len(s) - 1 /\ i - 1 \in DOMAIN r /\ (i - 1) + 1 = i
      BY <1>1, <1>3, <2>2
    <3>2. r[i - 1] = s[i]
      BY <1>3, <3>1
    <3> QED
      BY <3>1, <3>2
  <2> QED
    BY <1>1, <1>5, <2>1, <2>2
<1>6. \A x : x \in ToSet(r) <=> \E i \in DOMAIN r : r[i] = x
  BY DEF ToSet
<1>7. \A x : x \in ToSet(s) <=> \E i \in DOMAIN s : s[i] = x
  BY DEF ToSet
<1>8. ASSUME NEW x \in ToSet(r) PROVE x \in ToSet(s) /\ x # s[k]
  <2>1. PICK i \in DOMAIN r : r[i] = x
    BY <1>6
  <2>2. i < k \/ i + 1 > k
    BY <1>1, <1>3
  <2> QED
    BY <1>1, <1>3, <1>4, <1>7, <2>1
<1>9. ASSUME NEW x \in ToSet(s), x # s[k] PROVE x \in ToSet(r)
  BY <1>5, <1>6, <1>7, <1>9
<1>10. ASSUME NEW i \in DOMAIN r, NEW j \in DOMAIN r, r[i] = r[j]
       PROVE  i = j
  BY <1>1, <1>3, <1>4, <1>10
<1> QED
  BY <1>3, <1>8, <1>9, <1>10 DEF r

\* Two queues without repetitions and without a common element are joined.
LEMMA PutTogether ==
  ASSUME NEW S, NEW s \in Seq(S), NEW t \in Seq(S),
         \A i, j \in DOMAIN s : s[i] = s[j] => i = j,
         \A i, j \in DOMAIN t : t[i] = t[j] => i = j,
         ToSet(s) \cap ToSet(t) = {}
  PROVE  /\ s \o t \in Seq(S)
         /\ ToSet(s \o t) = ToSet(s) \cup ToSet(t)
         /\ \A i, j \in DOMAIN (s \o t) : (s \o t)[i] = (s \o t)[j] => i = j
<1> DEFINE r == s \o t
<1>1. /\ Len(s) \in Nat /\ DOMAIN s = 1 .. Len(s)
      /\ Len(t) \in Nat /\ DOMAIN t = 1 .. Len(t)
  OBVIOUS
<1>2. /\ r \in Seq(S) /\ Len(r) = Len(s) + Len(t)
      /\ \A i \in 1 .. Len(s) + Len(t) :
           r[i] = IF i <= Len(s) THEN s[i] ELSE t[i - Len(s)]
  BY ConcatProperties
<1>3. DOMAIN r = 1 .. Len(s) + Len(t)
  BY <1>2
<1> HIDE DEF r
<1>4. \A x : /\ x \in ToSet(r) <=> \E i \in DOMAIN r : r[i] = x
             /\ x \in ToSet(s) <=> \E i \in DOMAIN s : s[i] = x
             /\ x \in ToSet(t) <=> \E i \in DOMAIN t : t[i] = x
  BY DEF ToSet
<1>5. ASSUME NEW i \in DOMAIN r
      PROVE  \/ i \in DOMAIN s /\ r[i] = s[i]
             \/ i - Len(s) \in DOMAIN t /\ r[i] = t[i - Len(s)]
  BY <1>1, <1>2, <1>3
<1>6. \A i \in DOMAIN s : i \in DOMAIN r /\ r[i] = s[i]
  BY <1>1, <1>2, <1>3
<1>7. ASSUME NEW i \in DOMAIN t PROVE i + Len(s) \in DOMAIN r /\ r[i + Len(s)] = t[i]
  <2>1. i + Len(s) \in DOMAIN r /\ ~(i + Len(s) <= Len(s)) /\ (i + Len(s)) - Len(s) = i
    BY <1>1, <1>3
  <2> QED
    BY <1>2, <1>3, <2>1
<1>8. ToSet(r) = ToSet(s) \cup ToSet(t)
  <2>1. ToSet(r) \subseteq ToSet(s) \cup ToSet(t)
    BY <1>4, <1>5
  <2>2. ToSet(s) \cup ToSet(t) \subseteq ToSet(r)
    BY <1>4, <1>6, <1>7
  <2> QED
    BY <2>1, <2>2
<1>9. ASSUME NEW i \in DOMAIN r, NEW j \in DOMAIN r, r[i] = r[j] PROVE i = j
  <2>1. \A k \in DOMAIN s, l \in DOMAIN t : s[k] # t[l]
    BY <1>4
  <2>2. CASE i \in DOMAIN s /\ r[i] = s[i]
    BY <1>5, <1>9, <2>1, <2>2
  <2>3. CASE i - Len(s) \in DOMAIN t /\ r[i] = t[i - Len(s)]
    <3>1. j - Len(s) \in DOMAIN t /\ r[j] = t[j - Len(s)]
      BY <1>5, <1>9, <2>1, <2>3
    <3>2. i - Len(s) = j - Len(s)
      BY <1>9, <2>3, <3>1
    <3> QED
      BY <1>1, <1>3, <3>2
  <2> QED
    BY <1>5, <2>2, <2>3
<1> QED
  BY <1>2, <1>8, <1>9 DEF r

\* A queue without repetitions is turned round.
LEMMA Reversed ==
  ASSUME NEW S, NEW s \in Seq(S),
         \A i, j \in DOMAIN s : s[i] = s[j] => i = j
  PROVE  /\ Reverse(s) \in Seq(S)
         /\ ToSet(Reverse(s)) = ToSet(s)
         /\ \A i, j \in DOMAIN Reverse(s) :
              Reverse(s)[i] = Reverse(s)[j] => i = j
<1> DEFINE r == Reverse(s)
           M(i) == (Len(s) - i) + 1
<1>1. Len(s) \in Nat /\ DOMAIN s = 1 .. Len(s)
  OBVIOUS
<1>2. \A i \in DOMAIN s : M(i) \in DOMAIN s /\ M(M(i)) = i
  BY <1>1
<1>3. DOMAIN r = DOMAIN s /\ \A i \in DOMAIN s : r[i] = s[M(i)]
  BY <1>1 DEF Reverse
<1>4. r \in Seq(S)
  <2>1. r = [i \in 1 .. Len(s) |-> s[M(i)]]
    BY DEF Reverse
  <2>2. \A i \in 1 .. Len(s) : s[M(i)] \in S
    BY <1>1, <1>2
  <2> QED
    BY <1>1, <2>1, <2>2
<1>5. \A x : /\ x \in ToSet(r) <=> \E i \in DOMAIN r : r[i] = x
             /\ x \in ToSet(s) <=> \E i \in DOMAIN s : s[i] = x
  BY DEF ToSet
<1> HIDE DEF r
<1>6. ToSet(r) = ToSet(s)
  <2> HIDE DEF M
  <2>1. \A x : x \in ToSet(r) => x \in ToSet(s)
    BY <1>2, <1>3, <1>5
  <2>2. ASSUME NEW x \in ToSet(s) PROVE x \in ToSet(r)
    <3>1. PICK i \in DOMAIN s : s[i] = x
      BY <1>5
    <3>2. r[M(i)] = x /\ M(i) \in DOMAIN r
      BY <1>2, <1>3, <3>1
    <3> QED
      BY <1>5, <3>2
  <2> QED
    BY <2>1, <2>2
<1>7. ASSUME NEW i \in DOMAIN r, NEW j \in DOMAIN r, r[i] = r[j] PROVE i = j
  <2>1. M(i) = M(j)
    BY <1>2, <1>3, <1>7
  <2> QED
    BY <1>1, <1>3, <2>1
<1> QED
  BY <1>4, <1>6, <1>7 DEF r

\* A queue without repetitions is as long as it has elements.
LEMMA DistinctLength ==
  ASSUME NEW S, NEW s \in Seq(S),
         \A i, j \in DOMAIN s : s[i] = s[j] => i = j
  PROVE  IsFiniteSet(ToSet(s)) /\ Cardinality(ToSet(s)) = Len(s)
<1> DEFINE D == DOMAIN s
           T == ToSet(s)
<1>1. Len(s) \in Nat /\ D = 1 .. Len(s)
  OBVIOUS
<1>2. IsFiniteSet(D) /\ Cardinality(D) = Len(s)
  <2>1. /\ IsFiniteSet(1 .. Len(s))
        /\ Cardinality(1 .. Len(s)) = IF 1 > Len(s) THEN 0 ELSE Len(s) - 1 + 1
    <3>1. 1 \in Int /\ Len(s) \in Int
      BY <1>1
    <3> QED
      BY <3>1, FS_Interval, Zenon
  <2> QED
    BY <1>1, <2>1
<1>3. s \in Bijection(D, T)
  <2>1. s \in [D -> T] /\ \A x \in T : \E i \in D : s[i] = x
    BY <1>1 DEF ToSet
  <2> QED
    BY <2>1 DEF Bijection, Injection, Surjection, IsInjective
<1>4. ExistsBijection(D, T)
  BY <1>3 DEF ExistsBijection
<1> HIDE DEF D, T
<1>5. IsFiniteSet(T) /\ Cardinality(T) = Cardinality(D)
  BY <1>2, <1>4, FS_Bijection
<1> QED
  BY <1>2, <1>5 DEF T

\* A queue without repetitions is no longer than what it draws from.
LEMMA Pigeons ==
  ASSUME NEW n \in Nat \ {0}, NEW s \in Seq(1 .. n), NEW e \in 1 .. n,
         e \notin ToSet(s), \A i, j \in DOMAIN s : s[i] = s[j] => i = j
  PROVE  Len(s) < n
<1> DEFINE T == (1 .. n) \ {e}
           D == DOMAIN s
<1>1. \A k \in Nat : IsFiniteSet(1 .. k) /\ Cardinality(1 .. k) = k
  BY FS_Interval
<1>2. IsFiniteSet(T) /\ Cardinality(T) = n - 1
  BY <1>1, FS_RemoveElement
<1>3. Len(s) \in Nat /\ D = 1 .. Len(s)
  OBVIOUS
<1>4. IsFiniteSet(D) /\ Cardinality(D) = Len(s)
  BY <1>1, <1>3
<1>5. s \in Injection(D, T)
  <2>1. s \in [D -> T]
    BY DEF ToSet
  <2> QED
    BY <2>1 DEF Injection, IsInjective
<1> HIDE DEF T, D
<1>6. Cardinality(D) <= Cardinality(T)
  BY <1>2, <1>5, FS_Injection
<1> QED
  BY <1>2, <1>3, <1>4, <1>6
=============================================================================
