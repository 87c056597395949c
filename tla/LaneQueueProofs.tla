-------------------------- MODULE LaneQueueProofs --------------------------
(* What the queue operators of a lane do, for queues of any length over any *)
(* set of natural numbers: they keep the order and change one entry.        *)
EXTENDS LaneQueue, FiniteSetTheorems, SequenceTheorems, WellFoundedInduction, TLAPS

\* A set of natural numbers that is not empty has a least member.
LEMMA Least ==
    ASSUME NEW T \in SUBSET Nat, T # {}
    PROVE  \E k \in T : \A m \in T : k <= m
  <1> DEFINE Below == {ss \in Nat \X Nat : ss[1] < ss[2]}
  <1>1. IsWellFoundedOn(Below, Nat)
    BY NatLessThanWellFounded, Zenon DEF OpToRel
  <1>2. PICK k \in T : \A m \in T : ~(<<m, k>> \in Below)
    <2> HIDE DEF Below
    <2> QED  BY <1>1, WFMin, Zenon
  <1>3. ASSUME NEW m \in T PROVE k <= m
    <2>1. m \in Nat /\ k \in Nat /\ <<m, k>> \in Nat \X Nat /\ <<m, k>> \notin Below
      BY <1>2
    <2>2. ~(<<m, k>>[1] < <<m, k>>[2])
      BY <2>1
    <2> QED  BY <2>1, <2>2
  <1> QED  BY <1>3

\* The search of join finds its place: what is before it is below n, what is there is not.
LEMMA PlaceFound ==
    ASSUME NEW S \in SUBSET Nat, NEW q \in Seq(S), NEW n \in S
    PROVE  /\ Place(q, n) \in 1 .. (Len(q) + 1)
           /\ \A i \in 1 .. (Place(q, n) - 1) : q[i] < n
           /\ Place(q, n) <= Len(q) => q[Place(q, n)] >= n
  <1> DEFINE T == {k \in 1 .. Len(q) : q[k] >= n}
             first == {k \in 1 .. Len(q) : q[k] >= n /\ \A i \in 1 .. (k - 1) : q[i] < n}
  <1>1. n \in Nat /\ Len(q) \in Nat /\ \A i \in 1 .. Len(q) : q[i] \in Nat
    BY ElementOfSeq, LenProperties, Zenon
  <1>2. Place(q, n) = IF first = {} THEN Len(q) + 1 ELSE CHOOSE k \in first : TRUE
    BY DEF Place
  <1>3. CASE T = {}
    <2>1. first = {} /\ \A i \in 1 .. Len(q) : q[i] < n
      BY <1>1, <1>3
    <2>2. Place(q, n) = Len(q) + 1
      BY <1>2, <2>1
    <2> QED  BY <1>1, <2>1, <2>2
  <1>4. CASE T # {}
    <2>1. T \in SUBSET Nat
      BY <1>1
    <2>2. PICK k \in T : \A m \in T : k <= m
      <3> HIDE DEF T
      <3> QED  BY <1>4, <2>1, Least
    <2>3. \A i \in 1 .. (k - 1) : q[i] < n
      BY <1>1, <2>2
    <2>4. first # {}
      BY <2>2, <2>3
    <2>5. Place(q, n) \in first
      <3> HIDE DEF first
      <3> QED  BY <1>2, <2>4
    <2> QED  BY <1>1, <2>5
  <1> QED  BY <1>3, <1>4

\* Membership in a queue, by index.
LEMMA InQueue ==
    ASSUME NEW S \in SUBSET Nat, NEW q \in Seq(S)
    PROVE  /\ Len(q) \in Nat
           /\ \A i \in 1 .. Len(q) : q[i] \in S /\ q[i] \in Nat /\ q[i] \in Range(q)
           /\ \A m : m \in Range(q) <=> \E i \in 1 .. Len(q) : q[i] = m
           /\ Range(q) \subseteq S /\ Range(q) \subseteq Nat
  <1>1. Len(q) \in Nat /\ \A i \in 1 .. Len(q) : q[i] \in S
    BY ElementOfSeq, LenProperties
  <1>2. Range(q) = {q[i] : i \in 1 .. Len(q)}
    BY RangeEquality
  <1> QED  BY <1>1, <1>2, Zenon

\* A part of a queue, by index.
LEMMA PartOf ==
    ASSUME NEW S \in SUBSET Nat, NEW q \in Seq(S), NEW a \in Nat \ {0}, NEW b \in Nat, b <= Len(q), a <= b + 1
    PROVE  /\ SubSeq(q, a, b) \in Seq(S)
           /\ Len(SubSeq(q, a, b)) = b - a + 1
           /\ \A i \in 1 .. (b - a + 1) : SubSeq(q, a, b)[i] = q[a + i - 1]
  <1>1. \A i \in a .. b : q[i] \in S
    BY InQueue
  <1>2. Len(SubSeq(q, a, b)) = IF a <= b THEN b - a + 1 ELSE 0
    BY <1>1, SubSeqProperties
  <1> QED  BY <1>1, <1>2, SubSeqProperties

\* Two parts of queues joined, by index.
LEMMA Joined ==
    ASSUME NEW S \in SUBSET Nat, NEW q \in Seq(S), NEW r \in Seq(S)
    PROVE  /\ q \o r \in Seq(S)
           /\ Len(q \o r) = Len(q) + Len(r)
           /\ \A i \in 1 .. (Len(q) + Len(r)) :
                 (q \o r)[i] = IF i <= Len(q) THEN q[i] ELSE r[i - Len(q)]
  BY ConcatProperties

\* Putting an arrival in its place keeps the order, and adds that arrival alone.
LEMMA InsertKeepsOrder ==
    ASSUME NEW S \in SUBSET Nat, NEW q \in Seq(S), NEW n \in S, n \notin Range(q), Ascending(q)
    PROVE  /\ Insert(q, n) \in Seq(S)
           /\ Len(Insert(q, n)) = Len(q) + 1
           /\ Ascending(Insert(q, n))
           /\ \A m : m \in Range(Insert(q, n)) <=> m = n \/ m \in Range(q)
  <1> DEFINE p == Place(q, n)
             a == SubSeq(q, 1, p - 1)
             b == SubSeq(q, p, Len(q))
             c == a \o <<n>>
  <1>1. /\ Len(q) \in Nat /\ n \in Nat
        /\ \A i \in 1 .. Len(q) : q[i] \in S /\ q[i] \in Nat /\ q[i] \in Range(q)
    BY InQueue
  <1>2. /\ p \in 1 .. (Len(q) + 1)
        /\ \A i \in 1 .. (p - 1) : q[i] < n
        /\ p <= Len(q) => q[p] > n
    BY <1>1, PlaceFound
  <1>3. \A i \in 1 .. Len(q) : i >= p => q[i] > n
    BY <1>1, <1>2 DEF Ascending
  <1> HIDE DEF p
  <1>4. /\ a \in Seq(S) /\ Len(a) = p - 1
        /\ \A i \in 1 .. (p - 1) : a[i] = q[i]
    <2>1. \A i \in 1 .. (p - 1) : a[i] = q[1 + i - 1]
      BY <1>1, <1>2, PartOf
    <2> QED  BY <1>1, <1>2, <2>1, PartOf
  <1>5. /\ b \in Seq(S) /\ Len(b) = Len(q) - p + 1
        /\ \A i \in 1 .. (Len(q) - p + 1) : b[i] = q[p + i - 1]
    BY <1>1, <1>2, PartOf
  <1> HIDE DEF a, b
  <1>6. /\ c \in Seq(S) /\ Len(c) = p
        /\ \A i \in 1 .. (p - 1) : c[i] = q[i]
        /\ c[p] = n
    <2>1. <<n>> \in Seq(S) /\ Len(<<n>>) = 1 /\ <<n>>[1] = n
      OBVIOUS
    <2>2. /\ c \in Seq(S)
          /\ Len(c) = Len(a) + 1
          /\ \A i \in 1 .. (Len(a) + 1) : c[i] = IF i <= Len(a) THEN a[i] ELSE <<n>>[i - Len(a)]
      BY <2>1, <1>4, Joined, Zenon
    <2> QED  BY <1>2, <1>4, <2>1, <2>2
  <1> HIDE DEF c
  <1> DEFINE r == c \o b
  <1>7. Insert(q, n) = r
    BY Zenon DEF Insert, a, b, c, p
  <1>8. /\ r \in Seq(S)
        /\ Len(r) = Len(q) + 1
        /\ \A i \in 1 .. (Len(q) + 1) :
              r[i] = IF i < p THEN q[i] ELSE IF i = p THEN n ELSE q[i - 1]
    <2>1. /\ r \in Seq(S)
          /\ Len(r) = Len(c) + Len(b)
          /\ \A i \in 1 .. (Len(c) + Len(b)) : r[i] = IF i <= Len(c) THEN c[i] ELSE b[i - Len(c)]
      BY <1>5, <1>6, Joined, Zenon
    <2>2. \A i \in (p + 1) .. (Len(q) + 1) : b[i - p] = q[i - 1]
      BY <1>1, <1>2, <1>5
    <2> HIDE DEF r
    <2>3. Len(r) = Len(q) + 1
      BY <1>1, <1>2, <1>5, <1>6, <2>1
    <2>4. ASSUME NEW i \in 1 .. (Len(q) + 1)
          PROVE  r[i] = IF i < p THEN q[i] ELSE IF i = p THEN n ELSE q[i - 1]
      <3>1. r[i] = IF i <= p THEN c[i] ELSE b[i - p]
        BY <1>1, <1>2, <1>5, <1>6, <2>1
      <3> QED  BY <1>1, <1>2, <1>6, <2>2, <3>1
    <2> QED  BY <2>1, <2>3, <2>4
  <1> HIDE DEF r
  <1>9. Ascending(r)
    <2> SUFFICES ASSUME NEW i \in 1 .. Len(r), NEW k \in 1 .. Len(r), i < k PROVE r[i] < r[k]
      BY DEF Ascending
    <2>1. i \in 1 .. (Len(q) + 1) /\ k \in 1 .. (Len(q) + 1)
      BY <1>8
    <2>2. CASE k < p  BY <1>1, <1>2, <1>8, <2>1, <2>2 DEF Ascending
    <2>3. CASE k = p
      <3>1. i \in 1 .. (p - 1) /\ r[i] = q[i] /\ r[k] = n
        BY <1>1, <1>2, <1>8, <2>1, <2>3
      <3> QED  BY <1>2, <3>1
    <2>4. CASE k > p
      <3>1. r[k] = q[k - 1] /\ k - 1 \in 1 .. Len(q) /\ r[k] > n
        BY <1>1, <1>2, <1>3, <1>8, <2>1, <2>4
      <3>2. CASE i < p
        <4>1. r[i] = q[i] /\ q[i] < n /\ i \in 1 .. Len(q)
          BY <1>1, <1>2, <1>8, <2>1, <3>2
        <4> QED  BY <1>1, <3>1, <4>1
      <3>3. CASE i = p  BY <1>1, <1>2, <1>8, <2>1, <3>1, <3>3
      <3>4. CASE i > p
        <4>1. r[i] = q[i - 1] /\ i - 1 \in 1 .. Len(q) /\ i - 1 < k - 1
          BY <1>1, <1>2, <1>8, <2>1, <3>4
        <4> QED  BY <3>1, <4>1 DEF Ascending
      <3> QED  BY <1>2, <3>2, <3>3, <3>4
    <2> QED  BY <1>1, <1>2, <2>2, <2>3, <2>4
  <1>10. \A m : m \in Range(r) <=> m = n \/ m \in Range(q)
    <2> SUFFICES ASSUME NEW m PROVE m \in Range(r) <=> m = n \/ m \in Range(q)
      OBVIOUS
    <2>1. m \in Range(r) <=> \E i \in 1 .. (Len(q) + 1) : r[i] = m
      BY <1>8, InQueue
    <2>2. m \in Range(q) <=> \E i \in 1 .. Len(q) : q[i] = m
      BY InQueue
    <2>3. ASSUME NEW i \in 1 .. (Len(q) + 1), r[i] = m PROVE m = n \/ m \in Range(q)
      <3>1. CASE i < p  BY <1>1, <1>2, <1>8, <2>3, <3>1
      <3>2. CASE i = p  BY <1>8, <2>3, <3>2
      <3>3. CASE i > p
        <4>1. i - 1 \in 1 .. Len(q) /\ r[i] = q[i - 1]
          BY <1>1, <1>2, <1>8, <2>3, <3>3
        <4> QED  BY <1>1, <2>3, <4>1
      <3> QED  BY <1>2, <3>1, <3>2, <3>3
    <2>4. m = n => r[p] = m /\ p \in 1 .. (Len(q) + 1)
      BY <1>2, <1>8
    <2>5. ASSUME NEW i \in 1 .. Len(q), q[i] = m
          PROVE  \E k \in 1 .. (Len(q) + 1) : r[k] = m
      <3>1. CASE i < p
        <4>1. i \in 1 .. (Len(q) + 1) /\ r[i] = m
          BY <1>1, <1>2, <1>8, <2>5, <3>1
        <4> QED  BY <4>1
      <3>2. CASE i >= p
        <4>1. i + 1 \in 1 .. (Len(q) + 1) /\ r[i + 1] = m
          BY <1>1, <1>2, <1>8, <2>5, <3>2
        <4> QED  BY <4>1
      <3> QED  BY <1>2, <3>1, <3>2
    <2> QED  BY <2>1, <2>2, <2>3, <2>4, <2>5
  <1> QED  BY <1>7, <1>8, <1>9, <1>10

\* Taking a settled arrival out keeps the order, and removes that arrival alone.
LEMMA WithoutKeepsOrder ==
    ASSUME NEW S \in SUBSET Nat, NEW q \in Seq(S), NEW n \in Range(q), Ascending(q)
    PROVE  /\ Without(q, n) \in Seq(S)
           /\ Len(Without(q, n)) = Len(q) - 1
           /\ Ascending(Without(q, n))
           /\ \A m : m \in Range(Without(q, n)) <=> m # n /\ m \in Range(q)
  <1> DEFINE p == CHOOSE i \in 1 .. Len(q) : q[i] = n
             a == SubSeq(q, 1, p - 1)
             b == SubSeq(q, p + 1, Len(q))
  <1>1. /\ Len(q) \in Nat
        /\ \A i \in 1 .. Len(q) : q[i] \in S /\ q[i] \in Nat /\ q[i] \in Range(q)
        /\ \E i \in 1 .. Len(q) : q[i] = n
    BY InQueue
  <1>2. p \in 1 .. Len(q) /\ q[p] = n
    BY <1>1
  <1>3. Without(q, n) = a \o b
    BY <1>1, Zenon DEF Without
  <1> HIDE DEF p
  <1>4. /\ a \in Seq(S) /\ Len(a) = p - 1
        /\ \A i \in 1 .. (p - 1) : a[i] = q[i]
    <2>1. \A i \in 1 .. (p - 1) : a[i] = q[1 + i - 1]
      BY <1>1, <1>2, PartOf
    <2> QED  BY <1>1, <1>2, <2>1, PartOf
  <1>5. /\ b \in Seq(S) /\ Len(b) = Len(q) - p
        /\ \A i \in 1 .. (Len(q) - p) : b[i] = q[p + i]
    <2>1. /\ b \in Seq(S) /\ Len(b) = Len(q) - (p + 1) + 1
          /\ \A i \in 1 .. (Len(q) - (p + 1) + 1) : b[i] = q[(p + 1) + i - 1]
      BY <1>1, <1>2, PartOf
    <2> QED  BY <1>1, <1>2, <2>1
  <1> HIDE DEF a, b
  <1> DEFINE r == a \o b
  <1>6. /\ r \in Seq(S)
        /\ Len(r) = Len(q) - 1
        /\ \A i \in 1 .. (Len(q) - 1) : r[i] = IF i < p THEN q[i] ELSE q[i + 1]
    <2>1. /\ r \in Seq(S)
          /\ Len(r) = Len(a) + Len(b)
          /\ \A i \in 1 .. (Len(a) + Len(b)) : r[i] = IF i <= Len(a) THEN a[i] ELSE b[i - Len(a)]
      BY <1>4, <1>5, Joined, Zenon
    <2>2. ASSUME NEW i \in p .. (Len(q) - 1) PROVE b[i - (p - 1)] = q[i + 1]
      <3>1. i - (p - 1) \in 1 .. (Len(q) - p) /\ p + (i - (p - 1)) = i + 1
        BY <1>1, <1>2
      <3> QED  BY <1>5, <3>1
    <2> HIDE DEF r
    <2>3. Len(r) = Len(q) - 1
      BY <1>1, <1>2, <1>4, <1>5, <2>1
    <2>4. ASSUME NEW i \in 1 .. (Len(q) - 1)
          PROVE  r[i] = IF i < p THEN q[i] ELSE q[i + 1]
      <3>1. r[i] = IF i <= Len(a) THEN a[i] ELSE b[i - Len(a)]
        BY <1>1, <1>2, <1>4, <1>5, <2>1
      <3>2. (i <= Len(a) <=> i < p) /\ Len(a) = p - 1
        BY <1>1, <1>2, <1>4
      <3>3. r[i] = IF i < p THEN a[i] ELSE b[i - (p - 1)]
        BY <3>1, <3>2
      <3> QED  BY <1>1, <1>2, <1>4, <2>2, <3>3
    <2> QED  BY <2>1, <2>3, <2>4
  <1> HIDE DEF r
  <1>7. Ascending(r)
    <2> SUFFICES ASSUME NEW i \in 1 .. Len(r), NEW k \in 1 .. Len(r), i < k PROVE r[i] < r[k]
      BY DEF Ascending
    <2>1. i \in 1 .. (Len(q) - 1) /\ k \in 1 .. (Len(q) - 1)
      BY <1>6
    <2>2. \A h \in 1 .. (Len(q) - 1) : h \in 1 .. Len(q) /\ h + 1 \in 1 .. Len(q)
      BY <1>1
    <2>3. CASE k < p
      <3>1. r[i] = q[i] /\ r[k] = q[k]
        BY <1>2, <1>6, <2>1, <2>3
      <3> QED  BY <2>1, <2>2, <3>1 DEF Ascending
    <2>4. CASE ~(k < p)
      <3>1. r[k] = q[k + 1]
        BY <1>6, <2>1, <2>4
      <3>2. i < k + 1 /\ i + 1 < k + 1
        BY <1>1, <2>1
      <3>3. CASE i < p
        <4>1. r[i] = q[i]
          BY <1>6, <2>1, <3>3
        <4> QED  BY <2>1, <2>2, <3>1, <3>2, <4>1 DEF Ascending
      <3>4. CASE ~(i < p)
        <4>1. r[i] = q[i + 1]
          BY <1>6, <2>1, <3>4
        <4> QED  BY <2>1, <2>2, <3>1, <3>2, <4>1 DEF Ascending
      <3> QED  BY <3>3, <3>4
    <2> QED  BY <2>3, <2>4
  <1>8. \A m : m \in Range(r) <=> m # n /\ m \in Range(q)
    <2> SUFFICES ASSUME NEW m PROVE m \in Range(r) <=> m # n /\ m \in Range(q)
      OBVIOUS
    <2>1. m \in Range(r) <=> \E i \in 1 .. (Len(q) - 1) : r[i] = m
      BY <1>6, InQueue
    <2>2. m \in Range(q) <=> \E i \in 1 .. Len(q) : q[i] = m
      BY InQueue
    <2>3. ASSUME NEW i \in 1 .. (Len(q) - 1), r[i] = m PROVE m # n /\ m \in Range(q)
      <3>1. CASE i < p
        <4>1. i \in 1 .. Len(q) /\ q[i] = m /\ q[i] < q[p]
          BY <1>1, <1>2, <1>6, <2>3, <3>1 DEF Ascending
        <4> QED  BY <1>1, <1>2, <4>1
      <3>2. CASE i >= p
        <4>1. i + 1 \in 1 .. Len(q) /\ q[i + 1] = m /\ q[p] < q[i + 1]
          BY <1>1, <1>2, <1>6, <2>3, <3>2 DEF Ascending
        <4> QED  BY <1>1, <1>2, <4>1
      <3> QED  BY <1>2, <3>1, <3>2
    <2>4. ASSUME NEW i \in 1 .. Len(q), q[i] = m, m # n
          PROVE  \E k \in 1 .. (Len(q) - 1) : r[k] = m
      <3>1. CASE i < p
        <4>1. i \in 1 .. (Len(q) - 1) /\ r[i] = m
          BY <1>1, <1>2, <1>6, <2>4, <3>1
        <4> QED  BY <4>1
      <3>2. CASE i > p
        <4>1. i - 1 \in 1 .. (Len(q) - 1) /\ ~(i - 1 < p) /\ (i - 1) + 1 = i
          BY <1>1, <1>2, <3>2
        <4>2. r[i - 1] = m
          BY <1>6, <2>4, <4>1
        <4> QED  BY <4>1, <4>2
      <3> QED  BY <1>2, <2>4, <3>1, <3>2
    <2> QED  BY <2>1, <2>2, <2>3, <2>4
  <1>9. Without(q, n) = r
    BY <1>3 DEF r
  <1> QED  BY <1>6, <1>7, <1>8, <1>9

\* Evicting the last arrival keeps the order, and removes that arrival alone.
LEMMA FrontKeepsOrder ==
    ASSUME NEW S \in SUBSET Nat, NEW q \in Seq(S), q # << >>, Ascending(q)
    PROVE  /\ Front(q) \in Seq(S)
           /\ Len(Front(q)) = Len(q) - 1
           /\ Ascending(Front(q))
           /\ q[Len(q)] \in Range(q)
           /\ \A m : m \in Range(Front(q)) <=> m # q[Len(q)] /\ m \in Range(q)
  <1>1. /\ Len(q) \in Nat \ {0}
        /\ \A i \in 1 .. Len(q) : q[i] \in S /\ q[i] \in Nat /\ q[i] \in Range(q)
    BY InQueue, EmptySeq
  <1> DEFINE r == Front(q)
  <1>2. /\ r \in Seq(S) /\ Len(r) = Len(q) - 1
        /\ \A i \in 1 .. (Len(q) - 1) : r[i] = q[i]
    <2> DEFINE m == Len(q) - 1
    <2>1. r = SubSeq(q, 1, m) /\ m \in Nat /\ m <= Len(q) /\ 1 <= m + 1
      BY <1>1 DEF Front
    <2> HIDE DEF r, m
    <2>2. /\ SubSeq(q, 1, m) \in Seq(S) /\ Len(SubSeq(q, 1, m)) = m - 1 + 1
          /\ \A i \in 1 .. (m - 1 + 1) : SubSeq(q, 1, m)[i] = q[1 + i - 1]
      BY <2>1, PartOf
    <2>3. r \in Seq(S) /\ Len(r) = m /\ \A i \in 1 .. m : r[i] = q[i]
      BY <2>1, <2>2
    <2> QED  BY <2>3 DEF m
  <1>3. q[Len(q)] \in Range(q)
    BY <1>1
  <1> HIDE DEF r
  <1>4. Ascending(r)
    <2> SUFFICES ASSUME NEW i \in 1 .. Len(r), NEW k \in 1 .. Len(r), i < k PROVE r[i] < r[k]
      BY DEF Ascending
    <2>1. i \in 1 .. Len(q) /\ k \in 1 .. Len(q) /\ r[i] = q[i] /\ r[k] = q[k]
      BY <1>1, <1>2
    <2> QED  BY <2>1 DEF Ascending
  <1>5. \A m : m \in Range(r) <=> m # q[Len(q)] /\ m \in Range(q)
    <2> SUFFICES ASSUME NEW m PROVE m \in Range(r) <=> m # q[Len(q)] /\ m \in Range(q)
      OBVIOUS
    <2>1. m \in Range(r) <=> \E i \in 1 .. (Len(q) - 1) : r[i] = m
      BY <1>2, InQueue
    <2>2. m \in Range(q) <=> \E i \in 1 .. Len(q) : q[i] = m
      BY InQueue
    <2>3. \A i \in 1 .. (Len(q) - 1) : q[i] # q[Len(q)]
      BY <1>1 DEF Ascending
    <2>4. (\E i \in 1 .. (Len(q) - 1) : r[i] = m) <=> (\E i \in 1 .. (Len(q) - 1) : q[i] = m)
      BY <1>2
    <2>5. (\E i \in 1 .. (Len(q) - 1) : q[i] = m) => m # q[Len(q)] /\ m \in Range(q)
      BY <1>1, <2>3
    <2>6. m # q[Len(q)] /\ m \in Range(q) => \E i \in 1 .. (Len(q) - 1) : q[i] = m
      BY <1>1, <2>2
    <2> QED  BY <2>1, <2>4, <2>5, <2>6
  <1> QED  BY <1>2, <1>3, <1>4, <1>5 DEF r

\* A queue in order has as many members as entries.
LEMMA CountOf ==
    ASSUME NEW S \in SUBSET Nat, NEW q \in Seq(S), Ascending(q), NEW s
    PROVE  IsFiniteSet({s} \X Range(q)) /\ Cardinality({s} \X Range(q)) = Len(q)
  <1> DEFINE T == {s} \X Range(q)
             f == [i \in 1 .. Len(q) |-> <<s, q[i]>>]
  <1>1. /\ Len(q) \in Nat
        /\ \A i \in 1 .. Len(q) : q[i] \in Nat /\ q[i] \in Range(q)
        /\ \A m : m \in Range(q) => \E i \in 1 .. Len(q) : q[i] = m
    BY InQueue
  <1>2. f \in [1 .. Len(q) -> T]
    BY <1>1
  <1>3. \A i, k \in 1 .. Len(q) : f[i] = f[k] => i = k
    BY <1>1 DEF Ascending
  <1>4. \A x \in T : \E i \in 1 .. Len(q) : f[i] = x
    BY <1>1
  <1>5. f \in Bijection(1 .. Len(q), T)
    BY <1>2, <1>3, <1>4, Zenon DEF Bijection, Injection, Surjection, IsInjective
  <1>6. ExistsBijection(1 .. Len(q), T)
    BY <1>5, Zenon DEF ExistsBijection
  <1> QED  BY <1>1, <1>6, FS_CountingElements, FS_NatBijection
=============================================================================
