--------------------------- MODULE DiskQueueProofs ---------------------------
(***************************************************************************)
(* Proofs about DiskQueue: its types, that the operations, step by step    *)
(* and cut short anywhere, do to the directory what OfflineQueue says they *)
(* do to the queue, and that the queue is first in, first out.             *)
(***************************************************************************)
EXTENDS DiskQueue, OfflineQueueProofs

-----------------------------------------------------------------------------
(* The decimal form of a number.                                            *)

\* The digits of n, if f has those of n \div 10.
DigitsBy(f, n) == IF n < 10 THEN <<n>> ELSE Append(f[n \div 10], n % 10)

\* Dividing by ten.
LEMMA Tens ==
  ASSUME NEW n \in Nat
  PROVE  /\ n \div 10 \in Nat /\ n % 10 \in 0 .. 9
         /\ n = 10 * (n \div 10) + (n % 10)
         /\ ~(n < 10) => n \div 10 < n /\ n \div 10 >= 1
<1> DEFINE q == n \div 10
           r == n % 10
<1>1. q \in Nat /\ r \in 0 .. 9
  OBVIOUS
<1>2. n = 10 * q + r
  BY Z3
<1> HIDE DEF q, r
<1>3. ~(n < 10) => q < n /\ q >= 1
  BY <1>1, <1>2
<1> QED BY <1>1, <1>2, <1>3 DEF q, r

\* f has the digits of the numbers up to n.
Upto(f, n) == \A k \in 0 .. n : f[k] = DigitsBy(f, k)

LEMMA UptoExists == \A n \in Nat : \E f : Upto(f, n)
<1> DEFINE T == {n \in Nat : \E f : Upto(f, n)}
<1>1. 0 \in T
  <2> DEFINE f == [k \in Nat |-> <<k>>]
  <2>1. Upto(f, 0)
    BY DEF Upto, DigitsBy
  <2> QED BY <2>1
<1>2. ASSUME NEW n \in Nat, n \in T PROVE n + 1 \in T
  <2>1. PICK f : Upto(f, n)
    BY <1>2
  <2> DEFINE g == [k \in Nat |-> DigitsBy(f, k)]
  <2>2. ASSUME NEW k \in 0 .. n + 1 PROVE g[k] = DigitsBy(g, k)
    <3>1. CASE k < 10
      BY <3>1 DEF DigitsBy
    <3>2. CASE ~(k < 10)
      <4>1. k \div 10 \in 0 .. n
        BY <3>2, Tens
      <4>2. f[k \div 10] = DigitsBy(f, k \div 10)
        BY <2>1, <4>1 DEF Upto
      <4>3. g[k \div 10] = DigitsBy(f, k \div 10) /\ g[k] = DigitsBy(f, k)
        BY <4>1
      <4> HIDE DEF g
      <4>4. f[k \div 10] = g[k \div 10]
        BY <4>2, <4>3
      <4> QED BY <3>2, <4>3, <4>4 DEF DigitsBy
    <3> QED BY <3>1, <3>2
  <2>3. Upto(g, n + 1)
    BY <2>2 DEF Upto
  <2> HIDE DEF g
  <2> QED BY <2>3
<1>3. \A n \in Nat : n \in T
  <2> HIDE DEF T
  <2> QED BY <1>1, <1>2, SetInduction
<1> QED BY <1>3

LEMMA UptoAgree ==
  ASSUME NEW f, NEW g, NEW n \in Nat, Upto(f, n), Upto(g, n)
  PROVE  f[n] = g[n]
<1> DEFINE T == {k \in Nat : \A j \in 0 .. k : j <= n => f[j] = g[j]}
<1>1. 0 \in T
  <2>1. 0 \in 0 .. n
    OBVIOUS
  <2>2. f[0] = DigitsBy(f, 0) /\ g[0] = DigitsBy(g, 0)
    BY <2>1 DEF Upto
  <2>3. f[0] = g[0]
    BY <2>2 DEF DigitsBy
  <2> QED BY <2>3
<1>2. ASSUME NEW k \in Nat, k \in T PROVE k + 1 \in T
  <2> SUFFICES ASSUME NEW j \in 0 .. k + 1, j <= n PROVE f[j] = g[j]
    OBVIOUS
  <2>1. f[j] = DigitsBy(f, j) /\ g[j] = DigitsBy(g, j)
    BY DEF Upto
  <2>2. CASE j < 10
    BY <2>1, <2>2 DEF DigitsBy
  <2>3. CASE ~(j < 10)
    <3>1. j \div 10 \in 0 .. k /\ j \div 10 <= n
      BY <2>3, Tens
    <3>2. f[j \div 10] = g[j \div 10]
      BY <1>2, <3>1
    <3> QED BY <2>1, <2>3, <3>2 DEF DigitsBy
  <2> QED BY <2>2, <2>3
<1>3. \A k \in Nat : k \in T
  <2> HIDE DEF T
  <2> QED BY <1>1, <1>2, SetInduction
<1> QED BY <1>3

\* The recursion that defines Digits has a solution.
LEMMA DigitsDefined ==
  \A n \in Nat : /\ n < 10 => Digits[n] = <<n>>
                 /\ ~(n < 10) => Digits[n] = Append(Digits[n \div 10], n % 10)
<1> DEFINE f == [n \in Nat |-> (CHOOSE g : Upto(g, n))[n]]
<1>1. \A n \in Nat : Upto(CHOOSE g : Upto(g, n), n)
  BY UptoExists, Zenon
<1>2. ASSUME NEW n \in Nat PROVE f[n] = DigitsBy(f, n)
  <2> DEFINE g == CHOOSE g : Upto(g, n)
  <2>1. f[n] = g[n] /\ Upto(g, n)
    BY <1>1
  <2> HIDE DEF g, f
  <2>2. g[n] = DigitsBy(g, n)
    BY <2>1 DEF Upto
  <2>3. CASE n < 10
    BY <2>1, <2>2, <2>3 DEF DigitsBy
  <2>4. CASE ~(n < 10)
    <3> DEFINE m == n \div 10
               h == CHOOSE h : Upto(h, m)
    <3>1. m \in Nat /\ m < n
      BY <2>4, Tens
    <3> HIDE DEF m
    <3>2. f[m] = h[m] /\ Upto(h, m)
      BY <1>1, <3>1 DEF f
    <3> HIDE DEF h
    <3>3. Upto(g, m)
      BY <2>1, <3>1 DEF Upto
    <3>4. g[m] = h[m]
      BY <3>1, <3>2, <3>3, UptoAgree
    <3> QED BY <2>1, <2>2, <2>4, <3>2, <3>4 DEF DigitsBy, m
  <2> QED BY <2>3, <2>4
<1>3. \E h : h = [n \in Nat |-> IF n < 10 THEN <<n>> ELSE Append(h[n \div 10], n % 10)]
  <2>1. f = [n \in Nat |-> DigitsBy(f, n)]
    BY <1>2
  <2> HIDE DEF f
  <2> QED BY <2>1 DEF DigitsBy
<1>4. Digits = [n \in Nat |-> IF n < 10 THEN <<n>> ELSE Append(Digits[n \div 10], n % 10)]
  BY <1>3, Zenon DEF Digits
<1> HIDE DEF Digits
<1> QED BY <1>4

\* Digits are digits, and there is at least one.
LEMMA DigitsType ==
  \A n \in Nat : /\ Digits[n] \in Seq(Nat) /\ Len(Digits[n]) \in Nat
                 /\ Len(Digits[n]) >= 1
                 /\ ~(n < 10) => Len(Digits[n]) = Len(Digits[n \div 10]) + 1
<1> DEFINE Good(n) == Digits[n] \in Seq(Nat) /\ Len(Digits[n]) >= 1
           T == {n \in Nat : \A k \in 0 .. n : Good(k)}
<1>1. 0 \in T
  <2>1. Digits[0] = <<0>>
    BY DigitsDefined
  <2>2. Good(0)
    BY <2>1
  <2> HIDE DEF Good
  <2> QED BY <2>2
<1>2. ASSUME NEW n \in Nat, n \in T PROVE n + 1 \in T
  <2> SUFFICES ASSUME NEW k \in 0 .. n + 1 PROVE Good(k)
    OBVIOUS
  <2>1. CASE k < 10
    <3>1. Digits[k] = <<k>> /\ k \in Nat
      BY <2>1, DigitsDefined
    <3> QED BY <3>1
  <2>2. CASE ~(k < 10)
    <3>1. k \div 10 \in 0 .. n /\ k % 10 \in Nat
      BY <2>2, Tens
    <3>2. Good(k \div 10)
      BY <1>2, <3>1
    <3>3. Digits[k] = Append(Digits[k \div 10], k % 10)
      BY <2>2, DigitsDefined
    <3> QED BY <3>1, <3>2, <3>3
  <2> QED BY <2>1, <2>2
<1>3. \A n \in Nat : n \in T
  <2> HIDE DEF T
  <2> QED BY <1>1, <1>2, SetInduction
<1>4. ASSUME NEW n \in Nat PROVE Good(n)
  <2>1. n \in T /\ n \in 0 .. n
    BY <1>3
  <2> HIDE DEF Good
  <2> QED BY <2>1
<1>5. ASSUME NEW n \in Nat, ~(n < 10) PROVE Len(Digits[n]) = Len(Digits[n \div 10]) + 1
  <2>1. n \div 10 \in Nat
    BY Tens
  <2>2. Digits[n] = Append(Digits[n \div 10], n % 10)
    BY <1>5, DigitsDefined
  <2> QED BY <1>4, <2>1, <2>2
<1> QED BY <1>4, <1>5

-----------------------------------------------------------------------------
(* The order of names.                                                      *)

\* s sorts before t: sort.Strings on sequences of digits.
Before(s, t) ==
  \E k \in 0 .. Len(s) :
    /\ k <= Len(t) /\ \A i \in 1 .. k : s[i] = t[i]
    /\ k < Len(t)
    /\ k = Len(s) \/ s[k + 1] < t[k + 1]

LEMMA SortsBefore == \A m, n : SortsFirst(m, n) <=> Before(Digits[m], Digits[n])
BY DEF SortsFirst, Before

LEMMA BeforeAsymmetric ==
  ASSUME NEW s \in Seq(Nat), NEW t \in Seq(Nat), Before(s, t), Before(t, s)
  PROVE  FALSE
<1>1. PICK k \in 0 .. Len(s) :
        /\ k <= Len(t) /\ \A i \in 1 .. k : s[i] = t[i]
        /\ k < Len(t) /\ (k = Len(s) \/ s[k + 1] < t[k + 1])
  BY DEF Before
<1>2. PICK l \in 0 .. Len(t) :
        /\ l <= Len(s) /\ \A i \in 1 .. l : t[i] = s[i]
        /\ l < Len(s) /\ (l = Len(t) \/ t[l + 1] < s[l + 1])
  BY DEF Before
<1>0. Len(s) \in Nat /\ Len(t) \in Nat /\ k \in Nat /\ l \in Nat
  OBVIOUS
<1>3. CASE k < l
  <2>1. k + 1 \in 1 .. l /\ k # Len(s) /\ k + 1 \in 1 .. Len(s)
    BY <1>0, <1>2, <1>3
  <2>2. s[k + 1] = t[k + 1] /\ s[k + 1] < t[k + 1] /\ s[k + 1] \in Nat
    BY <1>1, <1>2, <2>1
  <2> QED BY <2>2
<1>4. CASE l < k
  <2>1. l + 1 \in 1 .. k /\ l # Len(t) /\ l + 1 \in 1 .. Len(t)
    BY <1>0, <1>1, <1>4
  <2>2. s[l + 1] = t[l + 1] /\ t[l + 1] < s[l + 1] /\ t[l + 1] \in Nat
    BY <1>1, <1>2, <2>1
  <2> QED BY <2>2
<1>5. CASE k = l
  <2>1. k # Len(s) /\ k # Len(t) /\ k + 1 \in 1 .. Len(s) /\ k + 1 \in 1 .. Len(t)
    BY <1>0, <1>1, <1>2, <1>5
  <2>2. /\ s[k + 1] < t[k + 1] /\ t[k + 1] < s[k + 1]
        /\ s[k + 1] \in Nat /\ t[k + 1] \in Nat
    BY <1>1, <1>2, <1>5, <2>1
  <2> QED BY <2>2
<1> QED BY <1>0, <1>3, <1>4, <1>5

LEMMA BeforeTransitive ==
  ASSUME NEW r \in Seq(Nat), NEW s \in Seq(Nat), NEW t \in Seq(Nat),
         Before(r, s), Before(s, t)
  PROVE  Before(r, t)
<1>1. PICK k \in 0 .. Len(r) :
        /\ k <= Len(s) /\ \A i \in 1 .. k : r[i] = s[i]
        /\ k < Len(s) /\ (k = Len(r) \/ r[k + 1] < s[k + 1])
  BY DEF Before
<1>2. PICK l \in 0 .. Len(s) :
        /\ l <= Len(t) /\ \A i \in 1 .. l : s[i] = t[i]
        /\ l < Len(t) /\ (l = Len(s) \/ s[l + 1] < t[l + 1])
  BY DEF Before
<1>0. Len(r) \in Nat /\ Len(s) \in Nat /\ Len(t) \in Nat /\ k \in Nat /\ l \in Nat
  OBVIOUS
<1>3. CASE k < l
  <2>1. /\ k <= Len(t) /\ k < Len(t) /\ k + 1 \in 1 .. l
        /\ \A i \in 1 .. k : i \in 1 .. l
    BY <1>0, <1>2, <1>3
  <2>2. \A i \in 1 .. k : r[i] = t[i]
    BY <1>1, <1>2, <2>1
  <2>3. s[k + 1] = t[k + 1]
    BY <1>2, <2>1
  <2> QED BY <1>1, <2>1, <2>2, <2>3 DEF Before
<1>4. CASE l < k
  <2>1. /\ l \in 0 .. Len(r) /\ l # Len(s) /\ l + 1 \in 1 .. k
        /\ \A i \in 1 .. l : i \in 1 .. k
    BY <1>0, <1>1, <1>4
  <2>2. \A i \in 1 .. l : r[i] = t[i]
    BY <1>1, <1>2, <2>1
  <2>3. r[l + 1] = s[l + 1] /\ s[l + 1] < t[l + 1]
    BY <1>1, <1>2, <2>1
  <2> QED BY <1>2, <2>1, <2>2, <2>3 DEF Before
<1>5. CASE k = l
  <2>1. \A i \in 1 .. k : r[i] = t[i]
    BY <1>1, <1>2, <1>5
  <2>2. k < Len(t) /\ k # Len(s)
    BY <1>0, <1>1, <1>2, <1>5
  <2>3. k = Len(r) \/ r[k + 1] < t[k + 1]
    <3> SUFFICES ASSUME k # Len(r) PROVE r[k + 1] < t[k + 1]
      OBVIOUS
    <3>1. k + 1 \in 1 .. Len(r) /\ k + 1 \in 1 .. Len(s) /\ k + 1 \in 1 .. Len(t)
      BY <1>0, <1>1, <2>2
    <3>2. r[k + 1] \in Nat /\ s[k + 1] \in Nat /\ t[k + 1] \in Nat
      BY <3>1
    <3>3. r[k + 1] < s[k + 1] /\ s[k + 1] < t[k + 1]
      BY <1>1, <1>2, <1>5, <2>2
    <3> QED BY <3>2, <3>3
  <2>4. k \in 0 .. Len(r) /\ k <= Len(t)
    BY <1>0, <2>2
  <2> QED BY <2>1, <2>2, <2>3, <2>4 DEF Before
<1> QED BY <1>0, <1>3, <1>4, <1>5

\* Two different sequences differ somewhere first, or one is longer.
LEMMA BeforeTotal ==
  ASSUME NEW s \in Seq(Nat), NEW t \in Seq(Nat), s # t
  PROVE  Before(s, t) \/ Before(t, s)
<1>0. Len(s) \in Nat /\ Len(t) \in Nat
  OBVIOUS
<1> DEFINE Both == {i \in Nat : i + 1 <= Len(s) /\ i + 1 <= Len(t)}
           Differ == {i \in Both : s[i + 1] # t[i + 1]}
<1>1. CASE Differ = {}
  <2>1. ASSUME NEW i \in Nat, 1 <= i, i <= Len(s), i <= Len(t) PROVE s[i] = t[i]
    <3>1. i - 1 \in Both /\ (i - 1) + 1 = i
      BY <1>0, <2>1
    <3> QED BY <1>1, <3>1
  <2>2. Len(s) # Len(t)
    <3> SUFFICES ASSUME Len(s) = Len(t) PROVE FALSE
      OBVIOUS
    <3>1. \A i \in 1 .. Len(s) : s[i] = t[i]
      BY <1>0, <2>1
    <3> QED BY <3>1, SeqEqual
  <2>3. CASE Len(s) < Len(t)
    <3>1. /\ Len(s) \in 0 .. Len(s) /\ Len(s) <= Len(t)
          /\ \A i \in 1 .. Len(s) : s[i] = t[i]
      BY <1>0, <2>1, <2>3
    <3> QED BY <2>3, <3>1 DEF Before
  <2>4. CASE Len(t) < Len(s)
    <3>1. /\ Len(t) \in 0 .. Len(t) /\ Len(t) <= Len(s)
          /\ \A i \in 1 .. Len(t) : t[i] = s[i]
      BY <1>0, <2>1, <2>4
    <3> QED BY <2>4, <3>1 DEF Before
  <2> QED BY <1>0, <2>2, <2>3, <2>4
<1>2. CASE Differ # {}
  <2>1. Differ \in SUBSET Nat
    OBVIOUS
  <2>2. PICK k \in Differ : \A j \in Differ : k <= j
    <3> HIDE DEF Differ
    <3> QED BY <1>2, <2>1, LeastElement
  <2>3. k \in Nat /\ k + 1 <= Len(s) /\ k + 1 <= Len(t) /\ s[k + 1] # t[k + 1]
    OBVIOUS
  <2>4. ASSUME NEW i \in 1 .. k PROVE s[i] = t[i]
    <3>1. i - 1 \in Both /\ (i - 1) + 1 = i /\ ~(k <= i - 1)
      BY <1>0, <2>3
    <3>2. i - 1 \notin Differ
      BY <2>2, <3>1
    <3> QED BY <3>1, <3>2
  <2>5. k + 1 \in 1 .. Len(s) /\ k + 1 \in 1 .. Len(t)
    BY <1>0, <2>3
  <2>6. s[k + 1] \in Nat /\ t[k + 1] \in Nat
    BY <2>5
  <2>7. /\ k \in 0 .. Len(s) /\ k \in 0 .. Len(t) /\ k <= Len(s) /\ k <= Len(t)
        /\ k < Len(s) /\ k < Len(t)
    BY <1>0, <2>3
  <2>8. CASE s[k + 1] < t[k + 1]
    BY <2>4, <2>7, <2>8 DEF Before
  <2>9. CASE t[k + 1] < s[k + 1]
    BY <2>4, <2>7, <2>9 DEF Before
  <2> QED BY <2>3, <2>6, <2>8, <2>9
<1> QED BY <1>1, <1>2

\* Between numbers of equally many digits it is the order of the numbers.
LEMMA DigitsOrder ==
  \A m, n \in Nat : m < n /\ Len(Digits[m]) = Len(Digits[n])
                      => Before(Digits[m], Digits[n])
<1> DEFINE Good(m, n) == m < n /\ Len(Digits[m]) = Len(Digits[n])
                           => Before(Digits[m], Digits[n])
           T == {k \in Nat : \A m, n \in 0 .. k : Good(m, n)}
<1>1. 0 \in T
  OBVIOUS
<1>2. ASSUME NEW k \in Nat, k \in T PROVE k + 1 \in T
  <2> SUFFICES ASSUME NEW m \in 0 .. k + 1, NEW n \in 0 .. k + 1, m < n,
                      Len(Digits[m]) = Len(Digits[n])
               PROVE  Before(Digits[m], Digits[n])
    OBVIOUS
  <2> DEFINE s == Digits[m]
             t == Digits[n]
  <2>0. m \in Nat /\ n \in Nat
    OBVIOUS
  <2>1. CASE n < 10
    <3>1. m < 10
      BY <2>0, <2>1
    <3>2. s = <<m>> /\ t = <<n>>
      BY <2>0, <2>1, <3>1, DigitsDefined
    <3> HIDE DEF s, t
    <3>3. /\ 0 \in 0 .. Len(s) /\ 0 <= Len(t) /\ 0 < Len(t)
          /\ \A i \in 1 .. 0 : s[i] = t[i]
          /\ s[0 + 1] < t[0 + 1]
      BY <2>0, <3>2
    <3>4. Before(s, t)
      BY <3>3 DEF Before
    <3> QED BY <3>4 DEF s, t
  <2>2. CASE ~(n < 10)
    <3> DEFINE a == m \div 10
               b == n \div 10
               u == Digits[a]
               v == Digits[b]
    <3>1. /\ b \in Nat /\ n % 10 \in 0 .. 9 /\ n = 10 * b + (n % 10) /\ b < n
          /\ a \in Nat /\ m % 10 \in 0 .. 9 /\ m = 10 * a + (m % 10)
      BY <2>0, <2>2, Tens
    <3>2. Len(v) >= 1 /\ Len(t) = Len(v) + 1
      BY <2>0, <2>2, <3>1, DigitsType
    <3>3. ~(m < 10)
      <4> SUFFICES ASSUME m < 10 PROVE FALSE
        OBVIOUS
      <4>1. s = <<m>>
        BY <2>0, DigitsDefined
      <4>2. Len(s) = 1
        BY <4>1
      <4>3. Len(v) \in Nat
        BY <3>1, DigitsType
      <4>4. Len(s) = Len(t)
        OBVIOUS
      <4> HIDE DEF s, t, v
      <4> QED BY <3>2, <4>2, <4>3, <4>4
    <3>4. s = Append(u, m % 10) /\ t = Append(v, n % 10)
      BY <2>0, <2>2, <3>3, DigitsDefined
    <3>5. u \in Seq(Nat) /\ v \in Seq(Nat) /\ a < m /\ a <= b
      <4>1. a < m
        BY <2>0, <3>3, Tens
      <4> HIDE DEF a, b
      <4>2. a <= b
        <5> DEFINE c == m % 10
                   d == n % 10
        <5>1. /\ a \in Nat /\ b \in Nat /\ c \in 0 .. 9 /\ d \in 0 .. 9
              /\ m = 10 * a + c /\ n = 10 * b + d /\ m < n
          BY <3>1
        <5> HIDE DEF c, d
        <5> SUFFICES ASSUME b + 1 <= a PROVE FALSE
          BY <5>1
        <5>2. 10 * b + 10 <= 10 * a
          BY <5>1
        <5>3. c >= 0 /\ d <= 9 /\ c \in Int /\ d \in Int
          BY <5>1
        <5> QED BY <5>1, <5>2, <5>3
      <4>3. u \in Seq(Nat) /\ v \in Seq(Nat)
        BY <3>1, DigitsType
      <4> QED BY <4>1, <4>2, <4>3
    <3>6. Len(u) = Len(v) /\ Len(u) \in Nat
      <4>1. Len(s) = Len(u) + 1
        BY <3>4, <3>5
      <4> QED BY <3>2, <3>5, <4>1
    <3>7. CASE a < b
      <4>1. a \in 0 .. k /\ b \in 0 .. k
        BY <2>0, <3>1, <3>5
      <4>2. Before(u, v)
        BY <1>2, <3>6, <3>7, <4>1
      <4> HIDE DEF a, b, u, v, s, t
      <4>3. PICK l \in 0 .. Len(u) :
              /\ l <= Len(v) /\ \A i \in 1 .. l : u[i] = v[i]
              /\ l < Len(v) /\ (l = Len(u) \/ u[l + 1] < v[l + 1])
        BY <4>2 DEF Before
      <4>4. /\ \A i \in 1 .. Len(u) : s[i] = u[i] /\ t[i] = v[i]
            /\ Len(s) = Len(u) + 1 /\ Len(t) = Len(v) + 1
        BY <3>4, <3>5, <3>6
      <4>5. /\ l \in 0 .. Len(s) /\ l <= Len(t) /\ l < Len(t)
            /\ l + 1 \in 1 .. Len(u) /\ l # Len(u)
            /\ \A i \in 1 .. l : i \in 1 .. Len(u)
        BY <3>6, <4>3, <4>4
      <4>6. \A i \in 1 .. l : s[i] = t[i]
        BY <4>3, <4>4, <4>5
      <4>7. s[l + 1] < t[l + 1]
        BY <4>3, <4>4, <4>5
      <4>8. Before(s, t)
        BY <4>5, <4>6, <4>7 DEF Before
      <4> QED BY <4>8 DEF s, t
    <3>8. CASE a = b
      <4>1. m % 10 < n % 10
        <5> DEFINE c == m % 10
                   d == n % 10
        <5>1. /\ a \in Nat /\ a = b /\ c \in 0 .. 9 /\ d \in 0 .. 9
              /\ m = 10 * a + c /\ n = 10 * b + d /\ m < n
          BY <3>1, <3>8
        <5> HIDE DEF a, b, c, d
        <5>2. c < d
          BY <5>1
        <5> QED BY <5>2 DEF c, d
      <4>2. u = v
        BY <3>8
      <4> DEFINE l == Len(u)
      <4> HIDE DEF a, b, u, v, s, t
      <4>3. /\ \A i \in 1 .. l : s[i] = t[i]
            /\ Len(s) = l + 1 /\ Len(t) = l + 1 /\ l \in Nat
            /\ s[l + 1] = m % 10 /\ t[l + 1] = n % 10
        BY <3>4, <3>5, <3>6, <4>2
      <4>4. l \in 0 .. Len(s) /\ l <= Len(t) /\ l < Len(t) /\ s[l + 1] < t[l + 1]
        BY <4>1, <4>3
      <4>5. Before(s, t)
        BY <4>3, <4>4 DEF Before
      <4> QED BY <4>5 DEF s, t
    <3> QED BY <3>1, <3>5, <3>7, <3>8
  <2> QED BY <2>1, <2>2
<1>3. \A k \in Nat : k \in T
  <2> HIDE DEF T
  <2> QED BY <1>1, <1>2, SetInduction
<1> SUFFICES ASSUME NEW m \in Nat, NEW n \in Nat, m < n, Len(Digits[m]) = Len(Digits[n])
             PROVE  Before(Digits[m], Digits[n])
  OBVIOUS
<1>4. n \in T /\ m \in 0 .. n /\ n \in 0 .. n
  BY <1>3
<1>5. Good(m, n)
  <2> HIDE DEF Good
  <2> QED BY <1>4
<1> QED BY <1>5

\* SortsFirst is a strict total order of the numbers.
LEMMA SortsStrictly ==
  /\ \A m, n \in Nat : ~(SortsFirst(m, n) /\ SortsFirst(n, m))
  /\ \A l, m, n \in Nat : SortsFirst(l, m) /\ SortsFirst(m, n) => SortsFirst(l, n)
  /\ \A m, n \in Nat : m # n => SortsFirst(m, n) \/ SortsFirst(n, m)
<1>1. \A n \in Nat : Digits[n] \in Seq(Nat)
  BY DigitsType
<1>2. ASSUME NEW m \in Nat, NEW n \in Nat PROVE ~(SortsFirst(m, n) /\ SortsFirst(n, m))
  BY <1>1, SortsBefore, BeforeAsymmetric
<1>3. ASSUME NEW l \in Nat, NEW m \in Nat, NEW n \in Nat, SortsFirst(l, m), SortsFirst(m, n)
      PROVE  SortsFirst(l, n)
  BY <1>1, <1>3, SortsBefore, BeforeTransitive
<1>4. ASSUME NEW m \in Nat, NEW n \in Nat, m # n PROVE SortsFirst(m, n) \/ SortsFirst(n, m)
  <2>1. Digits[m] # Digits[n]
    <3> SUFFICES ASSUME Digits[m] = Digits[n] PROVE FALSE
      OBVIOUS
    <3>1. Before(Digits[m], Digits[n]) \/ Before(Digits[n], Digits[m])
      BY <1>4, DigitsOrder
    <3> QED BY <1>1, <3>1, BeforeAsymmetric
  <2> QED BY <1>1, <2>1, SortsBefore, BeforeTotal
<1> QED BY <1>2, <1>3, <1>4

-----------------------------------------------------------------------------
(* Sorting by rank.                                                         *)

\* The names that sort before n.
Earlier(n, S) == {m \in S : SortsFirst(m, n)}

LEMMA PlaceRises ==
  ASSUME NEW S \in SUBSET Nat, IsFiniteSet(S)
  PROVE  /\ Cardinality(S) \in Nat
         /\ \A n \in S : Place(n, S) \in 1 .. Cardinality(S)
         /\ \A m, n \in S : SortsFirst(m, n) => Place(m, S) < Place(n, S)
<1>1. ASSUME NEW n \in S
      PROVE  IsFiniteSet(Earlier(n, S)) /\ Cardinality(Earlier(n, S)) \in Nat
  BY FS_Subset, FS_CardinalityType DEF Earlier
<1>2. ASSUME NEW T \in SUBSET S, NEW R \in SUBSET S, NEW x \in S,
             T \subseteq R \ {x}, x \in R
      PROVE  Cardinality(T) < Cardinality(R)
  <2>1. IsFiniteSet(R) /\ Cardinality(R) \in Nat
    BY FS_Subset, FS_CardinalityType
  <2>2. IsFiniteSet(R \ {x}) /\ Cardinality(R \ {x}) = Cardinality(R) - 1
    BY <1>2, <2>1, FS_RemoveElement
  <2>3. Cardinality(T) <= Cardinality(R \ {x}) /\ Cardinality(T) \in Nat
    BY <1>2, <2>2, FS_Subset, FS_CardinalityType
  <2> QED BY <2>1, <2>2, <2>3
<1>3. ASSUME NEW n \in S PROVE Place(n, S) \in 1 .. Cardinality(S)
  <2>1. Earlier(n, S) \subseteq S \ {n}
    BY SortsStrictly DEF Earlier
  <2>2. Cardinality(Earlier(n, S)) < Cardinality(S)
    BY <1>2, <2>1
  <2>3. Cardinality(S) \in Nat
    BY FS_CardinalityType
  <2> QED BY <1>1, <2>2, <2>3 DEF Place, Earlier
<1>4. ASSUME NEW m \in S, NEW n \in S, SortsFirst(m, n) PROVE Place(m, S) < Place(n, S)
  <2>1. Earlier(m, S) \subseteq Earlier(n, S) \ {m} /\ m \in Earlier(n, S)
    <3>1. ASSUME NEW l \in Earlier(m, S) PROVE l \in Earlier(n, S) /\ l # m
      <4>1. l \in Nat /\ m \in Nat /\ n \in Nat /\ l \in S /\ SortsFirst(l, m)
        BY DEF Earlier
      <4> QED BY <1>4, <4>1, SortsStrictly DEF Earlier
    <3> QED BY <1>4, <3>1 DEF Earlier
  <2>2. Earlier(m, S) \in SUBSET S /\ Earlier(n, S) \in SUBSET S
    BY DEF Earlier
  <2>3. Cardinality(Earlier(m, S)) < Cardinality(Earlier(n, S))
    BY <1>2, <2>1, <2>2
  <2> QED BY <1>1, <2>3 DEF Place, Earlier
<1> QED BY <1>3, <1>4, FS_CardinalityType

\* Each place is one name's.
LEMMA PlacesTaken ==
  ASSUME NEW S \in SUBSET Nat, IsFiniteSet(S)
  PROVE  /\ \A i \in 1 .. Cardinality(S) : \E n \in S : Place(n, S) = i
         /\ \A m, n \in S : Place(m, S) = Place(n, S) => m = n
<1> DEFINE c == Cardinality(S)
           f == [n \in S |-> Place(n, S)]
<1>1. c \in Nat /\ \A n \in S : Place(n, S) \in 1 .. c
  BY PlaceRises
<1>2. ASSUME NEW m \in S, NEW n \in S, Place(m, S) = Place(n, S) PROVE m = n
  <2> SUFFICES ASSUME m # n PROVE FALSE
    OBVIOUS
  <2>1. SortsFirst(m, n) \/ SortsFirst(n, m)
    BY SortsStrictly
  <2>2. Place(m, S) < Place(n, S) \/ Place(n, S) < Place(m, S)
    BY <2>1, PlaceRises
  <2>3. Place(m, S) \in Int /\ Place(n, S) \in Int
    BY <1>1
  <2> QED BY <1>2, <2>2, <2>3
<1>3. f \in Injection(S, 1 .. c)
  <2>1. f \in [S -> 1 .. c]
    BY <1>1
  <2>2. \A m, n \in S : f[m] = f[n] => m = n
    BY <1>2
  <2> HIDE DEF f
  <2>3. DOMAIN f = S
    BY <2>1
  <2> QED BY <2>1, <2>2, <2>3 DEF Injection, IsInjective
<1> HIDE DEF c
<1>4. IsFiniteSet(1 .. c) /\ Cardinality(1 .. c) = c
  BY <1>1, FS_Interval
<1>5. f \in Surjection(S, 1 .. c)
  <2> HIDE DEF f
  <2> QED BY <1>3, <1>4, FS_Injection DEF c
<1>6. \A i \in 1 .. c : \E n \in S : f[n] = i
  <2> HIDE DEF f
  <2> QED BY <1>5 DEF Surjection
<1> QED BY <1>2, <1>6 DEF c

\* Sorted lists the names, each at its place.
LEMMA SortedPlaces ==
  ASSUME NEW S \in SUBSET Nat, IsFiniteSet(S)
  PROVE  /\ Sorted(S) \in Seq(S)
         /\ Len(Sorted(S)) = Cardinality(S) /\ Cardinality(S) \in Nat
         /\ \A i \in 1 .. Cardinality(S) :
              Sorted(S)[i] \in S /\ Place(Sorted(S)[i], S) = i
         /\ \A n \in S : Place(n, S) \in 1 .. Cardinality(S) /\ Sorted(S)[Place(n, S)] = n
         /\ \A i, j \in 1 .. Cardinality(S) :
              i < j => SortsFirst(Sorted(S)[i], Sorted(S)[j])
<1> DEFINE c == Cardinality(S)
           f == Sorted(S)
<1>1. c \in Nat
  BY FS_CardinalityType
<1>2. DOMAIN f = 1 .. c
  BY DEF Sorted
<1>3. ASSUME NEW i \in 1 .. c PROVE f[i] \in S /\ Place(f[i], S) = i
  <2>1. f[i] = CHOOSE n \in S : Place(n, S) = i
    BY DEF Sorted
  <2>2. \E n \in S : Place(n, S) = i
    BY PlacesTaken
  <2> QED BY <2>1, <2>2
<1>4. ASSUME NEW n \in S PROVE Place(n, S) \in 1 .. c /\ f[Place(n, S)] = n
  <2>1. Place(n, S) \in 1 .. c
    BY PlaceRises
  <2>2. f[Place(n, S)] \in S /\ Place(f[Place(n, S)], S) = Place(n, S)
    BY <1>3, <2>1
  <2> QED BY <2>1, <2>2, PlacesTaken
<1>5. ASSUME NEW i \in 1 .. c, NEW j \in 1 .. c, i < j PROVE SortsFirst(f[i], f[j])
  <2>1. /\ f[i] \in S /\ f[j] \in S /\ Place(f[i], S) = i /\ Place(f[j], S) = j
        /\ f[i] \in Nat /\ f[j] \in Nat
    BY <1>3
  <2> SUFFICES ASSUME ~SortsFirst(f[i], f[j]) PROVE FALSE
    OBVIOUS
  <2>2. f[i] # f[j]
    BY <1>5, <2>1
  <2>3. SortsFirst(f[j], f[i])
    BY <2>1, <2>2, SortsStrictly
  <2>4. j < i
    BY <2>1, <2>3, PlaceRises
  <2> QED BY <1>5, <2>4
<1>6. f \in Seq(S) /\ Len(f) = c
  <2>1. f = [i \in 1 .. c |-> f[i]]
    BY DEF Sorted
  <2> HIDE DEF f, c
  <2>2. f \in [1 .. c -> S]
    BY <1>3, <2>1
  <2> QED BY <1>1, <1>2, <2>2
<1> QED BY <1>1, <1>3, <1>4, <1>5, <1>6

-----------------------------------------------------------------------------
(* The directory as a sequence.                                             *)

\* The contents of the files of f, which is a directory, in the order of their names.
ContentsOf(f) == [i \in DOMAIN Sorted(DOMAIN f) |-> f[Sorted(DOMAIN f)[i]]]

\* A finite directory with names in Nat and contents in B.
Directory(B) == {f \in UNION {[S -> B] : S \in SUBSET Nat} : IsFiniteSet(DOMAIN f)}

LEMMA DirectoryType ==
  ASSUME NEW B, NEW f
  PROVE  f \in Directory(B) <=> /\ f = [n \in DOMAIN f |-> f[n]]
                                /\ DOMAIN f \subseteq Nat /\ IsFiniteSet(DOMAIN f)
                                /\ \A n \in DOMAIN f : f[n] \in B
<1>1. ASSUME f \in Directory(B)
      PROVE  /\ f = [n \in DOMAIN f |-> f[n]] /\ DOMAIN f \subseteq Nat
             /\ IsFiniteSet(DOMAIN f) /\ \A n \in DOMAIN f : f[n] \in B
  <2>1. PICK S \in SUBSET Nat : f \in [S -> B] /\ IsFiniteSet(DOMAIN f)
    BY <1>1 DEF Directory
  <2> QED BY <2>1
<1>2. ASSUME f = [n \in DOMAIN f |-> f[n]], DOMAIN f \subseteq Nat,
             IsFiniteSet(DOMAIN f), \A n \in DOMAIN f : f[n] \in B
      PROVE  f \in Directory(B)
  <2>1. DOMAIN f \in SUBSET Nat /\ f \in [DOMAIN f -> B]
    BY <1>2
  <2> QED BY <1>2, <2>1 DEF Directory
<1> QED BY <1>1, <1>2

LEMMA ContentsType ==
  ASSUME NEW B, NEW f \in Directory(B)
  PROVE  /\ ContentsOf(f) \in Seq(B)
         /\ Len(ContentsOf(f)) = Cardinality(DOMAIN f)
         /\ Len(Sorted(DOMAIN f)) = Cardinality(DOMAIN f)
         /\ Cardinality(DOMAIN f) \in Nat
         /\ Sorted(DOMAIN f) \in Seq(DOMAIN f)
         /\ \A i \in 1 .. Cardinality(DOMAIN f) :
              /\ Sorted(DOMAIN f)[i] \in DOMAIN f
              /\ ContentsOf(f)[i] = f[Sorted(DOMAIN f)[i]]
<1> DEFINE S == DOMAIN f
           s == Sorted(S)
           c == Cardinality(S)
           q == ContentsOf(f)
<1>1. S \in SUBSET Nat /\ IsFiniteSet(S) /\ \A n \in S : f[n] \in B
  BY DirectoryType
<1>2. s \in Seq(S) /\ Len(s) = c /\ c \in Nat /\ \A i \in 1 .. c : s[i] \in S
  BY <1>1, SortedPlaces
<1>3. DOMAIN s = 1 .. c
  BY <1>2
<1>4. q = [i \in 1 .. c |-> f[s[i]]]
  BY <1>3 DEF ContentsOf
<1> HIDE DEF q, c, s, S
<1>5. q \in Seq(B) /\ Len(q) = c /\ \A i \in 1 .. c : q[i] = f[s[i]]
  <2>1. q \in [1 .. c -> B] /\ DOMAIN q = 1 .. c
    BY <1>1, <1>2, <1>4
  <2> QED BY <1>2, <1>4, <2>1
<1> QED BY <1>2, <1>5 DEF q, c, s, S

\* The directory is empty exactly when the sequence is.
LEMMA ContentsEmpty ==
  ASSUME NEW B, NEW f \in Directory(B)
  PROVE  /\ DOMAIN f = {} <=> ContentsOf(f) = <<>>
         /\ DOMAIN f = {} <=> Sorted(DOMAIN f) = <<>>
<1> DEFINE S == DOMAIN f
           s == Sorted(S)
           q == ContentsOf(f)
<1>1. /\ q \in Seq(B) /\ Len(q) = Cardinality(S) /\ s \in Seq(S) /\ Len(s) = Cardinality(S)
      /\ IsFiniteSet(S)
  BY ContentsType, DirectoryType
<1>2. Cardinality(S) = 0 <=> S = {}
  BY <1>1, FS_EmptySet
<1> HIDE DEF S, s, q
<1> QED BY <1>1, <1>2 DEF S, s, q

\* Two sequences are equal that list the names by their places.
LEMMA SortedUnique ==
  ASSUME NEW S \in SUBSET Nat, IsFiniteSet(S), NEW s \in Seq(S),
         Len(s) = Cardinality(S), \A i \in 1 .. Cardinality(S) : Place(s[i], S) = i
  PROVE  s = Sorted(S)
<1> DEFINE r == Sorted(S)
           c == Cardinality(S)
<1>1. r \in Seq(S) /\ Len(r) = c /\ c \in Nat
      /\ \A i \in 1 .. c : r[i] \in S /\ Place(r[i], S) = i
  BY SortedPlaces
<1>2. \A i \in 1 .. c : s[i] = r[i]
  <2> SUFFICES ASSUME NEW i \in 1 .. c PROVE s[i] = r[i]
    OBVIOUS
  <2>1. s[i] \in S /\ r[i] \in S /\ Place(s[i], S) = i /\ Place(r[i], S) = i
    BY <1>1
  <2> HIDE DEF r
  <2> QED BY <2>1, PlacesTaken
<1> HIDE DEF r, c
<1>3. s \in Seq(S) /\ Len(s) = c /\ r \in Seq(S)
  BY <1>1 DEF c
<1>4. s = r
  BY <1>1, <1>2, <1>3, SeqEqual
<1> QED BY <1>4 DEF r

\* Without the file whose name sorts first the rest is as it was.
LEMMA FirstLeaves ==
  ASSUME NEW B, NEW f \in Directory(B), Sorted(DOMAIN f) # <<>>
  PROVE  LET n == Sorted(DOMAIN f)[1]
             g == [m \in DOMAIN f \ {n} |-> f[m]]
         IN  /\ n \in DOMAIN f /\ n = Head(Sorted(DOMAIN f))
             /\ g \in Directory(B)
             /\ Sorted(DOMAIN g) = Tail(Sorted(DOMAIN f))
             /\ ContentsOf(g) = Tail(ContentsOf(f))
             /\ f[n] = Head(ContentsOf(f))
             /\ ContentsOf(f) # <<>>
<1> DEFINE S == DOMAIN f
           s == Sorted(S)
           n == s[1]
           g == [m \in S \ {n} |-> f[m]]
           R == S \ {n}
           c == Cardinality(S)
<1>1. /\ S \in SUBSET Nat /\ IsFiniteSet(S) /\ \A m \in S : f[m] \in B
      /\ s \in Seq(S) /\ Len(s) = c /\ c \in Nat
  BY DirectoryType, SortedPlaces
<1>2. c >= 1
  BY <1>1
<1>3. n \in S /\ Place(n, S) = 1
  BY <1>1, <1>2, SortedPlaces
<1>4. R \in SUBSET Nat /\ IsFiniteSet(R) /\ Cardinality(R) = c - 1 /\ DOMAIN g = R
  BY <1>1, <1>3, FS_RemoveElement
<1>5. g \in Directory(B)
  <2>1. g = [m \in R |-> g[m]] /\ \A m \in R : g[m] \in B
    BY <1>1
  <2> HIDE DEF g
  <2> QED BY <1>4, <2>1, DirectoryType
<1>6. ASSUME NEW m \in R PROVE SortsFirst(n, m)
  <2>1. m # n /\ m \in Nat /\ n \in Nat /\ m \in S
    BY <1>1, <1>3
  <2> SUFFICES ASSUME SortsFirst(m, n) PROVE FALSE
    BY <2>1, SortsStrictly
  <2>2. Place(m, S) < Place(n, S) /\ Place(m, S) \in 1 .. c
    BY <1>1, <1>3, <2>1, PlaceRises
  <2> QED BY <1>1, <1>3, <2>2
<1>7. ASSUME NEW m \in R PROVE Place(m, R) = Place(m, S) - 1
  <2>1. Earlier(m, R) = Earlier(m, S) \ {n} /\ n \in Earlier(m, S)
    BY <1>3, <1>6 DEF Earlier
  <2>2. IsFiniteSet(Earlier(m, S)) /\ Cardinality(Earlier(m, S)) \in Nat
    BY <1>1, FS_Subset, FS_CardinalityType DEF Earlier
  <2> HIDE DEF n, R
  <2>3. Cardinality(Earlier(m, R)) = Cardinality(Earlier(m, S)) - 1
    BY <2>1, <2>2, FS_RemoveElement
  <2> QED BY <2>2, <2>3 DEF Place, Earlier
<1>8. Tail(s) = Sorted(R)
  <2>1. \A i \in 1 .. c : s[i] \in S /\ Place(s[i], S) = i
    BY <1>1, SortedPlaces
  <2> DEFINE t == Tail(s)
  <2> HIDE DEF s, S, c, R
  <2>2. t \in Seq(S) /\ Len(t) = c - 1 /\ \A i \in 1 .. c - 1 : t[i] = s[i + 1]
    BY <1>1, <1>2
  <2>3. ASSUME NEW i \in 1 .. c - 1 PROVE t[i] \in R /\ Place(t[i], R) = i
    <3>1. i + 1 \in 1 .. c /\ t[i] = s[i + 1] /\ i \in Int /\ i + 1 # 1 /\ (i + 1) - 1 = i
      BY <1>1, <2>2
    <3> HIDE DEF t, n
    <3>2. t[i] \in S /\ Place(t[i], S) = i + 1
      BY <2>1, <3>1
    <3>3. t[i] # n
      BY <1>3, <3>1, <3>2
    <3>4. t[i] \in R
      BY <3>2, <3>3 DEF R
    <3>5. Place(t[i], R) = Place(t[i], S) - 1
      BY <1>7, <3>4
    <3> QED BY <3>1, <3>2, <3>4, <3>5
  <2>4. t \in Seq(R)
    <3> HIDE DEF t
    <3>1. \A i \in 1 .. Len(t) : t[i] \in R
      BY <2>2, <2>3
    <3> QED BY <2>2, <3>1
  <2> QED BY <1>4, <2>2, <2>3, <2>4, SortedUnique
<1>9. ContentsOf(g) = Tail(ContentsOf(f))
  <2> DEFINE p == ContentsOf(f)
             q == ContentsOf(g)
             t == Sorted(R)
  <2>1. /\ p \in Seq(B) /\ Len(p) = c
        /\ \A i \in 1 .. c : p[i] = f[s[i]]
    BY ContentsType
  <2>2. /\ q \in Seq(B) /\ Len(q) = c - 1
        /\ \A i \in 1 .. c - 1 : t[i] \in R /\ q[i] = g[t[i]]
    <3> HIDE DEF g
    <3> QED BY <1>4, <1>5, ContentsType
  <2>3. \A m \in R : g[m] = f[m]
    OBVIOUS
  <2> HIDE DEF p, q, t, c, s, g, R
  <2>4. \A i \in 1 .. c - 1 : t[i] = s[i + 1]
    BY <1>1, <1>2, <1>8 DEF t
  <2>5. Tail(p) \in Seq(B) /\ Len(Tail(p)) = c - 1 /\ \A i \in 1 .. c - 1 : Tail(p)[i] = p[i + 1]
    BY <1>1, <1>2, <2>1
  <2>6. \A i \in 1 .. c - 1 : q[i] = Tail(p)[i]
    <3> SUFFICES ASSUME NEW i \in 1 .. c - 1 PROVE q[i] = Tail(p)[i]
      OBVIOUS
    <3>1. i + 1 \in 1 .. c
      BY <1>1
    <3>2. q[i] = f[t[i]] /\ t[i] = s[i + 1] /\ p[i + 1] = f[s[i + 1]]
      BY <2>1, <2>2, <2>3, <2>4, <3>1
    <3> QED BY <2>5, <3>2
  <2>7. q = Tail(p)
    BY <2>2, <2>5, <2>6, SeqEqual
  <2> QED BY <2>7 DEF p, q, g, R, s
<1>10. f[n] = Head(ContentsOf(f)) /\ ContentsOf(f) # <<>>
  <2>1. ContentsOf(f) \in Seq(B) /\ Len(ContentsOf(f)) = c /\ ContentsOf(f)[1] = f[s[1]]
    BY <1>1, <1>2, ContentsType
  <2> HIDE DEF c, s
  <2> QED BY <1>1, <1>2, <2>1
<1>11. n = Head(s)
  BY <1>1, <1>2
<1> QED BY <1>3, <1>4, <1>5, <1>8, <1>9, <1>10, <1>11

\* A name is the last of S if the others sort before it.
LastOf(n, S) == \A m \in S \ {n} : SortsFirst(m, n)

\* f, with a file of that name that holds b.
Holding(f, n, b) == [m \in DOMAIN f \cup {n} |-> IF m = n THEN b ELSE f[m]]

\* A new file whose name sorts last comes last.
LEMMA LastJoins ==
  ASSUME NEW B, NEW f \in Directory(B), NEW n \in Nat \ DOMAIN f, NEW b \in B,
         LastOf(n, DOMAIN f)
  PROVE  /\ Holding(f, n, b) \in Directory(B)
         /\ ContentsOf(Holding(f, n, b)) = Append(ContentsOf(f), b)
<1> DEFINE S == DOMAIN f
           s == Sorted(S)
           c == Cardinality(S)
           R == S \cup {n}
           g == [m \in R |-> IF m = n THEN b ELSE f[m]]
           t == Append(s, n)
<1>1. /\ S \in SUBSET Nat /\ IsFiniteSet(S) /\ \A m \in S : f[m] \in B
      /\ s \in Seq(S) /\ Len(s) = c /\ c \in Nat
      /\ \A i \in 1 .. c : s[i] \in S /\ Place(s[i], S) = i
  BY DirectoryType, SortedPlaces
<1>2. R \in SUBSET Nat /\ IsFiniteSet(R) /\ Cardinality(R) = c + 1 /\ DOMAIN g = R
  BY <1>1, FS_AddElement
<1>3. g \in Directory(B)
  <2>1. g = [m \in R |-> g[m]] /\ \A m \in R : g[m] \in B
    BY <1>1
  <2> HIDE DEF g
  <2> QED BY <1>2, <2>1, DirectoryType
<1>4. ASSUME NEW m \in S PROVE SortsFirst(m, n) /\ ~SortsFirst(n, m)
  <2>1. SortsFirst(m, n) /\ m \in Nat
    BY <1>1 DEF LastOf
  <2> QED BY <2>1, SortsStrictly
<1>5. ASSUME NEW m \in S PROVE Place(m, R) = Place(m, S)
  <2>1. {l \in R : SortsFirst(l, m)} = {l \in S : SortsFirst(l, m)}
    BY <1>4
  <2> QED BY <2>1 DEF Place
<1>6. Place(n, R) = c + 1
  <2>1. ~SortsFirst(n, n)
    BY SortsStrictly
  <2>2. {l \in R : SortsFirst(l, n)} = S
    BY <1>4, <2>1
  <2> QED BY <1>1, <2>2 DEF Place
<1>7. t = Sorted(R)
  <2> HIDE DEF s, c, S
  <2>1. /\ t \in Seq(R) /\ Len(t) = c + 1 /\ t[c + 1] = n
        /\ \A i \in 1 .. c : t[i] = s[i]
    BY <1>1
  <2>2. ASSUME NEW i \in 1 .. c + 1 PROVE Place(t[i], R) = i
    <3>1. CASE i = c + 1
      BY <1>6, <2>1, <3>1
    <3>2. CASE i # c + 1
      <4>1. i \in 1 .. c
        BY <1>1, <3>2
      <4>2. t[i] = s[i] /\ s[i] \in S /\ Place(s[i], S) = i
        BY <1>1, <2>1, <4>1
      <4> HIDE DEF R, t
      <4> QED BY <1>5, <4>2
    <3> QED BY <3>1, <3>2
  <2> HIDE DEF R, t
  <2> QED BY <1>2, <2>1, <2>2, SortedUnique
<1>8. ContentsOf(g) = Append(ContentsOf(f), b)
  <2> DEFINE p == ContentsOf(f)
             q == ContentsOf(g)
             r == Append(p, b)
  <2>1. /\ p \in Seq(B) /\ Len(p) = c
        /\ \A i \in 1 .. c : p[i] = f[s[i]]
    BY ContentsType
  <2>2. /\ q \in Seq(B) /\ Len(q) = c + 1
        /\ \A i \in 1 .. c + 1 : q[i] = g[t[i]]
    <3> HIDE DEF g, t
    <3>1. /\ q \in Seq(B) /\ Len(q) = Cardinality(DOMAIN g)
          /\ \A i \in 1 .. Cardinality(DOMAIN g) : q[i] = g[Sorted(DOMAIN g)[i]]
      BY <1>3, ContentsType
    <3> HIDE DEF q, R
    <3> QED BY <1>2, <1>7, <3>1
  <2>3. g[n] = b /\ \A m \in S : g[m] = f[m]
    BY <1>1
  <2> HIDE DEF p, q, c, s, g, R, S
  <2>4. t[c + 1] = n /\ \A i \in 1 .. c : t[i] = s[i]
    BY <1>1
  <2>5. r \in Seq(B) /\ Len(r) = c + 1 /\ r[c + 1] = b /\ \A i \in 1 .. c : r[i] = p[i]
    BY <1>1, <2>1
  <2> HIDE DEF r, t
  <2>6. \A i \in 1 .. c + 1 : q[i] = r[i]
    <3> SUFFICES ASSUME NEW i \in 1 .. c + 1 PROVE q[i] = r[i]
      OBVIOUS
    <3>1. CASE i = c + 1
      BY <2>2, <2>3, <2>4, <2>5, <3>1
    <3>2. CASE i # c + 1
      <4>1. i \in 1 .. c
        BY <1>1, <3>2
      <4>2. q[i] = g[t[i]] /\ t[i] = s[i] /\ s[i] \in S /\ p[i] = f[s[i]] /\ r[i] = p[i]
        BY <1>1, <2>1, <2>2, <2>4, <2>5, <4>1
      <4> QED BY <2>3, <4>2
    <3> QED BY <3>1, <3>2
  <2>7. q = r
    BY <2>2, <2>5, <2>6, SeqEqual
  <2> QED BY <2>7 DEF p, q, g, R, S, r
<1>9. g = Holding(f, n, b)
  BY DEF Holding
<1> HIDE DEF g
<1> QED BY <1>3, <1>8, <1>9

\* A file whose name sorts last and that is rewritten stays last.
LEMMA LastChanges ==
  ASSUME NEW B, NEW f \in Directory(B), NEW n \in DOMAIN f, NEW b \in B,
         LastOf(n, DOMAIN f)
  PROVE  /\ Holding(f, n, b) \in Directory(B)
         /\ ContentsOf(f) # <<>>
         /\ ContentsOf(Holding(f, n, b)) = [ContentsOf(f) EXCEPT ![Len(ContentsOf(f))] = b]
<1> DEFINE S == DOMAIN f
           s == Sorted(S)
           c == Cardinality(S)
           p == ContentsOf(f)
           g == Holding(f, n, b)
           q == ContentsOf(g)
           r == [p EXCEPT ![Len(p)] = b]
<1>1. /\ S \in SUBSET Nat /\ IsFiniteSet(S) /\ \A m \in S : f[m] \in B
      /\ s \in Seq(S) /\ Len(s) = c /\ c \in Nat
      /\ \A i \in 1 .. c : s[i] \in S /\ Place(s[i], S) = i
      /\ Place(n, S) \in 1 .. c /\ s[Place(n, S)] = n
  BY DirectoryType, SortedPlaces
<1>2. /\ g[n] = b /\ g = [m \in S |-> g[m]] /\ \A m \in S : g[m] \in B
      /\ DOMAIN g = S /\ \A m \in S \ {n} : g[m] = f[m]
  <2>1. S \cup {n} = S
    OBVIOUS
  <2>2. g = [m \in S |-> IF m = n THEN b ELSE f[m]]
    BY <2>1 DEF Holding
  <2> QED BY <1>1, <2>2
<1> HIDE DEF g
<1>3. g \in Directory(B)
  BY <1>1, <1>2, DirectoryType
<1>4. Place(n, S) = c
  <2> SUFFICES ASSUME Place(n, S) # c PROVE FALSE
    OBVIOUS
  <2>1. c \in 1 .. c /\ Place(n, S) < c
    BY <1>1
  <2>2. s[c] \in S /\ Place(s[c], S) = c /\ s[c] # n
    BY <1>1, <2>1
  <2>3. SortsFirst(s[c], n)
    BY <2>2 DEF LastOf
  <2>4. Place(s[c], S) < Place(n, S)
    <3> HIDE DEF s
    <3> QED BY <1>1, <2>2, <2>3, PlaceRises
  <2> QED BY <1>1, <2>1, <2>2, <2>4
<1>5. s[c] = n /\ c >= 1
  BY <1>1, <1>4
<1>6. ASSUME NEW i \in 1 .. c, i # c PROVE s[i] \in S \ {n}
  BY <1>1, <1>4, <1>6
<1>7. /\ p \in Seq(B) /\ Len(p) = c /\ \A i \in 1 .. c : p[i] = f[s[i]]
      /\ q \in Seq(B) /\ Len(q) = c /\ \A i \in 1 .. c : q[i] = g[s[i]]
  BY <1>2, <1>3, ContentsType
<1> HIDE DEF p, q, c, s, S
<1>8. r \in Seq(B) /\ Len(r) = c /\ r[c] = b /\ \A i \in 1 .. c : i # c => r[i] = p[i]
  BY <1>1, <1>5, <1>7
<1>9. \A i \in 1 .. c : q[i] = r[i]
  <2> SUFFICES ASSUME NEW i \in 1 .. c PROVE q[i] = r[i]
    OBVIOUS
  <2>1. CASE i = c
    BY <1>2, <1>5, <1>7, <1>8, <2>1
  <2>2. CASE i # c
    <3>1. s[i] \in DOMAIN f \ {n}
      BY <1>6, <2>2 DEF S
    <3> HIDE DEF r
    <3> QED BY <1>2, <1>7, <1>8, <2>2, <3>1 DEF S
  <2> QED BY <2>1, <2>2
<1>10. q = r
  <2> HIDE DEF r
  <2> QED BY <1>7, <1>8, <1>9, SeqEqual
<1>11. p # <<>>
  BY <1>1, <1>5, <1>7
<1> QED BY <1>3, <1>10, <1>11 DEF g, p, q, r

-----------------------------------------------------------------------------
(* Types.                                                                   *)

\* What a file can hold.
Stored == Bodies \cup {Torn}

(***************************************************************************)
(* Sizes are numbers because the files have finitely many events and       *)
(* enforceLimit's total, while its loop runs, is the weight of the files   *)
(* whose names it still has to look at, which are those of the directory.  *)
(***************************************************************************)
DiskInv ==
  /\ TypeOK
  /\ files \in Directory(Stored)
  /\ before \in Seq(Stored)
  /\ pc \in {"limit", "write"} => data \in Bodies
  /\ pc = "limit" => list = Names /\ size = Size

LEMMA StoredType ==
  /\ Stored \subseteq Body
  /\ \A b \in Stored : Weight(b) \in Nat /\ Weight(b) >= 1
  /\ \A q \in Seq(Stored) : q \in Seq(Body) /\ Weighed(q)
<1>1. ASSUME NEW b \in Stored PROVE b \in Body /\ IsFiniteSet(b.events)
  <2>1. Torn \in Body /\ Torn.events = {}
    BY DEF Torn, Body, BodyKind
  <2> QED BY <2>1, DiskQueueAssumption, FS_EmptySet DEF Stored
<1>2. ASSUME NEW b \in Stored PROVE Weight(b) \in Nat /\ Weight(b) >= 1
  <2>1. Cardinality(b.events) \in Nat
    BY <1>1, FS_CardinalityType
  <2> QED BY <2>1 DEF Weight
<1>3. ASSUME NEW q \in Seq(Stored) PROVE q \in Seq(Body) /\ Weighed(q)
  <2>1. \A i \in 1 .. Len(q) : q[i] \in Stored
    OBVIOUS
  <2>2. q \in Seq(Body)
    BY <1>1
  <2> QED BY <1>2, <2>1, <2>2 DEF Weighed
<1> QED BY <1>1, <1>2, <1>3

\* The model's operators are those of a directory.
LEMMA Listing ==
  /\ Names = Sorted(DOMAIN files) /\ Contents = ContentsOf(files)
  /\ Names' = Sorted(DOMAIN files') /\ Contents' = ContentsOf(files')
  /\ \A n : Without(n) = [m \in DOMAIN files \ {n} |-> files[m]]
  /\ \A n, b : With(n, b) = Holding(files, n, b)
  /\ Size = WeightFrom(Contents, 1) /\ Size' = WeightFrom(Contents', 1)
BY DEF Names, Contents, ContentsOf, Without, With, Holding, Size

\* The names and the contents that DiskInv promises.
LEMMA ListingType ==
  ASSUME DiskInv
  PROVE  /\ Contents \in Seq(Stored) /\ Names \in Seq(Clock)
         /\ Size \in Nat /\ DOMAIN files \subseteq Clock
         /\ Names # <<>> <=> Contents # <<>>
         /\ Names # <<>> => /\ Names[1] \in DOMAIN files
                            /\ files[Names[1]] = Head(Contents)
<1>1. files \in Directory(Stored) /\ DOMAIN files \subseteq Clock
  BY DEF DiskInv, TypeOK
<1>2. Contents \in Seq(Stored) /\ Names \in Seq(DOMAIN files)
  BY <1>1, Listing, ContentsType
<1>3. Names \in Seq(Clock)
  <2>1. \A i \in 1 .. Len(Names) : Names[i] \in DOMAIN files
    BY <1>2
  <2> QED BY <1>1, <1>2, <2>1
<1>4. Size \in Nat
  <2>1. Contents \in Seq(Body) /\ Weighed(Contents) /\ Len(Contents) \in Nat
    BY <1>2, StoredType
  <2>2. 1 \in 1 .. Len(Contents) + 1
    BY <2>1
  <2> QED BY <2>1, <2>2, WeightSteps, Listing
<1>5. Names # <<>> <=> Contents # <<>>
  BY <1>1, Listing, ContentsEmpty
<1>6. ASSUME Names # <<>>
      PROVE  Names[1] \in DOMAIN files /\ files[Names[1]] = Head(Contents)
  <2>1. Sorted(DOMAIN files) # <<>>
    BY <1>6, Listing
  <2>2. /\ Sorted(DOMAIN files)[1] \in DOMAIN files
        /\ files[Sorted(DOMAIN files)[1]] = Head(ContentsOf(files))
    BY <1>1, <2>1, FirstLeaves
  <2> QED BY <2>2, Listing
<1> QED BY <1>1, <1>2, <1>3, <1>4, <1>5, <1>6

\* What is left when the first file goes.
LEMMA FirstGoes ==
  ASSUME DiskInv, NEW n, Names # <<>>, n = Names[1], files' = Without(n)
  PROVE  /\ files' \in Directory(Stored)
         /\ DOMAIN files' = DOMAIN files \ {n}
         /\ Names' = Tail(Names)
         /\ Contents # <<>> /\ Contents' = Tail(Contents)
<1> DEFINE s == Sorted(DOMAIN files)
           g == [m \in DOMAIN files \ {s[1]} |-> files[m]]
<1>1. files \in Directory(Stored) /\ s # <<>> /\ s = Names
  BY Listing DEF DiskInv
<1>2. g \in Directory(Stored) /\ Sorted(DOMAIN g) = Tail(s)
      /\ ContentsOf(g) = Tail(ContentsOf(files)) /\ ContentsOf(files) # <<>>
  BY <1>1, FirstLeaves
<1>3. DOMAIN g = DOMAIN files \ {s[1]}
  OBVIOUS
<1>4. files' = g
  BY <1>1, Listing
<1> HIDE DEF g, s
<1> QED BY <1>1, <1>2, <1>3, <1>4, Listing

\* A directory in which one file, old or new, now holds b.
LEMMA OneHolds ==
  ASSUME files \in Directory(Stored), NEW n \in Nat, NEW b \in Stored,
         NEW S, S = DOMAIN files \cup {n},
         files' = [m \in S |-> IF m = n THEN b ELSE files[m]]
  PROVE  files' \in Directory(Stored) /\ DOMAIN files' = S
<1> DEFINE g == [m \in S |-> IF m = n THEN b ELSE files[m]]
<1>1. /\ DOMAIN files \subseteq Nat /\ IsFiniteSet(DOMAIN files)
      /\ \A m \in DOMAIN files : files[m] \in Stored
  BY DirectoryType
<1>2. S \subseteq Nat /\ IsFiniteSet(S)
  BY <1>1, FS_AddElement
<1>3. g = [m \in S |-> g[m]] /\ DOMAIN g = S /\ \A m \in S : g[m] \in Stored
  BY <1>1
<1>4. files' = g
  OBVIOUS
<1> HIDE DEF g
<1>5. g \in Directory(Stored)
  BY <1>2, <1>3, DirectoryType
<1> QED BY <1>3, <1>4, <1>5

\* The two ways an operation writes a file.
LEMMA Writing ==
  ASSUME DiskInv, NEW n \in Clock, NEW b \in Stored
  PROVE  /\ files' = With(n, b) =>
              files' \in Directory(Stored) /\ DOMAIN files' = DOMAIN files \cup {n}
         /\ n \in DOMAIN files /\ files' = [files EXCEPT ![n] = b] =>
              files' = With(n, b)
         /\ n \notin DOMAIN files /\ files' = [files EXCEPT ![n] = b] =>
              files' = files
<1>1. n \in Nat /\ files \in Directory(Stored)
  BY DiskQueueAssumption DEF DiskInv
<1>2. files = [m \in DOMAIN files |-> files[m]]
  BY <1>1, DirectoryType
<1>3. ASSUME files' = With(n, b)
      PROVE  files' \in Directory(Stored) /\ DOMAIN files' = DOMAIN files \cup {n}
  BY <1>1, <1>3, OneHolds DEF With
<1>4. ASSUME n \in DOMAIN files, files' = [files EXCEPT ![n] = b]
      PROVE  files' = With(n, b)
  <2>1. DOMAIN files \cup {n} = DOMAIN files
    BY <1>4
  <2>2. files' = [m \in DOMAIN files |-> IF m = n THEN b ELSE files[m]]
    BY <1>4
  <2> QED BY <2>1, <2>2 DEF With
<1>5. ASSUME n \notin DOMAIN files, files' = [files EXCEPT ![n] = b]
      PROVE  files' = files
  BY <1>2, <1>5
<1> QED BY <1>3, <1>4, <1>5

-----------------------------------------------------------------------------

LEMMA DiskInvInit == Init => DiskInv
<1> SUFFICES ASSUME Init PROVE DiskInv
  OBVIOUS
<1> USE DEF Init
<1>1. TypeOK
  BY DEF TypeOK
<1>2. files \in Directory(Stored)
  <2>1. DOMAIN files = {}
    OBVIOUS
  <2>2. files = [n \in {} |-> files[n]]
    OBVIOUS
  <2> QED BY <2>1, <2>2, FS_EmptySet, DirectoryType
<1> QED BY <1>1, <1>2 DEF DiskInv

\* A body read from the queue, and the old contents, are as they should be.
LEMMA EnqueueTyped == ASSUME DiskInv, NEW b \in Bodies, Enqueue(b) PROVE DiskInv'
<1>1. Contents \in Seq(Stored) /\ Names \in Seq(Clock) /\ Size \in Nat
  BY ListingType
<1>2. Contents \in Seq(Body) /\ b \in Body
  BY <1>1, StoredType, DiskQueueAssumption
<1>3. Names' = Names /\ Size' = Size
  BY Listing DEF Enqueue
<1>4. TypeOK'
  BY <1>1, <1>2 DEF DiskInv, TypeOK, Enqueue
<1> QED BY <1>1, <1>3, <1>4 DEF DiskInv, Enqueue

LEMMA RemoveOldestTyped == ASSUME DiskInv, RemoveOldest PROVE DiskInv'
<1>1. pc = "limit" /\ list = Names /\ size = Size /\ Names # <<>>
  BY DEF DiskInv, RemoveOldest, TooMuch
<1>2. Names \in Seq(Clock) /\ Contents \in Seq(Stored)
  BY ListingType
<1>3. Head(Names) = Names[1]
  BY <1>2
<1>4. files' = Without(Names[1])
  BY <1>1, <1>3 DEF RemoveOldest
<1>5. /\ files' \in Directory(Stored) /\ DOMAIN files' \subseteq DOMAIN files
      /\ Names' = Tail(Names) /\ Contents # <<>> /\ Contents' = Tail(Contents)
  BY <1>1, <1>4, FirstGoes
<1>6. Size = Weight(Head(Contents)) + Size' /\ Size' \in Nat
  <2> DEFINE q == Contents
             r == Tail(q)
  <2>1. q \in Seq(Body) /\ Weighed(q) /\ q # <<>>
    BY <1>2, <1>5, StoredType
  <2> HIDE DEF q
  <2>2. /\ Len(q) \in Nat /\ 1 \in 0 .. Len(q) /\ 1 \in 1 .. Len(q) /\ 1 + 1 \in 1 .. Len(q) + 1
        /\ r \in Seq(Body) /\ Len(r) = Len(q) - 1 /\ \A i \in 1 .. Len(r) : r[i] = q[i + 1]
        /\ 1 \in 1 .. Len(r) + 1 /\ Head(q) = q[1]
    BY <2>1
  <2>3. WeightFrom(q, 1) = Weight(q[1]) + WeightFrom(q, 1 + 1) /\ WeightFrom(q, 1 + 1) \in Nat
    BY <2>1, <2>2, WeightSteps
  <2> HIDE DEF r
  <2>4. WeightFrom(r, 1) = WeightFrom(q, 1 + 1)
    BY <2>1, <2>2, SuffixWeight
  <2> QED BY <1>5, <2>2, <2>3, <2>4, Listing DEF q, r
<1>7. size' = Size'
  <2>1. files[Head(list)] = Head(Contents)
    BY <1>1, <1>3, ListingType
  <2>2. Weight(Head(Contents)) \in Nat
    BY <1>2, <1>5, StoredType
  <2>3. size' = Size - Weight(Head(Contents))
    BY <1>1, <2>1 DEF RemoveOldest
  <2> QED BY <1>6, <2>2, <2>3
<1>8. list' = Names' /\ list' \in Seq(Clock)
  BY <1>1, <1>2, <1>5 DEF RemoveOldest
<1>9. \A n \in DOMAIN files' : files'[n] \in Body
  BY <1>5, StoredType, DirectoryType
<1>10. TypeOK'
  BY <1>5, <1>6, <1>7, <1>8, <1>9 DEF DiskInv, TypeOK, RemoveOldest
<1> QED BY <1>5, <1>7, <1>8, <1>10 DEF DiskInv, RemoveOldest

\* A new or rewritten file.
LEMMA WritingTyped ==
  ASSUME DiskInv, NEW n \in Clock, NEW b \in Stored,
         files' = With(n, b) \/ files' = [files EXCEPT ![n] = b]
  PROVE  /\ files' \in Directory(Stored) /\ DOMAIN files' \subseteq Clock
         /\ \A m \in DOMAIN files' : files'[m] \in Body
<1>1. files \in Directory(Stored) /\ DOMAIN files \subseteq Clock
  BY DEF DiskInv, TypeOK
<1>2. files' \in Directory(Stored) /\ DOMAIN files' \subseteq Clock
  <2>1. CASE files' = With(n, b)
    BY <1>1, <2>1, Writing
  <2>2. CASE files' = [files EXCEPT ![n] = b]
    BY <1>1, <2>2, Writing
  <2> QED BY <2>1, <2>2
<1> QED BY <1>2, StoredType, DirectoryType

LEMMA CreateTyped == ASSUME DiskInv, Create PROVE DiskInv'
<1>1. now \in Clock /\ Torn \in Stored
  BY DEF DiskInv, TypeOK, Stored
<1>2. /\ files' \in Directory(Stored) /\ DOMAIN files' \subseteq Clock
      /\ \A m \in DOMAIN files' : files'[m] \in Body
  BY <1>1, WritingTyped DEF Create
<1>3. TypeOK'
  BY <1>1, <1>2 DEF DiskInv, TypeOK, Create
<1> QED BY <1>2, <1>3 DEF DiskInv, Create

LEMMA WriteTyped == ASSUME DiskInv, Write PROVE DiskInv'
<1>1. name \in Clock /\ data \in Stored
  BY DEF DiskInv, TypeOK, Stored, Write
<1>2. /\ files' \in Directory(Stored) /\ DOMAIN files' \subseteq Clock
      /\ \A m \in DOMAIN files' : files'[m] \in Body
  BY <1>1, WritingTyped DEF Write
<1>3. TypeOK'
  BY <1>1, <1>2 DEF DiskInv, TypeOK, Write
<1> QED BY <1>2, <1>3 DEF DiskInv, Write

LEMMA ReadTyped == ASSUME DiskInv, Read PROVE DiskInv'
<1>1. /\ Contents \in Seq(Stored) /\ Contents # <<>> /\ Names[1] \in DOMAIN files
      /\ files[Names[1]] = Head(Contents) /\ DOMAIN files \subseteq Clock
  BY ListingType DEF Read
<1>2. Head(Contents) \in Stored /\ Contents \in Seq(Body) /\ Stored \subseteq Body
  BY <1>1, StoredType
<1>3. TypeOK'
  BY <1>1, <1>2 DEF DiskInv, TypeOK, Read
<1> QED BY <1>1, <1>3 DEF DiskInv, Read

LEMMA RemoveReadTyped == ASSUME DiskInv, RemoveRead PROVE DiskInv'
<1> DEFINE S == DOMAIN files \ {name}
           g == [m \in S |-> files[m]]
<1>1. files \in Directory(Stored) /\ DOMAIN files \subseteq Clock
  BY DEF DiskInv, TypeOK
<1>2. /\ DOMAIN files \subseteq Nat /\ IsFiniteSet(DOMAIN files)
      /\ \A m \in DOMAIN files : files[m] \in Stored
  BY <1>1, DirectoryType
<1>3. S \subseteq Nat /\ IsFiniteSet(S)
  BY <1>2, FS_RemoveElement
<1>4. g = [m \in DOMAIN g |-> g[m]] /\ DOMAIN g = S /\ \A m \in S : g[m] \in Stored
  BY <1>2
<1>5. files' = g
  BY Listing DEF RemoveRead
<1> HIDE DEF g
<1>6. g \in Directory(Stored)
  BY <1>3, <1>4, DirectoryType
<1>7. DOMAIN files' \subseteq Clock /\ \A m \in DOMAIN files' : files'[m] \in Body
  BY <1>1, <1>4, <1>5, StoredType
<1>8. TypeOK'
  BY <1>7 DEF DiskInv, TypeOK, RemoveRead
<1> QED BY <1>5, <1>6, <1>8 DEF DiskInv, RemoveRead

\* The steps that leave the files alone and stop the operation, or move the clock.
LEMMA OthersTyped ==
  ASSUME DiskInv, WriteFails \/ Crash \/ ClockMoves \/ UNCHANGED vars
  PROVE  DiskInv'
<1>1. CASE WriteFails \/ Crash
  <2>1. /\ pc' = "idle" /\ data' = NoData /\ list' = <<>> /\ size' = 0
        /\ UNCHANGED <<now, files, name, before>>
    BY <1>1 DEF WriteFails, Crash
  <2>2. TypeOK'
    BY <2>1 DEF DiskInv, TypeOK
  <2> QED BY <2>1, <2>2 DEF DiskInv
<1>2. CASE ClockMoves \/ UNCHANGED vars
  <2>1. Names' = Names /\ Size' = Size
    BY <1>2, Listing DEF ClockMoves, vars
  <2>2. TypeOK'
    BY <1>2 DEF DiskInv, TypeOK, ClockMoves, vars
  <2> QED BY <1>2, <2>1, <2>2 DEF DiskInv, ClockMoves, vars
<1> QED BY <1>1, <1>2

LEMMA DiskInvStep == ASSUME DiskInv, [Next]_vars PROVE DiskInv'
BY EnqueueTyped, RemoveOldestTyped, CreateTyped, WriteTyped, ReadTyped,
   RemoveReadTyped, OthersTyped DEF Next

\* enforceLimit's total never goes below zero and is the size of the directory,
\* and what the directory holds are bodies the agent enqueued, or torn ones.
THEOREM TotalsAreRight == Spec => []DiskInv
BY DiskInvInit, DiskInvStep, PTL DEF Spec

\* The queue's variables keep their types, the names they stand for and the
\* contents they describe, whatever the clock does and wherever it is killed.
THEOREM TypeCorrect == Spec => []TypeOK
BY TotalsAreRight, PTL DEF DiskInv

-----------------------------------------------------------------------------
(* Order.                                                                   *)

(***************************************************************************)
(* UnixNano has 19 digits from September 2001 to April 2286, so the order  *)
(* of the names is that of the moments they stand for.                     *)
(***************************************************************************)
SameWidth == \A m, n \in Clock : Len(Digits[m]) = Len(Digits[n])

(***************************************************************************)
(* While the clock never steps back no file has a name from the future.    *)
(* So the file being written is the last; the one being removed is the     *)
(* first.                                                                  *)
(***************************************************************************)
OrderInv ==
  /\ StepsAddUp
  /\ \A n \in DOMAIN files : n <= now
  /\ pc = "write" => name \in DOMAIN files /\ LastOf(name, DOMAIN files)
  /\ pc = "remove" => Names # <<>> /\ name = Names[1]

\* One turn of enforceLimit's loop, or its end, by what is left.
LEMMA OneTurn ==
  ASSUME NEW q \in Seq(Body), Weighed(q), NEW r \in Limiting(q)
  PROVE  /\ (WeightFrom(r, 1) > MaxQueue /\ r # <<>>) => Tail(r) \in Limiting(q)
         /\ (WeightFrom(r, 1) > MaxQueue /\ r # <<>>) \/ r = Limit(q)
<1> DEFINE e == Excess(q)
           n == Len(q)
<1>1. /\ e \in 0 .. n /\ n \in Nat /\ MaxQueue \in Nat
      /\ \A i \in 1 .. e : WeightFrom(q, i) > MaxQueue
      /\ WeightFrom(q, e + 1) <= MaxQueue
  BY ExcessSplits, QueueAssumption
<1>2. PICK k \in 0 .. e : r = SubSeq(q, k + 1, n)
  BY DEF Limiting
<1>3. /\ r \in Seq(Body) /\ Len(r) = n - k /\ k \in 0 .. n /\ k \in Int
      /\ \A i \in 1 .. Len(r) : r[i] = q[i + k]
  BY <1>1, <1>2
<1>4. \A i \in 1 .. n + 1 : WeightFrom(q, i) \in Nat
  BY WeightSteps
<1>5. WeightFrom(r, 1) = WeightFrom(q, k + 1) /\ WeightFrom(r, 1) \in Nat
  <2> HIDE DEF e, n
  <2>1. 1 \in 1 .. Len(r) + 1 /\ 1 + k = k + 1 /\ k + 1 \in 1 .. n + 1
    BY <1>1, <1>3
  <2>2. WeightFrom(r, 1) = WeightFrom(q, 1 + k)
    BY <1>3, <2>1, SuffixWeight DEF n
  <2> QED BY <1>4, <2>1, <2>2
<1>6. WeightFrom(r, 1) > MaxQueue <=> k # e
  <2> HIDE DEF n
  <2>1. CASE k = e
    BY <1>1, <1>5, <2>1
  <2>2. CASE k # e
    <3>1. k + 1 \in 1 .. e
      BY <1>1, <2>2
    <3> QED BY <1>1, <1>5, <2>2, <3>1
  <2> QED BY <2>1, <2>2
<1>7. ASSUME k # e, r # <<>> PROVE Tail(r) \in Limiting(q)
  <2> HIDE DEF e, n
  <2>1. k + 1 \in 0 .. e /\ (k + 1) + 1 \in Nat
    BY <1>1, <1>3, <1>7
  <2>2. Tail(r) = SubSeq(q, (k + 1) + 1, n)
    <3> DEFINE s == SubSeq(q, (k + 1) + 1, n)
               t == Tail(r)
    <3>1. /\ s \in Seq(Body) /\ Len(s) = n - (k + 1)
          /\ \A i \in 1 .. n - (k + 1) : s[i] = q[i + (k + 1)]
      BY <1>1, <1>3, <2>1 DEF n
    <3>2. /\ t \in Seq(Body) /\ Len(t) = n - (k + 1)
          /\ \A i \in 1 .. n - (k + 1) : t[i] = r[i + 1]
      BY <1>1, <1>3, <1>7
    <3>3. \A i \in 1 .. n - (k + 1) : i + 1 \in 1 .. Len(r) /\ (i + 1) + k = i + (k + 1)
      BY <1>1, <1>3
    <3> HIDE DEF s, t
    <3>4. \A i \in 1 .. Len(s) : s[i] = t[i]
      BY <1>3, <3>1, <3>2, <3>3
    <3>5. s = t
      BY <3>1, <3>2, <3>4, SeqEqual
    <3> QED BY <3>5 DEF s, t
  <2> QED BY <2>1, <2>2 DEF Limiting, e, n
<1>8. k = e => r = Limit(q)
  BY <1>2 DEF Limit
<1>9. r = <<>> => k = e
  <2> HIDE DEF e, n
  <2>1. r = <<>> => Len(r) = 0
    OBVIOUS
  <2> QED BY <1>1, <1>3, <2>1
<1> QED BY <1>6, <1>7, <1>8, <1>9

\* Later names sort after earlier ones.
LEMMA LaterIsLast ==
  ASSUME SameWidth, NEW S \in SUBSET Clock, NEW n \in Clock, \A m \in S : m <= n
  PROVE  LastOf(n, S)
<1> SUFFICES ASSUME NEW m \in S \ {n} PROVE SortsFirst(m, n)
  BY DEF LastOf
<1>1. m \in Nat /\ n \in Nat /\ m \in Clock /\ m <= n /\ m # n
  BY DiskQueueAssumption
<1>2. m < n /\ Len(Digits[m]) = Len(Digits[n])
  BY <1>1 DEF SameWidth
<1> QED BY <1>1, <1>2, DigitsOrder, SortsBefore

\* Writing the file with the last name, old or new, changes the end of the queue.
LEMMA LastWritten ==
  ASSUME DiskInv, NEW n \in Clock, NEW b \in Stored, LastOf(n, DOMAIN files),
         files' = With(n, b)
  PROVE  /\ n \notin DOMAIN files => Contents' = Append(Contents, b)
         /\ n \in DOMAIN files =>
              Contents # <<>> /\ Contents' = [Contents EXCEPT ![Len(Contents)] = b]
         /\ n \in DOMAIN files' /\ LastOf(n, DOMAIN files')
<1>1. files \in Directory(Stored) /\ n \in Nat
  BY DiskQueueAssumption DEF DiskInv
<1>2. files' = Holding(files, n, b)
  BY Listing
<1>3. ASSUME n \notin DOMAIN files PROVE Contents' = Append(Contents, b)
  <2>1. n \in Nat \ DOMAIN files
    BY <1>1, <1>3
  <2>2. ContentsOf(Holding(files, n, b)) = Append(ContentsOf(files), b)
    BY <1>1, <2>1, LastJoins
  <2> QED BY <1>2, <2>2, Listing
<1>6. ASSUME n \in DOMAIN files
      PROVE  Contents # <<>> /\ Contents' = [Contents EXCEPT ![Len(Contents)] = b]
  <2>1. /\ ContentsOf(files) # <<>>
        /\ ContentsOf(Holding(files, n, b)) =
             [ContentsOf(files) EXCEPT ![Len(ContentsOf(files))] = b]
    BY <1>1, <1>6, LastChanges
  <2> QED BY <1>2, <2>1, Listing
<1>4. DOMAIN files' = DOMAIN files \cup {n}
  BY DEF With
<1>5. DOMAIN files' \ {n} = DOMAIN files \ {n}
  BY <1>4
<1> QED BY <1>3, <1>4, <1>5, <1>6 DEF LastOf

-----------------------------------------------------------------------------
(* Every step keeps the order, and changes the queue as Fifo allows.        *)

LEMMA OrderInit == Init => OrderInv /\ Contents = <<>>
<1> SUFFICES ASSUME Init PROVE OrderInv /\ Contents = <<>>
  OBVIOUS
<1>1. Contents = <<>>
  <2>1. DiskInv
    BY DiskInvInit
  <2>2. files \in Directory(Stored) /\ DOMAIN files = {}
    BY <2>1 DEF DiskInv, Init
  <2> QED BY <2>2, ContentsEmpty, Listing
<1>2. pc = "idle" /\ DOMAIN files = {}
  BY DEF Init
<1> QED BY <1>1, <1>2 DEF OrderInv, StepsAddUp

\* While the loop runs: the files it looks at are those it will keep, and more.
LEMMA Remaining ==
  ASSUME DiskInv, OrderInv, pc = "limit"
  PROVE  /\ before \in Seq(Body) /\ Weighed(before) /\ Contents \in Limiting(before)
         /\ size = WeightFrom(Contents, 1) /\ (list = <<>> <=> Contents = <<>>)
<1>1. before \in Seq(Body) /\ Weighed(before)
  BY StoredType DEF DiskInv
<1>2. Contents \in Limiting(before)
  BY DEF OrderInv, StepsAddUp
<1>3. size = Size /\ list = Names
  BY DEF DiskInv
<1> QED BY <1>1, <1>2, <1>3, Listing, ListingType

LEMMA EnqueueOrders ==
  ASSUME DiskInv, OrderInv, NEW b \in Bodies, Enqueue(b)
  PROVE  OrderInv' /\ Contents' = Contents
<1>1. Contents' = Contents /\ pc' = "limit" /\ before' = Contents
  BY Listing DEF Enqueue
<1>2. Contents \in Limiting(Contents)
  <2> DEFINE q == Contents
  <2>1. q \in Seq(Body)
    BY ListingType, StoredType
  <2> HIDE DEF q
  <2>2. Excess(q) \in 0 .. Len(q) /\ Len(q) \in Nat
    BY <2>1, ExcessRange
  <2>3. SubSeq(q, 0 + 1, Len(q)) = q
    BY <2>1
  <2>4. 0 \in 0 .. Excess(q)
    BY <2>2
  <2>5. q \in Limiting(q)
    BY <2>3, <2>4 DEF Limiting
  <2> QED BY <2>5 DEF q
<1>3. Contents' \in Limiting(before')
  BY <1>1, <1>2
<1>4. StepsAddUp'
  BY <1>1, <1>3 DEF StepsAddUp
<1> QED BY <1>1, <1>4 DEF OrderInv, Enqueue

LEMMA RemoveOldestOrders ==
  ASSUME DiskInv, OrderInv, RemoveOldest
  PROVE  OrderInv' /\ Contents # <<>> /\ Contents' = Tail(Contents)
<1>1. /\ pc = "limit" /\ list = Names /\ Names # <<>> /\ size > MaxQueue
      /\ pc' = "limit" /\ UNCHANGED <<now, before>>
  BY DEF DiskInv, RemoveOldest, TooMuch
<1>2. files' = Without(Names[1])
  <2>1. Names \in Seq(Clock)
    BY ListingType
  <2> QED BY <1>1, <2>1 DEF RemoveOldest
<1>3. Contents # <<>> /\ Contents' = Tail(Contents) /\ DOMAIN files' \subseteq DOMAIN files
  BY <1>1, <1>2, FirstGoes
<1>4. Contents' \in Limiting(before)
  BY <1>1, <1>3, Remaining, OneTurn
<1>5. StepsAddUp'
  BY <1>1, <1>4 DEF StepsAddUp
<1> QED BY <1>1, <1>3, <1>5 DEF OrderInv

\* The file of this moment's name is the last of the directory.
LEMMA CreateOrders ==
  ASSUME SameWidth, DiskInv, OrderInv, Create
  PROVE  /\ OrderInv'
         /\ \/ Contents' = Append(Contents, Torn)
            \/ Contents # <<>> /\ Contents' = [Contents EXCEPT ![Len(Contents)] = Torn]
<1>1. /\ pc = "limit" /\ ~(size > MaxQueue /\ list # <<>>)
      /\ pc' = "write" /\ name' = now /\ UNCHANGED <<now, before>>
      /\ files' = With(now, Torn)
  BY DEF Create, TooMuch
<1>2. /\ now \in Clock /\ Torn \in Stored /\ DOMAIN files \in SUBSET Clock
      /\ \A n \in DOMAIN files : n <= now
  BY DEF DiskInv, TypeOK, Stored, OrderInv
<1>3. LastOf(now, DOMAIN files)
  BY <1>2, LaterIsLast
<1>4. /\ now \notin DOMAIN files => Contents' = Append(Contents, Torn)
      /\ now \in DOMAIN files =>
           Contents # <<>> /\ Contents' = [Contents EXCEPT ![Len(Contents)] = Torn]
      /\ now \in DOMAIN files' /\ LastOf(now, DOMAIN files')
  BY <1>1, <1>2, <1>3, LastWritten
<1>5. Contents = Limit(before)
  BY <1>1, Remaining, OneTurn
<1>6. Contents' \in {Put(before, Torn)} \cup
        (IF Limit(before) = <<>> THEN {} ELSE {PutOver(before, Torn)})
  BY <1>4, <1>5 DEF Put, PutOver
<1>7. StepsAddUp'
  BY <1>1, <1>6 DEF StepsAddUp
<1>8. \A n \in DOMAIN files' : n <= now
  <2>1. now <= now
    BY <1>2, DiskQueueAssumption
  <2>2. DOMAIN files' = DOMAIN files \cup {now}
    BY <1>1 DEF With
  <2> QED BY <1>2, <2>1, <2>2
<1> QED BY <1>1, <1>4, <1>7, <1>8 DEF OrderInv

\* The file the operation has open is the last of the directory.
LEMMA WriteOrders ==
  ASSUME DiskInv, OrderInv, Write
  PROVE  /\ OrderInv' /\ data \in Bodies /\ Contents # <<>>
         /\ Contents' = [Contents EXCEPT ![Len(Contents)] = data]
<1>1. /\ pc = "write" /\ pc' = "saved" /\ UNCHANGED <<now, data, name, before>>
      /\ files' = [files EXCEPT ![name] = data]
      /\ data \in Bodies /\ data \in Stored /\ name \in Clock
      /\ name \in DOMAIN files /\ LastOf(name, DOMAIN files)
      /\ before \in Seq(Body)
  BY StoredType DEF Write, DiskInv, TypeOK, Stored, OrderInv
<1>2. files' = With(name, data)
  BY <1>1, Writing
<1>3. Contents # <<>> /\ Contents' = [Contents EXCEPT ![Len(Contents)] = data]
  BY <1>1, <1>2, LastWritten
<1>4. Contents' \in {Put(before, data)} \cup
        (IF Limit(before) = <<>> THEN {} ELSE {PutOver(before, data)})
  <2> DEFINE r == Limit(before)
             n == Len(r)
  <2>1. r \in Seq(Body) /\ n \in Nat
    BY <1>1, LimitIsSuffix
  <2>2. Torn \in Body /\ data \in Body
    BY <1>1, StoredType DEF Stored
  <2>3. Contents = Append(r, Torn) \/ (r # <<>> /\ Contents = [r EXCEPT ![n] = Torn])
    BY <1>1 DEF OrderInv, StepsAddUp, Put, PutOver
  <2> HIDE DEF r
  <2>4. CASE Contents = Append(r, Torn)
    <3>1. Len(Contents) = n + 1
      BY <2>1, <2>2, <2>4
    <3>2. [Append(r, Torn) EXCEPT ![n + 1] = data] = Append(r, data)
      <4> DEFINE s == Append(r, Torn)
                 t == [s EXCEPT ![n + 1] = data]
                 u == Append(r, data)
      <4>1. /\ s \in Seq(Body) /\ Len(s) = n + 1 /\ \A i \in 1 .. n : s[i] = r[i]
            /\ u \in Seq(Body) /\ Len(u) = n + 1 /\ \A i \in 1 .. n : u[i] = r[i]
            /\ u[n + 1] = data
        BY <2>1, <2>2
      <4> HIDE DEF s, u, n
      <4>2. /\ t \in Seq(Body) /\ Len(t) = n + 1 /\ t[n + 1] = data
            /\ \A i \in 1 .. n : t[i] = s[i]
        BY <2>1, <2>2, <4>1
      <4> HIDE DEF t
      <4>3. \A i \in 1 .. Len(t) : t[i] = u[i]
        BY <2>1, <4>1, <4>2
      <4>4. t = u
        BY <4>1, <4>2, <4>3, SeqEqual
      <4> QED BY <4>4 DEF t, s, u
    <3>3. Contents' = Append(r, data)
      BY <1>3, <2>4, <3>1, <3>2
    <3> QED BY <3>3 DEF Put, r
  <2>5. CASE r # <<>> /\ Contents = [r EXCEPT ![n] = Torn]
    <3>1. Len(Contents) = n
      BY <2>1, <2>2, <2>5
    <3>2. Contents' = [r EXCEPT ![n] = data]
      BY <1>3, <2>1, <2>5, <3>1
    <3> QED BY <2>5, <3>2 DEF PutOver, r
  <2> QED BY <2>3, <2>4, <2>5
<1>5. StepsAddUp'
  BY <1>1, <1>4 DEF StepsAddUp
<1>6. \A n \in DOMAIN files' : n <= now
  BY <1>1 DEF OrderInv
<1> QED BY <1>1, <1>3, <1>5, <1>6 DEF OrderInv

LEMMA ReadOrders ==
  ASSUME DiskInv, OrderInv, Read
  PROVE  OrderInv' /\ Contents' = Contents
<1>1. /\ Names # <<>> /\ name' = Names[1] /\ data' = files[Names[1]] /\ before' = Contents
      /\ pc' = "remove" /\ UNCHANGED <<now, files>>
  BY DEF Read
<1>2. Contents' = Contents /\ Names' = Names
  BY <1>1, Listing
<1>3. files[Names[1]] = Head(Contents)
  BY <1>1, ListingType
<1>4. StepsAddUp'
  BY <1>1, <1>2, <1>3 DEF StepsAddUp
<1> QED BY <1>1, <1>2, <1>4 DEF OrderInv

LEMMA RemoveReadOrders ==
  ASSUME DiskInv, OrderInv, RemoveRead
  PROVE  OrderInv' /\ Contents # <<>> /\ Contents' = Tail(Contents)
<1>1. /\ pc = "remove" /\ pc' = "taken" /\ UNCHANGED <<now, before>>
      /\ files' = Without(name) /\ Names # <<>> /\ name = Names[1]
      /\ Contents = before
  BY DEF RemoveRead, OrderInv, StepsAddUp
<1>2. Contents # <<>> /\ Contents' = Tail(Contents) /\ DOMAIN files' \subseteq DOMAIN files
  BY <1>1, FirstGoes
<1>3. StepsAddUp'
  BY <1>1, <1>2 DEF StepsAddUp
<1> QED BY <1>1, <1>2, <1>3 DEF OrderInv

\* A failed write leaves what the model calls torn; so does a crash.
LEMMA OthersOrder ==
  ASSUME ~StepsBack, DiskInv, OrderInv,
         WriteFails \/ Crash \/ ClockMoves \/ UNCHANGED vars
  PROVE  OrderInv' /\ Contents' = Contents
<1>1. CASE WriteFails \/ Crash
  <2>1. pc' = "idle" /\ UNCHANGED <<now, files, name, before>>
    BY <1>1 DEF WriteFails, Crash
  <2>2. StepsAddUp'
    BY <2>1 DEF StepsAddUp
  <2> QED BY <2>1, <2>2, Listing DEF OrderInv
<1>2. CASE ClockMoves \/ UNCHANGED vars
  <2>1. UNCHANGED <<files, pc, data, name, size, list, before>>
    BY <1>2 DEF ClockMoves, vars
  <2>2. Contents' = Contents /\ Names' = Names
    BY <2>1, Listing
  <2>3. StepsAddUp'
    BY <2>1, <2>2 DEF OrderInv, StepsAddUp
  <2>4. now \in Nat /\ now' \in Nat /\ now <= now'
    BY <1>2, DiskQueueAssumption DEF ClockMoves, vars, DiskInv, TypeOK
  <2>5. DOMAIN files \subseteq Nat
    BY DiskQueueAssumption DEF DiskInv, TypeOK
  <2>6. \A n \in DOMAIN files' : n <= now'
    BY <2>1, <2>4, <2>5 DEF OrderInv
  <2> QED BY <2>1, <2>2, <2>3, <2>6 DEF OrderInv
<1> QED BY <1>1, <1>2

\* A step of the operations is a step of the queue, or none.
LEMMA OrderStep ==
  ASSUME SameWidth, ~StepsBack, DiskInv, OrderInv, [Next]_vars
  PROVE  OrderInv' /\ [Queue!Next]_Contents
<1> USE DEF Queue!Next, Queue!Add, Queue!Rewrite, Queue!Leave
<1>1. ASSUME NEW b \in Bodies, Enqueue(b) PROVE OrderInv' /\ [Queue!Next]_Contents
  BY <1>1, EnqueueOrders
<1>2. CASE RemoveOldest
  BY <1>2, RemoveOldestOrders
<1>3. CASE Create
  BY <1>3, CreateOrders
<1>4. CASE Write
  BY <1>4, WriteOrders
<1>5. CASE Read
  BY <1>5, ReadOrders
<1>6. CASE RemoveRead
  BY <1>6, RemoveReadOrders
<1>7. CASE WriteFails \/ Crash \/ ClockMoves \/ UNCHANGED vars
  BY <1>7, OthersOrder
<1> QED BY <1>1, <1>2, <1>3, <1>4, <1>5, <1>6, <1>7 DEF Next

LEMMA OrderAlways == ASSUME SameWidth, ~StepsBack PROVE Spec => [](DiskInv /\ OrderInv)
<1>1. Init => DiskInv /\ OrderInv
  BY DiskInvInit, OrderInit
<1>2. DiskInv /\ OrderInv /\ [Next]_vars => DiskInv' /\ OrderInv'
  BY DiskInvStep, OrderStep
<1> QED BY <1>1, <1>2, PTL DEF Spec

\* File operation by file operation, and cut short anywhere, Enqueue and Dequeue
\* do what OfflineQueue says they do at once, as long as the clock is not set
\* back and its readings have equally many digits.
THEOREM OperationsAddUp == ASSUME SameWidth, ~StepsBack PROVE Spec => []StepsAddUp
BY OrderAlways, PTL DEF OrderInv

\* Under the same conditions files leave in the order in which they were added.
THEOREM OrderIsKept == ASSUME SameWidth, ~StepsBack PROVE Spec => KeepsOrder
<1>1. Init => Queue!Init
  BY OrderInit DEF Queue!Init
<1>2. DiskInv /\ OrderInv /\ [Next]_vars => [Queue!Next]_Contents
  BY OrderStep
<1> QED BY <1>1, <1>2, OrderAlways, PTL DEF Spec, KeepsOrder, Queue!Spec
=============================================================================
