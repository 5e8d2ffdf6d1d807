-------------------------- MODULE OfflineQueueProofs --------------------------
(***************************************************************************)
(* What the queue operators of OfflineQueue keep, for every queue: which   *)
(* events are in the result, that files stay disjoint, and what they weigh.*)
(***************************************************************************)
EXTENDS OfflineQueue, Folds, SequenceTheorems, FiniteSetTheorems,
        WellFoundedInduction, TLAPS

\* enforceLimit removes at least no file and at most all of them.
LEMMA ExcessRange == \A q \in Seq(Body) : Excess(q) \in 0 .. Len(q)
<1> SUFFICES ASSUME NEW q \in Seq(Body) PROVE Excess(q) \in 0 .. Len(q)
  OBVIOUS
<1> DEFINE heavy == {i \in 1 .. Len(q) : WeightFrom(q, i) > MaxQueue}
<1>1. Len(q) \in Nat
  OBVIOUS
<1>2. IsFiniteSet(1 .. Len(q)) /\ Cardinality(1 .. Len(q)) = Len(q)
  BY <1>1, FS_Interval
<1>3. heavy \subseteq 1 .. Len(q)
  OBVIOUS
<1>4. Cardinality(heavy) \in Nat /\ Cardinality(heavy) <= Len(q)
  <2>1. IsFiniteSet(heavy) /\ Cardinality(heavy) <= Cardinality(1 .. Len(q))
    BY <1>2, <1>3, FS_Subset
  <2>2. Cardinality(heavy) \in Nat
    BY <2>1, FS_CardinalityType
  <2> QED BY <1>2, <2>1, <2>2
<1> QED BY <1>1, <1>4 DEF Excess

\* What enforceLimit leaves is a suffix of the queue.
LEMMA LimitIsSuffix ==
  ASSUME NEW q \in Seq(Body)
  PROVE  /\ Limit(q) \in Seq(Body)
         /\ Len(Limit(q)) = Len(q) - Excess(q)
         /\ \A i \in 1 .. Len(Limit(q)) :
              i + Excess(q) \in 1 .. Len(q) /\ Limit(q)[i] = q[i + Excess(q)]
<1>1. Excess(q) \in 0 .. Len(q) /\ Len(q) \in Nat
  BY ExcessRange
<1>2. \A i \in Excess(q) + 1 .. Len(q) : q[i] \in Body
  BY <1>1
<1>3. Limit(q) = [i \in 1 .. Len(q) - Excess(q) |-> q[i + Excess(q)]]
  BY <1>1 DEF Limit
<1>4. Limit(q) \in Seq(Body) /\ Len(Limit(q)) = Len(q) - Excess(q)
  <2> DEFINE n == Len(q) - Excess(q)
             f == [i \in 1 .. n |-> q[i + Excess(q)]]
  <2>1. n \in Nat
    BY <1>1
  <2>2. \A i \in 1 .. n : q[i + Excess(q)] \in Body
    BY <1>1, <1>2
  <2> HIDE DEF n
  <2>3. f \in Seq(Body) /\ Len(f) = n
    BY <2>1, <2>2, IsASeq
  <2> QED BY <1>3, <2>3 DEF n
<1> QED BY <1>1, <1>3, <1>4

\* enforceLimit adds no event and keeps the files disjoint.
LEMMA LimitKeeps ==
  ASSUME NEW q \in Seq(Body)
  PROVE  /\ Limit(q) \in Seq(Body)
         /\ EventsIn(Limit(q)) \subseteq EventsIn(q)
         /\ Disjoint(q) => Disjoint(Limit(q))
<1>1. Len(q) \in Nat /\ DOMAIN q = 1 .. Len(q) /\ Excess(q) \in 0 .. Len(q)
  BY ExcessRange
<1>2. /\ Limit(q) \in Seq(Body)
      /\ DOMAIN Limit(q) = 1 .. Len(Limit(q)) /\ Len(Limit(q)) \in Nat
      /\ \A i \in DOMAIN Limit(q) :
           i + Excess(q) \in DOMAIN q /\ Limit(q)[i] = q[i + Excess(q)]
  <2>1. /\ Limit(q) \in Seq(Body)
        /\ \A i \in 1 .. Len(Limit(q)) :
             i + Excess(q) \in 1 .. Len(q) /\ Limit(q)[i] = q[i + Excess(q)]
    BY LimitIsSuffix
  <2>2. DOMAIN Limit(q) = 1 .. Len(Limit(q)) /\ Len(Limit(q)) \in Nat
    BY <2>1
  <2> QED BY <1>1, <2>1, <2>2
<1>3. EventsIn(Limit(q)) \subseteq EventsIn(q)
  BY <1>2 DEF EventsIn
<1>4. ASSUME Disjoint(q) PROVE Disjoint(Limit(q))
  BY <1>1, <1>2, <1>4 DEF Disjoint
<1> QED BY <1>2, <1>3, <1>4

\* Whatever enforceLimit's loop has removed so far, the rest is a suffix too.
LEMMA LimitingKeeps ==
  ASSUME NEW q \in Seq(Body), NEW r \in Limiting(q)
  PROVE  /\ r \in Seq(Body)
         /\ EventsIn(r) \subseteq EventsIn(q)
         /\ Disjoint(q) => Disjoint(r)
<1>1. Len(q) \in Nat /\ DOMAIN q = 1 .. Len(q) /\ Excess(q) \in 0 .. Len(q)
  BY ExcessRange
<1>2. PICK k \in 0 .. Excess(q) : r = SubSeq(q, k + 1, Len(q))
  BY DEF Limiting
<1> DEFINE n == Len(q) - k
<1>3. n \in Nat /\ \A i \in 1 .. n : i + k \in 1 .. Len(q) /\ q[i + k] \in Body
  BY <1>1
<1>4. r = [i \in 1 .. n |-> q[i + k]]
  <2>1. k \in Nat /\ k <= Len(q)
    BY <1>1
  <2>2. r = [i \in 1 .. Len(q) - k |-> q[i + k]]
    BY <1>1, <1>2, <2>1
  <2> QED BY <2>2
<1> HIDE DEF n
<1>5. r \in Seq(Body) /\ Len(r) = n /\ DOMAIN r = 1 .. n
  BY <1>3, <1>4, IsASeq
<1>6. EventsIn(r) \subseteq EventsIn(q)
  BY <1>1, <1>3, <1>4, <1>5 DEF EventsIn
<1>7. ASSUME Disjoint(q) PROVE Disjoint(r)
  <2> SUFFICES ASSUME NEW i \in 1 .. n, NEW j \in 1 .. n, i # j
               PROVE  r[i].events \cap r[j].events = {}
    BY <1>5 DEF Disjoint
  <2>1. r[i] = q[i + k] /\ r[j] = q[j + k]
    BY <1>4
  <2>2. i + k \in DOMAIN q /\ j + k \in DOMAIN q
    BY <1>1, <1>3
  <2>3. i + k # j + k
    BY <1>1, <1>3
  <2> QED BY <1>7, <2>1, <2>2, <2>3 DEF Disjoint
<1> QED BY <1>5, <1>6, <1>7

\* Enqueue under the newest name: the new file and what the limit leaves.
LEMMA PutKeeps ==
  ASSUME NEW q \in Seq(Body), NEW b \in Body
  PROVE  /\ Put(q, b) \in Seq(Body)
         /\ EventsIn(Put(q, b)) = EventsIn(Limit(q)) \cup b.events
         /\ Disjoint(q) /\ b.events \cap EventsIn(q) = {} => Disjoint(Put(q, b))
<1> DEFINE r == Limit(q)
<1>1. r \in Seq(Body) /\ EventsIn(r) \subseteq EventsIn(q) /\ (Disjoint(q) => Disjoint(r))
  BY LimitKeeps
<1>2. Put(q, b) = Append(r, b)
  BY DEF Put
<1> HIDE DEF r
<1>3. /\ Append(r, b) \in Seq(Body)
      /\ DOMAIN Append(r, b) = 1 .. Len(r) + 1 /\ DOMAIN r = 1 .. Len(r)
      /\ Len(r) \in Nat
      /\ \A i \in 1 .. Len(r) : Append(r, b)[i] = r[i]
      /\ Append(r, b)[Len(r) + 1] = b
  BY <1>1
<1>4. EventsIn(Append(r, b)) = EventsIn(r) \cup b.events
  <2>1. \A i \in 1 .. Len(r) + 1 : i \in 1 .. Len(r) \/ i = Len(r) + 1
    BY <1>3
  <2> QED BY <1>3, <2>1 DEF EventsIn
<1>5. ASSUME Disjoint(r), b.events \cap EventsIn(r) = {}
      PROVE  Disjoint(Append(r, b))
  <2>1. \A i \in 1 .. Len(r) : b.events \cap r[i].events = {}
    BY <1>3, <1>5 DEF EventsIn
  <2>2. \A i \in 1 .. Len(r) + 1 : i \in 1 .. Len(r) \/ i = Len(r) + 1
    BY <1>3
  <2> QED BY <1>3, <1>5, <2>1, <2>2 DEF Disjoint
<1> QED BY <1>1, <1>2, <1>3, <1>4, <1>5 DEF r

\* Enqueue over the newest file: what is gone is in that file.
LEMMA PutOverKeeps ==
  ASSUME NEW q \in Seq(Body), NEW b \in Body, Limit(q) # <<>>
  PROVE  /\ PutOver(q, b) \in Seq(Body)
         /\ Newest(Limit(q)) \in Body
         /\ Newest(Limit(q)).events \subseteq EventsIn(q)
         /\ EventsIn(Limit(q)) \subseteq
              EventsIn(PutOver(q, b)) \cup Newest(Limit(q)).events
         /\ EventsIn(PutOver(q, b)) \subseteq EventsIn(Limit(q)) \cup b.events
         /\ b.events \subseteq EventsIn(PutOver(q, b))
         /\ Disjoint(q) /\ b.events \cap EventsIn(q) = {} =>
              /\ Disjoint(PutOver(q, b))
              /\ EventsIn(PutOver(q, b)) \cap Newest(Limit(q)).events = {}
<1> DEFINE r == Limit(q)
           n == Len(r)
           s == [r EXCEPT ![n] = b]
<1>1. r \in Seq(Body) /\ EventsIn(r) \subseteq EventsIn(q) /\ (Disjoint(q) => Disjoint(r))
  BY LimitKeeps
<1>2. PutOver(q, b) = s /\ r # <<>>
  BY DEF PutOver
<1> HIDE DEF r
<1>3. n \in Nat /\ n \in 1 .. n /\ DOMAIN r = 1 .. n /\ r[n] \in Body
  BY <1>1, <1>2
<1>4. /\ s \in Seq(Body) /\ DOMAIN s = 1 .. n
      /\ s[n] = b /\ \A i \in 1 .. n : i # n => s[i] = r[i]
  BY <1>1, <1>3
<1> HIDE DEF n, s
<1>5. r[n].events \subseteq EventsIn(r)
  BY <1>3 DEF EventsIn
<1>6. EventsIn(r) \subseteq EventsIn(s) \cup r[n].events
  BY <1>3, <1>4 DEF EventsIn
<1>7. EventsIn(s) \subseteq EventsIn(r) \cup b.events /\ b.events \subseteq EventsIn(s)
  BY <1>3, <1>4 DEF EventsIn
<1>8. ASSUME Disjoint(r), b.events \cap EventsIn(r) = {}
      PROVE  Disjoint(s) /\ EventsIn(s) \cap r[n].events = {}
  <2>1. \A i \in 1 .. n : b.events \cap r[i].events = {}
    BY <1>3, <1>8 DEF EventsIn
  <2>2. \A i \in 1 .. n : i # n => r[i].events \cap r[n].events = {}
    BY <1>3, <1>8 DEF Disjoint
  <2>3. Disjoint(s)
    BY <1>3, <1>4, <1>8, <2>1 DEF Disjoint
  <2>4. \A i \in 1 .. n : s[i].events \cap r[n].events = {}
    BY <1>3, <1>4, <2>1, <2>2
  <2> QED BY <1>4, <2>3, <2>4 DEF EventsIn
<1>9. b.events \cap EventsIn(q) = {} => b.events \cap EventsIn(r) = {}
  BY <1>1
<1>10. r[n] = Newest(Limit(q))
  BY DEF r, n, Newest
<1>11. Limit(q) = r
  BY DEF r
<1> QED BY <1>1, <1>2, <1>3, <1>4, <1>5, <1>6, <1>7, <1>8, <1>9, <1>10, <1>11

\* Dequeue splits the queue into the file it returns and the others.
LEMMA TakeKeeps ==
  ASSUME NEW q \in Seq(Body), q # <<>>
  PROVE  /\ Head(q) \in Body /\ Tail(q) \in Seq(Body)
         /\ EventsIn(q) = Head(q).events \cup EventsIn(Tail(q))
         /\ Disjoint(q) => /\ Disjoint(Tail(q))
                           /\ Head(q).events \cap EventsIn(Tail(q)) = {}
<1>1. /\ Len(q) \in Nat /\ Len(q) > 0 /\ DOMAIN q = 1 .. Len(q)
      /\ Head(q) = q[1] /\ q[1] \in Body
  OBVIOUS
<1>2. /\ Tail(q) \in Seq(Body) /\ DOMAIN Tail(q) = 1 .. Len(q) - 1
      /\ \A i \in 1 .. Len(q) - 1 : Tail(q)[i] = q[i + 1]
  BY <1>1
<1>3. /\ \A i \in 1 .. Len(q) - 1 : i + 1 \in 1 .. Len(q) /\ i + 1 # 1
      /\ \A i \in 1 .. Len(q) : i = 1 \/ (i - 1 \in 1 .. Len(q) - 1 /\ (i - 1) + 1 = i)
      /\ 1 \in 1 .. Len(q)
  BY <1>1
<1>4. EventsIn(q) = q[1].events \cup EventsIn(Tail(q))
  <2>1. EventsIn(q) \subseteq q[1].events \cup EventsIn(Tail(q))
    <3> SUFFICES ASSUME NEW i \in 1 .. Len(q), i # 1
                 PROVE  q[i].events \subseteq EventsIn(Tail(q))
      BY <1>1 DEF EventsIn
    <3>1. i - 1 \in 1 .. Len(q) - 1 /\ q[i] = Tail(q)[i - 1]
      BY <1>2, <1>3
    <3> QED BY <1>2, <3>1 DEF EventsIn
  <2>2. EventsIn(Tail(q)) \subseteq EventsIn(q)
    BY <1>1, <1>2, <1>3 DEF EventsIn
  <2>3. q[1].events \subseteq EventsIn(q)
    BY <1>1, <1>3 DEF EventsIn
  <2> QED BY <2>1, <2>2, <2>3
<1>5. ASSUME Disjoint(q)
      PROVE  Disjoint(Tail(q)) /\ q[1].events \cap EventsIn(Tail(q)) = {}
  <2>1. Disjoint(Tail(q))
    BY <1>1, <1>2, <1>3, <1>5 DEF Disjoint
  <2>2. \A i \in 1 .. Len(q) - 1 : q[1].events \cap Tail(q)[i].events = {}
    BY <1>1, <1>2, <1>3, <1>5 DEF Disjoint
  <2> QED BY <1>2, <2>1, <2>2 DEF EventsIn
<1> QED BY <1>1, <1>2, <1>4, <1>5
-----------------------------------------------------------------------------
(* Induction over the naturals, as facts about sets of them.  A statement   *)
(* about every n becomes one about the set of the n it is true of.          *)

\* The naturals are well founded.
LEMMA LeastElement ==
  ASSUME NEW T \in SUBSET Nat, T # {}
  PROVE  \E n \in T : \A m \in T : n <= m
<1> DEFINE below == {ss \in Nat \X Nat : ss[1] < ss[2]}
<1>1. IsWellFoundedOn(below, Nat)
  BY NatLessThanWellFounded DEF OpToRel
<1>2. \E n \in T : \A m \in T : ~ (<<m, n>> \in below)
  <2> HIDE DEF below
  <2> QED BY <1>1, WFMin
<1>3. \A m, n \in Nat : <<m, n>> \notin below => n <= m
  OBVIOUS
<1> QED BY <1>2, <1>3

\* A set of naturals that has 0 and with every number the next has them all.
LEMMA SetInduction ==
  ASSUME NEW T, 0 \in T, \A n \in Nat : n \in T => n + 1 \in T
  PROVE  \A n \in Nat : n \in T
<1> SUFFICES ASSUME NEW k \in Nat, k \notin T PROVE FALSE
  OBVIOUS
<1>1. PICK n \in Nat \ T : \A m \in Nat \ T : n <= m
  BY LeastElement
<1>2. n - 1 \in Nat /\ n - 1 \notin Nat \ T
  BY <1>1
<1> QED BY <1>1, <1>2

-----------------------------------------------------------------------------
(* MapThenSumSet, which WeightFrom adds up with, takes the elements in the  *)
(* order CHOOSE picks them.  The total is that of any other order.          *)

\* The element CHOOSE picks.
Pick(S) == CHOOSE x \in S : TRUE

\* The total of s, if g has the totals of the smaller sets.
Step(q, g, s) == IF s = {} THEN 0 ELSE Weight(q[Pick(s)]) + g[s \ {Pick(s)}]
\* g has the totals of the sets of S's elements.
Sums(q, g, S) == g = [s \in SUBSET S |-> Step(q, g, s)]
\* What the files at S of q weigh.
Total(q, S) == (CHOOSE g : Sums(q, g, S))[S]

\* WeightFrom is that total.
LEMMA WeightTotal ==
  ASSUME NEW q, NEW i
  PROVE  WeightFrom(q, i) = Total(q, i .. Len(q))
BY Zenon DEF WeightFrom, MapThenSumSet, MapThenFoldSet, Total, Sums, Step, Pick

\* The picked element is in the set, which is smaller by one without it.
LEMMA Removed ==
  ASSUME NEW s, IsFiniteSet(s), s # {}
  PROVE  /\ Pick(s) \in s /\ IsFiniteSet(s \ {Pick(s)})
         /\ Cardinality(s) \in Nat /\ Cardinality(s \ {Pick(s)}) = Cardinality(s) - 1
BY FS_RemoveElement, FS_CardinalityType DEF Pick

\* The recursion over the subsets of a finite set has a solution.
LEMMA SumsExist ==
  ASSUME NEW q, NEW S, IsFiniteSet(S)
  PROVE  Sums(q, CHOOSE g : Sums(q, g, S), S)
<1> DEFINE Upto(n, g) == \A s \in SUBSET S : Cardinality(s) <= n => g[s] = Step(q, g, s)
           T == {n \in Nat : \E g : Upto(n, g)}
<1>0. \A s \in SUBSET S : IsFiniteSet(s) /\ Cardinality(s) \in Nat
  BY FS_Subset, FS_CardinalityType
<1>1. 0 \in T
  <2> DEFINE g == [s \in SUBSET S |-> 0]
  <2>1. \A s \in SUBSET S : Cardinality(s) <= 0 => s = {}
    BY <1>0, FS_EmptySet
  <2>2. Upto(0, g)
    BY <2>1 DEF Step
  <2> QED BY <2>2
<1>2. ASSUME NEW n \in Nat, NEW g, Upto(n, g)
      PROVE  Upto(n + 1, [s \in SUBSET S |-> Step(q, g, s)])
  <2> DEFINE h == [s \in SUBSET S |-> Step(q, g, s)]
  <2> SUFFICES ASSUME NEW s \in SUBSET S, Cardinality(s) <= n + 1
               PROVE  h[s] = Step(q, h, s)
    OBVIOUS
  <2>1. CASE s = {}
    BY <2>1 DEF Step
  <2>2. CASE s # {}
    <3> DEFINE r == s \ {Pick(s)}
    <3>1. r \in SUBSET S /\ Cardinality(r) <= n
      BY <1>0, <2>2, Removed
    <3>2. g[r] = Step(q, g, r)
      BY <1>2, <3>1
    <3>3. h[r] = Step(q, g, r) /\ h[s] = Step(q, g, s)
      BY <3>1
    <3> HIDE DEF r, h
    <3>4. h[r] = g[r]
      BY <3>2, <3>3
    <3> QED BY <2>2, <3>3, <3>4 DEF Step, r
  <2> QED BY <2>1, <2>2
<1>3. \A n \in Nat : n \in T
  <2>1. ASSUME NEW n \in Nat, n \in T PROVE n + 1 \in T
    <3>1. PICK g : Upto(n, g)
      BY <2>1
    <3>2. Upto(n + 1, [s \in SUBSET S |-> Step(q, g, s)])
      BY <1>2, <3>1
    <3> HIDE DEF Upto
    <3> QED BY <3>2
  <2> HIDE DEF T
  <2> QED BY <1>1, <2>1, SetInduction
<1>4. Cardinality(S) \in Nat /\ \A s \in SUBSET S : Cardinality(s) <= Cardinality(S)
  BY FS_Subset, FS_CardinalityType
<1>5. PICK g : Upto(Cardinality(S), g)
  BY <1>3, <1>4
<1> DEFINE h == [s \in SUBSET S |-> Step(q, g, s)]
<1>6. Sums(q, h, S)
  <2> SUFFICES ASSUME NEW s \in SUBSET S PROVE Step(q, g, s) = Step(q, h, s)
    BY Zenon DEF Sums
  <2>1. CASE s = {}
    BY <2>1 DEF Step
  <2>2. CASE s # {}
    <3> DEFINE r == s \ {Pick(s)}
    <3>1. r \in SUBSET S
      OBVIOUS
    <3>2. g[r] = h[r]
      BY <1>4, <1>5, <3>1
    <3> HIDE DEF r, h
    <3> QED BY <2>2, <3>2 DEF Step, r
  <2> QED BY <2>1, <2>2
<1> QED BY <1>6, Zenon

\* Two sums of the same weights agree on the sets both cover.
LEMMA SumsAgree ==
  ASSUME NEW q, NEW p, NEW S, NEW R \in SUBSET S, IsFiniteSet(S),
         \A i \in R : Weight(p[i]) = Weight(q[i]),
         NEW g, Sums(q, g, S), NEW h, Sums(p, h, R)
  PROVE  \A s \in SUBSET R : g[s] = h[s]
<1> DEFINE T == {n \in Nat : \A s \in SUBSET R : Cardinality(s) <= n => g[s] = h[s]}
<1>0. \A s \in SUBSET R : IsFiniteSet(s) /\ Cardinality(s) \in Nat /\ s \in SUBSET S
  BY FS_Subset, FS_CardinalityType
<1>1. \A s \in SUBSET R : g[s] = Step(q, g, s) /\ h[s] = Step(p, h, s)
  BY <1>0 DEF Sums
<1>2. 0 \in T
  <2>1. \A s \in SUBSET R : Cardinality(s) <= 0 => s = {}
    BY <1>0, FS_EmptySet
  <2> QED BY <1>1, <2>1 DEF Step
<1>3. ASSUME NEW n \in Nat, n \in T PROVE n + 1 \in T
  <2> SUFFICES ASSUME NEW s \in SUBSET R, Cardinality(s) <= n + 1, s # {}
               PROVE  g[s] = h[s]
    BY <1>1 DEF Step
  <2>1. /\ Pick(s) \in R /\ s \ {Pick(s)} \in SUBSET R
        /\ Cardinality(s \ {Pick(s)}) <= n
    BY <1>0, Removed
  <2>2. g[s \ {Pick(s)}] = h[s \ {Pick(s)}]
    BY <1>3, <2>1
  <2> QED BY <1>1, <2>1, <2>2 DEF Step
<1>4. \A n \in Nat : n \in T
  <2> HIDE DEF T
  <2> QED BY <1>2, <1>3, SetInduction
<1> SUFFICES ASSUME NEW s \in SUBSET R PROVE g[s] = h[s]
  OBVIOUS
<1>5. Cardinality(s) \in T
  BY <1>0, <1>4
<1> QED BY <1>0, <1>5

\* Adding up starts with the element CHOOSE picks.
LEMMA TotalPicks ==
  ASSUME NEW q, NEW S, IsFiniteSet(S), S # {}
  PROVE  Total(q, S) = Weight(q[Pick(S)]) + Total(q, S \ {Pick(S)})
<1> DEFINE g == CHOOSE g : Sums(q, g, S)
           R == S \ {Pick(S)}
           h == CHOOSE h : Sums(q, h, R)
<1>1. IsFiniteSet(R) /\ R \in SUBSET S
  BY FS_Subset
<1>2. Sums(q, g, S) /\ Sums(q, h, R)
  BY <1>1, SumsExist
<1>3. g[R] = h[R]
  <2> HIDE DEF g, h, R
  <2> QED BY <1>1, <1>2, SumsAgree
<1>4. Total(q, S) = g[S] /\ Total(q, R) = h[R]
  BY DEF Total
<1>5. g[S] = Weight(q[Pick(S)]) + g[R]
  <2> HIDE DEF g, h
  <2> QED BY <1>2 DEF Sums, Step
<1> QED BY <1>3, <1>4, <1>5

\* Nothing weighs nothing.
LEMMA TotalOfNone == ASSUME NEW q PROVE Total(q, {}) = 0
<1>1. Sums(q, CHOOSE g : Sums(q, g, {}), {})
  BY FS_EmptySet, SumsExist
<1> QED BY <1>1 DEF Total, Sums, Step

\* The total is a natural number.
LEMMA TotalNat ==
  ASSUME NEW q, NEW S, IsFiniteSet(S), \A i \in S : Weight(q[i]) \in Nat
  PROVE  Total(q, S) \in Nat
<1> DEFINE T == {n \in Nat : \A s \in SUBSET S : Cardinality(s) <= n => Total(q, s) \in Nat}
<1>0. \A s \in SUBSET S : IsFiniteSet(s) /\ Cardinality(s) \in Nat
  BY FS_Subset, FS_CardinalityType
<1>1. 0 \in T
  <2>1. \A s \in SUBSET S : Cardinality(s) <= 0 => s = {}
    BY <1>0, FS_EmptySet
  <2> QED BY <2>1, TotalOfNone
<1>2. ASSUME NEW n \in Nat, n \in T PROVE n + 1 \in T
  <2> SUFFICES ASSUME NEW s \in SUBSET S, Cardinality(s) <= n + 1, s # {}
               PROVE  Total(q, s) \in Nat
    <3>1. Total(q, {}) \in Nat
      BY TotalOfNone
    <3> QED BY <3>1
  <2>1. /\ Pick(s) \in S /\ s \ {Pick(s)} \in SUBSET S
        /\ Cardinality(s \ {Pick(s)}) <= n
    BY <1>0, Removed
  <2>2. Total(q, s) = Weight(q[Pick(s)]) + Total(q, s \ {Pick(s)})
    BY <1>0, TotalPicks
  <2>3. Total(q, s \ {Pick(s)}) \in Nat
    BY <1>2, <2>1
  <2> QED BY <2>1, <2>2, <2>3
<1>3. \A n \in Nat : n \in T
  <2> HIDE DEF T
  <2> QED BY <1>1, <1>2, SetInduction
<1> QED BY <1>0, <1>3

\* The order in which the files are weighed makes no difference.
LEMMA TotalRemoves ==
  ASSUME NEW q, NEW S, IsFiniteSet(S), \A i \in S : Weight(q[i]) \in Nat, NEW x \in S
  PROVE  Total(q, S) = Weight(q[x]) + Total(q, S \ {x})
<1> DEFINE T == {n \in Nat : \A s \in SUBSET S : Cardinality(s) <= n =>
                   \A y \in s : Total(q, s) = Weight(q[y]) + Total(q, s \ {y})}
<1>0. \A s \in SUBSET S : IsFiniteSet(s) /\ Cardinality(s) \in Nat
  BY FS_Subset, FS_CardinalityType
<1>1. 0 \in T
  <2>1. \A s \in SUBSET S : Cardinality(s) <= 0 => s = {}
    BY <1>0, FS_EmptySet
  <2> QED BY <2>1
<1>2. ASSUME NEW n \in Nat, n \in T PROVE n + 1 \in T
  <2> SUFFICES ASSUME NEW s \in SUBSET S, Cardinality(s) <= n + 1, NEW y \in s
               PROVE  Total(q, s) = Weight(q[y]) + Total(q, s \ {y})
    OBVIOUS
  <2> DEFINE p == Pick(s)
  <2>1. /\ p \in s /\ s \ {p} \in SUBSET S /\ Cardinality(s \ {p}) <= n
        /\ s \ {y} \in SUBSET S
    BY <1>0, Removed
  <2>2. Total(q, s) = Weight(q[p]) + Total(q, s \ {p})
    BY <1>0, TotalPicks
  <2> HIDE DEF p
  <2>3. CASE y = p
    BY <2>2, <2>3
  <2>4. CASE y # p
    <3>1. Total(q, s \ {p}) = Weight(q[y]) + Total(q, (s \ {p}) \ {y})
      BY <1>2, <2>1, <2>4
    <3>2. Cardinality(s \ {y}) <= n
      BY <1>0, FS_RemoveElement
    <3>3. Total(q, s \ {y}) = Weight(q[p]) + Total(q, (s \ {y}) \ {p})
      BY <1>2, <2>1, <2>4, <3>2
    <3>4. (s \ {y}) \ {p} = (s \ {p}) \ {y}
      OBVIOUS
    <3>5. Total(q, (s \ {p}) \ {y}) \in Nat
      <4>1. (s \ {p}) \ {y} \in SUBSET S
        OBVIOUS
      <4> QED BY <1>0, <4>1, TotalNat
    <3>6. Weight(q[p]) \in Nat /\ Weight(q[y]) \in Nat
      BY <2>1
    <3> QED BY <2>2, <3>1, <3>3, <3>4, <3>5, <3>6
  <2> QED BY <2>3, <2>4
<1>3. \A n \in Nat : n \in T
  <2> HIDE DEF T
  <2> QED BY <1>1, <1>2, SetInduction
<1> QED BY <1>0, <1>3

\* The total depends on nothing but the weights.
LEMMA TotalSame ==
  ASSUME NEW q, NEW p, NEW S, IsFiniteSet(S), \A i \in S : Weight(p[i]) = Weight(q[i])
  PROVE  Total(p, S) = Total(q, S)
<1> DEFINE g == CHOOSE g : Sums(q, g, S)
           h == CHOOSE h : Sums(p, h, S)
<1>1. Sums(q, g, S) /\ Sums(p, h, S)
  BY SumsExist
<1>2. g[S] = h[S]
  <2> HIDE DEF g, h
  <2>1. S \in SUBSET S
    OBVIOUS
  <2>2. \A s \in SUBSET S : g[s] = h[s]
    BY <1>1, <2>1, SumsAgree
  <2> QED BY <2>1, <2>2
<1> QED BY <1>2 DEF Total

-----------------------------------------------------------------------------
(* Weights of queues.                                                       *)

\* Every file has a size.
Weighed(q) == \A i \in 1 .. Len(q) : Weight(q[i]) \in Nat

\* What the files from the i-th on weigh, file by file.
LEMMA WeightSteps ==
  ASSUME NEW q \in Seq(Body), Weighed(q)
  PROVE  /\ \A i \in 1 .. Len(q) + 1 : WeightFrom(q, i) \in Nat
         /\ WeightFrom(q, Len(q) + 1) = 0
         /\ \A i \in 1 .. Len(q) :
              WeightFrom(q, i) = Weight(q[i]) + WeightFrom(q, i + 1)
<1>0. Len(q) \in Nat
  OBVIOUS
<1>1. ASSUME NEW i \in 1 .. Len(q) + 1
      PROVE  IsFiniteSet(i .. Len(q)) /\ \A j \in i .. Len(q) : Weight(q[j]) \in Nat
  <2>1. IsFiniteSet(i .. Len(q))
    BY <1>0, FS_Interval
  <2>2. i .. Len(q) \subseteq 1 .. Len(q)
    BY <1>0
  <2> QED BY <2>1, <2>2 DEF Weighed
<1>2. ASSUME NEW i \in 1 .. Len(q) + 1 PROVE WeightFrom(q, i) \in Nat
  BY <1>1, TotalNat, WeightTotal
<1>3. WeightFrom(q, Len(q) + 1) = 0
  <2>1. Len(q) + 1 .. Len(q) = {}
    BY <1>0
  <2> QED BY <2>1, TotalOfNone, WeightTotal
<1>4. ASSUME NEW i \in 1 .. Len(q)
      PROVE  WeightFrom(q, i) = Weight(q[i]) + WeightFrom(q, i + 1)
  <2>1. i \in 1 .. Len(q) + 1 /\ i \in i .. Len(q) /\ (i .. Len(q)) \ {i} = i + 1 .. Len(q)
    BY <1>0
  <2>2. Total(q, i .. Len(q)) = Weight(q[i]) + Total(q, (i .. Len(q)) \ {i})
    <3> DEFINE R == i .. Len(q)
    <3>1. IsFiniteSet(R) /\ i \in R /\ \A j \in R : Weight(q[j]) \in Nat
      BY <1>1, <2>1
    <3> HIDE DEF R
    <3>2. Total(q, R) = Weight(q[i]) + Total(q, R \ {i})
      BY <3>1, TotalRemoves
    <3> QED BY <3>2 DEF R
  <2> QED BY <2>1, <2>2, WeightTotal
<1> QED BY <1>2, <1>3, <1>4

\* The fewer files, the less they weigh.
LEMMA WeightFalls ==
  ASSUME NEW q \in Seq(Body), Weighed(q)
  PROVE  \A i, j \in 1 .. Len(q) + 1 : i <= j => WeightFrom(q, j) <= WeightFrom(q, i)
<1> DEFINE T == {n \in Nat : \A i \in 1 .. Len(q) + 1 :
                   i + n <= Len(q) + 1 => WeightFrom(q, i + n) <= WeightFrom(q, i)}
<1>0. Len(q) \in Nat /\ \A i \in 1 .. Len(q) : Weight(q[i]) \in Nat
  BY DEF Weighed
<1>1. 0 \in T
  <2>1. \A i \in 1 .. Len(q) + 1 : i + 0 = i /\ WeightFrom(q, i) <= WeightFrom(q, i)
    BY <1>0, WeightSteps
  <2> QED BY <2>1
<1>2. ASSUME NEW n \in Nat, n \in T PROVE n + 1 \in T
  <2> SUFFICES ASSUME NEW i \in 1 .. Len(q) + 1, i + (n + 1) <= Len(q) + 1
               PROVE  WeightFrom(q, i + (n + 1)) <= WeightFrom(q, i)
    OBVIOUS
  <2>1. i + n \in 1 .. Len(q) /\ (i + n) + 1 = i + (n + 1) /\ i + (n + 1) \in 1 .. Len(q) + 1
    BY <1>0
  <2>2. WeightFrom(q, i + n) = Weight(q[i + n]) + WeightFrom(q, i + (n + 1))
    BY <2>1, WeightSteps
  <2>3. WeightFrom(q, i + n) <= WeightFrom(q, i)
    BY <1>0, <1>2, <2>1
  <2>4. /\ WeightFrom(q, i + (n + 1)) \in Nat /\ Weight(q[i + n]) \in Nat
        /\ WeightFrom(q, i) \in Nat
    BY <1>0, <2>1, WeightSteps
  <2> QED BY <2>2, <2>3, <2>4
<1>3. \A n \in Nat : n \in T
  <2> HIDE DEF T
  <2> QED BY <1>1, <1>2, SetInduction
<1> SUFFICES ASSUME NEW i \in 1 .. Len(q) + 1, NEW j \in 1 .. Len(q) + 1, i <= j
             PROVE  WeightFrom(q, j) <= WeightFrom(q, i)
  OBVIOUS
<1>4. j - i \in Nat /\ i + (j - i) = j /\ j <= Len(q) + 1
  BY <1>0
<1>5. j - i \in T
  BY <1>3, <1>4
<1> QED BY <1>4, <1>5

\* enforceLimit removes the files it finds the directory too heavy with, and
\* no more: what it leaves is within the limit.
LEMMA ExcessSplits ==
  ASSUME NEW q \in Seq(Body), Weighed(q)
  PROVE  /\ Excess(q) \in 0 .. Len(q)
         /\ \A i \in 1 .. Excess(q) : WeightFrom(q, i) > MaxQueue
         /\ WeightFrom(q, Excess(q) + 1) <= MaxQueue
<1> DEFINE light == {i \in 1 .. Len(q) + 1 : WeightFrom(q, i) <= MaxQueue}
           heavy == {i \in 1 .. Len(q) : WeightFrom(q, i) > MaxQueue}
<1>0. Len(q) \in Nat /\ MaxQueue \in Nat
  BY QueueAssumption
<1>1. light \in SUBSET Nat /\ Len(q) + 1 \in light
  BY <1>0, WeightSteps
<1>2. PICK n \in light : \A m \in light : n <= m
  <2> HIDE DEF light
  <2> QED BY <1>1, LeastElement
<1>3. n - 1 \in Nat /\ n - 1 <= Len(q) /\ heavy = 1 .. n - 1
  <2>1. ASSUME NEW i \in 1 .. n - 1 PROVE i \in heavy
    <3>1. i \in 1 .. Len(q) /\ i \in 1 .. Len(q) + 1 /\ i < n
      BY <1>0
    <3>2. i \notin light
      BY <1>2, <3>1
    <3>3. WeightFrom(q, i) \in Nat
      BY <3>1, WeightSteps
    <3> QED BY <1>0, <3>1, <3>2, <3>3
  <2>2. ASSUME NEW i \in heavy PROVE i \in 1 .. n - 1
    <3>1. i \in 1 .. Len(q) + 1 /\ n \in 1 .. Len(q) + 1
      BY <1>0
    <3>2. WeightFrom(q, i) \in Nat /\ WeightFrom(q, n) \in Nat
      BY <3>1, WeightSteps
    <3>3. n <= i => WeightFrom(q, i) <= WeightFrom(q, n)
      BY <3>1, WeightFalls
    <3> QED BY <1>0, <1>2, <3>1, <3>2, <3>3
  <2> QED BY <1>0, <2>1, <2>2
<1>4. Excess(q) = n - 1
  <2>1. Cardinality(1 .. n - 1) = n - 1
    BY <1>0, <1>3, FS_Interval
  <2> QED BY <1>3, <2>1 DEF Excess
<1> QED BY <1>0, <1>2, <1>3, <1>4

\* The files that are left weigh what they weighed.
LEMMA SuffixWeight ==
  ASSUME NEW q \in Seq(Body), Weighed(q), NEW k \in 0 .. Len(q), NEW r \in Seq(Body),
         Len(r) = Len(q) - k, \A i \in 1 .. Len(r) : r[i] = q[i + k]
  PROVE  Weighed(r) /\ \A i \in 1 .. Len(r) + 1 : WeightFrom(r, i) = WeightFrom(q, i + k)
<1> DEFINE T == {n \in Nat : n <= Len(r) =>
                   WeightFrom(r, (Len(r) + 1) - n) = WeightFrom(q, (Len(q) + 1) - n)}
<1>0. Len(q) \in Nat /\ Len(r) \in Nat /\ k \in Nat
  OBVIOUS
<1>1. Weighed(r)
  <2>1. \A i \in 1 .. Len(r) : i + k \in 1 .. Len(q)
    BY <1>0
  <2> QED BY <2>1 DEF Weighed
<1>2. 0 \in T
  BY <1>0, <1>1, WeightSteps
<1>3. ASSUME NEW n \in Nat, n \in T PROVE n + 1 \in T
  <2> SUFFICES ASSUME n + 1 <= Len(r)
               PROVE  WeightFrom(r, (Len(r) + 1) - (n + 1))
                        = WeightFrom(q, (Len(q) + 1) - (n + 1))
    OBVIOUS
  <2> DEFINE i == Len(r) - n
             j == Len(q) - n
  <2>1. /\ (Len(r) + 1) - (n + 1) = i /\ (Len(q) + 1) - (n + 1) = j
        /\ i \in 1 .. Len(r) /\ j \in 1 .. Len(q) /\ j = i + k
        /\ i + 1 = (Len(r) + 1) - n /\ j + 1 = (Len(q) + 1) - n
    BY <1>0
  <2>2. WeightFrom(r, i + 1) = WeightFrom(q, j + 1)
    BY <1>0, <1>3, <2>1
  <2> HIDE DEF i, j
  <2>3. WeightFrom(r, i) = Weight(r[i]) + WeightFrom(r, i + 1)
    BY <1>1, <2>1, WeightSteps
  <2>4. WeightFrom(q, j) = Weight(q[j]) + WeightFrom(q, j + 1)
    BY <2>1, WeightSteps
  <2>5. r[i] = q[j]
    BY <2>1
  <2> QED BY <2>1, <2>2, <2>3, <2>4, <2>5
<1>4. \A n \in Nat : n \in T
  <2> HIDE DEF T
  <2> QED BY <1>2, <1>3, SetInduction
<1>5. ASSUME NEW i \in 1 .. Len(r) + 1 PROVE WeightFrom(r, i) = WeightFrom(q, i + k)
  <2> DEFINE n == (Len(r) + 1) - i
  <2>1. /\ n \in Nat /\ n <= Len(r)
        /\ (Len(r) + 1) - n = i /\ (Len(q) + 1) - n = i + k
    BY <1>0
  <2>2. n \in T
    BY <1>4, <2>1
  <2> QED BY <2>1, <2>2
<1> QED BY <1>1, <1>5

\* What Limit leaves is within the limit.
LEMMA LimitWeight ==
  ASSUME NEW q \in Seq(Body), Weighed(q)
  PROVE  /\ Weighed(Limit(q)) /\ WeightFrom(Limit(q), 1) <= MaxQueue
<1>1. Excess(q) \in 0 .. Len(q) /\ WeightFrom(q, Excess(q) + 1) <= MaxQueue
  BY ExcessSplits
<1>2. /\ Limit(q) \in Seq(Body) /\ Len(Limit(q)) = Len(q) - Excess(q)
      /\ \A i \in 1 .. Len(Limit(q)) : Limit(q)[i] = q[i + Excess(q)]
  BY LimitIsSuffix
<1>3. /\ Weighed(Limit(q))
      /\ \A i \in 1 .. Len(Limit(q)) + 1 :
           WeightFrom(Limit(q), i) = WeightFrom(q, i + Excess(q))
  BY <1>1, <1>2, SuffixWeight
<1>4. 1 \in 1 .. Len(Limit(q)) + 1 /\ 1 + Excess(q) = Excess(q) + 1
  BY <1>1, <1>2
<1> QED BY <1>1, <1>3, <1>4

\* One file more weighs its weight more.
LEMMA AppendWeight ==
  ASSUME NEW q \in Seq(Body), Weighed(q), NEW b \in Body, Weight(b) \in Nat
  PROVE  /\ Weighed(Append(q, b))
         /\ WeightFrom(Append(q, b), 1) = WeightFrom(q, 1) + Weight(b)
<1> DEFINE r == Append(q, b)
           n == Len(q) + 1
<1>1. /\ r \in Seq(Body) /\ Len(r) = n /\ n \in Nat /\ n \in 1 .. n /\ r[n] = b
      /\ \A i \in 1 .. Len(q) : r[i] = q[i]
      /\ (1 .. n) \ {n} = 1 .. Len(q)
  OBVIOUS
<1>2. \A i \in 1 .. n : Weight(r[i]) \in Nat
  <2>1. \A i \in 1 .. n : i = n \/ i \in 1 .. Len(q)
    BY <1>1
  <2> QED BY <1>1, <2>1 DEF Weighed
<1> HIDE DEF r, n
<1>3. IsFiniteSet(1 .. n) /\ IsFiniteSet(1 .. Len(q))
  <2>1. Len(q) \in Nat
    OBVIOUS
  <2> QED BY <1>1, <2>1, FS_Interval
<1>4. Total(r, 1 .. n) = Weight(r[n]) + Total(r, (1 .. n) \ {n})
  BY <1>1, <1>2, <1>3, TotalRemoves
<1>5. Total(r, 1 .. Len(q)) = Total(q, 1 .. Len(q))
  BY <1>1, <1>3, TotalSame
<1>6. WeightFrom(r, 1) = Weight(b) + WeightFrom(q, 1)
  BY <1>1, <1>4, <1>5, WeightTotal
<1>7. WeightFrom(q, 1) \in Nat
  BY <1>3, TotalNat, WeightTotal DEF Weighed
<1>8. Weighed(r)
  BY <1>1, <1>2 DEF Weighed
<1> QED BY <1>6, <1>7, <1>8 DEF r

\* Another file in the place of the newest one.
LEMMA ReplaceWeight ==
  ASSUME NEW q \in Seq(Body), Weighed(q), q # <<>>, NEW b \in Body, Weight(b) \in Nat
  PROVE  /\ Weighed([q EXCEPT ![Len(q)] = b])
         /\ WeightFrom([q EXCEPT ![Len(q)] = b], 1) <= WeightFrom(q, 1) + Weight(b)
<1> DEFINE n == Len(q)
           r == [q EXCEPT ![n] = b]
           R == (1 .. n) \ {n}
<1>1. /\ r \in Seq(Body) /\ Len(r) = n /\ n \in Nat /\ n \in 1 .. n /\ r[n] = b
      /\ \A i \in R : r[i] = q[i]
      /\ \A i \in 1 .. n : i = n \/ i \in R
  OBVIOUS
<1>2. \A i \in 1 .. n : Weight(q[i]) \in Nat
  BY DEF Weighed
<1>3. R \subseteq 1 .. n
  OBVIOUS
<1> HIDE DEF r, R
<1>4. \A i \in 1 .. n : Weight(r[i]) \in Nat
  BY <1>1, <1>2, <1>3
<1> HIDE DEF n
<1>5. IsFiniteSet(1 .. n) /\ IsFiniteSet(R)
  <2>1. IsFiniteSet(1 .. n)
    BY <1>1, FS_Interval
  <2> QED BY <1>3, <2>1, FS_Subset
<1>6. Total(r, 1 .. n) = Weight(r[n]) + Total(r, (1 .. n) \ {n})
  BY <1>1, <1>4, <1>5, TotalRemoves
<1>7. Total(q, 1 .. n) = Weight(q[n]) + Total(q, (1 .. n) \ {n})
  <2> DEFINE D == 1 .. n
  <2>1. IsFiniteSet(D) /\ n \in D /\ \A i \in D : Weight(q[i]) \in Nat
    BY <1>1, <1>2, <1>5
  <2> HIDE DEF D
  <2>2. \A x \in D : Total(q, D) = Weight(q[x]) + Total(q, D \ {x})
    BY <2>1, TotalRemoves
  <2> QED BY <2>1, <2>2 DEF D
<1>8. Total(r, R) = Total(q, R)
  BY <1>1, <1>5, TotalSame
<1>9. Total(q, R) \in Nat /\ Weight(q[n]) \in Nat
  BY <1>1, <1>2, <1>3, <1>5, TotalNat
<1>10. WeightFrom(r, 1) = Weight(b) + Total(q, R) /\ WeightFrom(q, 1) = Weight(q[n]) + Total(q, R)
  BY <1>1, <1>6, <1>7, <1>8, WeightTotal DEF R, n
<1>11. WeightFrom(r, 1) <= WeightFrom(q, 1) + Weight(b)
  BY <1>9, <1>10
<1>12. Weighed(r)
  BY <1>1, <1>4 DEF Weighed
<1> QED BY <1>11, <1>12 DEF r, n
=============================================================================
