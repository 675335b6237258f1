------------------------- MODULE DisplayClaimsProofs -------------------------
(***************************************************************************)
(* The display claim registry proved right for any number of display       *)
(* tasks, outputs and ports, as long as an output is started again only    *)
(* when its task has ended (~Overlaps): a port has one owner, no promotion *)
(* is lost, and the registry implements the line of DisplayPort.           *)
(***************************************************************************)
EXTENDS DisplayClaims, FiniteSetTheorems, TLAPS

------------------------------------------------------------------------------
(* What Queues.Retain returns.                                             *)

(* Ranks count from 1 and grow with the position. *)
LEMMA RankOfPosition ==
  ASSUME NEW I \in SUBSET Nat, IsFiniteSet(I)
  PROVE  /\ Cardinality(I) \in Nat
         /\ \A i \in I : Rank(I, i) \in 1..Cardinality(I)
         /\ \A i, j \in I : i < j => Rank(I, i) < Rank(I, j)
<1>1. Cardinality(I) \in Nat
  BY FS_CardinalityType
<1>2. ASSUME NEW i \in I
      PROVE  Rank(I, i) \in 1..Cardinality(I)
  <2>1. {j \in I : j <= i} \in SUBSET I /\ i \in {j \in I : j <= i}
    OBVIOUS
  <2> DEFINE B == {j \in I : j <= i}
  <2>2. IsFiniteSet(B) /\ Cardinality(B) <= Cardinality(I)
    BY <2>1, FS_Subset
  <2>3. Cardinality(B) \in Nat /\ Cardinality(B) # 0
    BY <2>1, <2>2, FS_CardinalityType, FS_EmptySet
  <2> QED BY <1>1, <2>2, <2>3 DEF Rank
<1>3. ASSUME NEW i \in I, NEW j \in I, i < j
      PROVE  Rank(I, i) < Rank(I, j)
  <2> DEFINE A == {k \in I : k <= i}
             B == {k \in I : k <= j}
  <2>1. B \in SUBSET I /\ A \in SUBSET B /\ j \in B /\ j \notin A
    <3>1. \A k \in I : k \in Nat
      OBVIOUS
    <3>2. \A k \in I : k <= i => k <= j
      BY <1>3, <3>1
    <3>3. j <= j /\ ~(j <= i)
      BY <1>3, <3>1
    <3> QED BY <3>2, <3>3
  <2>2. IsFiniteSet(B)
    BY <2>1, FS_Subset
  <2>3. Cardinality(A) <= Cardinality(B) /\ Cardinality(B) # Cardinality(A)
    BY <2>1, <2>2, FS_Subset
  <2>4. Cardinality(A) \in Nat /\ Cardinality(B) \in Nat
    BY <2>1, <2>2, FS_Subset, FS_CardinalityType
  <2> QED BY <2>3, <2>4 DEF Rank
<1> QED BY <1>1, <1>2, <1>3

(* Every rank up to the number of positions is taken by one of them. *)
LEMMA NthPosition ==
  ASSUME NEW I \in SUBSET Nat, IsFiniteSet(I)
  PROVE  /\ \A k \in 1..Cardinality(I) : Nth(I, k) \in I /\ Rank(I, Nth(I, k)) = k
         /\ \A i \in I : Nth(I, Rank(I, i)) = i
         /\ \A k, l \in 1..Cardinality(I) : k < l => Nth(I, k) < Nth(I, l)
<1> DEFINE n == Cardinality(I)
           r == [i \in I |-> Rank(I, i)]
<1>1. n \in Nat /\ (\A i \in I : Rank(I, i) \in 1..n)
  BY RankOfPosition
<1>2. \A i, j \in I : Rank(I, i) = Rank(I, j) => i = j
  <2> SUFFICES ASSUME NEW i \in I, NEW j \in I, Rank(I, i) = Rank(I, j), i # j
               PROVE  FALSE
    OBVIOUS
  <2>1. i < j \/ j < i
    OBVIOUS
  <2> QED BY <1>1, <2>1, RankOfPosition
<1>3. IsFiniteSet(1..n) /\ Cardinality(1..n) = n
  BY <1>1, FS_Interval
<1> HIDE DEF n
<1>4. r \in [I -> 1..n]
  BY <1>1
<1>5. r \in Injection(I, 1..n)
  BY <1>2, <1>4 DEF Injection, IsInjective
<1>6. r \in Surjection(I, 1..n)
  BY <1>3, <1>5, FS_Injection DEF n
<1>7. \A k \in 1..n : \E i \in I : Rank(I, i) = k
  BY <1>6 DEF Surjection
<1>8. \A k \in 1..n : Nth(I, k) \in I /\ Rank(I, Nth(I, k)) = k
  BY <1>7 DEF Nth
<1>9. \A i \in I : Nth(I, Rank(I, i)) = i
  BY <1>1, <1>2, <1>8
<1>10. ASSUME NEW k \in 1..n, NEW l \in 1..n, k < l
       PROVE  Nth(I, k) < Nth(I, l)
  <2>1. Nth(I, k) \in I /\ Nth(I, l) \in I /\ Nth(I, k) \in Nat /\ Nth(I, l) \in Nat
    BY <1>8
  <2>2. Rank(I, Nth(I, k)) = k /\ Rank(I, Nth(I, l)) = l
    BY <1>8
  <2>3. Nth(I, k) # Nth(I, l)
    BY <1>10, <2>2
  <2>4. ~(Nth(I, l) < Nth(I, k))
    <3> SUFFICES ASSUME Nth(I, l) < Nth(I, k) PROVE FALSE
      OBVIOUS
    <3>1. Rank(I, Nth(I, l)) < Rank(I, Nth(I, k))
      BY <2>1, RankOfPosition
    <3> QED BY <1>1, <1>10, <2>2, <3>1
  <2> QED BY <2>1, <2>3, <2>4
<1> QED BY <1>8, <1>9, <1>10 DEF n

(* The positions of a queue are finitely many. *)
LEMMA PassingFinite ==
  ASSUME NEW T, NEW q \in Seq(T), NEW K
  PROVE  /\ Passing(q, K) \in SUBSET (1..Len(q))
         /\ Passing(q, K) \in SUBSET Nat
         /\ IsFiniteSet(Passing(q, K))
<1>1. Passing(q, K) \in SUBSET (1..Len(q)) /\ Len(q) \in Nat
  BY DEF Passing
<1>2. IsFiniteSet(1..Len(q))
  BY <1>1, FS_Interval
<1>3. IsFiniteSet(Passing(q, K))
  BY <1>1, <1>2, FS_Subset
<1> QED BY <1>1, <1>3

(* Retain keeps what passes and nothing else, in the order of the queue. *)
LEMMA RetainKeeps ==
  ASSUME NEW T, NEW q \in Seq(T), NEW K
  PROVE  /\ Passing(q, K) \subseteq DOMAIN q
         /\ Retain(q, K) \in Seq(T)
         /\ DOMAIN Retain(q, K) = 1..Len(Retain(q, K))
         /\ \A k \in DOMAIN Retain(q, K) :
              /\ Nth(Passing(q, K), k) \in Passing(q, K)
              /\ Retain(q, K)[k] = q[Nth(Passing(q, K), k)]
         /\ \A k, l \in DOMAIN Retain(q, K) :
              k < l => Nth(Passing(q, K), k) < Nth(Passing(q, K), l)
         /\ \A i \in Passing(q, K) :
              \E k \in DOMAIN Retain(q, K) : i = Nth(Passing(q, K), k)
<1> DEFINE e == Retain(q, K)
           I == Passing(q, K)
           n == Cardinality(I)
<1>1. I \in SUBSET Nat /\ I \in SUBSET (1..Len(q))
  BY PassingFinite
<1>2. IsFiniteSet(I)
  BY PassingFinite
<1>3. e = [k \in 1..n |-> q[Nth(I, k)]]
  BY DEF Retain, EntriesAt
<1>4. n \in Nat
  BY <1>2, FS_CardinalityType
<1>5. \A k \in 1..n : Nth(I, k) \in I
  BY <1>1, <1>2, NthPosition
<1>6. \A k, l \in 1..n : k < l => Nth(I, k) < Nth(I, l)
  BY <1>1, <1>2, NthPosition
<1>7. \A i \in I : Rank(I, i) \in 1..n /\ Nth(I, Rank(I, i)) = i
  BY <1>1, <1>2, NthPosition, RankOfPosition
<1>8. I \subseteq DOMAIN q /\ \A i \in I : q[i] \in T
  BY <1>1 DEF Passing
<1> HIDE DEF n, I, e
<1>9. e \in Seq(T) /\ Len(e) = n /\ DOMAIN e = 1..n
  BY <1>3, <1>4, <1>5, <1>8
<1>10. \A k \in DOMAIN e : e[k] = q[Nth(I, k)]
  BY <1>3, <1>9
<1> QED BY <1>5, <1>6, <1>7, <1>8, <1>9, <1>10 DEF e, I

(* The positions of a set in their order are the only way to count it off. *)
LEMMA CountedOff ==
  ASSUME NEW I \in SUBSET Nat, IsFiniteSet(I), NEW n \in Nat, NEW g \in [1..n -> I],
         \A k, l \in 1..n : k < l => g[k] < g[l],
         \A i \in I : \E k \in 1..n : g[k] = i
  PROVE  Cardinality(I) = n /\ \A k \in 1..n : Nth(I, k) = g[k]
<1>1. \A k, l \in 1..n : g[k] = g[l] => k = l
  <2> SUFFICES ASSUME NEW k \in 1..n, NEW l \in 1..n, g[k] = g[l], k # l
               PROVE  FALSE
    OBVIOUS
  <2>1. k < l \/ l < k
    OBVIOUS
  <2>2. g[k] \in Nat /\ g[l] \in Nat
    OBVIOUS
  <2> QED BY <2>1, <2>2
<1>2. \A m \in 0..n : \A J : (\A i : i \in J <=> \E k \in 1..m : g[k] = i) => Cardinality(J) = m
  <2> SUFFICES ASSUME NEW m \in 0..n, NEW J, \A i : i \in J <=> \E k \in 1..m : g[k] = i
               PROVE  Cardinality(J) = m
    OBVIOUS
  <2> DEFINE f == [k \in 1..m |-> g[k]]
  <2>1. m \in Nat /\ 1..m \subseteq 1..n
    OBVIOUS
  <2>2. f \in [1..m -> J] /\ \A k \in 1..m : f[k] = g[k]
    BY <2>1
  <2> HIDE DEF f
  <2>3. f \in Bijection(1..m, J)
    <3>1. \A k, l \in 1..m : f[k] = f[l] => k = l
      BY <1>1, <2>1, <2>2
    <3>2. \A j \in J : \E k \in 1..m : f[k] = j
      BY <2>2
    <3> QED BY <2>2, <3>1, <3>2 DEF Bijection, Injection, IsInjective, Surjection
  <2>4. ExistsBijection(1..m, J)
    BY <2>3 DEF ExistsBijection
  <2> QED BY <2>1, <2>4, FS_CountingElements
<1>3. Cardinality(I) = n
  <2>1. n \in 0..n
    OBVIOUS
  <2>2. ASSUME NEW i PROVE i \in I <=> \E k \in 1..n : g[k] = i
    OBVIOUS
  <2> QED BY <1>2, <2>1, <2>2
<1>4. ASSUME NEW k \in 1..n
      PROVE  Nth(I, k) = g[k]
  <2> DEFINE J == {j \in I : j <= g[k]}
  <2>1. k \in 0..n
    OBVIOUS
  <2>2. ASSUME NEW i PROVE i \in J <=> \E l \in 1..k : g[l] = i
    <3>1. ASSUME NEW l \in 1..k PROVE g[l] \in J
      <4>1. l \in 1..n /\ (l < k \/ l = k)
        OBVIOUS
      <4>2. g[l] \in I /\ g[k] \in Nat /\ g[l] \in Nat
        BY <4>1
      <4>3. g[l] <= g[k]
        BY <4>1, <4>2
      <4> QED BY <4>2, <4>3
    <3>2. ASSUME i \in J PROVE \E l \in 1..k : g[l] = i
      <4>1. PICK l \in 1..n : g[l] = i
        BY <3>2
      <4>2. g[l] <= g[k] /\ g[l] \in Nat /\ g[k] \in Nat
        BY <3>2, <4>1
      <4>3. ~(k < l)
        BY <4>2
      <4> QED BY <4>1, <4>3
    <3> QED BY <3>1, <3>2
  <2> HIDE DEF J
  <2>3. Cardinality(J) = k
    BY <1>2, <2>1, <2>2
  <2>4. Rank(I, g[k]) = k
    BY <2>3 DEF Rank, J
  <2>5. Nth(I, Rank(I, g[k])) = g[k]
    BY NthPosition
  <2> QED BY <2>4, <2>5
<1> QED BY <1>3, <1>4

(* e is read off the passing positions of q, in their order and leaving    *)
(* none out; g[k] is the position its k-th entry comes from.               *)
ReadOff(q, K, e, g) ==
  /\ g \in [1..Len(e) -> Passing(q, K)]
  /\ \A k \in 1..Len(e) : e[k] = q[g[k]]
  /\ \A k, l \in 1..Len(e) : k < l => g[k] < g[l]
  /\ \A i \in Passing(q, K) : \E k \in 1..Len(e) : g[k] = i

(* A sequence that is read off a queue is what Retain returns. *)
LEMMA RetainIs ==
  ASSUME NEW T, NEW q \in Seq(T), NEW K, NEW e \in Seq(T), NEW g, ReadOff(q, K, e, g)
  PROVE  Retain(q, K) = e
<1> DEFINE I == Passing(q, K)
           n == Len(e)
<1>1. I \in SUBSET Nat /\ IsFiniteSet(I)
  BY PassingFinite
<1>2. n \in Nat
  OBVIOUS
<1>3. Cardinality(I) = n /\ \A k \in 1..n : Nth(I, k) = g[k]
  <2> HIDE DEF I, n
  <2>1. g \in [1..n -> I] /\ (\A k, l \in 1..n : k < l => g[k] < g[l])
        /\ \A i \in I : \E k \in 1..n : g[k] = i
    BY DEF I, n, ReadOff
  <2> QED BY <1>1, <1>2, <2>1, CountedOff
<1>4. Retain(q, K) = [k \in 1..n |-> q[Nth(I, k)]]
  BY <1>3 DEF Retain, EntriesAt
<1>5. e = [k \in 1..n |-> e[k]]
  OBVIOUS
<1> HIDE DEF I, n
<1> QED BY <1>3, <1>4, <1>5 DEF n, ReadOff

(* Retain works entry by entry: what it keeps of two queues in a row is     *)
(* what it keeps of the one followed by what it keeps of the other.         *)
LEMMA RetainOfConcat ==
  ASSUME NEW T, NEW q \in Seq(T), NEW s \in Seq(T), NEW K
  PROVE  Retain(q \o s, K) = Retain(q, K) \o Retain(s, K)
<1> DEFINE c == q \o s
           I == Passing(q, K)
           J == Passing(s, K)
           d == Retain(q, K)
           f == Retain(s, K)
           e == d \o f
           g == [k \in 1..Len(e) |-> IF k <= Len(d) THEN Nth(I, k)
                                     ELSE Len(q) + Nth(J, k - Len(d))]
<1>1. /\ c \in Seq(T) /\ DOMAIN c = 1..(Len(q) + Len(s))
      /\ Len(q) \in Nat /\ Len(s) \in Nat /\ DOMAIN q = 1..Len(q) /\ DOMAIN s = 1..Len(s)
      /\ \A i \in 1..Len(q) : c[i] = q[i]
      /\ \A i \in 1..Len(s) : c[Len(q) + i] = s[i]
  OBVIOUS
<1>2. /\ I \subseteq 1..Len(q) /\ d \in Seq(T) /\ DOMAIN d = 1..Len(d) /\ Len(d) \in Nat
      /\ \A k \in 1..Len(d) : Nth(I, k) \in I /\ d[k] = q[Nth(I, k)]
      /\ \A k, l \in 1..Len(d) : k < l => Nth(I, k) < Nth(I, l)
      /\ \A i \in I : \E k \in 1..Len(d) : i = Nth(I, k)
  <2>1. /\ I \subseteq DOMAIN q /\ d \in Seq(T) /\ DOMAIN d = 1..Len(d)
        /\ \A k \in DOMAIN d : Nth(I, k) \in I /\ d[k] = q[Nth(I, k)]
        /\ \A k, l \in DOMAIN d : k < l => Nth(I, k) < Nth(I, l)
        /\ \A i \in I : \E k \in DOMAIN d : i = Nth(I, k)
    BY RetainKeeps
  <2> HIDE DEF d, I
  <2>2. Len(d) \in Nat
    BY <2>1
  <2> QED BY <1>1, <2>1, <2>2, Zenon
<1>3. /\ J \subseteq 1..Len(s) /\ f \in Seq(T) /\ DOMAIN f = 1..Len(f) /\ Len(f) \in Nat
      /\ \A k \in 1..Len(f) : Nth(J, k) \in J /\ f[k] = s[Nth(J, k)]
      /\ \A k, l \in 1..Len(f) : k < l => Nth(J, k) < Nth(J, l)
      /\ \A i \in J : \E k \in 1..Len(f) : i = Nth(J, k)
  <2>1. /\ J \subseteq DOMAIN s /\ f \in Seq(T) /\ DOMAIN f = 1..Len(f)
        /\ \A k \in DOMAIN f : Nth(J, k) \in J /\ f[k] = s[Nth(J, k)]
        /\ \A k, l \in DOMAIN f : k < l => Nth(J, k) < Nth(J, l)
        /\ \A i \in J : \E k \in DOMAIN f : i = Nth(J, k)
    BY RetainKeeps
  <2> HIDE DEF f, J
  <2>2. Len(f) \in Nat
    BY <2>1
  <2> QED BY <1>1, <2>1, <2>2, Zenon
<1> HIDE DEF d, f
<1>4. /\ e \in Seq(T) /\ Len(e) = Len(d) + Len(f)
      /\ \A k \in 1..Len(d) : e[k] = d[k]
      /\ \A k \in 1..Len(f) : e[Len(d) + k] = f[k]
  BY <1>2, <1>3
<1>5. \A i : i \in Passing(c, K) <=> i \in I \/ (\E j \in J : i = Len(q) + j)
  <2> SUFFICES ASSUME NEW i
               PROVE  i \in Passing(c, K) <=> i \in I \/ (\E j \in J : i = Len(q) + j)
    OBVIOUS
  <2> HIDE DEF c
  <2>1. CASE i \in 1..Len(q)
    <3>1. i \in Passing(c, K) <=> i \in I
      BY <1>1, <2>1 DEF Passing
    <3>2. \A j \in J : i # Len(q) + j
      BY <1>1, <1>3, <2>1
    <3> QED BY <3>1, <3>2
  <2>2. CASE i \in (Len(q) + 1)..(Len(q) + Len(s))
    <3>1. i - Len(q) \in 1..Len(s) /\ Len(q) + (i - Len(q)) = i
      BY <1>1, <2>2
    <3>2. c[i] = s[i - Len(q)]
      BY <1>1, <3>1
    <3>3. i \in Passing(c, K) <=> i - Len(q) \in J
      BY <1>1, <2>2, <3>1, <3>2 DEF Passing
    <3>4. i \notin I
      BY <1>1, <1>2, <2>2
    <3>5. \A j \in J : i = Len(q) + j => j = i - Len(q)
      BY <1>1, <1>3, <2>2
    <3> QED BY <3>1, <3>3, <3>4, <3>5
  <2>3. CASE i \notin 1..(Len(q) + Len(s))
    <3>1. i \notin Passing(c, K)
      BY <1>1, <2>3 DEF Passing
    <3>2. i \notin I
      BY <1>1, <1>2, <2>3
    <3>3. \A j \in J : Len(q) + j \in 1..(Len(q) + Len(s))
      BY <1>1, <1>3
    <3> QED BY <2>3, <3>1, <3>2, <3>3
  <2> QED BY <1>1, <2>1, <2>2, <2>3
<1> HIDE DEF e, c, I, J
<1>6. ASSUME NEW k \in 1..Len(e)
      PROVE  \/ k \in 1..Len(d) /\ g[k] = Nth(I, k)
             \/ k - Len(d) \in 1..Len(f) /\ Len(d) + (k - Len(d)) = k /\ ~(k <= Len(d))
                /\ g[k] = Len(q) + Nth(J, k - Len(d))
  BY <1>2, <1>3, <1>4
<1>7. g \in [1..Len(e) -> Passing(c, K)]
  <2>1. ASSUME NEW k \in 1..Len(e) PROVE g[k] \in Passing(c, K)
    BY <1>2, <1>3, <1>5, <1>6
  <2> QED BY <2>1
<1>8. ASSUME NEW k \in 1..Len(e) PROVE e[k] = c[g[k]]
  <2>1. CASE k \in 1..Len(d) /\ g[k] = Nth(I, k)
    BY <1>1, <1>2, <1>4, <2>1
  <2>2. CASE k - Len(d) \in 1..Len(f) /\ Len(d) + (k - Len(d)) = k
             /\ g[k] = Len(q) + Nth(J, k - Len(d))
    <3>1. e[k] = f[k - Len(d)]
      BY <1>4, <2>2
    <3>2. f[k - Len(d)] = s[Nth(J, k - Len(d))] /\ Nth(J, k - Len(d)) \in 1..Len(s)
      BY <1>3, <2>2
    <3> QED BY <1>1, <2>2, <3>1, <3>2
  <2> QED BY <1>6, <2>1, <2>2
<1>9. ASSUME NEW k \in 1..Len(e), NEW l \in 1..Len(e), k < l
      PROVE  g[k] < g[l]
  <2>1. CASE l \in 1..Len(d)
    <3>1. k \in 1..Len(d) /\ g[k] = Nth(I, k) /\ g[l] = Nth(I, l)
      BY <1>2, <1>6, <1>9, <2>1
    <3>2. Nth(I, k) < Nth(I, l)
      BY <1>2, <1>9, <2>1, <3>1
    <3> QED BY <3>1, <3>2
  <2>2. CASE l \notin 1..Len(d) /\ k \in 1..Len(d)
    <3>1. g[k] = Nth(I, k) /\ g[l] = Len(q) + Nth(J, l - Len(d)) /\ l - Len(d) \in 1..Len(f)
      BY <1>2, <1>6, <2>2
    <3>2. Nth(I, k) \in 1..Len(q) /\ Nth(J, l - Len(d)) \in 1..Len(s)
      BY <1>2, <1>3, <2>2, <3>1
    <3> QED BY <1>1, <3>1, <3>2
  <2>3. CASE l \notin 1..Len(d) /\ k \notin 1..Len(d)
    <3>1. /\ g[k] = Len(q) + Nth(J, k - Len(d)) /\ k - Len(d) \in 1..Len(f)
          /\ g[l] = Len(q) + Nth(J, l - Len(d)) /\ l - Len(d) \in 1..Len(f)
      BY <1>2, <1>6, <2>3
    <3>2. k - Len(d) < l - Len(d)
      BY <1>2, <1>4, <1>9
    <3>3. Nth(J, k - Len(d)) < Nth(J, l - Len(d))
      BY <1>3, <3>1, <3>2
    <3>4. Nth(J, k - Len(d)) \in 1..Len(s) /\ Nth(J, l - Len(d)) \in 1..Len(s)
      BY <1>3, <3>1
    <3> QED BY <1>1, <3>1, <3>3, <3>4
  <2> QED BY <2>1, <2>2, <2>3
<1>10. ASSUME NEW i \in Passing(c, K) PROVE \E k \in 1..Len(e) : g[k] = i
  <2>1. CASE i \in I
    <3>1. PICK k \in 1..Len(d) : i = Nth(I, k)
      BY <1>2, <2>1
    <3>2. k \in 1..Len(e) /\ k <= Len(d)
      BY <1>2, <1>3, <1>4
    <3> QED BY <3>1, <3>2
  <2>2. ASSUME NEW j \in J, i = Len(q) + j PROVE \E k \in 1..Len(e) : g[k] = i
    <3>1. PICK k \in 1..Len(f) : j = Nth(J, k)
      BY <1>3
    <3>2. Len(d) + k \in 1..Len(e) /\ ~(Len(d) + k <= Len(d)) /\ (Len(d) + k) - Len(d) = k
      BY <1>2, <1>3, <1>4
    <3>3. g[Len(d) + k] = Len(q) + Nth(J, k)
      BY <3>2
    <3> QED BY <2>2, <3>1, <3>2, <3>3
  <2> QED BY <1>5, <2>1, <2>2
<1> HIDE DEF g
<1>11. Retain(c, K) = e
  <2>1. c \in Seq(T) /\ e \in Seq(T)
    BY <1>1, <1>4
  <2>2. ReadOff(c, K, e, g)
    BY <1>7, <1>8, <1>9, <1>10 DEF ReadOff
  <2> QED BY <2>1, <2>2, RetainIs
<1> QED BY <1>11 DEF c, e, d, f

(* Two passes of Retain are one pass for what both keep. *)
LEMMA RetainTwice ==
  ASSUME NEW T, NEW q \in Seq(T), NEW K, NEW L
  PROVE  Retain(Retain(q, K), L) = Retain(q, K \cap L)
<1> DEFINE I == Passing(q, K)
           d == Retain(q, K)
           J == Passing(d, L)
           e == Retain(d, L)
           g == [k \in 1..Len(e) |-> Nth(I, Nth(J, k))]
<1>1. /\ I \subseteq DOMAIN q /\ d \in Seq(T) /\ DOMAIN d = 1..Len(d)
      /\ \A k \in DOMAIN d : Nth(I, k) \in I /\ d[k] = q[Nth(I, k)]
      /\ \A k, l \in DOMAIN d : k < l => Nth(I, k) < Nth(I, l)
      /\ \A i \in I : \E k \in DOMAIN d : i = Nth(I, k)
  BY RetainKeeps
<1>2. \A i : i \in I <=> i \in DOMAIN q /\ q[i] \in K
  BY DEF Passing
<1> HIDE DEF d
<1>3. /\ J \subseteq DOMAIN d /\ e \in Seq(T) /\ DOMAIN e = 1..Len(e)
      /\ \A k \in DOMAIN e : Nth(J, k) \in J /\ e[k] = d[Nth(J, k)]
      /\ \A k, l \in DOMAIN e : k < l => Nth(J, k) < Nth(J, l)
      /\ \A i \in J : \E k \in DOMAIN e : i = Nth(J, k)
  BY <1>1, RetainKeeps
<1>4. \A i : i \in J <=> i \in DOMAIN d /\ d[i] \in L
  BY DEF Passing
<1> HIDE DEF I, J, e
<1>5. \A i : i \in Passing(q, K \cap L) <=> i \in I /\ q[i] \in L
  BY <1>2 DEF Passing
<1>6. ASSUME NEW k \in DOMAIN e
      PROVE  Nth(J, k) \in DOMAIN d /\ Nth(I, Nth(J, k)) \in Passing(q, K \cap L)
             /\ e[k] = q[Nth(I, Nth(J, k))]
  <2>1. Nth(J, k) \in DOMAIN d /\ d[Nth(J, k)] \in L /\ e[k] = d[Nth(J, k)]
    BY <1>3, <1>4
  <2>2. Nth(I, Nth(J, k)) \in I /\ d[Nth(J, k)] = q[Nth(I, Nth(J, k))]
    BY <1>1, <2>1
  <2> QED BY <1>5, <2>1, <2>2
<1>7. g \in [DOMAIN e -> Passing(q, K \cap L)]
  BY <1>3, <1>6
<1>8. \A k \in DOMAIN e : e[k] = q[g[k]]
  BY <1>3, <1>6
<1>9. ASSUME NEW k \in DOMAIN e, NEW l \in DOMAIN e, k < l PROVE g[k] < g[l]
  <2>1. Nth(J, k) < Nth(J, l)
    BY <1>3, <1>9
  <2>2. Nth(I, Nth(J, k)) < Nth(I, Nth(J, l))
    BY <1>1, <1>6, <2>1
  <2> QED BY <1>3, <2>2
<1>10. ASSUME NEW i \in Passing(q, K \cap L) PROVE \E k \in DOMAIN e : g[k] = i
  <2>1. i \in I /\ q[i] \in L
    BY <1>5
  <2>2. PICK j \in DOMAIN d : i = Nth(I, j)
    BY <1>1, <2>1
  <2>3. j \in J
    BY <1>1, <1>4, <2>1, <2>2
  <2>4. PICK k \in DOMAIN e : j = Nth(J, k)
    BY <1>3, <2>3
  <2> QED BY <1>3, <2>2, <2>4
<1> HIDE DEF g
<1>11. ReadOff(q, K \cap L, e, g)
  BY <1>3, <1>7, <1>8, <1>9, <1>10 DEF ReadOff
<1>12. Retain(q, K \cap L) = e
  BY <1>3, <1>11, RetainIs
<1> QED BY <1>12 DEF e, d

(* Retain looks at no more than the entries of the queue. *)
LEMMA RetainSame ==
  ASSUME NEW q, NEW K, NEW L, \A i \in DOMAIN q : q[i] \in K <=> q[i] \in L
  PROVE  Retain(q, K) = Retain(q, L)
<1>1. Passing(q, K) = Passing(q, L)
  BY DEF Passing
<1> QED BY <1>1 DEF Retain

(* Nothing is kept of an empty queue. *)
LEMMA RetainNothing == \A K : Retain(<<>>, K) = <<>>
<1> SUFFICES ASSUME NEW K PROVE Retain(<<>>, K) = <<>>
  OBVIOUS
<1>1. Passing(<<>>, K) = {}
  BY DEF Passing
<1>2. Cardinality({}) = 0 /\ 1..0 = {}
  BY FS_EmptySet
<1>3. Retain(<<>>, K) = [k \in {} |-> <<>>[Nth({}, k)]]
  BY <1>1, <1>2 DEF Retain, EntriesAt
<1> QED BY <1>3

(* A queue all of which passes is kept, and of one nothing of which passes  *)
(* nothing is left.                                                         *)
LEMMA RetainAllOrNone ==
  ASSUME NEW T, NEW q \in Seq(T), NEW K
  PROVE  /\ (\A i \in 1..Len(q) : q[i] \in K) => Retain(q, K) = q
         /\ (\A i \in 1..Len(q) : q[i] \notin K) => Retain(q, K) = <<>>
<1>1. ASSUME \A i \in 1..Len(q) : q[i] \in K
      PROVE  Retain(q, K) = q
  <2> DEFINE g == [i \in 1..Len(q) |-> i]
  <2>1. \A i : i \in Passing(q, K) <=> i \in 1..Len(q)
    BY <1>1 DEF Passing
  <2>2. ReadOff(q, K, q, g)
    BY <2>1 DEF ReadOff
  <2> QED BY <2>2, RetainIs
<1>2. ASSUME \A i \in 1..Len(q) : q[i] \notin K
      PROVE  Retain(q, K) = <<>>
  <2>1. \A i : i \notin Passing(q, K)
    BY <1>2 DEF Passing
  <2> DEFINE e == <<>>
             g == [i \in 1..0 |-> 0]
  <2>2. e \in Seq(T) /\ Len(e) = 0 /\ 1..Len(e) = {} /\ 1..0 = {}
    OBVIOUS
  <2>3. ReadOff(q, K, e, g)
    BY <2>1, <2>2 DEF ReadOff
  <2> HIDE DEF e, g
  <2> QED BY <2>2, <2>3, RetainIs DEF e
<1> QED BY <1>1, <1>2

------------------------------------------------------------------------------

ClaimTypes ==
  /\ holder \in [Ports -> Outputs \cup {Nobody}]
  /\ waiters \in [Ports -> Seq(Tasks)]
  /\ at \in [Tasks -> {"new", "waiting", "holding", "gone"}]
  /\ cancelled \subseteq Tasks
  /\ notified \subseteq Tasks

InQueue(p, t) == \E i \in DOMAIN waiters[p] : waiters[p][i] = t

Owns(t) == at[t] = "holding" \/ (at[t] = "waiting" /\ t \in notified)

(* One start of an output at a time is between its claim and its exit.     *)
OneStart ==
  \A t, u \in Tasks : OutputOf[t] = OutputOf[u] /\ Active(t) /\ Active(u) => t = u

(* A queue holds tasks that wait at the port and have not been promoted,   *)
(* each once, and none that is live is missing.                            *)
QueueInv ==
  /\ \A p \in Ports : \A t \in Tasks :
       InQueue(p, t) => PortOf[t] = p /\ at[t] = "waiting" /\ t \notin notified
  /\ \A p \in Ports : \A i, j \in DOMAIN waiters[p] :
       waiters[p][i] = waiters[p][j] => i = j
  /\ \A t \in Tasks :
       at[t] = "waiting" /\ t \notin notified /\ t \notin cancelled
         => InQueue(PortOf[t], t)
  /\ \A t \in notified : at[t] \in {"waiting", "gone"}

(* The registry's holder is the output of the task that owns the port.     *)
HolderInv ==
  /\ \A t \in Tasks : Owns(t) => holder[PortOf[t]] = OutputOf[t]
  /\ \A p \in Ports :
       IF holder[p] = Nobody
       THEN waiters[p] = <<>>
       ELSE \E t \in Tasks : PortOf[t] = p /\ Owns(t)

ClaimInv == ClaimTypes /\ OneStart /\ QueueInv /\ HolderInv

------------------------------------------------------------------------------
(* What the registry calls do to a queue.                                  *)

(* The promotion loop stops at the oldest waiter whose token has not fired. *)
LEMMA FirstLiveIsOldest ==
  ASSUME NEW q \in Seq(Tasks), ~AllCancelled(q)
  PROVE  /\ FirstLive(q) \in DOMAIN q
         /\ q[FirstLive(q)] \notin cancelled
         /\ \A j \in 1..(FirstLive(q) - 1) : q[j] \in cancelled
<1> DEFINE L == {i \in DOMAIN q : q[i] \notin cancelled}
<1>1. L \in SUBSET (1..Len(q)) /\ L # {} /\ DOMAIN q = 1..Len(q) /\ Len(q) \in Nat
  BY DEF AllCancelled
<1>2. PICK i \in L : \A j \in L : i <= j
  <2>1. IsFiniteSet(L) /\ L \in SUBSET Nat
    <3>1. IsFiniteSet(1..Len(q))
      BY <1>1, FS_Interval
    <3> QED BY <1>1, <3>1, FS_Subset
  <2>2. Cardinality(L) \in Nat /\ Cardinality(L) # 0
    BY <1>1, <2>1, FS_CardinalityType, FS_EmptySet
  <2> HIDE DEF L
  <2>3. Nth(L, 1) \in L /\ Rank(L, Nth(L, 1)) = 1
    BY <2>1, <2>2, NthPosition
  <2>4. ASSUME NEW j \in L, j < Nth(L, 1) PROVE FALSE
    <3>1. Rank(L, j) \in 1..Cardinality(L) /\ Rank(L, j) < Rank(L, Nth(L, 1))
      BY <2>1, <2>3, <2>4, RankOfPosition
    <3> QED BY <2>3, <3>1
  <2>5. \A j \in L : j \in Nat
    BY <2>1
  <2> QED BY <2>3, <2>4, <2>5
<1>3. i \in DOMAIN q /\ q[i] \notin cancelled /\ \A j \in 1..(i - 1) : q[j] \in cancelled
  BY <1>1, <1>2
<1> QED BY <1>3 DEF FirstLive

(* A promotion empties the queue, or notifies a live waiter and takes it    *)
(* and cancelled ones off the queue.                                        *)
LEMMA PromoteMoves ==
  ASSUME ClaimTypes, QueueInv, NEW p \in Ports, Promote(p)
  PROVE  /\ waiters' \in [Ports -> Seq(Tasks)]
         /\ \A r \in Ports \ {p} : waiters'[r] = waiters[r]
         /\ \A i, j \in DOMAIN waiters'[p] : waiters'[p][i] = waiters'[p][j] => i = j
         /\ \/ /\ \A u \in Tasks : InQueue(p, u) => u \in cancelled
               /\ holder' = [holder EXCEPT ![p] = Nobody]
               /\ waiters'[p] = <<>>
               /\ notified' = notified
            \/ \E w \in Tasks :
                 /\ w \notin cancelled
                 /\ InQueue(p, w)
                 /\ holder' = [holder EXCEPT ![p] = OutputOf[w]]
                 /\ notified' = notified \cup {w}
                 /\ \A u \in Tasks : InQueue(p, u)' => InQueue(p, u) /\ u # w
                 /\ \A u \in Tasks :
                      InQueue(p, u) /\ u \notin cancelled /\ u # w => InQueue(p, u)'
<1> DEFINE q == waiters[p]
           i == FirstLive(q)
<1>1. q \in Seq(Tasks) /\ DOMAIN q = 1..Len(q) /\ Len(q) \in Nat
  BY DEF ClaimTypes
<1>2. CASE AllCancelled(q)
  <2>1. waiters' = [waiters EXCEPT ![p] = <<>>]
    BY <1>2 DEF Promote
  <2>2. waiters' \in [Ports -> Seq(Tasks)] /\ waiters'[p] = <<>>
        /\ \A r \in Ports \ {p} : waiters'[r] = waiters[r]
    BY <2>1 DEF ClaimTypes
  <2>3. \A u \in Tasks : InQueue(p, u) => u \in cancelled
    BY <1>2 DEF AllCancelled, InQueue
  <2>4. holder' = [holder EXCEPT ![p] = Nobody] /\ notified' = notified
    BY <1>2 DEF Promote
  <2>5. \A k, l \in DOMAIN waiters'[p] : waiters'[p][k] = waiters'[p][l] => k = l
    BY <2>2
  <2> QED BY <2>2, <2>3, <2>4, <2>5
<1>3. CASE ~AllCancelled(q)
  <2> DEFINE s == SubSeq(q, i + 1, Len(q))
             w == q[i]
  <2>1. i \in 1..Len(q) /\ w \notin cancelled /\ \A j \in 1..(i - 1) : q[j] \in cancelled
    BY <1>1, <1>3, FirstLiveIsOldest
  <2>2. waiters' = [waiters EXCEPT ![p] = s] /\ holder' = [holder EXCEPT ![p] = OutputOf[w]]
        /\ notified' = notified \cup {w}
    BY <1>3 DEF Promote
  <2>3. w \in Tasks /\ InQueue(p, w)
    BY <1>1, <2>1 DEF InQueue
  <2> HIDE DEF i
  <2>4. s \in Seq(Tasks) /\ Len(s) = Len(q) - i /\ DOMAIN s = 1..(Len(q) - i)
        /\ \A k \in 1..(Len(q) - i) : s[k] = q[i + k]
    BY <1>1, <2>1
  <2> HIDE DEF s
  <2>5. waiters' \in [Ports -> Seq(Tasks)] /\ waiters'[p] = s
        /\ \A r \in Ports \ {p} : waiters'[r] = waiters[r]
    BY <2>2, <2>4 DEF ClaimTypes
  <2>6. \A k, l \in DOMAIN q : q[k] = q[l] => k = l
    BY DEF QueueInv
  <2>7. \A k, l \in DOMAIN s : s[k] = s[l] => k = l
    <3> SUFFICES ASSUME NEW k \in DOMAIN s, NEW l \in DOMAIN s, s[k] = s[l]
                 PROVE  k = l
      OBVIOUS
    <3>1. i + k \in DOMAIN q /\ i + l \in DOMAIN q /\ q[i + k] = q[i + l]
      <4>1. k \in 1..(Len(q) - i) /\ l \in 1..(Len(q) - i)
        BY <2>4
      <4>2. s[k] = q[i + k] /\ s[l] = q[i + l]
        BY <2>4, <4>1
      <4>3. i + k \in 1..Len(q) /\ i + l \in 1..Len(q)
        BY <1>1, <2>1, <4>1
      <4> QED BY <1>1, <4>2, <4>3
    <3>2. i + k = i + l
      BY <2>6, <3>1
    <3> QED BY <2>1, <2>4, <3>2
  <2>8. ASSUME NEW u \in Tasks, NEW k \in DOMAIN s, s[k] = u
        PROVE  u # w /\ InQueue(p, u)
    <3>1. i + k \in DOMAIN q /\ q[i + k] = u /\ i + k # i
      BY <1>1, <2>1, <2>4, <2>8
    <3> QED BY <1>1, <2>1, <2>6, <3>1 DEF InQueue
  <2>9. ASSUME NEW u \in Tasks, u \notin cancelled, u # w, NEW k \in DOMAIN q, q[k] = u
        PROVE  \E l \in DOMAIN s : s[l] = u
    <3>1. k > i
      BY <1>1, <2>1, <2>9
    <3>2. k - i \in 1..(Len(q) - i) /\ i + (k - i) = k
      BY <1>1, <2>1, <3>1
    <3> QED BY <2>4, <2>9, <3>2
  <2>10. \A u \in Tasks : InQueue(p, u)' => InQueue(p, u) /\ u # w
    BY <2>5, <2>8 DEF InQueue
  <2>11. \A u \in Tasks : InQueue(p, u) /\ u \notin cancelled /\ u # w => InQueue(p, u)'
    BY <2>5, <2>9 DEF InQueue
  <2> QED BY <2>1, <2>2, <2>3, <2>5, <2>7, <2>10, <2>11
<1> QED BY <1>2, <1>3

(* A withdrawal takes the waiters of one output off the queue. *)
LEMMA WithdrawMoves ==
  ASSUME ClaimTypes, QueueInv, NEW p \in Ports, NEW o,
         waiters' = [waiters EXCEPT ![p] = Retain(@, TasksOfOthers(o))]
  PROVE  /\ waiters' \in [Ports -> Seq(Tasks)]
         /\ \A r \in Ports \ {p} : waiters'[r] = waiters[r]
         /\ \A i, j \in DOMAIN waiters'[p] : waiters'[p][i] = waiters'[p][j] => i = j
         /\ \A u \in Tasks : InQueue(p, u)' <=> InQueue(p, u) /\ OutputOf[u] # o
<1> DEFINE q == waiters[p]
           K == TasksOfOthers(o)
           e == Retain(q, K)
           I == Passing(q, K)
<1>1. q \in Seq(Tasks) /\ DOMAIN q = 1..Len(q) /\ Len(q) \in Nat
  BY DEF ClaimTypes
<1>2. /\ I \subseteq DOMAIN q
      /\ e \in Seq(Tasks)
      /\ DOMAIN e = 1..Len(e)
      /\ \A k \in DOMAIN e : Nth(I, k) \in I /\ e[k] = q[Nth(I, k)]
      /\ \A k, l \in DOMAIN e : k < l => Nth(I, k) < Nth(I, l)
      /\ \A i \in I : \E k \in DOMAIN e : i = Nth(I, k)
  BY <1>1, RetainKeeps
<1> HIDE DEF I
<1>3. waiters' \in [Ports -> Seq(Tasks)] /\ waiters'[p] = e
      /\ \A r \in Ports \ {p} : waiters'[r] = waiters[r]
  BY <1>2 DEF ClaimTypes
<1>4. \A k, l \in DOMAIN q : q[k] = q[l] => k = l
  BY DEF QueueInv
<1>5. \A k, l \in DOMAIN e : e[k] = e[l] => k = l
  <2> SUFFICES ASSUME NEW k \in DOMAIN e, NEW l \in DOMAIN e, e[k] = e[l], k # l
               PROVE  FALSE
    OBVIOUS
  <2> HIDE DEF e
  <2>1. Nth(I, k) = Nth(I, l) /\ Nth(I, k) \in Nat
    <3>1. Nth(I, k) \in DOMAIN q /\ Nth(I, l) \in DOMAIN q
      BY <1>2
    <3>2. q[Nth(I, k)] = q[Nth(I, l)]
      BY <1>2
    <3> QED BY <1>1, <1>4, <3>1, <3>2
  <2>2. k < l \/ l < k
    BY <1>2
  <2> QED BY <1>2, <2>1, <2>2
<1>6. ASSUME NEW u \in Tasks
      PROVE  InQueue(p, u)' <=> InQueue(p, u) /\ OutputOf[u] # o
  <2>1. (\E k \in DOMAIN e : e[k] = u) <=> (\E i \in I : q[i] = u)
    <3> HIDE DEF e
    <3> QED BY <1>2
  <2>2. (\E i \in I : q[i] = u) <=> InQueue(p, u) /\ OutputOf[u] # o
    BY <1>1 DEF InQueue, TasksOfOthers, I, Passing
  <2> QED BY <1>3, <2>1, <2>2 DEF InQueue
<1> QED BY <1>3, <1>5, <1>6

------------------------------------------------------------------------------
(* The claims invariant, one lemma per way a task moves on.                *)

(* No port is claimed at first. *)
LEMMA ClaimInit == Init => ClaimInv
<1> SUFFICES ASSUME Init PROVE ClaimInv
  OBVIOUS
<1>1. \A p \in Ports : waiters[p] = <<>> /\ holder[p] = Nobody
  BY DEF Init
<1>2. \A t \in Tasks : at[t] = "new"
  BY DEF Init
<1>3. ClaimTypes
  BY DEF Init, ClaimTypes
<1>4. \A t : \A p \in Ports : ~InQueue(p, t)
  BY <1>1 DEF InQueue
<1>5. \A t \in Tasks : ~Owns(t) /\ ~Active(t)
  BY <1>2 DEF Owns, Active
<1>6. OneStart /\ HolderInv
  BY <1>1, <1>5 DEF OneStart, HolderInv
<1>7. QueueInv
  BY <1>1, <1>2, <1>4, DisplayAssumption DEF QueueInv, Init
<1> QED BY <1>3, <1>6, <1>7 DEF ClaimInv

(* A task that starts claims a free port or queues; no other start of its   *)
(* output is under way.                                                     *)
LEMMA ClaimStep ==
  ASSUME ~Overlaps, ClaimInv, NEW t \in Tasks, try_claim(t)
  PROVE  ClaimInv'
<1> DEFINE p == PortOf[t]
           o == OutputOf[t]
<1> USE DisplayAssumption
<1>1. p \in Ports /\ o \in Outputs /\ o # Nobody /\ at[t] = "new"
  BY DEF try_claim
<1>2. \A u \in Tasks : u # t /\ OutputOf[u] = o => ~Active(u)
  BY DEF try_claim, Siblings
<1>3. cancelled' = cancelled /\ notified' = notified
  BY DEF try_claim
<1>4. t \notin notified /\ ~InQueue(p, t)
  BY <1>1 DEF ClaimInv, QueueInv
<1>5. CASE Free(p)
  <2>1. /\ holder' = [holder EXCEPT ![p] = o]
        /\ waiters' = waiters
        /\ at' = [at EXCEPT ![t] = "holding"]
    BY <1>5 DEF try_claim
  <2>2. holder[p] = Nobody /\ waiters[p] = <<>>
    BY <1>5 DEF Free
  <2>3. ClaimTypes'
    BY <1>1, <1>3, <2>1 DEF ClaimInv, ClaimTypes
  <2>4. at'[t] = "holding" /\ \A u \in Tasks : u # t => at'[u] = at[u]
    BY <2>1 DEF ClaimInv, ClaimTypes
  <2>5. OneStart'
    BY <1>2, <2>4 DEF ClaimInv, OneStart, Active
  <2>6. \A u : \A r \in Ports : InQueue(r, u)' <=> InQueue(r, u)
    BY <2>1 DEF InQueue
  <2>7. QueueInv'
    BY <1>1, <1>3, <1>4, <2>1, <2>4, <2>6 DEF ClaimInv, QueueInv
  <2>8. \A u \in Tasks : u # t => (Owns(u)' <=> Owns(u))
    BY <1>3, <2>4 DEF Owns
  <2>9. \A u \in Tasks : Owns(u) => PortOf[u] # p
    BY <2>2, DisplayAssumption DEF ClaimInv, HolderInv
  <2>10. Owns(t)'
    BY <2>4 DEF Owns
  <2>11. holder'[p] = o /\ \A r \in Ports \ {p} : holder'[r] = holder[r]
    BY <1>1, <2>1 DEF ClaimInv, ClaimTypes
  <2>12. \A u \in Tasks : Owns(u)' => holder'[PortOf[u]] = OutputOf[u]
    BY <2>8, <2>9, <2>11 DEF ClaimInv, HolderInv
  <2>13. ASSUME NEW r \in Ports
         PROVE  IF holder'[r] = Nobody THEN waiters'[r] = <<>>
                ELSE \E u \in Tasks : PortOf[u] = r /\ Owns(u)'
    <3>1. CASE r = p
      BY <1>1, <2>10, <2>11, <3>1
    <3>2. CASE r # p
      <4>1. holder'[r] = holder[r] /\ waiters'[r] = waiters[r]
        BY <2>1, <2>11, <3>2
      <4>2. \A u \in Tasks : PortOf[u] = r => u # t
        BY <3>2
      <4> QED BY <2>8, <4>1, <4>2 DEF ClaimInv, HolderInv
    <3> QED BY <3>1, <3>2
  <2>14. HolderInv'
    BY <2>12, <2>13 DEF HolderInv
  <2> QED BY <2>3, <2>5, <2>7, <2>14 DEF ClaimInv
<1>6. CASE ~Free(p)
  <2> DEFINE q == waiters[p]
             s == Append(q, t)
  <2>1. /\ holder' = holder
        /\ waiters' = [waiters EXCEPT ![p] = s]
        /\ at' = [at EXCEPT ![t] = "waiting"]
    BY <1>6 DEF try_claim
  <2>2. q \in Seq(Tasks) /\ DOMAIN q = 1..Len(q) /\ Len(q) \in Nat
    BY <1>1 DEF ClaimInv, ClaimTypes
  <2>3. /\ s \in Seq(Tasks) /\ DOMAIN s = 1..(Len(q) + 1)
        /\ s[Len(q) + 1] = t /\ \A k \in 1..Len(q) : s[k] = q[k]
    BY <2>2
  <2> HIDE DEF s
  <2>4. waiters'[p] = s /\ \A r \in Ports \ {p} : waiters'[r] = waiters[r]
    BY <1>1, <2>1 DEF ClaimInv, ClaimTypes
  <2>5. ClaimTypes'
    BY <1>1, <1>3, <2>1, <2>3 DEF ClaimInv, ClaimTypes
  <2>6. at'[t] = "waiting" /\ \A u \in Tasks : u # t => at'[u] = at[u]
    BY <2>1 DEF ClaimInv, ClaimTypes
  <2>7. OneStart'
    BY <1>2, <2>6 DEF ClaimInv, OneStart, Active
  <2>8. \A u \in Tasks : InQueue(p, u)' <=> InQueue(p, u) \/ u = t
    <3>1. \A u \in Tasks : (\E k \in DOMAIN s : s[k] = u) <=> (\E k \in DOMAIN q : q[k] = u) \/ u = t
      BY <2>2, <2>3
    <3> QED BY <2>4, <3>1 DEF InQueue
  <2>9. \A r \in Ports \ {p}, u \in Tasks : InQueue(r, u)' <=> InQueue(r, u)
    BY <2>4 DEF InQueue
  <2>10. \A i, j \in DOMAIN s : s[i] = s[j] => i = j
    <3>1. \A i, j \in DOMAIN q : q[i] = q[j] => i = j
      BY <1>1 DEF ClaimInv, QueueInv
    <3>2. \A i \in DOMAIN q : q[i] # t
      BY <1>4 DEF InQueue
    <3> SUFFICES ASSUME NEW i \in DOMAIN s, NEW j \in DOMAIN s, s[i] = s[j], i # j
                 PROVE  FALSE
      OBVIOUS
    <3>3. CASE i \in DOMAIN q /\ j \in DOMAIN q
      BY <2>2, <2>3, <3>1, <3>3
    <3>4. CASE i = Len(q) + 1
      BY <2>2, <2>3, <3>2, <3>4
    <3>5. CASE j = Len(q) + 1
      BY <2>2, <2>3, <3>2, <3>5
    <3> QED BY <2>2, <2>3, <3>3, <3>4, <3>5
  <2>11. \A r \in Ports : \A i, j \in DOMAIN waiters'[r] :
           waiters'[r][i] = waiters'[r][j] => i = j
    BY <2>4, <2>10 DEF ClaimInv, QueueInv
  <2>12. \A r \in Ports : \A u \in Tasks :
           InQueue(r, u)' => PortOf[u] = r /\ at'[u] = "waiting" /\ u \notin notified'
    <3> SUFFICES ASSUME NEW r \in Ports, NEW u \in Tasks, InQueue(r, u)'
                 PROVE  PortOf[u] = r /\ at'[u] = "waiting" /\ u \notin notified'
      OBVIOUS
    <3>1. CASE r = p /\ u = t
      BY <1>3, <1>4, <2>6, <3>1
    <3>2. CASE ~(r = p /\ u = t)
      <4>1. InQueue(r, u)
        BY <2>8, <2>9, <3>2
      <4>2. PortOf[u] = r /\ at[u] = "waiting" /\ u \notin notified
        BY <4>1 DEF ClaimInv, QueueInv
      <4> QED BY <1>1, <1>3, <2>6, <4>2
    <3> QED BY <3>1, <3>2
  <2>13. \A u \in Tasks : at'[u] = "waiting" /\ u \notin notified' /\ u \notin cancelled'
           => InQueue(PortOf[u], u)'
    <3> SUFFICES ASSUME NEW u \in Tasks, at'[u] = "waiting", u \notin notified', u \notin cancelled'
                 PROVE  InQueue(PortOf[u], u)'
      OBVIOUS
    <3>1. CASE u = t
      BY <2>8, <3>1
    <3>2. CASE u # t
      <4>1. InQueue(PortOf[u], u) /\ PortOf[u] \in Ports
        BY <1>3, <2>6, <3>2 DEF ClaimInv, QueueInv
      <4> QED BY <2>8, <2>9, <4>1
    <3> QED BY <3>1, <3>2
  <2>14. \A u \in notified' : at'[u] \in {"waiting", "gone"}
    BY <1>3, <1>4, <2>6 DEF ClaimInv, QueueInv, ClaimTypes
  <2>15. QueueInv'
    BY <2>11, <2>12, <2>13, <2>14 DEF QueueInv
  <2>16. \A u \in Tasks : Owns(u)' <=> Owns(u)
    BY <1>1, <1>3, <1>4, <2>6 DEF Owns
  <2>17. holder[p] # Nobody
    BY <1>1, <1>6 DEF Free, ClaimInv, HolderInv
  <2>18. HolderInv'
    BY <2>1, <2>4, <2>16, <2>17 DEF ClaimInv, HolderInv
  <2> QED BY <2>5, <2>7, <2>15, <2>18 DEF ClaimInv
<1> QED BY <1>5, <1>6

(* A token that fires changes nothing that is owned or queued. *)
LEMMA CancelStep ==
  ASSUME ClaimInv, NEW t \in Tasks, Cancel(t)
  PROVE  ClaimInv'
<1>1. cancelled' = cancelled \cup {t} /\ UNCHANGED <<holder, waiters, at, notified>>
  BY DEF Cancel
<1>2. ClaimTypes' /\ OneStart'
  BY <1>1 DEF ClaimInv, ClaimTypes, OneStart, Active
<1>3. \A p, u : InQueue(p, u)' <=> InQueue(p, u)
  BY <1>1 DEF InQueue
<1>4. QueueInv'
  BY <1>1, <1>3 DEF ClaimInv, QueueInv
<1>5. \A u \in Tasks : Owns(u)' <=> Owns(u)
  BY <1>1 DEF Owns
<1>6. HolderInv'
  BY <1>1, <1>5 DEF ClaimInv, HolderInv
<1> QED BY <1>2, <1>4, <1>6 DEF ClaimInv

(* A promoted task that is polled goes on owning its port. *)
LEMMA GrantStep ==
  ASSUME ClaimInv, NEW t \in Tasks, Granted(t)
  PROVE  ClaimInv'
<1>1. /\ at[t] = "waiting" /\ t \in notified
      /\ at' = [at EXCEPT ![t] = "holding"]
      /\ notified' = notified \ {t}
      /\ UNCHANGED <<holder, waiters, cancelled>>
  BY DEF Granted
<1>2. at'[t] = "holding" /\ \A u \in Tasks : u # t => at'[u] = at[u]
  BY <1>1 DEF ClaimInv, ClaimTypes
<1>3. ClaimTypes'
  BY <1>1 DEF ClaimInv, ClaimTypes
<1>4. OneStart'
  BY <1>1, <1>2 DEF ClaimInv, OneStart, Active
<1>5. \A p, u : InQueue(p, u)' <=> InQueue(p, u)
  BY <1>1 DEF InQueue
<1>6. \A p \in Ports : ~InQueue(p, t)
  BY <1>1 DEF ClaimInv, QueueInv
<1>7. QueueInv'
  BY <1>1, <1>2, <1>5, <1>6 DEF ClaimInv, QueueInv, ClaimTypes
<1>8. \A u \in Tasks : Owns(u)' <=> Owns(u)
  BY <1>1, <1>2 DEF Owns
<1>9. HolderInv'
  BY <1>1, <1>8 DEF ClaimInv, HolderInv
<1> QED BY <1>3, <1>4, <1>7, <1>9 DEF ClaimInv

(* The owner of a port ends: the port goes to the oldest live waiter, or is *)
(* free when there is none.                                                 *)
LEMMA OwnerLeaves ==
  ASSUME ClaimInv, NEW t \in Tasks, Owns(t), Promote(PortOf[t]),
         at' = [at EXCEPT ![t] = "gone"], cancelled' = cancelled
  PROVE  ClaimInv'
<1> DEFINE p == PortOf[t]
<1> USE DisplayAssumption
<1>1. p \in Ports
  OBVIOUS
<1>2. at'[t] = "gone" /\ \A u \in Tasks : u # t => at'[u] = at[u]
  BY DEF ClaimInv, ClaimTypes
<1>3. at' \in [Tasks -> {"new", "waiting", "holding", "gone"}]
  BY DEF ClaimInv, ClaimTypes
<1>4. OneStart'
  BY <1>2 DEF ClaimInv, OneStart, Active
<1>5. /\ waiters' \in [Ports -> Seq(Tasks)]
      /\ \A r \in Ports \ {p} : waiters'[r] = waiters[r]
      /\ \A i, j \in DOMAIN waiters'[p] : waiters'[p][i] = waiters'[p][j] => i = j
  BY <1>1, PromoteMoves DEF ClaimInv
<1>6. \A r \in Ports \ {p}, u \in Tasks : InQueue(r, u)' <=> InQueue(r, u)
  BY <1>5 DEF InQueue
<1>7. \A r \in Ports : \A i, j \in DOMAIN waiters'[r] :
        waiters'[r][i] = waiters'[r][j] => i = j
  BY <1>5 DEF ClaimInv, QueueInv
<1>8. \A r \in Ports : ~InQueue(r, t)
  BY DEF ClaimInv, QueueInv, Owns
<1>9. \A u \in Tasks : Owns(u) /\ PortOf[u] = p => u = t
  BY DEF ClaimInv, HolderInv, OneStart, Owns, Active
<1>10. CASE /\ \A u \in Tasks : InQueue(p, u) => u \in cancelled
            /\ holder' = [holder EXCEPT ![p] = Nobody]
            /\ waiters'[p] = <<>>
            /\ notified' = notified
  <2>1. ClaimTypes'
    BY <1>1, <1>3, <1>5, <1>10 DEF ClaimInv, ClaimTypes
  <2>2. holder'[p] = Nobody /\ \A r \in Ports \ {p} : holder'[r] = holder[r]
    BY <1>1, <1>10 DEF ClaimInv, ClaimTypes
  <2>3. \A u \in Tasks : ~InQueue(p, u)'
    BY <1>10 DEF InQueue
  <2>4. QueueInv'
    <3>1. \A r \in Ports : \A u \in Tasks :
            InQueue(r, u)' => PortOf[u] = r /\ at'[u] = "waiting" /\ u \notin notified'
      BY <1>2, <1>6, <1>8, <1>10, <2>3 DEF ClaimInv, QueueInv
    <3>2. \A u \in Tasks : at'[u] = "waiting" /\ u \notin notified' /\ u \notin cancelled'
            => InQueue(PortOf[u], u)'
      <4> SUFFICES ASSUME NEW u \in Tasks, at'[u] = "waiting", u \notin notified', u \notin cancelled'
                   PROVE  InQueue(PortOf[u], u)'
        OBVIOUS
      <4>1. u # t /\ InQueue(PortOf[u], u) /\ PortOf[u] \in Ports
        BY <1>2, <1>10 DEF ClaimInv, QueueInv
      <4>2. PortOf[u] # p
        BY <1>10, <4>1
      <4> QED BY <1>6, <4>1, <4>2
    <3>3. \A u \in notified' : at'[u] \in {"waiting", "gone"}
      BY <1>2, <1>10 DEF ClaimInv, QueueInv, ClaimTypes
    <3> QED BY <1>7, <3>1, <3>2, <3>3 DEF QueueInv
  <2>5. \A u \in Tasks : Owns(u)' <=> Owns(u) /\ u # t
    BY <1>2, <1>10 DEF Owns
  <2>6. HolderInv'
    <3>1. \A u \in Tasks : Owns(u)' => holder'[PortOf[u]] = OutputOf[u]
      BY <1>9, <2>2, <2>5 DEF ClaimInv, HolderInv
    <3>2. ASSUME NEW r \in Ports
          PROVE  IF holder'[r] = Nobody THEN waiters'[r] = <<>>
                 ELSE \E u \in Tasks : PortOf[u] = r /\ Owns(u)'
      BY <1>5, <1>10, <2>2, <2>5 DEF ClaimInv, HolderInv
    <3> QED BY <3>1, <3>2 DEF HolderInv
  <2> QED BY <1>4, <2>1, <2>4, <2>6 DEF ClaimInv
<1>11. ASSUME NEW w \in Tasks,
              w \notin cancelled, InQueue(p, w),
              holder' = [holder EXCEPT ![p] = OutputOf[w]],
              notified' = notified \cup {w},
              \A u \in Tasks : InQueue(p, u)' => InQueue(p, u) /\ u # w,
              \A u \in Tasks : InQueue(p, u) /\ u \notin cancelled /\ u # w => InQueue(p, u)'
       PROVE  ClaimInv'
  <2>1. w # t /\ PortOf[w] = p /\ at[w] = "waiting" /\ w \notin notified /\ OutputOf[w] # Nobody
    BY <1>8, <1>11 DEF ClaimInv, QueueInv
  <2>2. ClaimTypes'
    BY <1>1, <1>3, <1>5, <1>11 DEF ClaimInv, ClaimTypes
  <2>3. holder'[p] = OutputOf[w] /\ \A r \in Ports \ {p} : holder'[r] = holder[r]
    BY <1>1, <1>11 DEF ClaimInv, ClaimTypes
  <2>4. QueueInv'
    <3>1. \A r \in Ports : \A u \in Tasks :
            InQueue(r, u)' => PortOf[u] = r /\ at'[u] = "waiting" /\ u \notin notified'
      <4> SUFFICES ASSUME NEW r \in Ports, NEW u \in Tasks, InQueue(r, u)'
                   PROVE  PortOf[u] = r /\ at'[u] = "waiting" /\ u \notin notified'
        OBVIOUS
      <4>1. InQueue(r, u)
        BY <1>6, <1>11
      <4>2. PortOf[u] = r /\ at[u] = "waiting" /\ u \notin notified /\ u # t
        BY <1>8, <4>1 DEF ClaimInv, QueueInv
      <4>3. u # w
        BY <1>11, <2>1, <4>2
      <4> QED BY <1>2, <1>11, <4>2, <4>3
    <3>2. \A u \in Tasks : at'[u] = "waiting" /\ u \notin notified' /\ u \notin cancelled'
            => InQueue(PortOf[u], u)'
      <4> SUFFICES ASSUME NEW u \in Tasks, at'[u] = "waiting", u \notin notified', u \notin cancelled'
                   PROVE  InQueue(PortOf[u], u)'
        OBVIOUS
      <4>1. u # t /\ u # w /\ u \notin cancelled
        BY <1>2, <1>11
      <4>2. InQueue(PortOf[u], u) /\ PortOf[u] \in Ports
        BY <1>2, <1>11, <4>1 DEF ClaimInv, QueueInv
      <4> QED BY <1>6, <1>11, <4>1, <4>2
    <3>3. \A u \in notified' : at'[u] \in {"waiting", "gone"}
      BY <1>2, <1>11, <2>1 DEF ClaimInv, QueueInv, ClaimTypes
    <3> QED BY <1>7, <3>1, <3>2, <3>3 DEF QueueInv
  <2>5. Owns(w)' /\ \A u \in Tasks : u # w => (Owns(u)' <=> Owns(u) /\ u # t)
    BY <1>2, <1>11, <2>1 DEF Owns
  <2>6. HolderInv'
    <3>1. \A u \in Tasks : Owns(u)' => holder'[PortOf[u]] = OutputOf[u]
      BY <1>9, <2>1, <2>3, <2>5 DEF ClaimInv, HolderInv
    <3>2. ASSUME NEW r \in Ports
          PROVE  IF holder'[r] = Nobody THEN waiters'[r] = <<>>
                 ELSE \E u \in Tasks : PortOf[u] = r /\ Owns(u)'
      <4>1. CASE r = p
        BY <2>1, <2>3, <2>5, <4>1
      <4>2. CASE r # p
        <5>1. holder'[r] = holder[r] /\ waiters'[r] = waiters[r]
          BY <1>5, <2>3, <4>2
        <5>2. \A u \in Tasks : PortOf[u] = r => u # t /\ u # w
          BY <2>1, <4>2
        <5> QED BY <2>5, <5>1, <5>2 DEF ClaimInv, HolderInv
      <4> QED BY <4>1, <4>2
    <3> QED BY <3>1, <3>2 DEF HolderInv
  <2> QED BY <1>4, <2>2, <2>4, <2>6 DEF ClaimInv
<1>12. \/ /\ \A u \in Tasks : InQueue(p, u) => u \in cancelled
          /\ holder' = [holder EXCEPT ![p] = Nobody]
          /\ waiters'[p] = <<>>
          /\ notified' = notified
       \/ \E w \in Tasks :
            /\ w \notin cancelled
            /\ InQueue(p, w)
            /\ holder' = [holder EXCEPT ![p] = OutputOf[w]]
            /\ notified' = notified \cup {w}
            /\ \A u \in Tasks : InQueue(p, u)' => InQueue(p, u) /\ u # w
            /\ \A u \in Tasks :
                 InQueue(p, u) /\ u \notin cancelled /\ u # w => InQueue(p, u)'
  <2> HIDE DEF p
  <2>1. Promote(p)
    BY DEF p
  <2> QED BY <1>1, <2>1, PromoteMoves DEF ClaimInv
<1> QED BY <1>10, <1>11, <1>12

(* A cancelled waiter that owns nothing withdraws, and takes only itself    *)
(* off the queue: no other start of its output is under way.                *)
LEMMA WaiterLeaves ==
  ASSUME ClaimInv, NEW t \in Tasks, at[t] = "waiting",
         holder[PortOf[t]] # OutputOf[t],
         waiters' = [waiters EXCEPT
                       ![PortOf[t]] = Retain(@, TasksOfOthers(OutputOf[t]))],
         at' = [at EXCEPT ![t] = "gone"],
         UNCHANGED <<holder, notified, cancelled>>
  PROVE  ClaimInv'
<1> DEFINE p == PortOf[t]
<1> USE DisplayAssumption
<1>1. p \in Ports
  OBVIOUS
<1>2. at'[t] = "gone" /\ \A u \in Tasks : u # t => at'[u] = at[u]
  BY DEF ClaimInv, ClaimTypes
<1>3. /\ waiters' \in [Ports -> Seq(Tasks)]
      /\ \A r \in Ports \ {p} : waiters'[r] = waiters[r]
      /\ \A i, j \in DOMAIN waiters'[p] : waiters'[p][i] = waiters'[p][j] => i = j
      /\ \A u \in Tasks : InQueue(p, u)' <=> InQueue(p, u) /\ OutputOf[u] # OutputOf[t]
  BY <1>1, WithdrawMoves DEF ClaimInv
<1>4. \A u \in Tasks : InQueue(p, u)' <=> InQueue(p, u) /\ u # t
  <2>1. \A u \in Tasks : InQueue(p, u) => at[u] = "waiting"
    BY <1>1 DEF ClaimInv, QueueInv
  <2> QED BY <1>3, <2>1 DEF ClaimInv, OneStart, Active
<1>5. \A r \in Ports \ {p}, u \in Tasks : InQueue(r, u)' <=> InQueue(r, u)
  BY <1>3 DEF InQueue
<1>6. ClaimTypes'
  BY <1>3 DEF ClaimInv, ClaimTypes
<1>7. OneStart'
  BY <1>2 DEF ClaimInv, OneStart, Active
<1>8. ~Owns(t)
  BY DEF ClaimInv, HolderInv
<1>9. QueueInv'
  <2>1. \A r \in Ports : \A u \in Tasks :
          InQueue(r, u)' => PortOf[u] = r /\ at'[u] = "waiting" /\ u \notin notified'
    <3> SUFFICES ASSUME NEW r \in Ports, NEW u \in Tasks, InQueue(r, u)'
                 PROVE  PortOf[u] = r /\ at'[u] = "waiting" /\ u \notin notified'
      OBVIOUS
    <3>1. InQueue(r, u)
      BY <1>4, <1>5
    <3>2. PortOf[u] = r /\ at[u] = "waiting" /\ u \notin notified
      BY <3>1 DEF ClaimInv, QueueInv
    <3>3. u # t
      BY <1>4, <3>2
    <3> QED BY <1>2, <3>2, <3>3
  <2>2. \A r \in Ports : \A i, j \in DOMAIN waiters'[r] :
          waiters'[r][i] = waiters'[r][j] => i = j
    BY <1>3 DEF ClaimInv, QueueInv
  <2>3. \A u \in Tasks : at'[u] = "waiting" /\ u \notin notified' /\ u \notin cancelled'
          => InQueue(PortOf[u], u)'
    <3> SUFFICES ASSUME NEW u \in Tasks, at'[u] = "waiting", u \notin notified', u \notin cancelled'
                 PROVE  InQueue(PortOf[u], u)'
      OBVIOUS
    <3>1. u # t /\ InQueue(PortOf[u], u) /\ PortOf[u] \in Ports
      BY <1>2 DEF ClaimInv, QueueInv
    <3> QED BY <1>4, <1>5, <3>1
  <2>4. \A u \in notified' : at'[u] \in {"waiting", "gone"}
    BY <1>2 DEF ClaimInv, QueueInv, ClaimTypes
  <2> QED BY <2>1, <2>2, <2>3, <2>4 DEF QueueInv
<1>10. \A u \in Tasks : Owns(u)' <=> Owns(u)
  BY <1>2, <1>8 DEF Owns
<1>11. \A r \in Ports : waiters[r] = <<>> => waiters'[r] = <<>>
  <2> SUFFICES ASSUME waiters[p] = <<>> PROVE waiters'[p] = <<>>
    BY <1>3
  <2>1. \A u \in Tasks : ~InQueue(p, u)'
    BY <1>4 DEF InQueue
  <2>2. waiters'[p] \in Seq(Tasks)
    BY <1>1, <1>3
  <2>3. \A i \in DOMAIN waiters'[p] : FALSE
    BY <2>1, <2>2 DEF InQueue
  <2> DEFINE s == waiters'[p]
  <2>4. s \in Seq(Tasks) /\ DOMAIN s = 1..Len(s) /\ Len(s) \in Nat /\ 1 \notin DOMAIN s
    BY <2>2, <2>3
  <2> HIDE DEF s
  <2>5. Len(s) = 0
    BY <2>4
  <2>6. s = <<>>
    BY <2>4, <2>5
  <2> QED BY <2>6 DEF s
<1>12. HolderInv'
  BY <1>10, <1>11 DEF ClaimInv, HolderInv
<1> QED BY <1>6, <1>7, <1>9, <1>12 DEF ClaimInv

(* A cancelled waiter gives the port on exactly when it has been promoted. *)
LEMMA GiveUpStep ==
  ASSUME ClaimInv, NEW t \in Tasks, GiveUp(t)
  PROVE  (Owns(t) <=> holder[PortOf[t]] = OutputOf[t]) /\ ClaimInv'
<1> USE DisplayAssumption
<1>1. at[t] = "waiting" /\ at' = [at EXCEPT ![t] = "gone"] /\ cancelled' = cancelled
      /\ cancel_or_release(PortOf[t], OutputOf[t])
  BY DEF GiveUp
<1>2. CASE holder[PortOf[t]] = OutputOf[t]
  <2>1. Promote(PortOf[t])
    BY <1>1, <1>2 DEF cancel_or_release
  <2>2. PICK u \in Tasks : PortOf[u] = PortOf[t] /\ Owns(u)
    BY <1>2 DEF ClaimInv, HolderInv
  <2>3. OutputOf[u] = OutputOf[t] /\ Active(u) /\ Active(t)
    BY <1>1, <1>2, <2>2 DEF ClaimInv, HolderInv, Owns, Active
  <2>4. Owns(t)
    BY <2>2, <2>3 DEF ClaimInv, OneStart
  <2> QED BY <1>1, <1>2, <2>1, <2>4, OwnerLeaves
<1>3. CASE holder[PortOf[t]] # OutputOf[t]
  <2>1. waiters' = [waiters EXCEPT
                      ![PortOf[t]] = Retain(@, TasksOfOthers(OutputOf[t]))]
        /\ UNCHANGED <<holder, notified>>
    BY <1>1, <1>3 DEF cancel_or_release
  <2>2. ~Owns(t)
    BY <1>3 DEF ClaimInv, HolderInv
  <2>3. ClaimInv'
    BY <1>1, <1>3, <2>1, WaiterLeaves
  <2> QED BY <1>3, <2>2, <2>3
<1> QED BY <1>2, <1>3

(* A holder that drops its Guard is the one the registry names. *)
LEMMA ReleaseStep ==
  ASSUME ClaimInv, NEW t \in Tasks, Release(t)
  PROVE  Owns(t) /\ Promote(PortOf[t]) /\ ClaimInv'
<1>1. at[t] = "holding" /\ at' = [at EXCEPT ![t] = "gone"] /\ cancelled' = cancelled
      /\ release_and_promote(PortOf[t], OutputOf[t])
  BY DEF Release
<1>2. Owns(t)
  BY <1>1 DEF Owns
<1>3. holder[PortOf[t]] = OutputOf[t]
  BY <1>2 DEF ClaimInv, HolderInv
<1>4. Promote(PortOf[t])
  BY <1>1, <1>3 DEF release_and_promote
<1> QED BY <1>1, <1>2, <1>4, OwnerLeaves

(* The claims invariant is kept by every step. *)
LEMMA ClaimNext ==
  ASSUME ~Overlaps, ClaimInv, [Next]_vars
  PROVE  ClaimInv'
<1>1. CASE UNCHANGED vars
  BY <1>1 DEF vars, ClaimInv, ClaimTypes, OneStart, QueueInv, HolderInv, Active, InQueue, Owns
<1>2. ASSUME NEW t \in Tasks, Step(t)
      PROVE  ClaimInv'
  BY <1>2, ClaimStep, CancelStep, GrantStep, GiveUpStep, ReleaseStep DEF Step
<1> QED BY <1>1, <1>2 DEF Next

(* What the invariant says of the ports. *)
LEMMA ClaimSafe == ClaimInv => OneOwner /\ NoStrandedPort
<1> SUFFICES ASSUME ClaimInv PROVE OneOwner /\ NoStrandedPort
  OBVIOUS
<1>1. \A p \in Ports : Owners(p) = {t \in Tasks : PortOf[t] = p /\ Owns(t)}
  BY DEF Owners, Owns
<1>2. OneOwner
  BY <1>1 DEF OneOwner, ClaimInv, HolderInv, OneStart, Owns, Active
<1>3. ASSUME NEW p \in Ports, holder[p] # Nobody
      PROVE  \E t \in Owners(p) : OutputOf[t] = holder[p]
  BY <1>1, <1>3 DEF ClaimInv, HolderInv
<1>4. ASSUME NEW p \in Ports, holder[p] = Nobody,
             NEW t \in Tasks, PortOf[t] = p, at[t] = "waiting", t \notin cancelled
      PROVE  FALSE
  <2>1. ~InQueue(p, t)
    BY <1>4 DEF ClaimInv, HolderInv, InQueue
  <2>2. Owns(t)
    BY <1>4, <2>1 DEF ClaimInv, QueueInv, Owns
  <2> QED BY <1>4, <2>2, DisplayAssumption DEF ClaimInv, HolderInv
<1> QED BY <1>2, <1>3, <1>4 DEF NoStrandedPort

(* While an output is started again only once its task has ended, no two    *)
(* tasks ever own one port (Guard and WaitTicket of claim_registry.rs).     *)
THEOREM OnePortOneOwner == ASSUME ~Overlaps PROVE Spec => []OneOwner
<1>1. Init => ClaimInv
  BY ClaimInit
<1>2. ClaimInv /\ [Next]_vars => ClaimInv'
  BY ClaimNext
<1>3. ClaimInv => OneOwner
  BY ClaimSafe
<1> QED BY <1>1, <1>2, <1>3, PTL DEF Spec

(* Under the same condition no promotion is lost: a port that is taken has  *)
(* a task to give it on, and no live task waits at a free port              *)
(* (release_and_promote, cancel_or_release).                                *)
THEOREM NoPromotionLost == ASSUME ~Overlaps PROVE Spec => []NoStrandedPort
<1>1. Init => ClaimInv
  BY ClaimInit
<1>2. ClaimInv /\ [Next]_vars => ClaimInv'
  BY ClaimNext
<1>3. ClaimInv => NoStrandedPort
  BY ClaimSafe
<1> QED BY <1>1, <1>2, <1>3, PTL DEF Spec

------------------------------------------------------------------------------
(* The registry implements the line of DisplayPort.                        *)

(* The live waiters of a port. *)
Live(p) == Retain(waiters[p], Tasks \ cancelled)

(* The line of a taken port is its owner and then its live waiters; the     *)
(* line of a free port is empty.                                            *)
LineShape ==
  /\ \A t \in Tasks : Owns(t) => LineOf(PortOf[t]) = <<t>> \o Live(PortOf[t])
  /\ \A p \in Ports : holder[p] = Nobody => LineOf(p) = <<>>
  /\ \A p \in Ports : Live(p) \in Seq(Tasks) /\ LineOf(p) \in Seq(Tasks)

(* Under the claims invariant lines have that shape. *)
LEMMA LineOfPort == ClaimInv => LineShape
<1> SUFFICES ASSUME ClaimInv PROVE LineShape
  OBVIOUS
<1> USE DisplayAssumption
<1>1. \A p \in Ports : Owners(p) = {t \in Tasks : PortOf[t] = p /\ Owns(t)}
  BY DEF Owners, Owns
<1>2. \A p \in Ports : LineOf(p) = IF Owners(p) = {} THEN Live(p) ELSE <<Owner(p)>> \o Live(p)
  BY DEF LineOf, Live
<1>3. \A p \in Ports : Live(p) \in Seq(Tasks)
  BY RetainKeeps DEF Live, ClaimInv, ClaimTypes
<1>4. ASSUME NEW t \in Tasks, Owns(t)
      PROVE  LineOf(PortOf[t]) = <<t>> \o Live(PortOf[t])
  <2>1. \A u \in Owners(PortOf[t]) : u = t
    BY <1>1, <1>4, ClaimSafe DEF OneOwner
  <2>2. t \in Owners(PortOf[t])
    BY <1>1, <1>4
  <2>3. Owner(PortOf[t]) = t
    BY <2>1, <2>2 DEF Owner
  <2> QED BY <1>2, <2>2, <2>3
<1>5. ASSUME NEW p \in Ports, holder[p] = Nobody
      PROVE  LineOf(p) = <<>>
  <2>1. Owners(p) = {}
    BY <1>1, <1>5 DEF ClaimInv, HolderInv
  <2>2. waiters[p] = <<>>
    BY <1>5 DEF ClaimInv, HolderInv
  <2>3. Live(p) = <<>>
    BY <2>2, RetainNothing DEF Live
  <2> QED BY <1>2, <2>1, <2>3
<1>6. ASSUME NEW p \in Ports PROVE LineOf(p) \in Seq(Tasks)
  <2>1. CASE holder[p] = Nobody
    <3>1. LineOf(p) = <<>>
      BY <1>5, <2>1
    <3>2. <<>> \in Seq(Tasks)
      OBVIOUS
    <3> QED BY <3>1, <3>2
  <2>2. CASE holder[p] # Nobody
    <3>1. PICK t \in Tasks : PortOf[t] = p /\ Owns(t)
      BY <2>2 DEF ClaimInv, HolderInv
    <3>2. \A x \in Tasks, q \in Seq(Tasks) : <<x>> \o q \in Seq(Tasks)
      OBVIOUS
    <3>3. LineOf(p) = <<t>> \o Live(p)
      BY <1>4, <3>1
    <3> QED BY <1>3, <3>1, <3>2, <3>3
  <2> QED BY <2>1, <2>2
<1> QED BY <1>3, <1>4, <1>5, <1>6 DEF LineShape

(* The same of the state a step leads to. *)
LEMMA LineOfPortNext == ClaimInv' => LineShape'
  BY LineOfPort, PTL

(* What makes a step of the tasks a step of the line. *)
LEMMA IsArrive ==
  ASSUME ClaimTypes, NEW t \in Tasks, at[t] = "new",
         at' \in [Tasks -> {"new", "waiting", "holding", "gone"}], at'[t] # "new",
         \A u \in Tasks \ {t} : at'[u] = at[u],
         at'[t] = "holding" <=> LineOf(PortOf[t]) = <<>>,
         LineOf(PortOf[t])' = Append(LineOf(PortOf[t]), t),
         \A r \in Ports \ {PortOf[t]} : LineOf(r)' = LineOf(r)
  PROVE  Port!Next
<1> DEFINE line == [p \in Ports |-> LineOf(p)]
           driving == {u \in Tasks : at[u] = "holding"}
           arrived == {u \in Tasks : at[u] # "new"}
<1>1. PortOf[t] \in Ports
  BY DisplayAssumption
<1>2. t \notin arrived /\ arrived' = arrived \cup {t}
  OBVIOUS
<1>3. line' = [line EXCEPT ![PortOf[t]] = Append(@, t)]
  BY <1>1
<1>4. driving' = IF line[PortOf[t]] = <<>> THEN driving \cup {t} ELSE driving
  <2>1. line[PortOf[t]] = LineOf(PortOf[t])
    BY <1>1
  <2>2. CASE at'[t] = "holding"
    BY <2>1, <2>2
  <2>3. CASE at'[t] # "holding"
    BY <2>1, <2>3
  <2> QED BY <2>2, <2>3
<1>5. Port!Arrive(t)
  BY <1>2, <1>3, <1>4 DEF Port!Arrive
<1> QED BY <1>5 DEF Port!Next

(* The abstract line drops a task the way the registry's queue does. *)
LEMMA WithoutIs == \A q, t : Port!Without(q, t) = Retain(q, Tasks \ {t})
<1> SUFFICES ASSUME NEW q, NEW t
             PROVE  Port!Without(q, t) = Retain(q, Tasks \ {t})
  OBVIOUS
<1> DEFINE I == Passing(q, Tasks \ {t})
<1>1. Port!Passing(q, Tasks \ {t}) = I
  BY DEF Port!Passing, Passing
<1> HIDE DEF I
<1>2. ASSUME NEW k PROVE Port!Nth(I, k) = Nth(I, k)
  BY DEF Port!Nth, Nth, Port!Rank, Rank, Port!Cardinality, Cardinality
<1>3. Port!EntriesAt(q, I) = EntriesAt(q, I)
  BY <1>2 DEF Port!EntriesAt, EntriesAt, Port!Cardinality, Cardinality
<1> QED BY <1>1, <1>3 DEF Port!Without, Port!Retain, Retain, I

(* A task that leaves its line. *)
LEMMA IsLeave ==
  ASSUME ClaimTypes, NEW t \in Tasks, at[t] # "new",
         at' \in [Tasks -> {"new", "waiting", "holding", "gone"}],
         at'[t] \notin {"new", "holding"},
         \A u \in Tasks \ {t} : at'[u] = at[u],
         \E i \in DOMAIN LineOf(PortOf[t]) : LineOf(PortOf[t])[i] = t,
         LineOf(PortOf[t])' = Retain(LineOf(PortOf[t]), Tasks \ {t}),
         \A r \in Ports \ {PortOf[t]} : LineOf(r)' = LineOf(r)
  PROVE  Port!Next
<1> DEFINE line == [p \in Ports |-> LineOf(p)]
           driving == {u \in Tasks : at[u] = "holding"}
           arrived == {u \in Tasks : at[u] # "new"}
<1>1. PortOf[t] \in Ports
  BY DisplayAssumption
<1>2. arrived' = arrived /\ driving' = driving \ {t}
  OBVIOUS
<1>3. line' = [line EXCEPT ![PortOf[t]] = Retain(@, Tasks \ {t})]
  BY <1>1
<1>4. \E i \in DOMAIN line[PortOf[t]] : line[PortOf[t]][i] = t
  BY <1>1
<1>5. Port!Leave(t)
  BY <1>2, <1>3, <1>4, WithoutIs DEF Port!Leave, Port!InLine
<1> QED BY <1>5 DEF Port!Next

(* A step that leaves the lines as they are: nothing at all, a task that    *)
(* passes by, or the head of a line that starts to drive.                   *)
LEMMA IsQuiet ==
  ASSUME ClaimTypes, NEW t \in Tasks,
         at' \in [Tasks -> {"new", "waiting", "holding", "gone"}],
         \A u \in Tasks \ {t} : at'[u] = at[u],
         \/ at'[t] = at[t]
         \/ at[t] = "waiting" /\ at'[t] = "gone"
         \/ at[t] = "new" /\ at'[t] = "waiting"
         \/ at[t] = "waiting" /\ at'[t] = "holding"
            /\ LineOf(PortOf[t]) # <<>> /\ Head(LineOf(PortOf[t])) = t,
         \A r \in Ports : LineOf(r)' = LineOf(r)
  PROVE  [Port!Next]_(Port!lineVars)
<1> DEFINE line == [p \in Ports |-> LineOf(p)]
           driving == {u \in Tasks : at[u] = "holding"}
           arrived == {u \in Tasks : at[u] # "new"}
<1>1. PortOf[t] \in Ports
  BY DisplayAssumption
<1>2. line' = line /\ line[PortOf[t]] = LineOf(PortOf[t])
  BY <1>1
<1>3. CASE at'[t] = at[t] \/ (at[t] = "waiting" /\ at'[t] = "gone")
  <2>1. driving' = driving /\ arrived' = arrived
    BY <1>3
  <2> QED BY <1>2, <2>1 DEF Port!lineVars
<1>4. CASE at[t] = "new" /\ at'[t] = "waiting"
  <2>1. t \notin arrived /\ arrived' = arrived \cup {t} /\ driving' = driving
    BY <1>4
  <2>2. Port!PassBy(t)
    BY <1>2, <2>1 DEF Port!PassBy
  <2> QED BY <2>2 DEF Port!Next
<1>5. CASE at[t] = "waiting" /\ at'[t] = "holding"
           /\ LineOf(PortOf[t]) # <<>> /\ Head(LineOf(PortOf[t])) = t
  <2>1. t \notin driving /\ arrived' = arrived /\ driving' = driving \cup {t}
    BY <1>5
  <2>2. Port!Enter(t)
    BY <1>2, <1>5, <2>1 DEF Port!Enter
  <2> QED BY <2>2 DEF Port!Next
<1> QED BY <1>3, <1>4, <1>5

(* Sequences of tasks put together. *)
LEMMA LineFacts ==
  \A x \in Seq(Tasks), b \in Tasks :
    /\ Append(x, b) = x \o <<b>>
    /\ <<b>> \in Seq(Tasks)
    /\ x \o <<>> = x
    /\ <<b>> \o x \in Seq(Tasks)
    /\ <<b>> \o x # <<>>
    /\ Head(<<b>> \o x) = b
    /\ 1 \in DOMAIN (<<b>> \o x) /\ (<<b>> \o x)[1] = b
    /\ Len(<<b>> \o x) = Len(x) + 1
    /\ \A k \in 1..Len(x) : (<<b>> \o x)[k + 1] = x[k]
  OBVIOUS

(* A line with the same owner and the same live waiters is the same. *)
LEMMA LineKept ==
  ASSUME NEW r \in Ports, Owners(r)' = Owners(r), Live(r)' = Live(r)
  PROVE  LineOf(r)' = LineOf(r)
  BY DEF LineOf, Live, Owner

(* A start is an arrival at the line, or passes it by when its token has    *)
(* fired by then.                                                           *)
LEMMA ClaimRefines ==
  ASSUME ~Overlaps, ClaimInv, NEW t \in Tasks, try_claim(t)
  PROVE  [Port!Next]_(Port!lineVars)
<1> DEFINE p == PortOf[t]
<1> USE DisplayAssumption
<1>1. p \in Ports /\ at[t] = "new" /\ cancelled' = cancelled /\ notified' = notified
  BY DEF try_claim
<1>2. ClaimInv' /\ LineShape' /\ LineShape
  BY ClaimStep, LineOfPort, LineOfPortNext
<1>3. at' \in [Tasks -> {"new", "waiting", "holding", "gone"}]
      /\ \A u \in Tasks \ {t} : at'[u] = at[u]
  BY <1>2 DEF try_claim, ClaimInv, ClaimTypes
<1>4. \A r \in Ports \ {p} : waiters'[r] = waiters[r]
  BY DEF try_claim, ClaimInv, ClaimTypes
<1>5. \A r \in Ports \ {p} : Owners(r)' = Owners(r)
  BY <1>1, <1>3 DEF Owners
<1>6. \A r \in Ports \ {p} : Live(r)' = Live(r)
  BY <1>1, <1>4 DEF Live
<1>7. \A r \in Ports \ {p} : LineOf(r)' = LineOf(r)
  BY <1>5, <1>6, LineKept
<1>8. CASE Free(p)
  <2>1. holder[p] = Nobody /\ waiters'[p] = <<>> /\ at'[t] = "holding"
    BY <1>8 DEF Free, try_claim, ClaimInv, ClaimTypes
  <2>2. LineOf(p) = <<>>
    BY <1>1, <1>2, <2>1 DEF LineShape
  <2>3. Live(p)' = <<>>
    BY <2>1, RetainNothing DEF Live
  <2>4. Owns(t)'
    BY <2>1 DEF Owns
  <2>5. LineOf(p)' = <<t>> \o <<>>
    BY <1>2, <2>3, <2>4 DEF LineShape
  <2>6. LineOf(p)' = Append(LineOf(p), t)
    BY <2>2, <2>5
  <2> QED BY <1>1, <1>2, <1>3, <1>7, <2>1, <2>2, <2>6, IsArrive DEF ClaimInv
<1>9. CASE ~Free(p)
  <2>1. holder[p] # Nobody
    BY <1>1, <1>9 DEF Free, ClaimInv, HolderInv
  <2>2. PICK u \in Tasks : PortOf[u] = p /\ Owns(u)
    BY <1>1, <2>1 DEF ClaimInv, HolderInv
  <2>3. at'[t] = "waiting" /\ waiters'[p] = Append(waiters[p], t)
    BY <1>1, <1>9 DEF try_claim, ClaimInv, ClaimTypes
  <2>4. u # t /\ Owns(u)'
    BY <1>1, <1>3, <2>2 DEF Owns
  <2>5. LineOf(p) = <<u>> \o Live(p) /\ LineOf(p)' = <<u>> \o Live(p)'
    BY <1>2, <2>2, <2>4 DEF LineShape
  <2>6. waiters[p] \in Seq(Tasks) /\ Live(p) \in Seq(Tasks)
    BY <1>1, <1>2 DEF ClaimInv, ClaimTypes, LineShape
  <2> DEFINE q == waiters[p]
             s == <<t>>
             K == Tasks \ cancelled
  <2>7. Live(p)' = Live(p) \o Retain(s, K)
    <3>1. Append(q, t) = q \o s /\ s \in Seq(Tasks)
      BY <2>6, LineFacts, Zenon
    <3>2. Retain(q \o s, K) = Retain(q, K) \o Retain(s, K)
      <4>1. q \in Seq(Tasks)
        BY <2>6
      <4> HIDE DEF q, s, K
      <4> QED BY <3>1, <4>1, RetainOfConcat
    <3> QED BY <1>1, <2>3, <3>1, <3>2 DEF Live
  <2>8. s \in Seq(Tasks) /\ Len(s) = 1 /\ s[1] = t /\ 1..1 = {1}
    OBVIOUS
  <2>9. \A i \in 1..Len(s) : s[i] = t
    BY <2>8
  <2>10. CASE t \in cancelled
    <3>1. Retain(s, K) = <<>>
      <4> HIDE DEF s
      <4> QED BY <2>8, <2>9, <2>10, RetainAllOrNone
    <3>2. Live(p)' = Live(p)
      BY <2>6, <2>7, <3>1, LineFacts
    <3>3. LineOf(p)' = LineOf(p)
      BY <2>5, <3>2
    <3>4. \A r \in Ports : LineOf(r)' = LineOf(r)
      BY <1>7, <3>3
    <3> QED BY <1>1, <1>3, <2>3, <3>4, IsQuiet DEF ClaimInv
  <2>11. CASE t \notin cancelled
    <3>1. Retain(s, K) = <<t>>
      <4> HIDE DEF s
      <4>1. Retain(s, K) = s
        BY <2>8, <2>9, <2>11, RetainAllOrNone
      <4> QED BY <4>1 DEF s
    <3>2. Live(p)' = Append(Live(p), t)
      <4>1. Live(p)' = Live(p) \o <<t>>
        BY <2>7, <3>1
      <4>2. Append(Live(p), t) = Live(p) \o <<t>>
        BY <2>6, LineFacts, Zenon
      <4> QED BY <4>1, <4>2
    <3>3. \A a \in Tasks, x \in Seq(Tasks), b \in Tasks :
            /\ <<a>> \o Append(x, b) = Append(<<a>> \o x, b)
            /\ <<a>> \o x # <<>>
      OBVIOUS
    <3>4. LineOf(p)' = Append(LineOf(p), t) /\ LineOf(p) # <<>>
      BY <2>2, <2>5, <2>6, <3>2, <3>3
    <3>5. Port!Next
      BY <1>1, <1>3, <1>7, <2>3, <3>4, IsArrive DEF ClaimInv
    <3> QED BY <3>5
  <2> QED BY <2>10, <2>11
<1> QED BY <1>8, <1>9

(* Retain looks at the head of a line and then at the rest. *)
LEMMA RetainOfLine ==
  ASSUME NEW x \in Seq(Tasks), NEW b \in Tasks, NEW K
  PROVE  Retain(<<b>> \o x, K) = IF b \in K THEN <<b>> \o Retain(x, K) ELSE Retain(x, K)
<1> DEFINE s == <<b>>
<1>1. s \in Seq(Tasks) /\ Len(s) = 1 /\ s[1] = b
  OBVIOUS
<1>2. \A i \in 1..Len(s) : s[i] = b
  BY <1>1
<1>3. Retain(x, K) \in Seq(Tasks)
  BY RetainKeeps
<1> HIDE DEF s
<1>4. Retain(s \o x, K) = Retain(s, K) \o Retain(x, K)
  BY <1>1, RetainOfConcat
<1>5. CASE b \in K
  <2>1. Retain(s, K) = s
    BY <1>1, <1>2, <1>5, RetainAllOrNone
  <2> QED BY <1>4, <1>5, <2>1 DEF s
<1>6. CASE b \notin K
  <2>1. Retain(s, K) = <<>>
    BY <1>1, <1>2, <1>6, RetainAllOrNone
  <2>2. Retain(s \o x, K) = <<>> \o Retain(x, K)
    BY <1>4, <2>1
  <2>3. \A y \in Seq(Tasks) : <<>> \o y = y
    OBVIOUS
  <2>4. Retain(s \o x, K) = Retain(x, K)
    BY <1>3, <2>2, <2>3
  <2> QED BY <1>6, <2>4 DEF s
<1> QED BY <1>5, <1>6

(* A token that fires takes a waiter out of its line, and nobody else. *)
LEMMA CancelRefines ==
  ASSUME ClaimInv, NEW t \in Tasks, Cancel(t)
  PROVE  [Port!Next]_(Port!lineVars)
<1> DEFINE p == PortOf[t]
<1> USE DisplayAssumption
<1>1. p \in Ports /\ t \notin cancelled /\ cancelled' = cancelled \cup {t}
      /\ UNCHANGED <<holder, waiters, at, notified>>
  BY DEF Cancel
<1>2. ClaimInv' /\ LineShape' /\ LineShape
  BY CancelStep, LineOfPort, LineOfPortNext
<1>3. at' \in [Tasks -> {"new", "waiting", "holding", "gone"}]
      /\ \A u \in Tasks : at'[u] = at[u]
  BY <1>1 DEF ClaimInv, ClaimTypes
<1>4. \A r \in Ports : Owners(r)' = Owners(r)
  BY <1>1 DEF Owners
<1>5. ASSUME NEW r \in Ports, ~InQueue(r, t) PROVE LineOf(r)' = LineOf(r)
  <2>1. waiters[r] \in Seq(Tasks) /\ \A i \in DOMAIN waiters[r] : waiters[r][i] # t
    BY <1>5 DEF ClaimInv, ClaimTypes, InQueue
  <2>2. \A i \in DOMAIN waiters[r] :
          waiters[r][i] \in Tasks \ cancelled <=> waiters[r][i] \in Tasks \ (cancelled \cup {t})
    BY <2>1
  <2>3. Retain(waiters[r], Tasks \ cancelled) = Retain(waiters[r], Tasks \ (cancelled \cup {t}))
    BY <2>2, RetainSame
  <2>4. Live(r)' = Live(r)
    BY <1>1, <2>3 DEF Live
  <2> QED BY <1>4, <2>4, LineKept
<1>6. CASE InQueue(p, t)
  <2>1. at[t] = "waiting" /\ t \notin notified
    BY <1>1, <1>6 DEF ClaimInv, QueueInv
  <2>2. holder[p] # Nobody
    BY <1>1, <1>6 DEF ClaimInv, HolderInv, InQueue
  <2>3. PICK u \in Tasks : PortOf[u] = p /\ Owns(u)
    BY <1>1, <2>2 DEF ClaimInv, HolderInv
  <2>4. u # t /\ Owns(u)'
    BY <1>1, <2>1, <2>3 DEF Owns
  <2>5. LineOf(p) = <<u>> \o Live(p) /\ LineOf(p)' = <<u>> \o Live(p)'
    BY <1>2, <2>3, <2>4 DEF LineShape
  <2>6. waiters[p] \in Seq(Tasks) /\ Live(p) \in Seq(Tasks)
    BY <1>1, <1>2 DEF ClaimInv, ClaimTypes, LineShape
  <2>7. Live(p)' = Retain(Live(p), Tasks \ {t})
    <3>1. Tasks \ (cancelled \cup {t}) = (Tasks \ cancelled) \cap (Tasks \ {t})
      OBVIOUS
    <3>2. Retain(Retain(waiters[p], Tasks \ cancelled), Tasks \ {t})
          = Retain(waiters[p], (Tasks \ cancelled) \cap (Tasks \ {t}))
      BY <2>6, RetainTwice
    <3> QED BY <1>1, <3>1, <3>2 DEF Live
  <2>8. LineOf(p)' = Retain(LineOf(p), Tasks \ {t})
    <3>1. Retain(<<u>> \o Live(p), Tasks \ {t}) = <<u>> \o Retain(Live(p), Tasks \ {t})
      BY <2>4, <2>6, RetainOfLine
    <3> QED BY <2>5, <2>7, <3>1
  <2>9. \E i \in DOMAIN LineOf(p) : LineOf(p)[i] = t
    <3>1. PICK i \in DOMAIN waiters[p] : waiters[p][i] = t
      BY <1>6 DEF InQueue
    <3>2. i \in Passing(waiters[p], Tasks \ cancelled)
      BY <1>1, <3>1 DEF Passing
    <3>3. PICK k \in DOMAIN Live(p) : Live(p)[k] = t
      BY <2>6, <3>1, <3>2, RetainKeeps DEF Live
    <3>4. \A b \in Tasks, x \in Seq(Tasks), n \in DOMAIN Live(p) :
            x = Live(p) => n + 1 \in DOMAIN (<<b>> \o x) /\ (<<b>> \o x)[n + 1] = x[n]
      OBVIOUS
    <3> QED BY <2>5, <2>6, <3>3, <3>4
  <2>10. \A r \in Ports \ {p} : LineOf(r)' = LineOf(r)
    BY <1>5 DEF ClaimInv, QueueInv
  <2>11. Port!Next
    BY <1>3, <2>1, <2>8, <2>9, <2>10, IsLeave DEF ClaimInv
  <2> QED BY <2>11
<1>7. CASE ~InQueue(p, t)
  <2>1. \A r \in Ports : ~InQueue(r, t)
    BY <1>7 DEF ClaimInv, QueueInv
  <2>2. \A r \in Ports : LineOf(r)' = LineOf(r)
    BY <1>5, <2>1
  <2> QED BY <1>3, <2>2, IsQuiet DEF ClaimInv
<1> QED BY <1>6, <1>7

(* A grant is the head of the line that starts to drive. *)
LEMMA GrantRefines ==
  ASSUME ClaimInv, NEW t \in Tasks, Granted(t)
  PROVE  [Port!Next]_(Port!lineVars)
<1> USE DisplayAssumption
<1>1. /\ at[t] = "waiting" /\ t \in notified
      /\ at' = [at EXCEPT ![t] = "holding"]
      /\ notified' = notified \ {t}
      /\ UNCHANGED <<holder, waiters, cancelled>>
  BY DEF Granted
<1>2. at' \in [Tasks -> {"new", "waiting", "holding", "gone"}] /\ at'[t] = "holding"
      /\ \A u \in Tasks \ {t} : at'[u] = at[u]
  BY <1>1 DEF ClaimInv, ClaimTypes
<1>3. \A r \in Ports : Owners(r)' = Owners(r)
  BY <1>1, <1>2 DEF Owners
<1>4. \A r \in Ports : Live(r)' = Live(r)
  BY <1>1 DEF Live
<1>5. \A r \in Ports : LineOf(r)' = LineOf(r)
  BY <1>3, <1>4, LineKept
<1>6. Owns(t) /\ PortOf[t] \in Ports
  BY <1>1 DEF Owns
<1>7. LineOf(PortOf[t]) = <<t>> \o Live(PortOf[t]) /\ Live(PortOf[t]) \in Seq(Tasks)
  BY <1>6, LineOfPort DEF LineShape
<1>8. LineOf(PortOf[t]) # <<>> /\ Head(LineOf(PortOf[t])) = t
  BY <1>7, LineFacts
<1> QED BY <1>1, <1>2, <1>5, <1>8, IsQuiet DEF ClaimInv

(* Two queues one after the other. *)
LEMMA Joined ==
  ASSUME NEW x \in Seq(Tasks), NEW y \in Seq(Tasks)
  PROVE  /\ x \o y \in Seq(Tasks)
         /\ Len(x \o y) = Len(x) + Len(y)
         /\ \A k \in 1..Len(x) : (x \o y)[k] = x[k]
         /\ \A k \in 1..Len(y) : (x \o y)[Len(x) + k] = y[k]
  OBVIOUS

(* The oldest live waiter is the head of what the promotion loop leaves. *)
LEMMA PromotedIsFirst ==
  ASSUME NEW q \in Seq(Tasks), ~AllCancelled(q)
  PROVE  Retain(q, Tasks \ cancelled)
         = <<q[FirstLive(q)]>> \o Retain(SubSeq(q, FirstLive(q) + 1, Len(q)), Tasks \ cancelled)
<1> DEFINE i == FirstLive(q)
           K == Tasks \ cancelled
           a == SubSeq(q, 1, i - 1)
           c == SubSeq(q, i + 1, Len(q))
           b == <<q[i]>> \o c
<1>1. i \in 1..Len(q) /\ Len(q) \in Nat /\ q[i] \in Tasks /\ q[i] \notin cancelled
      /\ \A j \in 1..(i - 1) : q[j] \in cancelled
  BY FirstLiveIsOldest
<1> HIDE DEF i
<1>2. c \in Seq(Tasks) /\ Len(c) = Len(q) - i /\ \A k \in 1..(Len(q) - i) : c[k] = q[i + k]
  BY <1>1
<1>3. a \in Seq(Tasks) /\ Len(a) = i - 1 /\ \A k \in 1..(i - 1) : a[k] = q[k]
  BY <1>1
<1> HIDE DEF a, c
<1>4. b \in Seq(Tasks) /\ Len(b) = Len(q) - i + 1 /\ b[1] = q[i]
      /\ \A k \in 1..(Len(q) - i) : b[k + 1] = c[k]
  <2>1. q[i] \in Tasks /\ c \in Seq(Tasks)
    BY <1>1, <1>2
  <2>2. b \in Seq(Tasks) /\ Len(b) = Len(c) + 1 /\ b[1] = q[i]
        /\ \A k \in 1..Len(c) : b[k + 1] = c[k]
    BY <2>1, LineFacts, Zenon
  <2> HIDE DEF b
  <2> QED BY <1>1, <1>2, <2>2
<1> HIDE DEF b
<1>5. a \o b \in Seq(Tasks) /\ Len(a \o b) = Len(q)
      /\ (\A k \in 1..(i - 1) : (a \o b)[k] = a[k])
      /\ (\A k \in 1..(Len(q) - i + 1) : (a \o b)[i - 1 + k] = b[k])
  <2>1. /\ a \o b \in Seq(Tasks)
        /\ Len(a \o b) = Len(a) + Len(b)
        /\ \A k \in 1..Len(a) : (a \o b)[k] = a[k]
        /\ \A k \in 1..Len(b) : (a \o b)[Len(a) + k] = b[k]
    BY <1>3, <1>4, Joined
  <2>2. Len(a) + Len(b) = Len(q)
    BY <1>1, <1>3, <1>4
  <2> QED BY <1>3, <1>4, <2>1, <2>2, Zenon
<1>6. \A k \in 1..Len(q) : (a \o b)[k] = q[k]
  <2> SUFFICES ASSUME NEW k \in 1..Len(q) PROVE (a \o b)[k] = q[k]
    OBVIOUS
  <2>1. CASE k < i
    BY <1>1, <1>3, <1>5, <2>1
  <2>2. CASE k = i
    <3>1. 1 \in 1..(Len(q) - i + 1) /\ i - 1 + 1 = i
      BY <1>1
    <3> QED BY <1>4, <1>5, <2>2, <3>1
  <2>3. CASE k > i
    <3>1. k - i \in 1..(Len(q) - i) /\ k - i + 1 \in 1..(Len(q) - i + 1)
          /\ i - 1 + (k - i + 1) = k /\ i + (k - i) = k
      BY <1>1, <2>3
    <3>2. (a \o b)[k] = b[k - i + 1]
      BY <1>5, <3>1
    <3>3. b[k - i + 1] = c[k - i] /\ c[k - i] = q[k]
      BY <1>2, <1>4, <3>1
    <3> QED BY <3>2, <3>3
  <2>4. k < i \/ k = i \/ k > i
    BY <1>1
  <2> QED BY <2>1, <2>2, <2>3, <2>4, Zenon
<1>7. q = a \o b
  <2> DEFINE d == a \o b
  <2>1. d \in Seq(Tasks) /\ Len(d) = Len(q) /\ \A k \in 1..Len(q) : d[k] = q[k]
    BY <1>5, <1>6
  <2> HIDE DEF d
  <2>2. q = d
    BY <2>1
  <2> QED BY <2>2 DEF d
<1>8. Retain(a, K) = <<>>
  BY <1>1, <1>3, RetainAllOrNone
<1>9. Retain(b, K) = <<q[i]>> \o Retain(c, K)
  BY <1>1, <1>2, RetainOfLine DEF b
<1>10. Retain(a \o b, K) = Retain(a, K) \o Retain(b, K)
  BY <1>3, <1>4, RetainOfConcat
<1>11. Retain(b, K) \in Seq(Tasks)
  BY <1>4, RetainKeeps
<1>12. \A y \in Seq(Tasks) : <<>> \o y = y
  OBVIOUS
<1>13. Retain(a \o b, K) = Retain(b, K)
  BY <1>8, <1>10, <1>11, <1>12
<1> QED BY <1>7, <1>9, <1>13 DEF i, c

(* The owner that ends leaves the line, and the oldest live waiter is its   *)
(* new head.                                                                *)
LEMMA OwnerLeavesRefines ==
  ASSUME ClaimInv, ClaimInv', NEW t \in Tasks, Owns(t), Promote(PortOf[t]),
         at' = [at EXCEPT ![t] = "gone"], cancelled' = cancelled
  PROVE  Port!Next
<1> DEFINE p == PortOf[t]
           q == waiters[p]
           K == Tasks \ cancelled
<1> USE DisplayAssumption
<1>1. p \in Ports /\ q \in Seq(Tasks) /\ LineShape /\ LineShape'
  BY LineOfPort, LineOfPortNext DEF ClaimInv, ClaimTypes
<1>2. at' \in [Tasks -> {"new", "waiting", "holding", "gone"}] /\ at'[t] = "gone"
      /\ (\A u \in Tasks \ {t} : at'[u] = at[u]) /\ at[t] # "new"
  BY DEF ClaimInv, ClaimTypes, Owns
<1>3. LineOf(p) = <<t>> \o Live(p) /\ Live(p) \in Seq(Tasks)
  BY <1>1 DEF LineShape
<1>4. \A k \in 1..Len(Live(p)) : Live(p)[k] # t
  <2>1. \A i \in DOMAIN q : q[i] # t
    BY <1>1 DEF ClaimInv, QueueInv, InQueue, Owns
  <2>2. \A k \in DOMAIN Retain(q, K) : \E i \in DOMAIN q : Retain(q, K)[k] = q[i]
    <3> HIDE DEF q, K
    <3> QED BY <1>1, RetainKeeps
  <2>3. \A k \in DOMAIN Live(p) : Live(p)[k] # t
    BY <2>1, <2>2 DEF Live
  <2> QED BY <1>3, <2>3
<1>5. Retain(LineOf(p), Tasks \ {t}) = Live(p)
  <2>1. Retain(<<t>> \o Live(p), Tasks \ {t}) = Retain(Live(p), Tasks \ {t})
    BY <1>3, RetainOfLine
  <2>2. \A k \in 1..Len(Live(p)) : Live(p)[k] \in Tasks \ {t}
    BY <1>3, <1>4
  <2>3. Retain(Live(p), Tasks \ {t}) = Live(p)
    BY <1>3, <2>2, RetainAllOrNone
  <2> QED BY <1>3, <2>1, <2>3
<1>6. LineOf(p)' = Live(p)
  <2>1. CASE AllCancelled(q)
    <3>1. holder'[p] = Nobody
      BY <1>1, <2>1 DEF Promote, ClaimInv, ClaimTypes
    <3>2. LineOf(p)' = <<>>
      BY <1>1, <3>1 DEF LineShape
    <3>3. \A i \in 1..Len(q) : q[i] \notin K
      BY <1>1, <2>1 DEF AllCancelled
    <3>4. Retain(q, K) = <<>>
      <4> HIDE DEF q, K
      <4> QED BY <1>1, <3>3, RetainAllOrNone
    <3> QED BY <3>2, <3>4 DEF Live
  <2>2. CASE ~AllCancelled(q)
    <3>1. FirstLive(q) \in DOMAIN q
      <4> HIDE DEF q
      <4> QED BY <1>1, <2>2, FirstLiveIsOldest
    <3>2. PICK w \in Tasks : w = q[FirstLive(q)]
      BY <1>1, <3>1
    <3> DEFINE s == SubSeq(q, FirstLive(q) + 1, Len(q))
    <3>3. waiters' = [waiters EXCEPT ![p] = s] /\ notified' = notified \cup {w}
      BY <2>2, <3>2 DEF Promote
    <3>4. waiters'[p] = s
      BY <1>1, <3>3 DEF ClaimInv, ClaimTypes
    <3>5. PortOf[w] = p /\ at[w] = "waiting" /\ w \notin notified
      BY <1>1, <3>1, <3>2 DEF ClaimInv, QueueInv, InQueue
    <3>6. w # t /\ Owns(w)'
      <4>1. w # t
        BY <3>5 DEF Owns
      <4> QED BY <1>2, <3>3, <3>5, <4>1 DEF Owns
    <3>7. LineOf(p)' = <<w>> \o Live(p)'
      BY <1>1, <3>5, <3>6 DEF LineShape
    <3>8. Live(p)' = Retain(s, K)
      BY <3>4 DEF Live
    <3>9. Retain(q, K) = <<w>> \o Retain(s, K)
      <4> HIDE DEF q
      <4> QED BY <1>1, <2>2, <3>2, PromotedIsFirst
    <3> QED BY <3>7, <3>8, <3>9 DEF Live
  <2> QED BY <2>1, <2>2
<1>7. \A r \in Ports \ {p} : LineOf(r)' = LineOf(r)
  <2>1. \A r \in Ports \ {p} : waiters'[r] = waiters[r]
    BY <1>1, PromoteMoves DEF ClaimInv
  <2>2. \A r \in Ports \ {p} : Live(r)' = Live(r)
    BY <2>1 DEF Live
  <2>3. ASSUME NEW u \in Tasks, PortOf[u] # p PROVE u \in notified' <=> u \in notified
    <3>1. \/ notified' = notified
          \/ \E w \in Tasks : InQueue(p, w) /\ notified' = notified \cup {w}
      BY <1>1, PromoteMoves DEF ClaimInv
    <3>2. \A w \in Tasks : InQueue(p, w) => PortOf[w] = p
      BY <1>1 DEF ClaimInv, QueueInv
    <3> QED BY <2>3, <3>1, <3>2
  <2>4. \A r \in Ports \ {p} : Owners(r)' = Owners(r)
    BY <1>2, <2>3 DEF Owners
  <2> QED BY <2>2, <2>4, LineKept
<1>8. \E i \in DOMAIN LineOf(p) : LineOf(p)[i] = t
  BY <1>3, LineFacts
<1>9. LineOf(p)' = Retain(LineOf(p), Tasks \ {t})
  BY <1>5, <1>6
<1> QED BY <1>2, <1>7, <1>8, <1>9, IsLeave DEF ClaimInv

(* A cancelled waiter that gives up has left its line already, unless it    *)
(* was promoted and gives the port on.                                      *)
LEMMA GiveUpRefines ==
  ASSUME ClaimInv, NEW t \in Tasks, GiveUp(t)
  PROVE  [Port!Next]_(Port!lineVars)
<1> DEFINE p == PortOf[t]
           o == OutputOf[t]
<1> USE DisplayAssumption
<1>1. at[t] = "waiting" /\ t \in cancelled /\ at' = [at EXCEPT ![t] = "gone"]
      /\ cancelled' = cancelled /\ cancel_or_release(p, o)
  BY DEF GiveUp
<1>2. (Owns(t) <=> holder[p] = o) /\ ClaimInv'
  BY GiveUpStep
<1>3. CASE holder[p] = o
  <2>1. Promote(p)
    BY <1>1, <1>3 DEF cancel_or_release
  <2>2. Port!Next
    BY <1>1, <1>2, <1>3, <2>1, OwnerLeavesRefines
  <2> QED BY <2>2
<1>4. CASE holder[p] # o
  <2>1. waiters' = [waiters EXCEPT ![p] = Retain(@, TasksOfOthers(o))]
        /\ UNCHANGED <<holder, notified>>
    BY <1>1, <1>4 DEF cancel_or_release
  <2>2. at' \in [Tasks -> {"new", "waiting", "holding", "gone"}] /\ at'[t] = "gone"
        /\ \A u \in Tasks \ {t} : at'[u] = at[u]
    BY <1>1 DEF ClaimInv, ClaimTypes
  <2>3. \A r \in Ports : Owners(r)' = Owners(r)
    BY <1>1, <1>2, <1>4, <2>1, <2>2 DEF Owners, Owns
  <2>4. \A r \in Ports \ {p} : waiters'[r] = waiters[r]
    BY <2>1 DEF ClaimInv, ClaimTypes
  <2>5. p \in Ports /\ waiters[p] \in Seq(Tasks)
        /\ waiters'[p] = Retain(waiters[p], TasksOfOthers(o))
    BY <2>1 DEF ClaimInv, ClaimTypes
  <2>6. \A i \in DOMAIN waiters[p] :
          waiters[p][i] \in TasksOfOthers(o) \cap (Tasks \ cancelled)
            <=> waiters[p][i] \in Tasks \ cancelled
    <3> SUFFICES ASSUME NEW i \in DOMAIN waiters[p], waiters[p][i] \notin cancelled
                 PROVE  waiters[p][i] \in TasksOfOthers(o)
      OBVIOUS
    <3>1. waiters[p][i] \in Tasks /\ InQueue(p, waiters[p][i])
      BY <2>5 DEF InQueue
    <3>2. at[waiters[p][i]] = "waiting"
      BY <2>5, <3>1 DEF ClaimInv, QueueInv
    <3>3. OutputOf[waiters[p][i]] # o
      BY <1>1, <3>1, <3>2 DEF ClaimInv, OneStart, Active
    <3> QED BY <3>1, <3>3 DEF TasksOfOthers
  <2>7. Live(p)' = Live(p)
    <3>1. Retain(Retain(waiters[p], TasksOfOthers(o)), Tasks \ cancelled)
          = Retain(waiters[p], TasksOfOthers(o) \cap (Tasks \ cancelled))
      BY <2>5, RetainTwice
    <3>2. Retain(waiters[p], TasksOfOthers(o) \cap (Tasks \ cancelled))
          = Retain(waiters[p], Tasks \ cancelled)
      BY <2>6, RetainSame
    <3> QED BY <1>1, <2>5, <3>1, <3>2 DEF Live
  <2>8. \A r \in Ports : Live(r)' = Live(r)
    BY <1>1, <2>4, <2>7 DEF Live
  <2>9. \A r \in Ports : LineOf(r)' = LineOf(r)
    BY <2>3, <2>8, LineKept
  <2> QED BY <1>1, <2>2, <2>9, IsQuiet DEF ClaimInv
<1> QED BY <1>3, <1>4

(* Every step of the registry is a step of the line or leaves it alone. *)
LEMMA LineNext ==
  ASSUME ~Overlaps, ClaimInv, [Next]_vars
  PROVE  [Port!Next]_(Port!lineVars)
<1>1. CASE UNCHANGED vars
  <2>1. \A r \in Ports : LineOf(r)' = LineOf(r)
    BY <1>1 DEF vars, LineOf, Owner, Owners
  <2>2. at' = at
    BY <1>1 DEF vars
  <2> QED BY <2>1, <2>2 DEF Port!lineVars
<1>2. ASSUME NEW t \in Tasks, Release(t) PROVE Port!Next
  <2>1. Owns(t) /\ Promote(PortOf[t]) /\ ClaimInv'
    BY <1>2, ReleaseStep
  <2>2. at' = [at EXCEPT ![t] = "gone"] /\ cancelled' = cancelled
    BY <1>2 DEF Release
  <2> QED BY <2>1, <2>2, OwnerLeavesRefines
<1>3. ASSUME NEW t \in Tasks, Step(t) PROVE [Port!Next]_(Port!lineVars)
  BY <1>2, <1>3, ClaimRefines, CancelRefines, GrantRefines, GiveUpRefines DEF Step
<1> QED BY <1>1, <1>3 DEF Next

(* The lines are empty at first. *)
LEMMA LineInit == Init => Port!Init
<1> SUFFICES ASSUME Init PROVE Port!Init
  OBVIOUS
<1>1. LineShape /\ \A p \in Ports : holder[p] = Nobody
  BY ClaimInit, LineOfPort DEF Init
<1>2. \A p \in Ports : LineOf(p) = <<>>
  BY <1>1 DEF LineShape
<1>3. {t \in Tasks : at[t] = "holding"} = {} /\ {t \in Tasks : at[t] # "new"} = {}
  BY DEF Init
<1> QED BY <1>2, <1>3 DEF Port!Init

(* While an output is started again only once its task has ended, the       *)
(* registry with its cancellations, promotions and withdrawals implements   *)
(* the line of DisplayPort: first come, first served                        *)
(* (DisplayClaimRegistry in claim_registry.rs).                             *)
THEOREM ClaimsServeInOrder == ASSUME ~Overlaps PROVE Spec => ServesInOrder
<1>1. Init => ClaimInv /\ Port!Init
  BY ClaimInit, LineInit
<1>2. ClaimInv /\ [Next]_vars => ClaimInv' /\ [Port!Next]_(Port!lineVars)
  BY ClaimNext, LineNext
<1> QED BY <1>1, <1>2, PTL DEF Spec, ServesInOrder, Port!Spec
=============================================================================
