------------------------------- MODULE Filtering -------------------------------
(***************************************************************************)
(* Operators on sequences that the libraries define in a way the provers   *)
(* cannot see into, and what the provers need to know of them: the         *)
(* elements of a queue that stay when others leave from its middle, in     *)
(* their order (SelectSeq of the standard module), and sums.               *)
(***************************************************************************)
EXTENDS Integers, Sequences, FiniteSets, FiniteSetTheorems, SequenceTheorems,
        WellFoundedInduction, SequencesExt, TLAPS

InSeq(s) == {s[i] : i \in 1..Len(s)}

(* Nothing stands twice in s.                                              *)
Once(s) == \A i, k \in 1..Len(s) : s[i] = s[k] => i = k

(* The elements of s at the positions K, in their order.                   *)
Picked(s, K) ==
  LET rank(i) == Cardinality({k \in K : k <= i})
  IN  [n \in 1..Cardinality(K) |-> s[CHOOSE i \in K : rank(i) = n]]

(* Those that are in S.                                                    *)
Only(s, S) == Picked(s, {i \in 1..Len(s) : s[i] \in S})

(* The sums of the first n elements of s, and the sum of all.              *)
PartSums(s) == LET sum[n \in 0..Len(s)] == IF n = 0 THEN 0 ELSE sum[n - 1] + s[n] IN sum
SumOf(s) == PartSums(s)[Len(s)]

-----------------------------------------------------------------------------
(* A position is picked once, and the order is kept.                       *)
LEMMA PickedFacts ==
  ASSUME NEW T, NEW s \in Seq(T), NEW K \in SUBSET (1..Len(s))
  PROVE  /\ IsFiniteSet(K) /\ Cardinality(K) \in Nat
         /\ Picked(s, K) \in Seq(T) /\ Len(Picked(s, K)) = Cardinality(K)
         /\ \E at \in [1..Cardinality(K) -> K] :
              /\ \A i \in K : \E n \in 1..Cardinality(K) : at[n] = i
              /\ \A m, n \in 1..Cardinality(K) : m < n => at[m] < at[n]
              /\ \A n \in 1..Cardinality(K) : Picked(s, K)[n] = s[at[n]]
<1> DEFINE upTo(i) == {k \in K : k <= i}
           rank(i) == Cardinality(upTo(i))
           N == Cardinality(K)
           at1(n) == CHOOSE i \in K : rank(i) = n
           R == [i \in K |-> rank(i)]
<1>1. Len(s) \in Nat /\ IsFiniteSet(1..Len(s)) /\ K \subseteq Nat
  BY FS_Interval
<1>2. IsFiniteSet(K) /\ N \in Nat
  BY <1>1, FS_Subset, FS_CardinalityType
<1>3. \A i \in K : /\ IsFiniteSet(upTo(i)) /\ rank(i) \in Nat
                   /\ rank(i) <= N /\ rank(i) # 0
  <2> TAKE i \in K
  <2>1. upTo(i) \subseteq K /\ i \in upTo(i)
    BY <1>1
  <2> HIDE DEF upTo
  <2>2. IsFiniteSet(upTo(i)) /\ Cardinality(upTo(i)) <= N
    BY <1>2, <2>1, FS_Subset
  <2>3. Cardinality(upTo(i)) \in Nat
    BY <2>2, FS_CardinalityType
  <2>4. Cardinality(upTo(i)) # 0
    BY <2>1, <2>2, FS_EmptySet
  <2> QED BY <2>2, <2>3, <2>4
<1>4. \A i, k \in K : i < k => rank(i) < rank(k)
  <2> SUFFICES ASSUME NEW i \in K, NEW k \in K, i < k
               PROVE  rank(i) < rank(k)
    OBVIOUS
  <2>1. upTo(i) \subseteq upTo(k) /\ k \in upTo(k) /\ k \notin upTo(i)
    <3>1. i \in Nat /\ k \in Nat /\ \A j \in K : j \in Nat
      BY <1>1
    <3>2. \A j \in upTo(i) : j \in upTo(k)
      BY <3>1
    <3>3. k \in upTo(k)
      BY <3>1
    <3>4. k \notin upTo(i)
      BY <3>1
    <3> HIDE DEF upTo
    <3> QED BY <3>2, <3>3, <3>4
  <2>2. IsFiniteSet(upTo(k)) /\ upTo(i) # upTo(k) /\ rank(i) \in Nat /\ rank(k) \in Nat
    BY <1>3, <2>1
  <2> HIDE DEF upTo
  <2>3. rank(i) <= rank(k) /\ rank(i) # rank(k)
    BY <2>1, <2>2, FS_Subset
  <2> QED BY <2>2, <2>3
<1>5. R \in Injection(K, 1..N)
  <2>1. \A i \in K : rank(i) \in 1..N
    <3> HIDE DEF upTo
    <3> QED BY <1>2, <1>3
  <2>2. \A i, k \in K : rank(i) = rank(k) => i = k
    <3> SUFFICES ASSUME NEW i \in K, NEW k \in K, rank(i) = rank(k), i # k
                 PROVE  FALSE
      OBVIOUS
    <3>1. i < k \/ k < i
      BY <1>1
    <3>2. rank(i) \in Nat /\ (rank(i) < rank(k) \/ rank(k) < rank(i))
      BY <1>3, <1>4, <3>1
    <3> HIDE DEF rank
    <3> QED BY <3>2
  <2> HIDE DEF rank
  <2> QED BY <2>1, <2>2 DEF Injection, IsInjective
<1>6. IsFiniteSet(1..N) /\ Cardinality(1..N) = N
  BY <1>2, FS_Interval
<1>7. R \in Surjection(K, 1..N)
  <2> HIDE DEF R
  <2> QED BY <1>2, <1>5, <1>6, FS_Injection
<1>8. \A n \in 1..N : at1(n) \in K /\ rank(at1(n)) = n
  <2> TAKE n \in 1..N
  <2>1. \E i \in K : R[i] = n
    <3> HIDE DEF R
    <3> QED BY <1>7 DEF Surjection
  <2>2. \E i \in K : rank(i) = n
    <3> HIDE DEF rank
    <3> QED BY <2>1
  <2> HIDE DEF rank
  <2> QED BY <2>2
<1> HIDE DEF upTo, at1
<1>9. \A i \in K : rank(i) \in 1..N /\ at1(rank(i)) = i
  <2> TAKE i \in K
  <2>1. rank(i) \in 1..N
    BY <1>2, <1>3
  <2>2. PICK k \in K : k = at1(rank(i)) /\ rank(k) = rank(i)
    <3> HIDE DEF rank
    <3> QED BY <1>8, <2>1
  <2>3. k = i
    <3>1. ~(i < k) /\ ~(k < i)
      <4>1. rank(i) \in Nat
        BY <1>3
      <4> HIDE DEF rank
      <4> QED BY <1>4, <2>2, <4>1
    <3> QED BY <1>1, <3>1
  <2> QED BY <2>1, <2>2, <2>3
<1>10. Picked(s, K) = [n \in 1..N |-> s[at1(n)]]
  BY Zenon DEF Picked, at1, rank, upTo
<1> DEFINE r == Picked(s, K)
           at == [n \in 1..N |-> at1(n)]
<1>11. at \in [1..N -> K] /\ \A n \in 1..N : s[at[n]] \in T /\ at[n] = at1(n)
  BY <1>8, ElementOfSeq
<1>12. r \in Seq(T) /\ Len(r) = N /\ \A n \in 1..N : r[n] = s[at[n]]
  <2>1. r \in [1..N -> T]
    BY <1>10, <1>11
  <2>2. r \in Seq(T) /\ DOMAIN r = 1..N
    BY <1>2, <1>10, <2>1, SeqDef
  <2>3. Len(r) \in Nat /\ DOMAIN r = 1..Len(r)
    BY <2>2, LenProperties
  <2>4. Len(r) = N
    <3> HIDE DEF r
    <3> QED BY <1>2, <2>2, <2>3
  <2> QED BY <1>10, <1>11, <2>2, <2>4
<1>13. \A i \in K : \E n \in 1..N : at[n] = i
  <2> HIDE DEF rank
  <2> QED BY <1>9, <1>11
<1>14. \A m, n \in 1..N : m < n => at[m] < at[n]
  <2> SUFFICES ASSUME NEW m \in 1..N, NEW n \in 1..N, m < n
               PROVE  at[m] < at[n]
    OBVIOUS
  <2>1. /\ at[m] \in K /\ at[n] \in K /\ rank(at[m]) = m /\ rank(at[n]) = n
    BY <1>8, <1>11
  <2>2. PICK i \in K : i = at[m] /\ rank(i) = m
    BY <2>1
  <2>3. PICK k \in K : k = at[n] /\ rank(k) = n
    BY <2>1
  <2> HIDE DEF rank, at
  <2>4. m \in Nat /\ n \in Nat /\ i \in Nat /\ k \in Nat
    BY <1>1, <1>2
  <2>5. ~(k < i)
    BY <1>4, <2>2, <2>3, <2>4
  <2>6. i # k
    BY <2>2, <2>3, <2>4
  <2> QED BY <2>2, <2>3, <2>4, <2>5, <2>6
<1> HIDE DEF r, at
<1>15. /\ at \in [1..N -> K]
       /\ \A i \in K : \E n \in 1..N : at[n] = i
       /\ \A m, n \in 1..N : m < n => at[m] < at[n]
       /\ \A n \in 1..N : r[n] = s[at[n]]
  BY <1>11, <1>12, <1>13, <1>14
<1> QED BY <1>2, <1>12, <1>15 DEF r

LEMMA PickedElements ==
  ASSUME NEW T, NEW s \in Seq(T), NEW K \in SUBSET (1..Len(s))
  PROVE  /\ InSeq(Picked(s, K)) = {s[i] : i \in K}
         /\ (\A i, k \in K : s[i] = s[k] => i = k) => Once(Picked(s, K))
<1> DEFINE N == Cardinality(K)
           r == Picked(s, K)
<1>1. N \in Nat /\ Len(r) = N
  BY PickedFacts
<1>2. PICK at \in [1..N -> K] :
              /\ \A i \in K : \E n \in 1..N : at[n] = i
              /\ \A m, n \in 1..N : m < n => at[m] < at[n]
              /\ \A n \in 1..N : r[n] = s[at[n]]
  BY PickedFacts
<1>3. K \subseteq Nat
  OBVIOUS
<1> HIDE DEF N, r
<1>4. \A n \in 1..N : r[n] \in {s[i] : i \in K}
  BY <1>2
<1>5. ASSUME NEW i \in K PROVE s[i] \in InSeq(r)
  <2>1. PICK n \in 1..N : at[n] = i
    BY <1>2
  <2> QED BY <1>1, <1>2, <2>1 DEF InSeq
<1>6. ASSUME \A i, k \in K : s[i] = s[k] => i = k PROVE Once(r)
  <2> SUFFICES ASSUME NEW m \in 1..N, NEW n \in 1..N, r[m] = r[n]
               PROVE  m = n
    BY <1>1 DEF Once
  <2>1. at[m] \in K /\ at[n] \in K /\ s[at[m]] = s[at[n]]
    BY <1>2
  <2>2. at[m] = at[n] /\ at[m] \in Nat
    BY <1>3, <1>6, <2>1
  <2>3. ~(m < n) /\ ~(n < m)
    BY <1>2, <2>2
  <2> QED BY <1>1, <2>3
<1>7. InSeq(r) = {s[i] : i \in K}
  BY <1>1, <1>4, <1>5 DEF InSeq
<1> QED BY <1>6, <1>7 DEF r

(* Only keeps the elements of S, each as often as it was.                  *)
LEMMA OnlyFacts ==
  ASSUME NEW T, NEW s \in Seq(T), NEW S
  PROVE  /\ Only(s, S) \in Seq(T)
         /\ InSeq(Only(s, S)) = InSeq(s) \cap S
         /\ Once(s) => Once(Only(s, S))
<1> DEFINE K == {i \in 1..Len(s) : s[i] \in S}
           N == Cardinality(K)
           r == Only(s, S)
<1>1. r = Picked(s, K)
  BY DEF Only
<1> HIDE DEF r, N
<1>2. /\ N \in Nat /\ r \in Seq(T) /\ Len(r) = N
      /\ \E at \in [1..N -> K] :
              /\ \A i \in K : \E n \in 1..N : at[n] = i
              /\ \A m, n \in 1..N : m < n => at[m] < at[n]
              /\ \A n \in 1..N : r[n] = s[at[n]]
  <2> HIDE DEF K
  <2>1. K \in SUBSET (1..Len(s))
    BY DEF K
  <2> QED BY <1>1, <2>1, PickedFacts DEF N
<1>3. PICK at \in [1..N -> K] :
              /\ \A i \in K : \E n \in 1..N : at[n] = i
              /\ \A m, n \in 1..N : m < n => at[m] < at[n]
              /\ \A n \in 1..N : r[n] = s[at[n]]
  BY <1>2
<1>4. InSeq(r) = InSeq(s) \cap S
  <2>1. InSeq(r) \subseteq InSeq(s) \cap S
    BY <1>2, <1>3 DEF InSeq
  <2>2. ASSUME NEW i \in 1..Len(s), s[i] \in S PROVE s[i] \in InSeq(r)
    <3>1. PICK n \in 1..N : at[n] = i
      BY <1>3, <2>2
    <3>2. r[n] = s[i]
      BY <1>3, <3>1
    <3> QED BY <1>2, <3>2 DEF InSeq
  <2> QED BY <2>1, <2>2 DEF InSeq
<1>5. ASSUME Once(s) PROVE Once(r)
  <2> SUFFICES ASSUME NEW i \in 1..N, NEW k \in 1..N, r[i] = r[k]
               PROVE  i = k
    BY <1>2 DEF Once
  <2>1. at[i] = at[k] /\ at[i] \in Nat
    BY <1>3, <1>5 DEF Once
  <2>2. ~(i < k) /\ ~(k < i)
    BY <1>3, <2>1
  <2> QED BY <1>2, <2>2
<1> QED BY <1>2, <1>4, <1>5 DEF r

-----------------------------------------------------------------------------
(* What the other steps of a queue do to its elements.                     *)

LEMMA InSeqFacts ==
  ASSUME NEW T, NEW s \in Seq(T)
  PROVE  InSeq(s) \subseteq T /\ (s = <<>> <=> InSeq(s) = {})
<1>1. Len(s) \in Nat /\ (s # <<>> => Len(s) > 0) /\ (s = <<>> => Len(s) = 0)
  BY EmptySeq, LenProperties
<1>2. \A i \in 1..Len(s) : s[i] \in T
  BY ElementOfSeq
<1> QED BY <1>1, <1>2 DEF InSeq

(* The first n leave.                                                      *)
LEMMA CutFacts ==
  ASSUME NEW T, NEW s \in Seq(T), NEW n \in 0..Len(s), Once(s)
  PROVE  LET a == SubSeq(s, 1, n)
             b == SubSeq(s, n + 1, Len(s))
         IN /\ a \in Seq(T) /\ Once(a)
            /\ b \in Seq(T) /\ Once(b)
            /\ InSeq(s) = InSeq(a) \cup InSeq(b)
            /\ InSeq(a) \cap InSeq(b) = {}
<1> DEFINE a == SubSeq(s, 1, n)
           b == SubSeq(s, n + 1, Len(s))
<1>1. Len(s) \in Nat /\ \A i \in 1..Len(s) : s[i] \in T
  BY LenProperties, ElementOfSeq
<1>2. a \in Seq(T) /\ Len(a) = n /\ \A i \in 1..n : a[i] = s[i]
  <2>1. /\ SubSeq(s, 1, n) \in Seq(T)
        /\ Len(SubSeq(s, 1, n)) = IF 1 <= n THEN n - 1 + 1 ELSE 0
        /\ \A i \in 1..n - 1 + 1 : SubSeq(s, 1, n)[i] = s[1 + i - 1]
    BY <1>1, SubSeqProperties
  <2> QED BY <1>1, <2>1
<1>3. b \in Seq(T) /\ Len(b) = Len(s) - n /\ \A i \in 1..Len(s) - n : b[i] = s[n + i]
  <2>1. /\ SubSeq(s, n + 1, Len(s)) \in Seq(T)
        /\ Len(SubSeq(s, n + 1, Len(s))) = IF n + 1 <= Len(s) THEN Len(s) - (n + 1) + 1 ELSE 0
        /\ \A i \in 1..Len(s) - (n + 1) + 1 : SubSeq(s, n + 1, Len(s))[i] = s[(n + 1) + i - 1]
    BY <1>1, SubSeqProperties
  <2> QED BY <1>1, <2>1
<1> HIDE DEF a, b
<1>4. \A i, k \in 1..Len(s) : s[i] = s[k] => i = k
  BY DEF Once
<1>5. Once(a)
  BY <1>1, <1>2, <1>4 DEF Once
<1>6. Once(b)
  <2> SUFFICES ASSUME NEW i \in 1..Len(s) - n, NEW k \in 1..Len(s) - n, b[i] = b[k]
               PROVE  i = k
    BY <1>3 DEF Once
  <2>1. n + i \in 1..Len(s) /\ n + k \in 1..Len(s) /\ s[n + i] = s[n + k]
    BY <1>1, <1>3
  <2>2. n + i = n + k
    BY <1>4, <2>1
  <2> QED BY <1>1, <2>2
<1>7. InSeq(s) \subseteq InSeq(a) \cup InSeq(b)
  <2> SUFFICES ASSUME NEW i \in 1..Len(s), i > n
               PROVE  s[i] \in InSeq(b)
    BY <1>1, <1>2 DEF InSeq
  <2>1. i - n \in 1..Len(s) - n /\ b[i - n] = s[n + (i - n)] /\ n + (i - n) = i
    BY <1>1, <1>3
  <2> QED BY <1>3, <2>1 DEF InSeq
<1>8. InSeq(a) \subseteq InSeq(s) /\ InSeq(b) \subseteq InSeq(s)
  BY <1>1, <1>2, <1>3 DEF InSeq
<1>9. InSeq(a) \cap InSeq(b) = {}
  <2> SUFFICES ASSUME NEW i \in 1..n, NEW k \in 1..Len(s) - n, a[i] = b[k]
               PROVE  FALSE
    BY <1>2, <1>3 DEF InSeq
  <2>1. i \in 1..Len(s) /\ n + k \in 1..Len(s) /\ s[i] = s[n + k] /\ i # n + k
    BY <1>1, <1>2, <1>3
  <2> QED BY <1>4, <2>1
<1> QED BY <1>2, <1>3, <1>5, <1>6, <1>7, <1>8, <1>9 DEF a, b

(* Others line up behind.                                                  *)
LEMMA ConcatFacts ==
  ASSUME NEW T, NEW s \in Seq(T), NEW t \in Seq(T)
  PROVE  /\ s \o t \in Seq(T)
         /\ InSeq(s \o t) = InSeq(s) \cup InSeq(t)
         /\ Once(s) /\ Once(t) /\ InSeq(s) \cap InSeq(t) = {} => Once(s \o t)
<1> DEFINE r == s \o t
<1>1. /\ r \in Seq(T) /\ Len(r) = Len(s) + Len(t)
      /\ \A i \in 1..Len(s) + Len(t) : r[i] = IF i <= Len(s) THEN s[i] ELSE t[i - Len(s)]
  BY ConcatProperties
<1>2. Len(s) \in Nat /\ Len(t) \in Nat
  BY LenProperties
<1> HIDE DEF r
<1>3. InSeq(r) \subseteq InSeq(s) \cup InSeq(t)
  BY <1>1, <1>2 DEF InSeq
<1>4. InSeq(s) \subseteq InSeq(r)
  BY <1>1, <1>2 DEF InSeq
<1>5. InSeq(t) \subseteq InSeq(r)
  <2> SUFFICES ASSUME NEW i \in 1..Len(t) PROVE t[i] \in InSeq(r)
    BY DEF InSeq
  <2>1. Len(s) + i \in 1..Len(r) /\ r[Len(s) + i] = t[(Len(s) + i) - Len(s)]
    BY <1>1, <1>2
  <2> QED BY <1>2, <2>1 DEF InSeq
<1>6. ASSUME Once(s), Once(t), InSeq(s) \cap InSeq(t) = {} PROVE Once(r)
  <2> SUFFICES ASSUME NEW i \in 1..Len(s) + Len(t), NEW k \in 1..Len(s) + Len(t), r[i] = r[k]
               PROVE  i = k
    BY <1>1 DEF Once
  <2>1. CASE i <= Len(s) /\ k <= Len(s)
    BY <1>1, <1>2, <1>6, <2>1 DEF Once
  <2>2. CASE i > Len(s) /\ k > Len(s)
    <3>1. i - Len(s) \in 1..Len(t) /\ k - Len(s) \in 1..Len(t) /\ t[i - Len(s)] = t[k - Len(s)]
      BY <1>1, <1>2, <2>2
    <3>2. i - Len(s) = k - Len(s)
      BY <1>6, <3>1 DEF Once
    <3> QED BY <1>2, <3>2
  <2>3. CASE i <= Len(s) /\ k > Len(s)
    <3>1. r[i] \in InSeq(s) /\ r[k] \in InSeq(t)
      BY <1>1, <1>2, <2>3 DEF InSeq
    <3> QED BY <1>6, <3>1
  <2>4. CASE i > Len(s) /\ k <= Len(s)
    <3>1. r[i] \in InSeq(t) /\ r[k] \in InSeq(s)
      BY <1>1, <1>2, <2>4 DEF InSeq
    <3> QED BY <1>6, <3>1
  <2> QED BY <1>2, <2>1, <2>2, <2>3, <2>4
<1> QED BY <1>1, <1>3, <1>4, <1>5, <1>6 DEF r

LEMMA SingleFacts ==
  ASSUME NEW T, NEW x \in T
  PROVE  <<x>> \in Seq(T) /\ InSeq(<<x>>) = {x} /\ Once(<<x>>)
BY DEF InSeq, Once

LEMMA AppendFacts ==
  ASSUME NEW T, NEW s \in Seq(T), NEW x \in T
  PROVE  /\ Append(s, x) \in Seq(T)
         /\ InSeq(Append(s, x)) = InSeq(s) \cup {x}
         /\ Once(s) /\ x \notin InSeq(s) => Once(Append(s, x))
<1>1. Append(s, x) = s \o <<x>>
  BY AppendIsConcat
<1> DEFINE t == <<x>>
<1>2. t \in Seq(T) /\ InSeq(t) = {x} /\ Once(t)
  BY SingleFacts
<1> HIDE DEF t
<1>3. /\ s \o t \in Seq(T) /\ InSeq(s \o t) = InSeq(s) \cup InSeq(t)
      /\ Once(s) /\ Once(t) /\ InSeq(s) \cap InSeq(t) = {} => Once(s \o t)
  BY <1>2, ConcatFacts
<1>4. Append(s, x) = s \o t
  BY <1>1 DEF t
<1> QED BY <1>2, <1>3, <1>4

(* The first leaves.                                                       *)
LEMMA TailFacts ==
  ASSUME NEW T, NEW s \in Seq(T), s # <<>>, Once(s)
  PROVE  /\ Head(s) \in InSeq(s)
         /\ Tail(s) \in Seq(T) /\ Once(Tail(s))
         /\ InSeq(Tail(s)) = InSeq(s) \ {Head(s)}
<1>1. Len(s) \in Nat /\ Len(s) > 0
  BY EmptySeq
<1> DEFINE a == SubSeq(s, 1, 1)
           b == SubSeq(s, 1 + 1, Len(s))
<1>2. /\ a \in Seq(T) /\ Once(b) /\ b \in Seq(T)
      /\ InSeq(s) = InSeq(a) \cup InSeq(b) /\ InSeq(a) \cap InSeq(b) = {}
  BY <1>1, CutFacts
<1>3. Tail(s) = b /\ Head(s) = s[1] /\ s[1] \in T
  BY <1>1, TailIsSubSeq, ElementOfSeq
<1>4. Len(a) = 1 /\ a[1] = s[1]
  <2>1. \A i \in 1..1 : s[i] \in T
    BY <1>3
  <2>2. Len(a) = (IF 1 <= 1 THEN 1 - 1 + 1 ELSE 0) /\ \A i \in 1..1 - 1 + 1 : a[i] = s[1 + i - 1]
    BY <2>1, SubSeqProperties
  <2> HIDE DEF a
  <2> QED BY <2>2
<1> HIDE DEF a, b
<1>5. InSeq(a) = {s[1]}
  BY <1>4 DEF InSeq
<1> QED BY <1>2, <1>3, <1>5

-----------------------------------------------------------------------------
(* Sums.  What is said of every n follows from the least one it fails for.  *)
LEMMA LeastOf ==
  ASSUME NEW T, T \subseteq Nat, T # {}
  PROVE  \E x \in T : \A y \in T : x <= y
<1>1. PICK x \in T : \A y \in T : ~(<<y, x>> \in OpToRel(<, Nat))
  BY NatLessThanWellFounded, WFMin, Zenon
<1>2. ASSUME NEW y \in T PROVE x <= y
  <2>1. y < x => <<y, x>> \in OpToRel(<, Nat)
    BY DEF OpToRel
  <2>2. x \in Nat /\ y \in Nat /\ ~(y < x)
    BY <2>1, <1>1
  <2> QED BY <2>2
<1> QED BY <1>2

(* The largest element of a set of numbers up to n.                         *)
LEMMA LargestOf ==
  ASSUME NEW n \in Nat, NEW S, S \subseteq 0..n, S # {}
  PROVE  /\ (CHOOSE k \in S : \A m \in S : m <= k) \in S
         /\ \E k \in S : \A m \in S : m <= k
<1> DEFINE T == {n - k : k \in S}
<1>1. T \subseteq Nat /\ T # {}
  <2>1. \A k \in S : n - k \in Nat
    OBVIOUS
  <2> QED BY <2>1
<1>2. PICK x \in T : \A y \in T : x <= y
  <2> HIDE DEF T
  <2> QED BY <1>1, LeastOf
<1>3. PICK k \in S : x = n - k
  BY <1>2
<1>4. \A m \in S : m <= k
  <2> TAKE m \in S
  <2>1. x <= n - m
    BY <1>2
  <2> QED BY <1>3, <2>1
<1> QED BY <1>4

AddsUp(f, s) == f[0] = 0 /\ \A n \in 1..Len(s) : f[n] = f[n - 1] + s[n]

(* There is a function that adds up s, and only one.                       *)
LEMMA SumsExist ==
  ASSUME NEW s \in Seq(Int)
  PROVE  \E f \in [0..Len(s) -> Int] : AddsUp(f, s)
<1> DEFINE Begun(m, f) == f[0] = 0 /\ \A n \in 1..m : f[n] = f[n - 1] + s[n]
           Good(m) == \E f \in [0..m -> Int] : Begun(m, f)
           T == {m \in 0..Len(s) : ~Good(m)}
<1>1. Len(s) \in Nat /\ \A n \in 1..Len(s) : s[n] \in Int
  BY LenProperties, ElementOfSeq
<1>2. Good(0)
  <2>1. [n \in 0..0 |-> 0] \in [0..0 -> Int] /\ Begun(0, [n \in 0..0 |-> 0])
    OBVIOUS
  <2> QED BY <2>1
<1>3. ASSUME NEW x \in 1..Len(s), Good(x - 1) PROVE Good(x)
  <2>1. PICK f \in [0..(x - 1) -> Int] : Begun(x - 1, f)
    BY <1>3
  <2> DEFINE g == [n \in 0..x |-> IF n = x THEN f[x - 1] + s[x] ELSE f[n]]
  <2>2. g \in [0..x -> Int]
    BY <1>1, <2>1
  <2>3. Begun(x, g)
    BY <1>1, <2>1
  <2> QED BY <2>2, <2>3
<1> HIDE DEF Good
<1>4. ASSUME T # {} PROVE FALSE
  <2>1. T \subseteq Nat
    BY <1>1
  <2> HIDE DEF T
  <2>2. PICK x \in T : \A y \in T : x <= y
    BY <1>4, <2>1, LeastOf
  <2> USE DEF T
  <2>3. x \in 1..Len(s) /\ ~Good(x)
    BY <1>1, <1>2, <2>2
  <2>4. x - 1 \in 0..Len(s) /\ x - 1 \notin T
    BY <1>1, <2>2, <2>3
  <2> QED BY <1>3, <2>3, <2>4
<1>5. Good(Len(s))
  BY <1>1, <1>4
<1> QED BY <1>5 DEF Good, AddsUp

LEMMA SumsAreOne ==
  ASSUME NEW s, Len(s) \in Nat, NEW f, NEW g, AddsUp(f, s), AddsUp(g, s)
  PROVE  \A n \in 0..Len(s) : f[n] = g[n]
<1> DEFINE T == {n \in 0..Len(s) : f[n] # g[n]}
<1>1. ASSUME T # {} PROVE FALSE
  <2>1. T \subseteq Nat
    OBVIOUS
  <2> HIDE DEF T
  <2>2. PICK x \in T : \A y \in T : x <= y
    BY <1>1, <2>1, LeastOf
  <2> USE DEF T
  <2>3. x \in 1..Len(s) /\ f[x] # g[x]
    BY <2>2 DEF AddsUp
  <2>4. x - 1 \in 0..Len(s) /\ x - 1 \notin T
    BY <2>2, <2>3
  <2> QED BY <2>3, <2>4 DEF AddsUp
<1> QED BY <1>1

LEMMA SumsFacts ==
  ASSUME NEW s \in Seq(Int)
  PROVE  /\ PartSums(s) \in [0..Len(s) -> Int] /\ AddsUp(PartSums(s), s)
         /\ \A n \in 0..Len(s) : PartSums(s)[n] \in Int
<1>1. PICK f \in [0..Len(s) -> Int] : AddsUp(f, s)
  BY SumsExist
<1>2. Len(s) \in Nat
  BY LenProperties
<1>3. f = [n \in 0..Len(s) |-> IF n = 0 THEN 0 ELSE f[n - 1] + s[n]]
  BY <1>1, <1>2 DEF AddsUp
<1>4. PartSums(s) = CHOOSE h : h = [n \in 0..Len(s) |-> IF n = 0 THEN 0 ELSE h[n - 1] + s[n]]
  BY Zenon DEF PartSums
<1>5. PartSums(s) = [n \in 0..Len(s) |-> IF n = 0 THEN 0 ELSE PartSums(s)[n - 1] + s[n]]
  BY <1>3, <1>4, Zenon
<1>6. PICK g : g = PartSums(s)
  OBVIOUS
<1>7. g = [n \in 0..Len(s) |-> IF n = 0 THEN 0 ELSE g[n - 1] + s[n]]
  BY <1>5, <1>6, Zenon
<1>8. AddsUp(g, s)
  <2>1. \A n \in 0..Len(s) : g[n] = IF n = 0 THEN 0 ELSE g[n - 1] + s[n]
    BY <1>7
  <2> QED BY <1>2, <2>1 DEF AddsUp
<1>9. \A n \in 0..Len(s) : f[n] = g[n]
  BY <1>1, <1>2, <1>8, SumsAreOne
<1>10. g \in [0..Len(s) -> Int]
  BY <1>1, <1>7, <1>9
<1> QED BY <1>6, <1>8, <1>10

(* A sum from n on is a difference of two sums.                             *)
LEMMA SumsOfPart ==
  ASSUME NEW s \in Seq(Int), NEW m \in 0..Len(s), NEW n \in m..Len(s)
  PROVE  SumOf(SubSeq(s, m + 1, n)) = PartSums(s)[n] - PartSums(s)[m]
<1> DEFINE t == SubSeq(s, m + 1, n)
           f == [k \in 0..(n - m) |-> PartSums(s)[m + k] - PartSums(s)[m]]
<1>1. Len(s) \in Nat /\ \A k \in 1..Len(s) : s[k] \in Int
  BY LenProperties, ElementOfSeq
<1>2. t \in Seq(Int) /\ Len(t) = n - m /\ \A k \in 1..(n - m) : t[k] = s[m + k]
  <2>1. \A i \in m + 1..n : s[i] \in Int
    BY <1>1
  <2>2. /\ t \in Seq(Int) /\ Len(t) = IF m + 1 <= n THEN n - (m + 1) + 1 ELSE 0
        /\ \A i \in 1..n - (m + 1) + 1 : t[i] = s[(m + 1) + i - 1]
    BY <1>1, <2>1, SubSeqProperties
  <2> HIDE DEF t
  <2> QED BY <1>1, <2>2
<1> HIDE DEF t
<1>3. AddsUp(PartSums(s), s) /\ \A k \in 0..Len(s) : PartSums(s)[k] \in Int
  BY SumsFacts
<1>4. AddsUp(f, t)
  <2>1. f[0] = 0
    BY <1>1, <1>3
  <2>2. ASSUME NEW k \in 1..Len(t) PROVE f[k] = f[k - 1] + t[k]
    <3>1. /\ k \in 0..(n - m) /\ k - 1 \in 0..(n - m)
          /\ m + k \in 1..Len(s) /\ (m + k) - 1 = m + (k - 1) /\ m + (k - 1) \in 0..Len(s)
      BY <1>1, <1>2
    <3>2. PartSums(s)[m + k] = PartSums(s)[m + (k - 1)] + s[m + k]
      BY <1>3, <3>1 DEF AddsUp
    <3>3. f[k] = PartSums(s)[m + k] - PartSums(s)[m] /\ f[k - 1] = PartSums(s)[m + (k - 1)] - PartSums(s)[m]
      BY <3>1
    <3>4. /\ PartSums(s)[m + k] \in Int /\ PartSums(s)[m + (k - 1)] \in Int /\ PartSums(s)[m] \in Int
          /\ t[k] = s[m + k] /\ s[m + k] \in Int
      BY <1>1, <1>2, <1>3, <3>1
    <3> HIDE DEF f
    <3> QED BY <3>2, <3>3, <3>4
  <2> QED BY <2>1, <2>2 DEF AddsUp
<1>5. AddsUp(PartSums(t), t)
  BY <1>2, SumsFacts
<1> HIDE DEF f
<1>6. PartSums(t)[Len(t)] = f[Len(t)]
  BY <1>2, <1>4, <1>5, SumsAreOne
<1>7. SumOf(t) = f[n - m]
  BY <1>2, <1>6 DEF SumOf
<1>8. n - m \in 0..(n - m) /\ m + (n - m) = n
  BY <1>1
<1>9. f[n - m] = PartSums(s)[m + (n - m)] - PartSums(s)[m]
  BY <1>8 DEF f
<1> QED BY <1>7, <1>8, <1>9 DEF t

(* Of numbers that are not negative, more have no smaller sum.              *)
LEMMA SumsGrow ==
  ASSUME NEW s \in Seq(Nat), NEW m \in 0..Len(s), NEW n \in m..Len(s)
  PROVE  PartSums(s)[m] <= PartSums(s)[n]
<1> DEFINE T == {k \in m..Len(s) : ~(PartSums(s)[m] <= PartSums(s)[k])}
<1>1. s \in Seq(Int) /\ Len(s) \in Nat /\ \A k \in 1..Len(s) : s[k] \in Nat
  BY LenProperties, ElementOfSeq
<1>2. AddsUp(PartSums(s), s) /\ \A k \in 0..Len(s) : PartSums(s)[k] \in Int
  BY <1>1, SumsFacts
<1>3. ASSUME T # {} PROVE FALSE
  <2>1. T \subseteq Nat
    OBVIOUS
  <2> HIDE DEF T
  <2>2. PICK x \in T : \A y \in T : x <= y
    BY <1>3, <2>1, LeastOf
  <2> USE DEF T
  <2>3. x \in m + 1..Len(s) /\ x \in 1..Len(s)
    BY <1>1, <1>2, <2>2
  <2>4. x - 1 \in m..Len(s) /\ x - 1 \notin T
    BY <1>1, <2>2, <2>3
  <2>5. PartSums(s)[x] = PartSums(s)[x - 1] + s[x]
    BY <1>2, <2>3 DEF AddsUp
  <2>6. PartSums(s)[m] \in Int /\ PartSums(s)[x] \in Int /\ PartSums(s)[x - 1] \in Int /\ s[x] \in Nat
    BY <1>1, <1>2, <2>3, <2>4
  <2>7. PartSums(s)[m] <= PartSums(s)[x - 1] /\ ~(PartSums(s)[m] <= PartSums(s)[x])
    BY <2>2, <2>4
  <2> QED BY <2>5, <2>6, <2>7
<1> QED BY <1>1, <1>3


(* A sum goes on behind another.                                            *)
LEMMA SumsOfConcat ==
  ASSUME NEW s \in Seq(Int), NEW t \in Seq(Int)
  PROVE  /\ s \o t \in Seq(Int) /\ Len(s \o t) = Len(s) + Len(t)
         /\ \A n \in 0..Len(s) : PartSums(s \o t)[n] = PartSums(s)[n]
         /\ \A n \in 0..Len(t) : PartSums(s \o t)[Len(s) + n] = SumOf(s) + PartSums(t)[n]
<1> DEFINE r == s \o t
           f == [n \in 0..Len(t) |-> PartSums(r)[Len(s) + n] - PartSums(r)[Len(s)]]
<1>1. /\ r \in Seq(Int) /\ Len(r) = Len(s) + Len(t)
      /\ \A i \in 1..Len(s) + Len(t) : r[i] = IF i <= Len(s) THEN s[i] ELSE t[i - Len(s)]
  BY ConcatProperties
<1>2. /\ Len(s) \in Nat /\ \A i \in 1..Len(s) : s[i] \in Int
      /\ Len(t) \in Nat /\ \A i \in 1..Len(t) : t[i] \in Int
  BY LenProperties, ElementOfSeq
<1> HIDE DEF r
<1>3. AddsUp(PartSums(r), r) /\ \A n \in 0..Len(r) : PartSums(r)[n] \in Int
  BY <1>1, SumsFacts
<1>4. /\ AddsUp(PartSums(s), s) /\ \A n \in 0..Len(s) : PartSums(s)[n] \in Int
      /\ AddsUp(PartSums(t), t) /\ \A n \in 0..Len(t) : PartSums(t)[n] \in Int
  BY SumsFacts
<1>5. AddsUp(PartSums(r), s)
  <2>1. \A n \in 1..Len(s) : n \in 1..Len(r) /\ r[n] = s[n]
    BY <1>1, <1>2
  <2> QED BY <1>3, <2>1 DEF AddsUp
<1>6. \A n \in 0..Len(s) : PartSums(r)[n] = PartSums(s)[n]
  BY <1>2, <1>4, <1>5, SumsAreOne
<1>7. AddsUp(f, t)
  <2>1. f[0] = 0
    BY <1>1, <1>2, <1>3
  <2>2. ASSUME NEW k \in 1..Len(t) PROVE f[k] = f[k - 1] + t[k]
    <3>0. k \in 0..Len(t) /\ k - 1 \in 0..Len(t) /\ k > 0
      BY <1>2
    <3>1. /\ Len(s) + k \in 1..Len(r) /\ (Len(s) + k) - 1 = Len(s) + (k - 1)
          /\ Len(s) + (k - 1) \in 0..Len(r) /\ Len(s) \in 0..Len(r)
          /\ r[Len(s) + k] = t[k]
      <4>1. Len(r) = Len(s) + Len(t) /\ Len(r) \in Nat
        BY <1>1, <1>2
      <4>2. Len(s) + k \in 1..Len(s) + Len(t) /\ ~(Len(s) + k <= Len(s)) /\ (Len(s) + k) - Len(s) = k
        BY <1>2, <3>0
      <4>3. r[Len(s) + k] = t[k]
        BY <1>1, <4>2
      <4> QED BY <1>2, <3>0, <4>1, <4>2, <4>3
    <3>2. PartSums(r)[Len(s) + k] = PartSums(r)[Len(s) + (k - 1)] + r[Len(s) + k]
      BY <1>3, <3>1 DEF AddsUp
    <3>3. /\ f[k] = PartSums(r)[Len(s) + k] - PartSums(r)[Len(s)]
          /\ f[k - 1] = PartSums(r)[Len(s) + (k - 1)] - PartSums(r)[Len(s)]
      BY <3>0
    <3>4. /\ PartSums(r)[Len(s) + k] \in Int /\ PartSums(r)[Len(s) + (k - 1)] \in Int
          /\ PartSums(r)[Len(s)] \in Int /\ r[Len(s) + k] = t[k] /\ t[k] \in Int
      BY <1>2, <1>3, <3>1
    <3> HIDE DEF f
    <3> QED BY <3>2, <3>3, <3>4
  <2> QED BY <2>1, <2>2 DEF AddsUp
<1>8. \A n \in 0..Len(t) : f[n] = PartSums(t)[n]
  <2> HIDE DEF f
  <2> QED BY <1>2, <1>4, <1>7, SumsAreOne
<1>9. ASSUME NEW n \in 0..Len(t)
      PROVE  PartSums(r)[Len(s) + n] = SumOf(s) + PartSums(t)[n]
  <2>1. Len(s) \in 0..Len(s) /\ Len(s) + n \in 0..Len(r)
    BY <1>1, <1>2
  <2>2. PartSums(r)[Len(s)] = SumOf(s)
    BY <1>6, <2>1 DEF SumOf
  <2>3. PartSums(r)[Len(s) + n] - PartSums(r)[Len(s)] = PartSums(t)[n]
    BY <1>8
  <2>4. PartSums(r)[Len(s) + n] \in Int /\ PartSums(r)[Len(s)] \in Int /\ PartSums(t)[n] \in Int
    BY <1>1, <1>2, <1>3, <1>4, <2>1
  <2> QED BY <2>2, <2>3, <2>4
<1> QED BY <1>1, <1>6, <1>9 DEF r

(* Some order of a finite set holds each of its elements once.              *)
LEMMA SetToSeqFacts ==
  ASSUME NEW S, IsFiniteSet(S)
  PROVE  SetToSeq(S) \in Seq(S) /\ InSeq(SetToSeq(S)) = S /\ Once(SetToSeq(S))
<1> DEFINE n == Cardinality(S)
           f == SetToSeq(S)
<1>2. n \in Nat /\ ExistsBijection(1..n, S)
  BY FS_CardinalityType
<1>3. \E g \in [1..n -> S] : IsInjective(g)
  BY <1>2 DEF ExistsBijection, Bijection, Injection, IsInjective
<1>4. f \in [1..n -> S] /\ IsInjective(f)
  BY <1>3, Zenon DEF SetToSeq
<1>5. IsFiniteSet(1..n) /\ Cardinality(1..n) = n
  BY <1>2, FS_Interval
<1>6. f \in Injection(1..n, S)
  BY <1>4 DEF Injection
<1> HIDE DEF f, n
<1>7. f \in Surjection(1..n, S)
  <2>1. Cardinality(1..n) = Cardinality(S)
    BY <1>5 DEF n
  <2> QED BY <1>6, <2>1, FS_Injection
<1>8. f \in Seq(S) /\ Len(f) = n
  <2>1. f \in Seq(S)
    BY <1>2, <1>4, SeqDef
  <2>2. Len(f) \in Nat /\ 1..n = 1..Len(f)
    BY <1>4, <2>1, LenProperties
  <2>3. Len(f) = n
    BY <1>2, <2>2
  <2> QED BY <2>1, <2>3
<1>9. InSeq(f) = S
  BY <1>4, <1>7, <1>8 DEF InSeq, Surjection
<1>10. Once(f)
  BY <1>4, <1>8 DEF IsInjective, Once
<1> QED BY <1>8, <1>9, <1>10 DEF f
=============================================================================
