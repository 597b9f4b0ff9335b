--------------------------- MODULE SequenceLemmas ---------------------------
(***************************************************************************)
(* Lemmas that the proofs about several components need: induction over    *)
(* numbers without an operator parameter, and what Ranking computes.       *)
(***************************************************************************)
EXTENDS Ranking, SequencesExt, FiniteSetTheorems, SequenceTheorems, WellFoundedInduction, TLAPS

-----------------------------------------------------------------------------
(* Lemmas: numbers                                                         *)

LEMMA LeastNatural ==
    ASSUME NEW T \in SUBSET Nat, T # {}
    PROVE  \E m \in T : \A k \in T : m <= k
<1>1. PICK m \in T : \A k \in T : <<k, m>> \notin OpToRel(<, Nat)
  BY NatLessThanWellFounded, WFMin
<1>2. ASSUME NEW k \in T, k < m PROVE FALSE
  <2>1. <<k, m>> \in {ss \in Nat \X Nat : ss[1] < ss[2]}
    BY <1>2
  <2>2. {ss \in Nat \X Nat : ss[1] < ss[2]} = OpToRel(<, Nat)
    BY Zenon DEF OpToRel
  <2> QED BY <1>1, <2>1, <2>2
<1>3. \A k \in T : m \in Nat /\ k \in Nat /\ ~(k < m)
  BY <1>2
<1> QED BY <1>3, SMT

(* Induction up to m, with the set of the numbers for which it holds.      *)
LEMMA StepByStep ==
    ASSUME NEW m \in Nat, NEW S, 0 \in S, \A n \in 0..m - 1 : n \in S => n + 1 \in S
    PROVE  \A n \in 0..m : n \in S
<1> DEFINE T == {n \in 0..m : n \notin S}
<1>1. ASSUME T # {} PROVE FALSE
  <2>1. PICK k \in T : \A n \in T : k <= n
    <3>1. T \in SUBSET Nat
      OBVIOUS
    <3> QED BY <1>1, <3>1, LeastNatural
  <2>2. k - 1 \in 0..m - 1 /\ k - 1 \notin T
    <3>1. k \in 0..m /\ k # 0 /\ ~(k <= k - 1)
      BY <2>1
    <3> QED BY <2>1, <3>1
  <2>3. k - 1 \in S /\ (k - 1) + 1 = k
    BY <2>2
  <2> QED BY <2>1, <2>2, <2>3
<1> QED BY <1>1

LEMMA FunctionIsSeq ==
    ASSUME NEW n \in Nat, NEW S, NEW f \in [1..n -> S]
    PROVE  f \in Seq(S) /\ Len(f) = n
<1>1. f = [i \in 1..n |-> f[i]] /\ \A i \in 1..n : f[i] \in S
  OBVIOUS
<1> QED BY <1>1

-----------------------------------------------------------------------------
(* Lemmas: places in an order                                              *)

Above(keys, i) == {j \in DOMAIN keys : Ahead(keys, j, i)}

LEMMA AboveFinite ==
    ASSUME NEW n \in Nat, NEW keys \in [1..n -> Int], NEW i \in 1..n
    PROVE  /\ Above(keys, i) \subseteq 1..n
           /\ i \notin Above(keys, i)
           /\ IsFiniteSet(Above(keys, i))
           /\ Cardinality(Above(keys, i)) \in Nat
           /\ Rank(keys, i) = Cardinality(Above(keys, i))
<1>1. Above(keys, i) \subseteq 1..n
  BY DEF Above
<1>2. i \notin Above(keys, i)
  BY DEF Above, Ahead
<1>3. IsFiniteSet(1..n)
  BY FS_Interval
<1>4. IsFiniteSet(Above(keys, i))
  BY <1>1, <1>3, FS_Subset
<1> QED BY <1>1, <1>2, <1>4, FS_CardinalityType DEF Rank, Above

(* Ranks count down the order.                                             *)
LEMMA RankOrders ==
    ASSUME NEW n \in Nat, NEW keys \in [1..n -> Int], NEW i \in 1..n, NEW j \in 1..n,
           Ahead(keys, j, i)
    PROVE  Rank(keys, j) < Rank(keys, i)
<1>1. Above(keys, j) \subseteq Above(keys, i) \ {j}
  <2>1. ASSUME NEW k \in 1..n, Ahead(keys, k, j) PROVE Ahead(keys, k, i)
    <3>1. keys[i] \in Int /\ keys[j] \in Int /\ keys[k] \in Int
      OBVIOUS
    <3> QED BY <2>1, <3>1 DEF Ahead
  <2> QED BY <2>1, AboveFinite DEF Above
<1>2. j \in Above(keys, i)
  BY DEF Above
<1>3. /\ IsFiniteSet(Above(keys, i) \ {j})
      /\ Cardinality(Above(keys, i) \ {j}) = Cardinality(Above(keys, i)) - 1
  BY <1>2, AboveFinite, FS_RemoveElement
<1>4. Cardinality(Above(keys, j)) <= Cardinality(Above(keys, i) \ {j})
  BY <1>1, <1>3, FS_Subset
<1>5. /\ Rank(keys, i) = Cardinality(Above(keys, i)) /\ Cardinality(Above(keys, i)) \in Nat
      /\ Rank(keys, j) = Cardinality(Above(keys, j)) /\ Cardinality(Above(keys, j)) \in Nat
  BY AboveFinite
<1> QED BY <1>3, <1>4, <1>5

LEMMA RankRange ==
    ASSUME NEW n \in Nat, NEW keys \in [1..n -> Int], NEW i \in 1..n
    PROVE  Rank(keys, i) \in 0..n - 1
<1>1. /\ IsFiniteSet((1..n) \ {i})
      /\ Cardinality((1..n) \ {i}) = n - 1
  <2>1. IsFiniteSet(1..n) /\ Cardinality(1..n) = n
    BY FS_Interval
  <2> QED BY <2>1, FS_RemoveElement
<1>2. Above(keys, i) \subseteq (1..n) \ {i}
  BY AboveFinite
<1>3. Cardinality(Above(keys, i)) <= n - 1
  BY <1>1, <1>2, FS_Subset
<1> QED BY <1>3, AboveFinite

(* Every place is taken by one element.                                    *)
LEMMA RankBijective ==
    ASSUME NEW n \in Nat, NEW keys \in [1..n -> Int]
    PROVE  [i \in 1..n |-> Rank(keys, i)] \in Bijection(1..n, 0..n - 1)
<1> DEFINE f == [i \in 1..n |-> Rank(keys, i)]
<1>1. f \in [1..n -> 0..n - 1]
  BY RankRange
<1>2. ASSUME NEW i \in 1..n, NEW j \in 1..n, f[i] = f[j] PROVE i = j
  <2>1. keys[i] \in Int /\ keys[j] \in Int
    OBVIOUS
  <2>2. i = j \/ Ahead(keys, i, j) \/ Ahead(keys, j, i)
    BY <2>1 DEF Ahead
  <2>3. f[i] \in Int /\ f[i] = Rank(keys, i) /\ f[j] = Rank(keys, j)
    BY <1>1
  <2> QED BY <1>2, <2>2, <2>3, RankOrders
<1>3. f \in Injection(1..n, 0..n - 1)
  BY <1>1, <1>2 DEF Injection, IsInjective
<1>4. /\ IsFiniteSet(0..n - 1) /\ Cardinality(0..n - 1) = n
      /\ Cardinality(1..n) = n
  BY FS_Interval
<1>5. f \in Surjection(1..n, 0..n - 1)
  BY <1>3, <1>4, FS_Injection
<1> QED BY <1>3, <1>5 DEF Bijection

(* As many elements have one of the first k places as there are.           *)
LEMMA FirstPlaces ==
    ASSUME NEW n \in Nat, NEW keys \in [1..n -> Int], NEW k \in 0..n
    PROVE  LET first == {i \in 1..n : Rank(keys, i) < k}
           IN  IsFiniteSet(first) /\ Cardinality(first) = k
<1> DEFINE f == [i \in 1..n |-> Rank(keys, i)]
           first == {i \in 1..n : Rank(keys, i) < k}
           g == [i \in first |-> Rank(keys, i)]
<1>1. IsFiniteSet(first)
  BY FS_Interval, FS_Subset
<1>2. \A i \in 1..n : Rank(keys, i) \in 0..n - 1
  BY RankRange
<1>3. /\ \A i, j \in 1..n : Rank(keys, i) = Rank(keys, j) => i = j
      /\ \A p \in 0..n - 1 : \E i \in 1..n : Rank(keys, i) = p
  <2>1. f \in Bijection(1..n, 0..n - 1) /\ \A i \in 1..n : f[i] = Rank(keys, i)
    BY RankBijective
  <2> HIDE DEF f
  <2>2. f \in [1..n -> 0..n - 1] /\ \A i, j \in 1..n : f[i] = f[j] => i = j
    BY <2>1 DEF Bijection, Injection, IsInjective
  <2>3. \A p \in 0..n - 1 : \E i \in 1..n : f[i] = p
    BY <2>1 DEF Bijection, Surjection
  <2> QED BY <2>1, <2>2, <2>3
<1>4. g \in Injection(first, 0..k - 1)
  <2>1. \A i \in first : i \in 1..n /\ g[i] = Rank(keys, i) /\ g[i] < k /\ g[i] \in 0..n - 1
    BY <1>2
  <2>2. DOMAIN g = first /\ g = [i \in first |-> g[i]]
    OBVIOUS
  <2> HIDE DEF first, g
  <2>3. \A i \in first : g[i] \in 0..k - 1
    BY <2>1
  <2>4. g \in [first -> 0..k - 1]
    BY <2>2, <2>3
  <2>5. \A i, j \in first : g[i] = g[j] => i = j
    BY <1>3, <2>1
  <2> QED BY <2>2, <2>4, <2>5 DEF Injection, IsInjective
<1>5. g \in Surjection(first, 0..k - 1)
  <2>1. g \in [first -> 0..k - 1]
    BY <1>4 DEF Injection
  <2>2. ASSUME NEW p \in 0..k - 1 PROVE \E i \in first : g[i] = p
    <3>1. PICK i \in 1..n : Rank(keys, i) = p
      BY <1>3
    <3>2. i \in first
      BY <3>1
    <3> QED BY <3>1, <3>2
  <2> QED BY <2>1, <2>2 DEF Surjection
<1>6. ExistsBijection(first, 0..k - 1)
  BY <1>4, <1>5 DEF Bijection, ExistsBijection
<1>7. Cardinality(0..k - 1) = k
  BY FS_Interval
<1> QED BY <1>1, <1>6, <1>7, FS_Bijection

(* Sorting moves elements and neither loses one nor makes one up.          *)
LEMMA SortedPlaces ==
    ASSUME NEW n \in Nat, NEW S, NEW seq \in [1..n -> S], NEW keys \in [1..n -> Int]
    PROVE  /\ SortedBy(seq, keys) \in [1..n -> S]
           /\ ToSet(SortedBy(seq, keys)) = ToSet(seq)
<1> DEFINE f == [i \in 1..n |-> Rank(keys, i)]
           at(p) == CHOOSE i \in 1..n : Rank(keys, i) = p - 1
<1>1. /\ \A i \in 1..n : Rank(keys, i) \in 0..n - 1
      /\ \A i, j \in 1..n : Rank(keys, i) = Rank(keys, j) => i = j
      /\ \A p \in 0..n - 1 : \E i \in 1..n : Rank(keys, i) = p
  <2>1. f \in Bijection(1..n, 0..n - 1) /\ \A i \in 1..n : f[i] = Rank(keys, i)
    BY RankBijective
  <2> HIDE DEF f
  <2>2. f \in [1..n -> 0..n - 1] /\ \A i, j \in 1..n : f[i] = f[j] => i = j
    BY <2>1 DEF Bijection, Injection, IsInjective
  <2>3. \A p \in 0..n - 1 : \E i \in 1..n : f[i] = p
    BY <2>1 DEF Bijection, Surjection
  <2> QED BY <2>1, <2>2, <2>3
<1>2. \A p \in 1..n : at(p) \in 1..n /\ Rank(keys, at(p)) = p - 1
  <2> TAKE p \in 1..n
  <2>1. \E i \in 1..n : Rank(keys, i) = p - 1
    BY <1>1
  <2> QED BY <2>1
<1>3. SortedBy(seq, keys) = [p \in 1..n |-> seq[at(p)]]
  BY DEF SortedBy
<1> HIDE DEF at, f
<1>4. \A i \in 1..n : Rank(keys, i) + 1 \in 1..n /\ at(Rank(keys, i) + 1) = i
  <2> TAKE i \in 1..n
  <2> PICK r \in 0..n - 1 : r = Rank(keys, i)
    BY <1>1
  <2>1. r + 1 \in 1..n /\ (r + 1) - 1 = r
    OBVIOUS
  <2>2. at(r + 1) \in 1..n /\ Rank(keys, at(r + 1)) = r
    BY <1>2, <2>1
  <2> QED BY <1>1, <2>1, <2>2
<1>5. ASSUME NEW p \in 1..n PROVE SortedBy(seq, keys)[p] \in {seq[i] : i \in 1..n}
  BY <1>2, <1>3
<1>6. ASSUME NEW i \in 1..n PROVE seq[i] \in {SortedBy(seq, keys)[p] : p \in 1..n}
  <2>1. SortedBy(seq, keys)[Rank(keys, i) + 1] = seq[i]
    BY <1>3, <1>4
  <2> QED BY <1>4, <2>1
<1>7. SortedBy(seq, keys) \in [1..n -> S]
  BY <1>2, <1>3
<1>8. DOMAIN SortedBy(seq, keys) = 1..n /\ DOMAIN seq = 1..n
  BY <1>3
<1> QED BY <1>5, <1>6, <1>7, <1>8 DEF ToSet

(* What is in the order of its keys stays as it is.                        *)
LEMMA SortedAlready ==
    ASSUME NEW n \in Nat, NEW S, NEW seq \in [1..n -> S], NEW keys \in [1..n -> Int],
           \A i, j \in 1..n : i < j => keys[i] < keys[j]
    PROVE  SortedBy(seq, keys) = seq
<1>1. ASSUME NEW i \in 1..n PROVE Rank(keys, i) = i - 1
  <2>1. {j \in DOMAIN keys : Ahead(keys, j, i)} = 1..i - 1
    <3>1. ASSUME NEW j \in 1..n PROVE Ahead(keys, j, i) <=> j < i
      <4>1. keys[i] \in Int /\ keys[j] \in Int
        OBVIOUS
      <4>2. CASE j < i
        BY <4>2 DEF Ahead
      <4>3. CASE j = i
        BY <4>1, <4>3 DEF Ahead
      <4>4. CASE i < j
        <5>1. keys[i] < keys[j]
          BY <4>4
        <5> QED BY <4>1, <4>4, <5>1 DEF Ahead
      <4> QED BY <4>2, <4>3, <4>4
    <3>2. DOMAIN keys = 1..n
      OBVIOUS
    <3> QED BY <3>1, <3>2
  <2>2. Cardinality(1..i - 1) = i - 1
    BY FS_Interval
  <2> QED BY <2>1, <2>2 DEF Rank
<1>2. ASSUME NEW p \in 1..n PROVE (CHOOSE i \in 1..n : Rank(keys, i) = p - 1) = p
  <2> DEFINE at == CHOOSE i \in 1..n : Rank(keys, i) = p - 1
  <2>1. \E i \in 1..n : Rank(keys, i) = p - 1
    BY <1>1
  <2>2. at \in 1..n /\ Rank(keys, at) = p - 1
    BY <2>1
  <2> HIDE DEF at
  <2>3. Rank(keys, at) = at - 1
    BY <1>1, <2>2
  <2>4. at = p
    BY <2>2, <2>3
  <2> QED BY <2>4 DEF at
<1>3. SortedBy(seq, keys) = [p \in 1..n |-> seq[CHOOSE i \in 1..n : Rank(keys, i) = p - 1]]
  BY DEF SortedBy
<1>4. \A p \in 1..n : seq[CHOOSE i \in 1..n : Rank(keys, i) = p - 1] = seq[p]
  BY <1>2
<1>5. seq = [p \in 1..n |-> seq[p]]
  OBVIOUS
<1> QED BY <1>3, <1>4, <1>5

=============================================================================
