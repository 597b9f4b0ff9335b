-------------------------- MODULE CatalogueProofs --------------------------
(***************************************************************************)
(* Theorems about Catalogue: what a search hands out, what a build         *)
(* manifest admits, and what a Merkle root pins down, for any registry and *)
(* lists of any length.                                                    *)
(***************************************************************************)
EXTENDS Catalogue, SequenceLemmas

-----------------------------------------------------------------------------
(* Lemmas: levels of the tree                                              *)

Lists == Seq(Nat) \ {<<>>}

LevelUp(level) == Ordered(NextLevel(level))

LEMMA SeqFacts ==
    ASSUME NEW l \in Lists
    PROVE  /\ Len(l) \in Nat \ {0}
           /\ DOMAIN l = 1..Len(l)
           /\ l \in [1..Len(l) -> Nat]
           /\ \A i \in 1..Len(l) : l[i] \in Nat
BY DEF Lists

LEMMA OrderedKeeps ==
    ASSUME NEW l \in Seq(Nat)
    PROVE  /\ Ordered(l) \in Seq(Nat)
           /\ Len(Ordered(l)) = Len(l)
           /\ ToSet(Ordered(l)) = ToSet(l)
<1>1. PICK n \in Nat : n = Len(l) /\ l \in [1..n -> Nat]
  BY LenProperties
<1>2. l \in [1..n -> Int]
  BY <1>1
<1>3. SortedBy(l, l) \in [1..n -> Nat] /\ ToSet(SortedBy(l, l)) = ToSet(l)
  <2>1. l \in [1..n -> Nat]
    BY <1>1
  <2> QED BY <1>2, <2>1, SortedPlaces
<1>4. SortedBy(l, l) \in Seq(Nat) /\ Len(SortedBy(l, l)) = n
  BY <1>3, FunctionIsSeq
<1> QED BY <1>1, <1>3, <1>4 DEF Ordered

LEMMA HalfDown ==
    ASSUME NEW n \in Nat
    PROVE  /\ n \div 2 \in Nat
           /\ 2 * (n \div 2) <= n
           /\ n < 2 * (n \div 2) + 2
BY SMT

(* T(s), the number of the first pair whose sum is s.                      *)
Triangle(s) == (s * (s + 1)) \div 2

LEMMA TriangleStep ==
    ASSUME NEW s \in Nat
    PROVE  /\ Triangle(s) \in Nat
           /\ Triangle(s + 1) = Triangle(s) + s + 1
<1>1. PICK x \in Nat : x = s * (s + 1)
  OBVIOUS
<1>2. (s + 1) * ((s + 1) + 1) = x + 2 * (s + 1)
  BY <1>1
<1>3. (x + 2 * (s + 1)) \div 2 = (x \div 2) + (s + 1)
  OBVIOUS
<1>4. x \div 2 \in Nat
  BY HalfDown
<1> QED BY <1>1, <1>2, <1>3, <1>4 DEF Triangle

LEMMA TriangleGrows ==
    ASSUME NEW s \in Nat, NEW t \in Nat, s < t
    PROVE  Triangle(s) + s < Triangle(t)
<1>1. PICK x \in Nat : x = (s + 1) * ((s + 1) + 1)
  OBVIOUS
<1>2. PICK y \in Nat : y = t * (t + 1)
  OBVIOUS
<1>3. x <= y
  <2>1. PICK d \in Nat : t = (s + 1) + d
    <3>1. t - (s + 1) \in Nat /\ t = (s + 1) + (t - (s + 1))
      OBVIOUS
    <3> QED BY <3>1
  <2>2. y = x + (d * (s + 1) + (s + 1) * d + d + d * d)
    BY <1>1, <1>2, <2>1
  <2>3. d * (s + 1) \in Nat /\ (s + 1) * d \in Nat /\ d * d \in Nat
    OBVIOUS
  <2> QED BY <2>2, <2>3
<1>4. x \div 2 <= y \div 2
  BY <1>3
<1>5. x \div 2 = Triangle(s + 1) /\ y \div 2 = Triangle(t)
  BY <1>1, <1>2 DEF Triangle
<1>6. Triangle(t) \in Nat
  BY TriangleStep
<1> QED BY <1>4, <1>5, <1>6, TriangleStep

LEMMA DigestIsPairing ==
    ASSUME NEW a \in Nat, NEW b \in Nat
    PROVE  /\ Digest(a, b) = (1 + Triangle(a + b)) + b
           /\ Digest(a, b) \in Nat
<1>1. PICK x : x = ((a + b) * (a + b + 1)) \div 2
  OBVIOUS
<1>2. Triangle(a + b) = x
  BY <1>1 DEF Triangle
<1>3. x \in Nat
  BY <1>2, TriangleStep
<1> QED BY <1>1, <1>2, <1>3 DEF Digest

(* Digests of different pairs differ.                                      *)
LEMMA DigestInjective ==
    ASSUME NEW a \in Nat, NEW b \in Nat, NEW c \in Nat, NEW d \in Nat,
           Digest(a, b) = Digest(c, d)
    PROVE  a = c /\ b = d
<1>1. PICK s \in Nat, t \in Nat : s = a + b /\ t = c + d
  OBVIOUS
<1>2. Triangle(s) \in Nat /\ Triangle(t) \in Nat
  BY TriangleStep
<1>3. Triangle(s) + b = Triangle(t) + d
  <2>1. Digest(a, b) = (1 + Triangle(s)) + b /\ Digest(c, d) = (1 + Triangle(t)) + d
    BY <1>1, DigestIsPairing
  <2>2. (1 + Triangle(s)) + b = (1 + Triangle(t)) + d
    BY <2>1
  <2> QED BY <1>2, <2>2
<1>4. ~(s < t)
  BY <1>1, <1>2, <1>3, TriangleGrows
<1>5. ~(t < s)
  BY <1>1, <1>2, <1>3, TriangleGrows
<1>6. s = t
  BY <1>4, <1>5
<1> QED BY <1>1, <1>2, <1>3, <1>6

(* The digests that the digests of S were taken of.                        *)
Below(S) == {y \in Nat : \E z \in Nat : Digest(y, z) \in S \/ Digest(z, y) \in S}

(* A level and the one below it have the same contents.                    *)
LEMMA NextLevelShape ==
    ASSUME NEW l \in Lists
    PROVE  /\ NextLevel(l) \in Lists
           /\ Len(NextLevel(l)) = (Len(l) + 1) \div 2
           /\ Len(l) > 1 => Len(NextLevel(l)) < Len(l)
           /\ ToSet(l) \subseteq Nat
           /\ ToSet(l) # {}
           /\ Below(ToSet(NextLevel(l))) = ToSet(l)
<1>1. PICK n \in Nat \ {0} : n = Len(l)
  BY SeqFacts
<1>2. DOMAIN l = 1..n /\ \A i \in 1..n : l[i] \in Nat
  BY <1>1, SeqFacts
<1>3. PICK h \in Nat : h = (n + 1) \div 2
  BY HalfDown
<1>4. 2 * h <= n + 1 /\ n + 1 < 2 * h + 2
  BY <1>3, HalfDown
<1> DEFINE left(i) == l[2 * i - 1]
           right(i) == l[IF 2 * i <= n THEN 2 * i ELSE 2 * i - 1]
<1>5. ASSUME NEW i \in 1..h
      PROVE  /\ left(i) \in ToSet(l) /\ right(i) \in ToSet(l)
             /\ left(i) \in Nat /\ right(i) \in Nat
  <2>1. 2 * i - 1 \in 1..n /\ (IF 2 * i <= n THEN 2 * i ELSE 2 * i - 1) \in 1..n
    BY <1>4
  <2> QED BY <1>2, <2>1 DEF ToSet
<1>6. NextLevel(l) = [i \in 1..h |-> Digest(left(i), right(i))]
  BY <1>1, <1>3 DEF NextLevel
<1>7. ASSUME NEW y \in ToSet(l) PROVE \E i \in 1..h : y = left(i) \/ y = right(i)
  <2>1. PICK j \in 1..n : y = l[j]
    BY <1>2 DEF ToSet
  <2>2. PICK k \in Nat : k = (j + 1) \div 2
    BY HalfDown
  <2>3. 2 * k <= j + 1 /\ j + 1 < 2 * k + 2
    BY <2>2, HalfDown
  <2>4. k \in 1..h /\ (j = 2 * k - 1 \/ j = 2 * k)
    BY <1>4, <2>3
  <2> QED BY <2>1, <2>4
<1>8. ToSet(l) \subseteq Nat /\ ToSet(l) # {}
  <2>1. 1 \in 1..n
    OBVIOUS
  <2> QED BY <1>2, <2>1 DEF ToSet
<1> HIDE DEF left, right
<1>9. \A i \in 1..h : Digest(left(i), right(i)) \in Nat
  BY <1>5, DigestIsPairing
<1>10. NextLevel(l) \in [1..h -> Nat]
  BY <1>6, <1>9
<1>11. NextLevel(l) \in Seq(Nat) /\ Len(NextLevel(l)) = h
  BY <1>10, FunctionIsSeq
<1>12. h \in 1..n /\ (n > 1 => h < n)
  BY <1>4
<1>13. /\ NextLevel(l) \in Lists /\ (Len(l) > 1 => Len(NextLevel(l)) < Len(l))
       /\ Len(NextLevel(l)) = (Len(l) + 1) \div 2
  BY <1>1, <1>3, <1>11, <1>12 DEF Lists
<1>14. DOMAIN NextLevel(l) = 1..h
  BY <1>6
<1>15. ASSUME NEW i \in 1..h PROVE Digest(left(i), right(i)) \in ToSet(NextLevel(l))
  <2>1. NextLevel(l)[i] = Digest(left(i), right(i))
    BY <1>6
  <2> QED BY <1>14, <2>1 DEF ToSet
<1>16. ASSUME NEW y \in ToSet(l) PROVE y \in Below(ToSet(NextLevel(l)))
  <2>1. PICK i \in 1..h : y = left(i) \/ y = right(i)
    BY <1>7
  <2>2. left(i) \in Nat /\ right(i) \in Nat
    BY <1>5
  <2> QED BY <1>15, <2>1, <2>2 DEF Below
<1>17. ASSUME NEW y \in Below(ToSet(NextLevel(l))) PROVE y \in ToSet(l)
  <2>1. y \in Nat
    BY DEF Below
  <2>2. PICK z \in Nat : \/ Digest(y, z) \in ToSet(NextLevel(l))
                         \/ Digest(z, y) \in ToSet(NextLevel(l))
    BY DEF Below
  <2>3. ASSUME NEW x \in ToSet(NextLevel(l))
        PROVE  \E i \in 1..h : x = Digest(left(i), right(i))
    <3>1. PICK i \in 1..h : x = NextLevel(l)[i]
      BY <1>14 DEF ToSet
    <3>2. NextLevel(l)[i] = Digest(left(i), right(i))
      BY <1>6
    <3> QED BY <3>1, <3>2
  <2>4. CASE Digest(y, z) \in ToSet(NextLevel(l))
    <3>1. PICK i \in 1..h : Digest(y, z) = Digest(left(i), right(i))
      BY <2>3, <2>4
    <3>2. left(i) \in Nat /\ right(i) \in Nat /\ left(i) \in ToSet(l)
      BY <1>5
    <3>3. y = left(i)
      BY <2>1, <3>1, <3>2, DigestInjective
    <3> QED BY <3>2, <3>3
  <2>5. CASE Digest(z, y) \in ToSet(NextLevel(l))
    <3>1. PICK i \in 1..h : Digest(z, y) = Digest(left(i), right(i))
      BY <2>3, <2>5
    <3>2. left(i) \in Nat /\ right(i) \in Nat /\ right(i) \in ToSet(l)
      BY <1>5
    <3>3. y = right(i)
      BY <2>1, <3>1, <3>2, DigestInjective
    <3> QED BY <3>2, <3>3
  <2> QED BY <2>2, <2>4, <2>5
<1> QED BY <1>8, <1>13, <1>16, <1>17

LEMMA LevelUpShape ==
    ASSUME NEW l \in Lists
    PROVE  /\ LevelUp(l) \in Lists
           /\ Len(LevelUp(l)) = (Len(l) + 1) \div 2
           /\ Len(l) > 1 => Len(LevelUp(l)) < Len(l)
           /\ Below(ToSet(LevelUp(l))) = ToSet(l)
<1>1. /\ NextLevel(l) \in Lists
      /\ Len(NextLevel(l)) = (Len(l) + 1) \div 2
      /\ Len(l) > 1 => Len(NextLevel(l)) < Len(l)
      /\ Below(ToSet(NextLevel(l))) = ToSet(l)
  BY NextLevelShape
<1>2. /\ LevelUp(l) \in Seq(Nat)
      /\ Len(LevelUp(l)) = Len(NextLevel(l))
      /\ ToSet(LevelUp(l)) = ToSet(NextLevel(l))
  BY <1>1, OrderedKeeps DEF LevelUp, Lists
<1>3. Len(NextLevel(l)) # 0
  BY <1>1, SeqFacts
<1>4. LevelUp(l) # <<>>
  BY <1>2, <1>3
<1> QED BY <1>1, <1>2, <1>4 DEF Lists

-----------------------------------------------------------------------------
(* Lemmas: the climb to the root                                           *)

UpTo(n) == {l \in Lists : Len(l) <= n}

(* f climbs from the levels of n digests and fewer.                        *)
IsClimb(f, n) ==
    /\ f \in [UpTo(n) -> Nat]
    /\ \A l \in UpTo(n) : f[l] = IF Len(l) = 1 THEN l[1] ELSE f[LevelUp(l)]

LEMMA UpToFacts ==
    ASSUME NEW n \in Nat, NEW l \in UpTo(n)
    PROVE  /\ l \in Lists
           /\ Len(l) \in 1..n
           /\ l[1] \in Nat
           /\ l \in UpTo(Len(l))
           /\ Len(l) # 1 => /\ LevelUp(l) \in UpTo(Len(l) - 1)
                            /\ LevelUp(l) \in UpTo(n - 1)
                            /\ LevelUp(l) \in UpTo(n)
<1>1. l \in Lists /\ Len(l) \in Nat \ {0} /\ Len(l) <= n
  BY SeqFacts DEF UpTo
<1>2. l[1] \in Nat
  BY <1>1, SeqFacts
<1>3. ASSUME Len(l) # 1
      PROVE  LevelUp(l) \in Lists /\ Len(LevelUp(l)) < Len(l)
  <2> PICK c \in Nat \ {0} : c = Len(l)
    BY <1>1
  <2>1. Len(l) > 1
    BY <1>3
  <2> QED BY <1>1, <2>1, LevelUpShape
<1>4. ASSUME Len(l) # 1
      PROVE  /\ Len(LevelUp(l)) <= Len(l) - 1
             /\ Len(LevelUp(l)) <= n - 1
             /\ Len(LevelUp(l)) <= n
  <2>1. Len(LevelUp(l)) \in Nat
    BY <1>3, <1>4, SeqFacts
  <2> QED BY <1>1, <1>3, <1>4, <2>1
<1> QED BY <1>1, <1>2, <1>3, <1>4 DEF UpTo

LEMMA ClimbsExist ==
    ASSUME NEW n \in Nat
    PROVE  \E f : IsClimb(f, n)
<1> DEFINE S == {m \in 0..n : \E f : IsClimb(f, m)}
<1>1. 0 \in S
  <2>1. UpTo(0) = {}
    BY SeqFacts DEF UpTo
  <2>2. IsClimb([l \in UpTo(0) |-> 0], 0)
    BY <2>1 DEF IsClimb
  <2> QED BY <2>2
<1>2. ASSUME NEW m \in 0..n - 1, m \in S PROVE m + 1 \in S
  <2>1. PICK f : IsClimb(f, m)
    BY <1>2
  <2> DEFINE g == [l \in UpTo(m + 1) |-> IF Len(l) = 1 THEN l[1] ELSE f[LevelUp(l)]]
  <2>2. ASSUME NEW l \in UpTo(m + 1), Len(l) # 1
        PROVE  LevelUp(l) \in UpTo(m) /\ LevelUp(l) \in UpTo(m + 1)
    <3>1. LevelUp(l) \in UpTo((m + 1) - 1) /\ LevelUp(l) \in UpTo(m + 1)
      BY <2>2, UpToFacts
    <3>2. (m + 1) - 1 = m
      OBVIOUS
    <3> QED BY <3>1, <3>2
  <2>3. ASSUME NEW l \in UpTo(m + 1)
        PROVE  (IF Len(l) = 1 THEN l[1] ELSE f[LevelUp(l)]) \in Nat
    <3>1. l[1] \in Nat
      BY UpToFacts
    <3> QED BY <2>1, <2>2, <3>1 DEF IsClimb
  <2>4. g \in [UpTo(m + 1) -> Nat]
    BY <2>3
  <2>5. ASSUME NEW k \in UpTo(m) PROVE k \in UpTo(m + 1) /\ g[k] = f[k]
    <3>1. k \in UpTo(m + 1)
      <4>1. Len(k) \in 1..m /\ k \in Lists
        BY UpToFacts
      <4> QED BY <4>1 DEF UpTo
    <3> QED BY <2>1, <3>1 DEF IsClimb
  <2>6. ASSUME NEW l \in UpTo(m + 1)
        PROVE  g[l] = IF Len(l) = 1 THEN l[1] ELSE g[LevelUp(l)]
    <3>1. CASE Len(l) = 1
      BY <3>1
    <3>2. CASE Len(l) # 1
      <4>1. g[LevelUp(l)] = f[LevelUp(l)]
        BY <2>2, <2>5, <3>2
      <4> QED BY <3>2, <4>1
    <3> QED BY <3>1, <3>2
  <2>7. IsClimb(g, m + 1)
    BY <2>4, <2>6 DEF IsClimb
  <2> QED BY <2>7
<1> HIDE DEF S
<1>3. n \in S
  BY <1>1, <1>2, StepByStep
<1> QED BY <1>3 DEF S

LEMMA ClimbsAgree ==
    ASSUME NEW n \in Nat, NEW m \in Nat, NEW f, NEW g, IsClimb(f, n), IsClimb(g, m),
           NEW l \in UpTo(n), l \in UpTo(m)
    PROVE  f[l] = g[l]
<1> DEFINE Apart == {k \in UpTo(n) : k \in UpTo(m) /\ f[k] # g[k]}
           T == {Len(k) : k \in Apart}
<1>1. ASSUME T # {} PROVE FALSE
  <2>1. T \in SUBSET Nat
    BY UpToFacts
  <2>2. PICK t \in T : \A u \in T : t <= u
    BY <1>1, <2>1, LeastNatural
  <2>3. PICK k \in UpTo(n) : k \in UpTo(m) /\ f[k] # g[k] /\ Len(k) = t
    BY <2>2
  <2>4. /\ f[k] = IF Len(k) = 1 THEN k[1] ELSE f[LevelUp(k)]
        /\ g[k] = IF Len(k) = 1 THEN k[1] ELSE g[LevelUp(k)]
    BY <2>3 DEF IsClimb
  <2>5. Len(k) # 1 /\ f[LevelUp(k)] # g[LevelUp(k)]
    BY <2>3, <2>4
  <2>6. /\ LevelUp(k) \in UpTo(n) /\ LevelUp(k) \in UpTo(m)
        /\ LevelUp(k) \in UpTo(Len(k) - 1) /\ Len(k) \in Nat \ {0}
    <3>1. LevelUp(k) \in UpTo(n) /\ LevelUp(k) \in UpTo(Len(k) - 1)
      BY <2>3, <2>5, UpToFacts
    <3>2. LevelUp(k) \in UpTo(m)
      BY <2>3, <2>5, UpToFacts
    <3>3. k \in Lists
      BY <2>3, UpToFacts
    <3> QED BY <3>1, <3>2, <3>3, SeqFacts
  <2>7. Len(LevelUp(k)) <= Len(k) - 1 /\ Len(LevelUp(k)) \in Nat
    BY <2>6, SeqFacts DEF UpTo
  <2>8. Len(LevelUp(k)) \in T
    BY <2>5, <2>6
  <2> QED BY <2>2, <2>3, <2>6, <2>7, <2>8
<1> QED BY <1>1

(* Climb is the function that its definition says it is.                   *)
LEMMA ClimbStep ==
    ASSUME NEW l \in Lists
    PROVE  Climb[l] = IF Len(l) = 1 THEN l[1] ELSE Climb[LevelUp(l)]
<1> DEFINE pick(n) == CHOOSE f : IsClimb(f, n)
           F == [k \in Seq(Nat) |-> IF k = <<>> THEN 0 ELSE pick(Len(k))[k]]
           G == [k \in Seq(Nat) |-> IF Len(k) = 1 THEN k[1] ELSE F[Ordered(NextLevel(k))]]
<1>1. \A n \in Nat : IsClimb(pick(n), n)
  BY ClimbsExist
<1> HIDE DEF pick
<1>2. ASSUME NEW k \in Lists
      PROVE  /\ F[k] \in Nat
             /\ F[k] = IF Len(k) = 1 THEN k[1] ELSE F[LevelUp(k)]
  <2>1. k \in Seq(Nat) /\ k # <<>> /\ Len(k) \in Nat /\ k \in UpTo(Len(k))
    BY SeqFacts DEF Lists, UpTo
  <2>2. /\ F[k] = pick(Len(k))[k]
        /\ IsClimb(pick(Len(k)), Len(k))
    BY <1>1, <2>1
  <2>3. /\ F[k] \in Nat
        /\ F[k] = IF Len(k) = 1 THEN k[1] ELSE pick(Len(k))[LevelUp(k)]
    BY <2>1, <2>2 DEF IsClimb
  <2>4. ASSUME Len(k) # 1 PROVE pick(Len(k))[LevelUp(k)] = F[LevelUp(k)]
    <3> DEFINE u == LevelUp(k)
    <3>1. u \in UpTo(Len(k)) /\ u \in Lists
      BY <2>1, <2>4, UpToFacts, LevelUpShape
    <3>2. u \in Seq(Nat) /\ u # <<>> /\ Len(u) \in Nat /\ u \in UpTo(Len(u))
      BY <3>1, SeqFacts DEF Lists, UpTo
    <3> HIDE DEF u
    <3>3. F[u] = pick(Len(u))[u] /\ IsClimb(pick(Len(u)), Len(u))
      BY <1>1, <3>2
    <3>4. pick(Len(k))[u] = pick(Len(u))[u]
      BY <2>1, <2>2, <3>1, <3>2, <3>3, ClimbsAgree
    <3> QED BY <3>3, <3>4 DEF u
  <2> QED BY <2>3, <2>4
<1>3. F = G
  <2>1. ASSUME NEW k \in Seq(Nat)
        PROVE  F[k] = IF Len(k) = 1 THEN k[1] ELSE F[Ordered(NextLevel(k))]
    <3>1. CASE k = <<>>
      <4>1. Len(k) = 0
        BY <3>1
      <4>2. (Len(k) + 1) \div 2 = 0
        BY <4>1
      <4>3. DOMAIN NextLevel(k) = {}
        BY <4>2 DEF NextLevel
      <4>4. NextLevel(k) = k
        BY <3>1, <4>1, <4>2 DEF NextLevel
      <4>5. DOMAIN Ordered(k) = {}
        BY <3>1 DEF Ordered, SortedBy
      <4>6. Ordered(k) = k
        BY <3>1, <4>5 DEF Ordered, SortedBy
      <4> HIDE DEF F
      <4> QED BY <4>1, <4>4, <4>6
    <3>2. CASE k # <<>>
      <4>1. k \in Lists
        BY <3>2 DEF Lists
      <4> HIDE DEF F
      <4> QED BY <1>2, <4>1 DEF LevelUp
    <3> QED BY <3>1, <3>2
  <2>2. F = [k \in Seq(Nat) |-> F[k]]
    OBVIOUS
  <2> HIDE DEF F
  <2> QED BY <2>1, <2>2
<1> HIDE DEF F
<1>4. \E c : c = [k \in Seq(Nat) |-> IF Len(k) = 1 THEN k[1] ELSE c[Ordered(NextLevel(k))]]
  BY <1>3
<1>5. Climb = [k \in Seq(Nat) |-> IF Len(k) = 1 THEN k[1] ELSE Climb[Ordered(NextLevel(k))]]
  BY <1>4 DEF Climb
<1>6. l \in Seq(Nat)
  BY DEF Lists
<1>7. \A k \in Seq(Nat) :
        Climb[k] = IF Len(k) = 1 THEN k[1] ELSE Climb[Ordered(NextLevel(k))]
  BY <1>5, Zenon
<1> QED BY <1>6, <1>7 DEF LevelUp

LEMMA ClimbIsNumber ==
    ASSUME NEW l \in Lists
    PROVE  Climb[l] \in Nat
<1> DEFINE T == {Len(k) : k \in {m \in Lists : Climb[m] \notin Nat}}
<1>1. ASSUME T # {} PROVE FALSE
  <2>1. T \in SUBSET Nat
    BY SeqFacts
  <2>2. PICK t \in T : \A u \in T : t <= u
    BY <1>1, <2>1, LeastNatural
  <2>3. PICK k \in Lists : Climb[k] \notin Nat /\ Len(k) = t
    BY <2>2
  <2>4. t \in Nat \ {0} /\ k[1] \in Nat
    BY <2>3, SeqFacts
  <2>5. t # 1
    BY <2>3, <2>4, ClimbStep
  <2>6. LevelUp(k) \in Lists /\ Len(LevelUp(k)) < t /\ Climb[LevelUp(k)] = Climb[k]
    <3>1. Len(k) > 1 /\ Len(k) # 1
      BY <2>3, <2>4, <2>5
    <3>2. Climb[LevelUp(k)] = Climb[k]
      BY <3>1, ClimbStep
    <3> QED BY <2>3, <3>1, <3>2, LevelUpShape
  <2>7. Len(LevelUp(k)) \in Nat /\ Len(LevelUp(k)) \in T
    BY <2>3, <2>6, SeqFacts
  <2> QED BY <2>2, <2>4, <2>6, <2>7
<1> QED BY <1>1

(* The climbs of two lists of one length go level by level together.       *)
LEMMA ClimbsTogether ==
    ASSUME NEW one \in Lists, NEW other \in Lists, Len(one) = Len(other),
           Climb[one] = Climb[other]
    PROVE  ToSet(one) = ToSet(other)
<1> DEFINE Wrong(k, l) == Len(k) = Len(l) /\ Climb[k] = Climb[l] /\ ToSet(k) # ToSet(l)
           T == {Len(k) : k \in {m \in Lists : \E l \in Lists : Wrong(m, l)}}
<1>1. ASSUME T # {} PROVE FALSE
  <2>1. T \in SUBSET Nat
    BY SeqFacts
  <2>2. PICK t \in T : \A u \in T : t <= u
    BY <1>1, <2>1, LeastNatural
  <2>3. PICK k \in Lists, l \in Lists :
          Len(k) = t /\ Len(l) = t /\ Climb[k] = Climb[l] /\ ToSet(k) # ToSet(l)
    BY <2>2
  <2> HIDE DEF T
  <2>4. /\ t \in Nat \ {0} /\ DOMAIN k = 1..t /\ DOMAIN l = 1..t
    BY <2>3, SeqFacts
  <2>5. CASE t = 1
    <3>1. k[1] = l[1]
      BY <2>3, <2>5, ClimbStep
    <3>2. ToSet(k) = {k[1]} /\ ToSet(l) = {l[1]}
      BY <2>4, <2>5 DEF ToSet
    <3> QED BY <2>3, <3>1, <3>2
  <2>6. CASE t # 1
    <3>1. t > 1
      BY <2>4, <2>6
    <3>2. /\ LevelUp(k) \in Lists /\ LevelUp(l) \in Lists
          /\ Len(LevelUp(k)) < t
          /\ Len(LevelUp(k)) = (t + 1) \div 2 /\ Len(LevelUp(l)) = (t + 1) \div 2
          /\ Below(ToSet(LevelUp(k))) = ToSet(k) /\ Below(ToSet(LevelUp(l))) = ToSet(l)
      BY <2>3, <3>1, LevelUpShape
    <3>3. Climb[LevelUp(k)] = Climb[LevelUp(l)]
      BY <2>3, <2>6, ClimbStep
    <3>4. ToSet(LevelUp(k)) # ToSet(LevelUp(l))
      BY <2>3, <3>2
    <3>5. Len(LevelUp(k)) \in T
      <4>1. LevelUp(k) \in Lists /\ LevelUp(l) \in Lists /\ Wrong(LevelUp(k), LevelUp(l))
        BY <3>2, <3>3, <3>4
      <4> QED BY <4>1 DEF T
    <3>6. Len(LevelUp(k)) \in Nat
      BY <3>2, SeqFacts
    <3> QED BY <2>2, <2>4, <3>2, <3>5, <3>6
  <2> QED BY <2>5, <2>6
<1> QED BY <1>1

LEMMA RootClimbs ==
    ASSUME NEW list \in Seq(Contents)
    PROVE  /\ list \in Seq(Nat)
           /\ MerkleRoot(list) \in Nat
           /\ list # <<>> => /\ Ordered(list) \in Lists /\ Len(Ordered(list)) = Len(list)
                             /\ ToSet(Ordered(list)) = ToSet(list)
                             /\ MerkleRoot(list) = Climb[Ordered(list)]
<1>1. list \in Seq(Nat)
  BY MerkleAssumption, SeqMonotonic
<1>2. CASE list = <<>>
  BY <1>1, <1>2 DEF MerkleRoot, EmptyBuild
<1>3. CASE list # <<>>
  <2>1. list \in Lists
    BY <1>1, <1>3 DEF Lists
  <2> DEFINE o == Ordered(list)
  <2>2. o \in Seq(Nat) /\ Len(o) = Len(list) /\ ToSet(o) = ToSet(list)
    BY <1>1, OrderedKeeps
  <2>3. MerkleRoot(list) = Climb[o]
    BY <1>3 DEF MerkleRoot
  <2> HIDE DEF o
  <2>4. Len(list) # 0
    BY <2>1, SeqFacts
  <2>5. o \in Lists
    BY <2>2, <2>4 DEF Lists
  <2>6. Climb[o] \in Nat
    BY <2>5, ClimbIsNumber
  <2> QED BY <1>1, <2>2, <2>3, <2>5, <2>6 DEF o
<1> QED BY <1>2, <1>3

(* Two lists of contents of one length with the same Merkle root hold the  *)
(* same contents: merkle_root() of src/training/admission.py.              *)
THEOREM RootsTellContents ==
    ASSUME NEW one \in Seq(Contents), NEW other \in Seq(Contents),
           Len(one) = Len(other), MerkleRoot(one) = MerkleRoot(other)
    PROVE  ToSet(one) = ToSet(other)
<1>1. Len(one) = 0 <=> one = <<>>
  BY EmptySeq
<1>2. Len(other) = 0 <=> other = <<>>
  BY EmptySeq
<1>3. CASE one = <<>>
  BY <1>1, <1>2, <1>3
<1>4. CASE one # <<>>
  <2>1. other # <<>>
    BY <1>1, <1>2, <1>4
  <2>2. /\ Ordered(one) \in Lists /\ Ordered(other) \in Lists
        /\ Len(Ordered(one)) = Len(Ordered(other))
        /\ Climb[Ordered(one)] = Climb[Ordered(other)]
        /\ ToSet(Ordered(one)) = ToSet(one) /\ ToSet(Ordered(other)) = ToSet(other)
    BY <1>4, <2>1, RootClimbs
  <2> QED BY <2>2, ClimbsTogether
<1> QED BY <1>3, <1>4

-----------------------------------------------------------------------------
(* Type correctness                                                        *)

LEMMA AssetsAreNumbers ==
    /\ Assets \subseteq Nat
    /\ \A m \in Metadata : m.content \in Contents
BY CatalogueAssumption

(* What freeze() puts into a manifest: an order of some handles, each of   *)
(* which admit() let through.                                              *)
LEMMA FreezeOrders ==
    ASSUME CatalogueTypeOK, NEW b \in Builders, NEW t \in Tenants, Freeze(b, t)
    PROVE  \E n \in Nat : \E ordered \in [1..n -> Handle] :
             LET contents == [i \in 1..n |-> ordered[i].meta.content]
             IN  /\ \A i \in 1..n : /\ ordered[i] \in ToSet(found[b].results)
                                    /\ Admit(ordered[i], t)
                 /\ manifest' = [manifest EXCEPT ![b] =
                      [tenant |-> t, at |-> now,
                       admitted |-> [i \in 1..n |-> ordered[i].asset],
                       contents |-> contents,
                       root |-> MerkleRoot(contents),
                       gone |-> found[b].gone]]
<1> DEFINE given == ToSet(found[b].results)
           keys(list) == [i \in DOMAIN list |-> list[i].asset]
           ordered(list) == SortedBy(list, keys(list))
<1>1. found[b].results \in Seq(Handle)
  BY DEF CatalogueTypeOK
<1>2. given \subseteq Handle
  <2>1. PICK r \in Seq(Handle) : r = found[b].results
    BY <1>1
  <2>2. DOMAIN r = 1..Len(r) /\ \A i \in 1..Len(r) : r[i] \in Handle
    BY <2>1, LenProperties, ElementOfSeq
  <2> QED BY <2>1, <2>2 DEF ToSet
<1>3. PICK list \in SeqOf(given, MaxAdmitted) :
        /\ \A i \in DOMAIN list : Admit(list[i], t)
        /\ manifest' = [manifest EXCEPT ![b] =
             [tenant |-> t, at |-> now,
              admitted |-> [i \in DOMAIN ordered(list) |-> ordered(list)[i].asset],
              contents |-> [i \in DOMAIN ordered(list) |-> ordered(list)[i].meta.content],
              root |-> MerkleRoot([i \in DOMAIN ordered(list) |-> ordered(list)[i].meta.content]),
              gone |-> found[b].gone]]
  BY DEF Freeze
<1>4. PICK n \in 0..MaxAdmitted : list \in [1..n -> given]
  BY DEF SeqOf
<1>5. n \in Nat /\ DOMAIN list = 1..n
  BY <1>4, CatalogueAssumption
<1>6. keys(list) \in [1..n -> Int]
  <2>1. ASSUME NEW i \in 1..n PROVE list[i].asset \in Int
    <3>1. list[i] \in Handle
      BY <1>2, <1>4
    <3>2. list[i].asset \in Assets
      BY <3>1 DEF Handle
    <3>3. list[i].asset \in Nat
      BY <3>2, AssetsAreNumbers
    <3> QED BY <3>3
  <2> QED BY <1>5, <2>1
<1> HIDE DEF keys
<1>7. ordered(list) \in [1..n -> given] /\ ToSet(ordered(list)) = ToSet(list)
  BY <1>4, <1>5, <1>6, SortedPlaces
<1> HIDE DEF ordered
<1>8. ordered(list) \in [1..n -> Handle] /\ DOMAIN ordered(list) = 1..n
  BY <1>2, <1>7
<1>9. ASSUME NEW i \in 1..n
      PROVE  ordered(list)[i] \in given /\ Admit(ordered(list)[i], t)
  <2>1. ordered(list)[i] \in ToSet(list)
    BY <1>7, <1>8 DEF ToSet
  <2>2. \E j \in DOMAIN list : ordered(list)[i] = list[j]
    BY <2>1 DEF ToSet
  <2> QED BY <1>3, <1>7, <2>2
<1> HIDE DEF given
<1>10. manifest' = [manifest EXCEPT ![b] =
             [tenant |-> t, at |-> now,
              admitted |-> [i \in 1..n |-> ordered(list)[i].asset],
              contents |-> [i \in 1..n |-> ordered(list)[i].meta.content],
              root |-> MerkleRoot([i \in 1..n |-> ordered(list)[i].meta.content]),
              gone |-> found[b].gone]]
  BY <1>3, <1>8
<1> QED BY <1>5, <1>8, <1>9, <1>10 DEF given

LEMMA StoreTypes ==
    ASSUME CatalogueTypeOK, RegistryStep
    PROVE  StoreTypeOK'
<1> USE DEF CatalogueTypeOK
<1>1. ASSUME NEW a \in Assets, NEW m \in Metadata, Register(a, m, FALSE)
      PROVE  StoreTypeOK'
  BY <1>1 DEF Register, StoreTypeOK
<1>2. ASSUME NEW v \in Revokers, NEW a \in Assets, WithdrawMark(v, a)
      PROVE  StoreTypeOK'
  <2> DEFINE owed == [i \in DOMAIN listeners |->
                        [listener |-> listeners[i], asset |-> a, ns |-> mono + 1]]
  <2>1. owed \in Seq(Notification)
    <3>1. Len(listeners) \in Nat /\ DOMAIN listeners = 1..Len(listeners)
      BY LenProperties DEF StoreTypeOK
    <3>2. ASSUME NEW i \in 1..Len(listeners)
          PROVE  [listener |-> listeners[i], asset |-> a, ns |-> mono + 1] \in Notification
      <4>1. listeners[i] \in Listeners
        BY ElementOfSeq DEF StoreTypeOK
      <4>2. mono + 1 \in Nat
        BY DEF StoreTypeOK
      <4> QED BY <4>1, <4>2 DEF Notification
    <3>3. owed \in [1..Len(listeners) -> Notification]
      BY <3>1, <3>2
    <3> QED BY <3>1, <3>3, FunctionIsSeq
  <2>2. pending' = [pending EXCEPT ![v] = owed]
    BY <1>2 DEF WithdrawMark
  <2> HIDE DEF owed
  <2>3. pending' \in [Revokers -> Seq(Notification)]
    BY <2>1, <2>2 DEF StoreTypeOK
  <2> QED BY <1>2, <2>3 DEF WithdrawMark, StoreTypeOK
<1> QED BY <1>1, <1>2 DEF RegistryStep

-----------------------------------------------------------------------------
(* The inductive invariant                                                 *)

(* What a search in progress has done with the ids it has looked up.       *)
LookedUp(s) == s.known \ s.todo

HandedOut(s) ==
    \A i \in DOMAIN s.results :
        LET h == s.results[i]
        IN  /\ h.asset \in LookedUp(s)
            /\ h.meta = catalog[h.asset]
            /\ Matches(catalog[h.asset], s)
            /\ h.withdrawn => s.audit /\ h.asset \in withdrawn
            /\ h.asset \in s.gone => h.withdrawn

NothingMissed(s) ==
    \A a \in LookedUp(s) :
        Matches(catalog[a], s) /\ (a \in withdrawn => s.audit) =>
          \E i \in DOMAIN s.results : s.results[i].asset = a

InOrder(s) ==
    \A i \in DOMAIN s.results :
        /\ \A j \in DOMAIN s.results : i < j => s.results[i].asset < s.results[j].asset
        /\ \A a \in s.todo : s.results[i].asset < a

SearchSane(s) ==
    /\ s.todo \subseteq s.known
    /\ s.known \subseteq KnownAssets
    /\ s.gone \subseteq withdrawn
    /\ HandedOut(s)
    /\ NothingMissed(s)
    /\ InOrder(s)

SearchInv == \A b \in Builders : search[b] # NotSearching => SearchSane(search[b])

(* What the last search returned is still what the registry says, up to    *)
(* withdrawals since.                                                      *)
Truthful(h, gone) ==
    /\ Registered(h.asset)
    /\ h.meta = catalog[h.asset]
    /\ h.asset \in gone => h.withdrawn

FoundInv ==
    \A b \in Builders : \A i \in DOMAIN found[b].results :
        Truthful(found[b].results[i], found[b].gone)

RootsStand == \A b \in Builders : manifest[b] # NoManifest => VerifyManifest(manifest[b])

CatalogueInv == CatalogueTypeOK /\ SearchInv /\ FoundInv /\ ManifestsLawful /\ RootsStand

(* Records are only added, and withdrawals only more.                      *)
RegistryGrows ==
    /\ withdrawn \subseteq withdrawn'
    /\ \A a \in Assets : Registered(a) => catalog'[a] = catalog[a]

LEMMA StepsGrow ==
    ASSUME CatalogueTypeOK, [Next]_vars
    PROVE  RegistryGrows
<1>1. CASE RegistryStep
  <2>1. ASSUME NEW a \in Assets, NEW m \in Metadata, Register(a, m, FALSE)
        PROVE  RegistryGrows
    BY <2>1 DEF Register, Registered, RegistryGrows, CatalogueTypeOK, StoreTypeOK
  <2>2. ASSUME NEW v \in Revokers, NEW a \in Assets, WithdrawMark(v, a)
        PROVE  RegistryGrows
    BY <2>2 DEF WithdrawMark, RegistryGrows
  <2> QED BY <1>1, <2>1, <2>2 DEF RegistryStep
<1>2. CASE UNCHANGED storeVars
  BY <1>2 DEF storeVars, RegistryGrows
<1> QED BY <1>1, <1>2 DEF Next, StartSearch, ReadNext, EndSearch, Freeze, Tick, vars

LEMMA SearchFields ==
    ASSUME NEW s \in Search
    PROVE  /\ s.tenant \in Tenants /\ s.actions \in SUBSET Actions /\ s.audit \in BOOLEAN
           /\ s.todo \in SUBSET Assets /\ s.known \in SUBSET Assets /\ s.gone \in SUBSET Assets
           /\ s.results \in Seq(Handle)
           /\ Len(s.results) \in Nat
           /\ DOMAIN s.results = 1..Len(s.results)
           /\ \A i \in DOMAIN s.results : s.results[i] \in Handle
<1>1. s.results \in Seq(Handle)
  BY DEF Search
<1> QED BY <1>1, LenProperties, ElementOfSeq DEF Search

LEMMA GrowthKeepsSearch ==
    ASSUME RegistryGrows, NEW s \in Search, SearchSane(s)
    PROVE  SearchSane(s)'
<1>1. s.known \subseteq Assets /\ s.known \subseteq KnownAssets
  BY SearchFields DEF SearchSane
<1>2. \A a \in s.known : Registered(a) /\ catalog'[a] = catalog[a]
  BY <1>1 DEF KnownAssets, RegistryGrows
<1>3. (s.known \subseteq KnownAssets)'
  BY <1>1, <1>2 DEF KnownAssets, Registered
<1>4. HandedOut(s)'
  <2>1. ASSUME NEW i \in DOMAIN s.results
        PROVE  LET h == s.results[i]
               IN  /\ h.asset \in LookedUp(s)
                   /\ h.meta = catalog'[h.asset]
                   /\ Matches(catalog'[h.asset], s)
                   /\ h.withdrawn => s.audit /\ h.asset \in withdrawn'
                   /\ h.asset \in s.gone => h.withdrawn
    <3>1. LET h == s.results[i]
          IN  /\ h.asset \in LookedUp(s)
              /\ h.meta = catalog[h.asset]
              /\ Matches(catalog[h.asset], s)
              /\ h.withdrawn => s.audit /\ h.asset \in withdrawn
              /\ h.asset \in s.gone => h.withdrawn
      BY DEF SearchSane, HandedOut
    <3>2. catalog'[s.results[i].asset] = catalog[s.results[i].asset]
      BY <1>2, <3>1 DEF LookedUp
    <3> QED BY <3>1, <3>2 DEF RegistryGrows
  <2> QED BY <2>1 DEF HandedOut, LookedUp, Matches
<1>5. NothingMissed(s)'
  <2>1. ASSUME NEW a \in LookedUp(s), Matches(catalog'[a], s), a \in withdrawn' => s.audit
        PROVE  \E i \in DOMAIN s.results : s.results[i].asset = a
    <3>1. catalog'[a] = catalog[a]
      BY <1>2 DEF LookedUp
    <3>2. Matches(catalog[a], s) /\ (a \in withdrawn => s.audit)
      BY <2>1, <3>1 DEF RegistryGrows
    <3> QED BY <3>2 DEF SearchSane, NothingMissed
  <2> QED BY <2>1 DEF NothingMissed, LookedUp, Matches
<1>6. InOrder(s)' /\ s.todo \subseteq s.known /\ (s.gone \subseteq withdrawn)'
  BY DEF SearchSane, InOrder, RegistryGrows
<1> QED BY <1>3, <1>4, <1>5, <1>6 DEF SearchSane

LEMMA NextId ==
    ASSUME NEW s \in Search, s.todo # {}
    PROVE  Min(s.todo) \in s.todo /\ \A a \in s.todo : Min(s.todo) <= a
<1>1. s.todo \in SUBSET Nat
  BY SearchFields, AssetsAreNumbers
<1>2. \E m \in s.todo : \A a \in s.todo : m <= a
  BY <1>1, LeastNatural
<1> QED BY <1>2 DEF Min

(* One record read: the search stays sane, whatever the filters say of it. *)
LEMMA ReadKeepsSearch ==
    ASSUME CatalogueTypeOK, NEW b \in Builders, ReadNext(b), SearchSane(search[b])
    PROVE  search'[b] \in Search /\ SearchSane(search'[b])
<1>1. PICK s : s = search[b] /\ s # NotSearching /\ s.todo # {}
  BY DEF ReadNext
<1>2. s \in Search /\ SearchSane(s)
  BY <1>1 DEF CatalogueTypeOK
<1>3. PICK a : a = Min(s.todo)
  OBVIOUS
<1>4. PICK h : h = [asset |-> a, meta |-> catalog[a], withdrawn |-> a \in withdrawn]
  OBVIOUS
<1>5. /\ a \in s.todo /\ a \in s.known /\ a \in Assets /\ a \in Nat
      /\ \A k \in s.todo : a <= k /\ k \in Nat
  BY <1>1, <1>2, <1>3, NextId, SearchFields, AssetsAreNumbers DEF SearchSane
<1>6. Registered(a) /\ catalog[a] \in Metadata
  BY <1>2, <1>5 DEF SearchSane, KnownAssets, CatalogueTypeOK, StoreTypeOK, Registered
<1>7. /\ h \in Handle
      /\ h.asset = a /\ h.meta = catalog[a] /\ (h.withdrawn <=> a \in withdrawn)
  <2>1. h \in Handle
    BY <1>4, <1>5, <1>6 DEF Handle
  <2>2. h.asset = a /\ h.meta = catalog[a]
    BY <1>4
  <2>3. h.withdrawn = (a \in withdrawn)
    BY <1>4
  <2> QED BY <2>1, <2>2, <2>3
<1>8. PICK r : r = IF Passes(a, s) THEN Append(s.results, h) ELSE s.results
  OBVIOUS
<1>9. PICK u : u = search'[b]
  OBVIOUS
<1>10. u = [s EXCEPT !.todo = s.todo \ {a}, !.results = r]
  BY <1>1, <1>3, <1>4, <1>8, <1>9 DEF ReadNext, CatalogueTypeOK
<1>11. r \in Seq(Handle)
  BY <1>2, <1>7, <1>8, SearchFields, AppendProperties
<1>12. /\ u \in Search
       /\ u.todo = s.todo \ {a} /\ u.results = r /\ u.known = s.known /\ u.gone = s.gone
       /\ u.tenant = s.tenant /\ u.actions = s.actions /\ u.audit = s.audit
  BY <1>2, <1>10, <1>11, SearchFields DEF Search
<1>13. /\ LookedUp(u) = LookedUp(s) \cup {a} /\ a \notin LookedUp(s)
       /\ \A m : Matches(m, u) <=> Matches(m, s)
  BY <1>5, <1>12 DEF LookedUp, Matches
<1>14. /\ HandedOut(s) /\ NothingMissed(s) /\ InOrder(s)
       /\ s.todo \subseteq s.known /\ s.known \subseteq KnownAssets /\ s.gone \subseteq withdrawn
  BY <1>2 DEF SearchSane
<1>15. PICK n \in Nat : DOMAIN s.results = 1..n /\ n = Len(s.results)
  BY <1>2, SearchFields
<1>16. CASE ~Passes(a, s)
  <2>1. r = s.results
    BY <1>8, <1>16
  <2>2. HandedOut(u)
    BY <1>12, <1>13, <1>14, <2>1 DEF HandedOut
  <2>3. NothingMissed(u)
    <3>1. ASSUME NEW x \in LookedUp(u), Matches(catalog[x], u), x \in withdrawn => u.audit
          PROVE  \E i \in DOMAIN r : r[i].asset = x
      <4>1. Passes(x, s)
        BY <1>12, <1>13, <3>1 DEF Passes
      <4>2. x \in LookedUp(s)
        BY <1>13, <1>16, <3>1, <4>1
      <4> QED BY <1>14, <2>1, <4>1, <4>2 DEF NothingMissed, Passes
    <3> QED BY <1>12, <3>1 DEF NothingMissed
  <2>4. InOrder(u)
    BY <1>12, <1>14, <2>1 DEF InOrder
  <2> QED BY <1>9, <1>12, <1>14, <2>2, <2>3, <2>4 DEF SearchSane
<1>17. CASE Passes(a, s)
  <2>1. r = Append(s.results, h)
    BY <1>8, <1>17
  <2>2. /\ DOMAIN r = 1..n + 1
        /\ \A i \in 1..n : r[i] = s.results[i]
        /\ r[n + 1] = h
    BY <1>2, <1>7, <1>15, <2>1, SearchFields, AppendProperties
  <2>3. HandedOut(u)
    <3>1. ASSUME NEW i \in DOMAIN r
          PROVE  /\ r[i].asset \in LookedUp(u)
                 /\ r[i].meta = catalog[r[i].asset]
                 /\ Matches(catalog[r[i].asset], u)
                 /\ r[i].withdrawn => u.audit /\ r[i].asset \in withdrawn
                 /\ r[i].asset \in u.gone => r[i].withdrawn
      <4>1. CASE i \in 1..n
        BY <1>12, <1>13, <1>14, <1>15, <2>2, <4>1 DEF HandedOut
      <4>2. CASE i = n + 1
        <5>1. Matches(catalog[a], s) /\ (a \in withdrawn => s.audit)
          BY <1>17 DEF Passes
        <5>2. a \in s.gone => a \in withdrawn
          BY <1>14
        <5> QED BY <1>7, <1>12, <1>13, <2>2, <4>2, <5>1, <5>2
      <4> QED BY <2>2, <4>1, <4>2
    <3> QED BY <1>12, <3>1 DEF HandedOut
  <2>4. NothingMissed(u)
    <3>1. ASSUME NEW x \in LookedUp(u), Matches(catalog[x], u), x \in withdrawn => u.audit
          PROVE  \E i \in DOMAIN r : r[i].asset = x
      <4>1. CASE x = a
        BY <1>7, <2>2, <4>1
      <4>2. CASE x # a
        <5>1. x \in LookedUp(s) /\ Matches(catalog[x], s) /\ (x \in withdrawn => s.audit)
          BY <1>12, <1>13, <3>1, <4>2
        <5>2. PICK i \in 1..n : s.results[i].asset = x
          BY <1>14, <1>15, <5>1 DEF NothingMissed
        <5>3. i \in DOMAIN r /\ r[i].asset = x
          BY <2>2, <5>2
        <5> QED BY <5>3
      <4> QED BY <4>1, <4>2
    <3> QED BY <1>12, <3>1 DEF NothingMissed
  <2>5. InOrder(u)
    <3>1. ASSUME NEW i \in 1..n
          PROVE  /\ s.results[i].asset < a
                 /\ \A x \in s.todo : s.results[i].asset < x
                 /\ \A j \in 1..n : i < j => s.results[i].asset < s.results[j].asset
      BY <1>5, <1>14, <1>15 DEF InOrder
    <3>2. ASSUME NEW i \in 1..n
          PROVE  /\ \A j \in 1..n + 1 : i < j => r[i].asset < r[j].asset
                 /\ \A x \in u.todo : r[i].asset < x
      <4>1. ASSUME NEW j \in 1..n + 1, i < j PROVE r[i].asset < r[j].asset
        <5>1. CASE j \in 1..n
          BY <2>2, <3>1, <4>1, <5>1
        <5>2. CASE j = n + 1
          BY <1>7, <2>2, <3>1, <5>2
        <5> QED BY <5>1, <5>2
      <4> QED BY <1>12, <2>2, <3>1, <4>1
    <3>3. /\ \A j \in 1..n + 1 : ~(n + 1 < j)
          /\ \A x \in u.todo : r[n + 1].asset < x
      <4>1. ASSUME NEW x \in u.todo PROVE a < x
        <5>1. x \in s.todo /\ x # a
          BY <1>12, <4>1
        <5> QED BY <1>5, <5>1
      <4> QED BY <1>7, <2>2, <4>1
    <3>4. \A i \in 1..n + 1 : i \in 1..n \/ i = n + 1
      OBVIOUS
    <3>5. ASSUME NEW i \in 1..n + 1
          PROVE  /\ \A j \in 1..n + 1 : i < j => r[i].asset < r[j].asset
                 /\ \A x \in u.todo : r[i].asset < x
      BY <3>2, <3>3, <3>4
    <3> QED BY <1>12, <2>2, <3>5 DEF InOrder
  <2> QED BY <1>9, <1>12, <1>14, <2>3, <2>4, <2>5 DEF SearchSane
<1> QED BY <1>9, <1>12, <1>16, <1>17

LEMMA InitInv == Init => CatalogueInv
<1> SUFFICES ASSUME Init PROVE CatalogueInv
  OBVIOUS
<1>1. CatalogueTypeOK
  <2>1. StoreTypeOK
    BY EmptySeq DEF Init, StoreInit, StoreTypeOK
  <2>2. NothingFound \in [results : Seq(Handle), gone : SUBSET Assets]
    BY EmptySeq DEF NothingFound
  <2> QED BY <2>1, <2>2, CatalogueAssumption DEF Init, CatalogueTypeOK
<1>2. FoundInv
  <2>1. ASSUME NEW b \in Builders PROVE DOMAIN found[b].results = {}
    BY DEF Init, NothingFound
  <2> QED BY <2>1 DEF FoundInv
<1>3. SearchInv /\ ManifestsLawful /\ RootsStand
  BY DEF Init, SearchInv, ManifestsLawful, RootsStand
<1> QED BY <1>1, <1>2, <1>3 DEF CatalogueInv

LEMMA StartedSearch ==
    ASSUME CatalogueTypeOK, NEW b \in Builders, NEW t \in Tenants,
           NEW actions \in {{}} \cup {{x} : x \in Asked}, NEW audit \in BOOLEAN,
           StartSearch(b, t, actions, audit)
    PROVE  /\ search' \in [Builders -> Search \cup {NotSearching}]
           /\ \A c \in Builders : c # b => search'[c] = search[c]
           /\ SearchSane(search'[b])
<1>1. PICK s : s = [tenant |-> t, actions |-> actions, audit |-> audit, todo |-> KnownAssets,
                     results |-> <<>>, known |-> KnownAssets, gone |-> withdrawn]
  OBVIOUS
<1>2. search' = [search EXCEPT ![b] = s]
  BY <1>1 DEF StartSearch
<1>3. s \in Search
  <2>1. KnownAssets \in SUBSET Assets /\ withdrawn \in SUBSET Assets
    BY DEF KnownAssets, CatalogueTypeOK, StoreTypeOK
  <2>2. actions \in SUBSET Actions
    BY CatalogueAssumption
  <2> QED BY <1>1, <2>1, <2>2, EmptySeq DEF Search
<1>4. SearchSane(s)
  <2>1. /\ s.results = <<>> /\ s.todo = KnownAssets /\ s.known = KnownAssets
        /\ s.gone = withdrawn
    BY <1>1
  <2>2. DOMAIN s.results = {} /\ LookedUp(s) = {}
    BY <2>1 DEF LookedUp
  <2> QED BY <2>1, <2>2 DEF SearchSane, HandedOut, NothingMissed, InOrder
<1>5. search'[b] = s /\ \A c \in Builders : c # b => search'[c] = search[c]
  BY <1>2 DEF CatalogueTypeOK
<1> QED BY <1>2, <1>3, <1>4, <1>5 DEF CatalogueTypeOK

LEMMA StepSearch ==
    ASSUME CatalogueInv, [Next]_vars
    PROVE  /\ search' \in [Builders -> Search \cup {NotSearching}]
           /\ SearchInv'
<1> USE DEF CatalogueInv
<1>1. RegistryGrows
  BY StepsGrow
<1>2. ASSUME NEW b \in Builders, search'[b] = search[b], search[b] # NotSearching
      PROVE  SearchSane(search[b])'
  <2>1. search[b] \in Search /\ SearchSane(search[b])
    BY <1>2 DEF CatalogueTypeOK, SearchInv
  <2>2. PICK s : s = search[b]
    OBVIOUS
  <2>3. SearchSane(s)'
    BY <1>1, <2>1, <2>2, GrowthKeepsSearch
  <2>4. s = search'[b]
    BY <1>2, <2>2
  <2> QED BY <2>3, <2>4
<1>3. ASSUME NEW b \in Builders,
             search' \in [Builders -> Search \cup {NotSearching}],
             \A c \in Builders : c # b => search'[c] = search[c],
             search'[b] # NotSearching => SearchSane(search[b])'
      PROVE  SearchInv'
  BY <1>2, <1>3 DEF SearchInv
<1>4. ASSUME NEW b \in Builders, NEW t \in Tenants,
             NEW actions \in {{}} \cup {{x} : x \in Asked}, NEW audit \in BOOLEAN,
             StartSearch(b, t, actions, audit)
      PROVE  /\ search' \in [Builders -> Search \cup {NotSearching}]
             /\ SearchInv'
  <2>1. /\ search' \in [Builders -> Search \cup {NotSearching}]
        /\ \A c \in Builders : c # b => search'[c] = search[c]
        /\ SearchSane(search'[b])
    BY <1>4, StartedSearch
  <2>2. UNCHANGED <<catalog, withdrawn>>
    BY <1>4 DEF StartSearch, storeVars
  <2>3. SearchSane(search[b])'
    BY <2>1, <2>2 DEF SearchSane, HandedOut, NothingMissed, InOrder, KnownAssets, Registered,
       Matches, LookedUp
  <2> QED BY <1>3, <2>1, <2>3
<1>5. ASSUME NEW b \in Builders, ReadNext(b)
      PROVE  /\ search' \in [Builders -> Search \cup {NotSearching}]
             /\ SearchInv'
  <2>1. search'[b] \in Search /\ SearchSane(search'[b])
    BY <1>5, ReadKeepsSearch DEF SearchInv, ReadNext
  <2>2. \A c \in Builders : c # b => search'[c] = search[c]
    BY <1>5 DEF ReadNext, CatalogueTypeOK
  <2>3. search' \in [Builders -> Search \cup {NotSearching}]
    <3>1. DOMAIN search' = Builders /\ search' = [c \in DOMAIN search |-> search'[c]]
      BY <1>5 DEF ReadNext, CatalogueTypeOK
    <3>2. ASSUME NEW c \in Builders PROVE search'[c] \in Search \cup {NotSearching}
      BY <2>1, <2>2 DEF CatalogueTypeOK
    <3> QED BY <3>1, <3>2 DEF CatalogueTypeOK
  <2>4. UNCHANGED <<catalog, withdrawn>>
    BY <1>5 DEF ReadNext, storeVars
  <2>5. SearchSane(search[b])'
    BY <2>1, <2>4 DEF SearchSane, HandedOut, NothingMissed, InOrder, KnownAssets, Registered,
       Matches, LookedUp
  <2> QED BY <1>3, <2>2, <2>3, <2>5
<1>6. ASSUME NEW b \in Builders, EndSearch(b)
      PROVE  /\ search' \in [Builders -> Search \cup {NotSearching}]
             /\ SearchInv'
  <2>1. /\ search' \in [Builders -> Search \cup {NotSearching}]
        /\ search'[b] = NotSearching
        /\ \A c \in Builders : c # b => search'[c] = search[c]
    BY <1>6 DEF EndSearch, CatalogueTypeOK
  <2> QED BY <1>3, <2>1
<1>7. ASSUME UNCHANGED search
      PROVE  /\ search' \in [Builders -> Search \cup {NotSearching}]
             /\ SearchInv'
  BY <1>2, <1>7 DEF SearchInv, CatalogueTypeOK
<1> QED BY <1>4, <1>5, <1>6, <1>7
        DEF Next, Freeze, RegistryStep, Tick, vars, catalogueVars

LEMMA FoundFields ==
    ASSUME CatalogueTypeOK, NEW b \in Builders, NEW h \in ToSet(found[b].results)
    PROVE  /\ h \in Handle
           /\ h.asset \in Assets
           /\ FoundInv => Truthful(h, found[b].gone)
<1>1. PICK r \in Seq(Handle) : r = found[b].results
  BY DEF CatalogueTypeOK
<1>2. PICK i \in DOMAIN r : h = r[i]
  BY <1>1 DEF ToSet
<1>3. h \in Handle
  BY <1>2, LenProperties, ElementOfSeq
<1> QED BY <1>1, <1>2, <1>3 DEF FoundInv, Handle

LEMMA StaysTruthful ==
    ASSUME RegistryGrows, NEW h \in Handle, NEW gone, Truthful(h, gone)
    PROVE  Truthful(h, gone)'
<1>1. h.asset \in Assets
  BY DEF Handle
<1> QED BY <1>1 DEF Truthful, RegistryGrows, Registered

LEMMA StepFound ==
    ASSUME CatalogueInv, [Next]_vars
    PROVE  /\ found' \in [Builders -> [results : Seq(Handle), gone : SUBSET Assets]]
           /\ FoundInv'
<1> USE DEF CatalogueInv
<1>1. RegistryGrows
  BY StepsGrow
<1>2. ASSUME NEW b \in Builders, found'[b] = found[b], NEW i \in DOMAIN found[b].results
      PROVE  Truthful(found[b].results[i], found[b].gone)'
  <2>1. PICK h : h = found[b].results[i]
    OBVIOUS
  <2>2. PICK gone : gone = found[b].gone
    OBVIOUS
  <2>3. h \in ToSet(found[b].results)
    BY <2>1 DEF ToSet
  <2>4. h \in Handle /\ Truthful(h, gone)
    BY <2>2, <2>3, FoundFields
  <2>5. Truthful(h, gone)'
    BY <1>1, <2>4, StaysTruthful
  <2> QED BY <1>2, <2>1, <2>2, <2>5
<1>3. ASSUME NEW b \in Builders,
             found' \in [Builders -> [results : Seq(Handle), gone : SUBSET Assets]],
             \A c \in Builders : c # b => found'[c] = found[c],
             (\A i \in DOMAIN found[b].results :
                Truthful(found[b].results[i], found[b].gone))'
      PROVE  FoundInv'
  <2>1. ASSUME NEW c \in Builders, c # b, NEW i \in DOMAIN found'[c].results
        PROVE  Truthful(found[c].results[i], found[c].gone)'
    BY <1>2, <1>3, <2>1
  <2> QED BY <1>3, <2>1 DEF FoundInv
<1>4. ASSUME NEW b \in Builders, EndSearch(b)
      PROVE  /\ found' \in [Builders -> [results : Seq(Handle), gone : SUBSET Assets]]
             /\ FoundInv'
  <2>1. PICK s : s = search[b] /\ s # NotSearching
    BY <1>4 DEF EndSearch
  <2>2. s \in Search /\ SearchSane(s)
    BY <2>1 DEF CatalogueTypeOK, SearchInv
  <2>3. PICK f : f = [results |-> s.results, gone |-> s.gone]
    OBVIOUS
  <2>4. f \in [results : Seq(Handle), gone : SUBSET Assets]
    BY <2>2, <2>3, SearchFields
  <2>5. found' = [found EXCEPT ![b] = f]
    BY <1>4, <2>1, <2>3 DEF EndSearch
  <2>6. /\ found' \in [Builders -> [results : Seq(Handle), gone : SUBSET Assets]]
        /\ found'[b] = f
        /\ \A c \in Builders : c # b => found'[c] = found[c]
    BY <2>4, <2>5 DEF CatalogueTypeOK
  <2>7. ASSUME NEW i \in DOMAIN f.results PROVE Truthful(f.results[i], f.gone)'
    <3>1. PICK h : h = s.results[i]
      OBVIOUS
    <3>2. f.results = s.results /\ f.gone = s.gone
      BY <2>3
    <3>3. /\ h.asset \in LookedUp(s)
          /\ h.meta = catalog[h.asset]
          /\ h.asset \in s.gone => h.withdrawn
      BY <2>2, <3>1, <3>2 DEF SearchSane, HandedOut
    <3>4. LookedUp(s) \subseteq KnownAssets
      BY <2>2 DEF SearchSane, LookedUp
    <3>5. h \in Handle /\ Truthful(h, f.gone)
      BY <2>2, <3>1, <3>2, <3>3, <3>4, SearchFields DEF KnownAssets, Truthful
    <3>6. Truthful(h, f.gone)'
      BY <1>1, <3>5, StaysTruthful
    <3> QED BY <3>1, <3>2, <3>6
  <2> QED BY <1>3, <2>6, <2>7
<1>5. ASSUME NEW b \in Builders, NEW t \in Tenants, Freeze(b, t)
      PROVE  /\ found' \in [Builders -> [results : Seq(Handle), gone : SUBSET Assets]]
             /\ FoundInv'
  <2>1. NothingFound \in [results : Seq(Handle), gone : SUBSET Assets]
    BY EmptySeq DEF NothingFound
  <2>2. DOMAIN NothingFound.results = {}
    BY DEF NothingFound
  <2>3. found' = [found EXCEPT ![b] = NothingFound]
    BY <1>5 DEF Freeze
  <2>4. /\ found' \in [Builders -> [results : Seq(Handle), gone : SUBSET Assets]]
        /\ found'[b] = NothingFound
        /\ \A c \in Builders : c # b => found'[c] = found[c]
    BY <2>1, <2>3 DEF CatalogueTypeOK
  <2> QED BY <1>3, <2>2, <2>4
<1>6. ASSUME UNCHANGED found
      PROVE  /\ found' \in [Builders -> [results : Seq(Handle), gone : SUBSET Assets]]
             /\ FoundInv'
  <2>1. \A b \in Builders : found'[b] = found[b]
    BY <1>6
  <2> QED BY <1>2, <1>6, <2>1 DEF FoundInv, CatalogueTypeOK
<1> QED BY <1>4, <1>5, <1>6
        DEF Next, StartSearch, ReadNext, RegistryStep, Tick, vars, catalogueVars

(* ManifestsLawful, of one manifest and of one entry of it.                *)
LawfulEntry(m, a, content) ==
    /\ Registered(a)
    /\ MandateVerified(a, catalog[a])
    /\ catalog[a].content = content
    /\ catalog[a].tenant = m.tenant
    /\ m.at \in catalog[a].from..catalog[a].until
    /\ catalog[a].actions = {} \/ "train" \in catalog[a].actions
    /\ a \notin m.gone

Lawful(m) ==
    \A i \in DOMAIN m.admitted : LawfulEntry(m, m.admitted[i], m.contents[i])

LEMMA LawfulOneByOne ==
    ManifestsLawful <=> \A b \in Builders : manifest[b] # NoManifest => Lawful(manifest[b])
BY DEF ManifestsLawful, Lawful, LawfulEntry

LEMMA StaysLawful ==
    ASSUME RegistryGrows, NEW m \in Manifest, Lawful(m)
    PROVE  Lawful(m)'
<1>1. m.admitted \in Seq(Assets)
  BY DEF Manifest
<1>2. ASSUME NEW i \in DOMAIN m.admitted
      PROVE  LawfulEntry(m, m.admitted[i], m.contents[i])'
  <2>1. PICK a : a = m.admitted[i]
    OBVIOUS
  <2>2. PICK content : content = m.contents[i]
    OBVIOUS
  <2>3. a \in Assets
    BY <1>1, <2>1, LenProperties, ElementOfSeq
  <2>4. LawfulEntry(m, a, content)
    BY <2>1, <2>2 DEF Lawful
  <2>5. catalog'[a] = catalog[a]
    BY <2>3, <2>4 DEF LawfulEntry, RegistryGrows
  <2>6. LawfulEntry(m, a, content)'
    BY <2>4, <2>5 DEF LawfulEntry, Registered, MandateVerified, VerifyMandate, MandateMessage
  <2> QED BY <2>1, <2>2, <2>6
<1> QED BY <1>2 DEF Lawful

(* A frozen manifest is lawful, because the records it was judged by are   *)
(* what the registry still says.                                           *)
LEMMA FrozenManifest ==
    ASSUME CatalogueTypeOK, FoundInv, NEW b \in Builders, NEW t \in Tenants, Freeze(b, t)
    PROVE  \E m \in Manifest : /\ manifest' = [manifest EXCEPT ![b] = m]
                               /\ Lawful(m)
                               /\ VerifyManifest(m)
<1>1. PICK n \in Nat : \E ordered \in [1..n -> Handle] :
             LET contents == [i \in 1..n |-> ordered[i].meta.content]
             IN  /\ \A i \in 1..n : /\ ordered[i] \in ToSet(found[b].results)
                                    /\ Admit(ordered[i], t)
                 /\ manifest' = [manifest EXCEPT ![b] =
                      [tenant |-> t, at |-> now,
                       admitted |-> [i \in 1..n |-> ordered[i].asset],
                       contents |-> contents,
                       root |-> MerkleRoot(contents),
                       gone |-> found[b].gone]]
  BY FreezeOrders
<1>2. PICK ordered \in [1..n -> Handle] :
             /\ \A i \in 1..n : /\ ordered[i] \in ToSet(found[b].results)
                                /\ Admit(ordered[i], t)
             /\ manifest' = [manifest EXCEPT ![b] =
                  [tenant |-> t, at |-> now,
                   admitted |-> [i \in 1..n |-> ordered[i].asset],
                   contents |-> [i \in 1..n |-> ordered[i].meta.content],
                   root |-> MerkleRoot([i \in 1..n |-> ordered[i].meta.content]),
                   gone |-> found[b].gone]]
  BY <1>1
<1>3. PICK admitted : admitted = [i \in 1..n |-> ordered[i].asset]
  OBVIOUS
<1>4. PICK contents : contents = [i \in 1..n |-> ordered[i].meta.content]
  OBVIOUS
<1>5. PICK gone : gone = found[b].gone
  OBVIOUS
<1>6. PICK m : m = [tenant |-> t, at |-> now, admitted |-> admitted, contents |-> contents,
                     root |-> MerkleRoot(contents), gone |-> gone]
  OBVIOUS
<1>7. manifest' = [manifest EXCEPT ![b] = m]
  BY <1>2, <1>3, <1>4, <1>5, <1>6
<1>8. ASSUME NEW i \in 1..n
      PROVE  /\ ordered[i] \in Handle
             /\ ordered[i].asset \in Assets
             /\ ordered[i].meta.content \in Contents
  <2>1. ordered[i] \in Handle
    BY <1>2
  <2>2. ordered[i].asset \in Assets /\ ordered[i].meta \in Metadata
    BY <2>1 DEF Handle
  <2> QED BY <2>1, <2>2, AssetsAreNumbers
<1>9. admitted \in Seq(Assets) /\ contents \in Seq(Contents)
  <2>1. admitted \in [1..n -> Assets] /\ contents \in [1..n -> Contents]
    BY <1>3, <1>4, <1>8
  <2> QED BY <2>1, FunctionIsSeq
<1>10. m \in Manifest
  <2>1. MerkleRoot(contents) \in Nat
    BY <1>9, RootClimbs
  <2>2. now \in Nat /\ gone \in SUBSET Assets
    BY <1>5 DEF CatalogueTypeOK
  <2> QED BY <1>6, <1>9, <2>1, <2>2 DEF Manifest
<1>11. /\ m.tenant = t /\ m.at = now /\ m.gone = gone
       /\ m.admitted = admitted /\ m.contents = contents
       /\ m.root = MerkleRoot(contents)
  BY <1>6
<1>12. ASSUME NEW i \in 1..n
       PROVE  LawfulEntry(m, admitted[i], contents[i])
  <2>1. PICK h : h = ordered[i]
    OBVIOUS
  <2>2. admitted[i] = h.asset /\ contents[i] = h.meta.content
    BY <1>3, <1>4, <2>1
  <2>3. h \in ToSet(found[b].results) /\ Admit(h, t)
    BY <1>2, <2>1
  <2>4. Truthful(h, gone)
    BY <1>5, <2>3, FoundFields
  <2> QED BY <1>11, <2>2, <2>3, <2>4 DEF LawfulEntry, Truthful, Admit, InScope
<1>13. Lawful(m)
  BY <1>3, <1>11, <1>12 DEF Lawful
<1>14. VerifyManifest(m)
  BY <1>11 DEF VerifyManifest
<1> QED BY <1>7, <1>10, <1>13, <1>14

LEMMA StepManifest ==
    ASSUME CatalogueInv, [Next]_vars
    PROVE  /\ manifest' \in [Builders -> Manifest \cup {NoManifest}]
           /\ ManifestsLawful'
           /\ RootsStand'
<1> USE DEF CatalogueInv
<1>1. RegistryGrows
  BY StepsGrow
<1>2. ASSUME NEW b \in Builders, manifest'[b] = manifest[b], manifest[b] # NoManifest
      PROVE  Lawful(manifest[b])' /\ VerifyManifest(manifest[b])'
  <2>1. PICK m : m = manifest[b]
    OBVIOUS
  <2>2. m \in Manifest /\ Lawful(m) /\ VerifyManifest(m)
    BY <1>2, <2>1, LawfulOneByOne DEF CatalogueTypeOK, RootsStand
  <2>3. Lawful(m)'
    BY <1>1, <2>2, StaysLawful
  <2> QED BY <1>2, <2>1, <2>2, <2>3 DEF VerifyManifest
<1>3. ASSUME \A b \in Builders :
               manifest'[b] # NoManifest =>
                 Lawful(manifest[b])' /\ VerifyManifest(manifest[b])'
      PROVE  ManifestsLawful' /\ RootsStand'
  <2>1. (\A b \in Builders : manifest[b] # NoManifest => Lawful(manifest[b]))'
    BY <1>3
  <2>2. (\A b \in Builders : manifest[b] # NoManifest => VerifyManifest(manifest[b]))'
    BY <1>3
  <2>3. ManifestsLawful'
    BY <2>1, LawfulOneByOne, PTL
  <2> QED BY <2>2, <2>3 DEF RootsStand
<1>4. ASSUME NEW b \in Builders, NEW t \in Tenants, Freeze(b, t)
      PROVE  /\ manifest' \in [Builders -> Manifest \cup {NoManifest}]
             /\ ManifestsLawful' /\ RootsStand'
  <2>1. PICK m \in Manifest : /\ manifest' = [manifest EXCEPT ![b] = m]
                              /\ Lawful(m)
                              /\ VerifyManifest(m)
    BY <1>4, FrozenManifest
  <2>2. /\ manifest' \in [Builders -> Manifest \cup {NoManifest}]
        /\ manifest'[b] = m
        /\ \A c \in Builders : c # b => manifest'[c] = manifest[c]
    BY <2>1 DEF CatalogueTypeOK
  <2>3. Lawful(m)' /\ VerifyManifest(m)'
    BY <1>1, <2>1, StaysLawful DEF VerifyManifest
  <2>4. ASSUME NEW c \in Builders, manifest'[c] # NoManifest
        PROVE  Lawful(manifest[c])' /\ VerifyManifest(manifest[c])'
    <3>1. CASE c = b
      BY <2>2, <2>3, <3>1
    <3>2. CASE c # b
      BY <1>2, <2>2, <2>4, <3>2
    <3> QED BY <3>1, <3>2
  <2> QED BY <1>3, <2>2, <2>4
<1>5. ASSUME UNCHANGED manifest
      PROVE  /\ manifest' \in [Builders -> Manifest \cup {NoManifest}]
             /\ ManifestsLawful' /\ RootsStand'
  <2>1. \A b \in Builders : manifest'[b] # NoManifest =>
                              Lawful(manifest[b])' /\ VerifyManifest(manifest[b])'
    BY <1>2, <1>5
  <2> QED BY <1>3, <1>5, <2>1 DEF CatalogueTypeOK
<1> QED BY <1>4, <1>5
        DEF Next, StartSearch, ReadNext, EndSearch, RegistryStep, Tick, vars, catalogueVars

LEMMA StepInv ==
    ASSUME CatalogueInv, [Next]_vars
    PROVE  CatalogueInv'
<1>1. StoreTypeOK'
  <2>1. CASE RegistryStep
    BY <2>1, StoreTypes DEF CatalogueInv
  <2>2. CASE UNCHANGED storeVars
    BY <2>2 DEF CatalogueInv, CatalogueTypeOK, StoreTypeOK, storeVars
  <2> QED BY <2>1, <2>2 DEF Next, StartSearch, ReadNext, EndSearch, Freeze, Tick, vars
<1>2. now' \in 0..MaxTime
  <2>1. CASE Tick
    BY <2>1, CatalogueAssumption DEF Tick, CatalogueInv, CatalogueTypeOK
  <2>2. CASE UNCHANGED now
    BY <2>2 DEF CatalogueInv, CatalogueTypeOK
  <2> QED BY <2>1, <2>2
          DEF Next, StartSearch, ReadNext, EndSearch, Freeze, RegistryStep, vars, catalogueVars
<1>3. CatalogueTypeOK'
  BY <1>1, <1>2, StepSearch, StepFound, StepManifest DEF CatalogueTypeOK
<1> QED BY <1>3, StepSearch, StepFound, StepManifest DEF CatalogueInv

LEMMA CatalogueInvariant == Spec => []CatalogueInv
<1>1. CatalogueInv /\ [Next]_vars => CatalogueInv'
  BY StepInv
<1> QED BY InitInv, <1>1, PTL DEF Spec

(* Every variable of the catalogue keeps its type: in particular a         *)
(* manifest has a Merkle root, merkle_root() of admission.py coming to an  *)
(* end on every list.                                                      *)
THEOREM CatalogueTypeCorrect == Spec => []CatalogueTypeOK
<1>1. CatalogueInv => CatalogueTypeOK
  BY DEF CatalogueInv
<1> QED BY CatalogueInvariant, <1>1, PTL

(* The docstring of admission.py, for any registry, any builders, build    *)
(* lists of any length and any way the signed fields are joined to a text: *)
(* what freeze() admits is under a mandate its custodian signed for the    *)
(* text of its record, for the content listed, in the tenant, in date,     *)
(* open to training and not withdrawn before the search that found it      *)
(* began.                                                                  *)
THEOREM BuildsAreLawful == Spec => []ManifestsLawful
<1>1. CatalogueInv => ManifestsLawful
  BY DEF CatalogueInv
<1> QED BY CatalogueInvariant, <1>1, PTL

(* "any post-freeze substitution is detectable" (admission.py:7): a list   *)
(* as long as a manifest's that verifies under its root has its contents.  *)
THEOREM SubstitutionsShow == Spec => []RootPinsContents
<1>1. ASSUME CatalogueInv PROVE RootPinsContents
  <2>1. ASSUME NEW b \in Builders, manifest[b] # NoManifest,
               NEW list \in ContentLists, Len(list) = Len(manifest[b].contents),
               RootOf[list] = manifest[b].root
        PROVE  ToSet(list) = ToSet(manifest[b].contents)
    <3>1. manifest[b] \in Manifest /\ VerifyManifest(manifest[b])
      BY <1>1, <2>1 DEF CatalogueInv, CatalogueTypeOK, RootsStand
    <3>2. manifest[b].contents \in Seq(Contents)
      BY <3>1 DEF Manifest
    <3>3. list \in Seq(Contents)
      <4>1. PICK n \in 0..MaxAdmitted : list \in [1..n -> Contents]
        BY DEF ContentLists, SeqOf
      <4>2. n \in Nat
        BY CatalogueAssumption
      <4> QED BY <4>1, <4>2, FunctionIsSeq
    <3>4. MerkleRoot(list) = MerkleRoot(manifest[b].contents)
      BY <2>1, <3>1 DEF RootOf, VerifyManifest
    <3> QED BY <2>1, <3>2, <3>3, <3>4, RootsTellContents
  <2>2. \A b \in Builders : manifest[b] # NoManifest => VerifyManifest(manifest[b])
    BY <1>1 DEF CatalogueInv, RootsStand
  <2> QED BY <2>1, <2>2 DEF RootPinsContents
<1> QED BY CatalogueInvariant, <1>1, PTL

LEMMA ReturnsSound ==
    ASSUME CatalogueInv, NEW b \in Builders, EndSearch(b)
    PROVE  LET s == search[b]
               wanted == {a \in s.known : Matches(catalog[a], s)}
               given == {h.asset : h \in Results(b)}
           IN  /\ wanted \ (IF s.audit THEN {} ELSE withdrawn) \subseteq given
               /\ given \subseteq wanted \ (IF s.audit THEN {} ELSE s.gone)
               /\ Len(found'[b].results) = Cardinality(given)
               /\ \A h \in Results(b) :
                    /\ h.withdrawn => h.asset \in withdrawn
                    /\ h.asset \in s.gone => h.withdrawn
<1>1. PICK s : s = search[b] /\ s # NotSearching /\ s.todo = {}
  BY DEF EndSearch
<1>2. /\ s \in Search /\ HandedOut(s) /\ NothingMissed(s) /\ InOrder(s)
      /\ LookedUp(s) = s.known
  BY <1>1 DEF CatalogueInv, CatalogueTypeOK, SearchInv, SearchSane, LookedUp
<1>3. PICK r \in Seq(Handle) : r = s.results
  BY <1>2, SearchFields
<1>4. PICK n \in Nat : n = Len(r)
  BY LenProperties
<1>5. DOMAIN r = 1..n /\ \A i \in 1..n : r[i] \in Handle
  BY <1>4, LenProperties, ElementOfSeq
<1>6. found'[b].results = r
  BY <1>1, <1>3 DEF EndSearch, CatalogueInv, CatalogueTypeOK
<1>7. Results(b) = {r[i] : i \in 1..n}
  BY <1>5, <1>6 DEF Results, ToSet
<1> DEFINE given == {h.asset : h \in Results(b)}
           wanted == {a \in s.known : Matches(catalog[a], s)}
<1>8. ASSUME NEW i \in 1..n
      PROVE  /\ r[i].asset \in given
             /\ r[i].asset \in wanted
             /\ r[i].withdrawn => s.audit /\ r[i].asset \in withdrawn
             /\ r[i].asset \in s.gone => r[i].withdrawn
  BY <1>2, <1>3, <1>5, <1>7 DEF HandedOut
<1>9. ASSUME NEW a \in given PROVE \E i \in 1..n : a = r[i].asset
  BY <1>7
<1>10. ASSUME NEW a \in wanted, a \in withdrawn => s.audit PROVE a \in given
  <2>1. a \in LookedUp(s) /\ Matches(catalog[a], s)
    BY <1>2
  <2>2. PICK i \in 1..n : r[i].asset = a
    BY <1>2, <1>3, <1>5, <1>10, <2>1 DEF NothingMissed
  <2> QED BY <1>8, <2>2
<1> HIDE DEF given, wanted
<1>11. Cardinality(given) = n
  <2> DEFINE f == [i \in 1..n |-> r[i].asset]
  <2>1. f \in [1..n -> given]
    BY <1>8
  <2>2. ASSUME NEW i \in 1..n, NEW j \in 1..n, f[i] = f[j] PROVE i = j
    <3>1. r[i].asset \in Nat /\ r[j].asset \in Nat
      BY <1>5, AssetsAreNumbers DEF Handle
    <3>2. ~(r[i].asset < r[j].asset) /\ ~(r[j].asset < r[i].asset)
      BY <2>2, <3>1
    <3>3. ~(i < j) /\ ~(j < i)
      BY <1>2, <1>3, <1>5, <3>2 DEF InOrder
    <3> QED BY <3>3
  <2>3. \A a \in given : \E i \in 1..n : f[i] = a
    BY <1>9
  <2> HIDE DEF f
  <2>4. f \in Bijection(1..n, given)
    BY <2>1, <2>2, <2>3 DEF Bijection, Injection, Surjection, IsInjective
  <2>5. ExistsBijection(1..n, given)
    BY <2>4 DEF ExistsBijection
  <2> QED BY <2>5, FS_CountingElements
<1>12. wanted \ (IF s.audit THEN {} ELSE withdrawn) \subseteq given
  BY <1>10
<1>13. given \subseteq wanted \ (IF s.audit THEN {} ELSE s.gone)
  BY <1>8, <1>9
<1>14. ASSUME NEW h \in Results(b)
       PROVE  /\ h.withdrawn => h.asset \in withdrawn
              /\ h.asset \in s.gone => h.withdrawn
  BY <1>7, <1>8
<1>15. Len(found'[b].results) = Cardinality(given)
  BY <1>4, <1>6, <1>11
<1> QED BY <1>1, <1>12, <1>13, <1>14, <1>15 DEF given, wanted

(* What a search returns (catalog.py:4), for any registry and any          *)
(* interleaving of its reads with registrations and withdrawals.           *)
THEOREM SearchesAreSound == Spec => SearchSound
<1> DEFINE Ends(b) == search[b] # NotSearching /\ search'[b] = NotSearching
<1>1. ASSUME CatalogueInv, [Next]_vars, NEW b \in Builders, Ends(b)
      PROVE  EndSearch(b)
  <2>1. search[b] \in Search /\ search[b] # search'[b]
    BY <1>1 DEF CatalogueInv, CatalogueTypeOK
  <2>2. ASSUME NEW c \in Builders, NEW t \in Tenants,
               NEW actions \in {{}} \cup {{x} : x \in Asked}, NEW audit \in BOOLEAN,
               StartSearch(c, t, actions, audit)
        PROVE  FALSE
    BY <1>1, <2>2 DEF StartSearch, CatalogueInv, CatalogueTypeOK
  <2>3. ASSUME NEW c \in Builders, ReadNext(c) PROVE FALSE
    <3>1. CASE c = b
      BY <1>1, <2>3, <3>1, ReadKeepsSearch, SearchAssumption
         DEF CatalogueInv, SearchInv
    <3>2. CASE c # b
      <4>1. \A d \in Builders : d # c => search'[d] = search[d]
        BY <1>1, <2>3 DEF ReadNext, CatalogueInv, CatalogueTypeOK
      <4> QED BY <2>1, <3>2, <4>1
    <3> QED BY <3>1, <3>2
  <2>4. ASSUME NEW c \in Builders, EndSearch(c) PROVE c = b
    BY <1>1, <2>1, <2>4 DEF EndSearch, CatalogueInv, CatalogueTypeOK
  <2>5. search' # search
    BY <2>1
  <2> QED BY <1>1, <2>2, <2>3, <2>4, <2>5
          DEF Next, Freeze, RegistryStep, Tick, vars, catalogueVars
<1>2. ASSUME CatalogueInv, [Next]_vars
      PROVE  [\A b \in Builders :
                search[b] # NotSearching /\ search'[b] = NotSearching =>
                  LET s == search[b]
                      wanted == {a \in s.known : Matches(catalog[a], s)}
                      given == {h.asset : h \in Results(b)}
                  IN  /\ wanted \ (IF s.audit THEN {} ELSE withdrawn) \subseteq given
                      /\ given \subseteq wanted \ (IF s.audit THEN {} ELSE s.gone)
                      /\ Len(found'[b].results) = Cardinality(given)
                      /\ \A h \in Results(b) :
                           /\ h.withdrawn => h.asset \in withdrawn
                           /\ h.asset \in s.gone => h.withdrawn]_vars
  BY <1>1, <1>2, ReturnsSound
<1> QED BY CatalogueInvariant, <1>2, PTL DEF Spec, SearchSound

=============================================================================
