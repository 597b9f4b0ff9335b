---------------------------- MODULE LedgerProofs ----------------------------
(***************************************************************************)
(* Theorems about ContributionLedger: the arithmetic of allocations and    *)
(* refunds for any revenue, weights and ratios, and what the ledger keeps. *)
(***************************************************************************)
EXTENDS Statements, SequenceLemmas

-----------------------------------------------------------------------------
(* Lemmas: division                                                        *)

LEMMA Divided ==
    ASSUME NEW a \in Nat, NEW b \in Nat \ {0}
    PROVE  /\ a \div b \in Nat /\ a % b \in Nat
           /\ a % b < b
           /\ a = b * (a \div b) + (a % b)
<1>1. /\ a \div b \in Int
      /\ a % b \in 0..b - 1
      /\ a = b * (a \div b) + (a % b)
  OBVIOUS
<1> DEFINE q == a \div b
           r == a % b
<1> HIDE DEF q, r
<1>2. ASSUME q <= -1 PROVE b * q <= -b
  BY <1>1, <1>2 DEF q
<1>3. q \in Int /\ r \in 0..b - 1 /\ a = b * q + r
  BY <1>1 DEF q, r
<1>4. q >= 0
  <2>1. b * q \in Int
    BY <1>3
  <2> QED BY <1>2, <1>3, <2>1
<1> QED BY <1>1, <1>4 DEF q

LEMMA ProductGrows ==
    ASSUME NEW a \in Nat, NEW b \in Nat \ {0}
    PROVE  a * b >= a /\ a * b \in Nat
OBVIOUS

LEMMA SmallModulus ==
    ASSUME NEW n \in Nat \ {0}, NEW k \in 0..n - 1
    PROVE  k % n = k
<1>1. k \div n \in Nat /\ k % n \in Nat /\ k = n * (k \div n) + (k % n)
  BY Divided
<1> PICK q \in Nat, r \in Nat : q = k \div n /\ r = k % n
  BY <1>1
<1>2. ASSUME q >= 1 PROVE n * q >= n
  BY <1>2
<1>3. q = 0
  BY <1>1, <1>2
<1> QED BY <1>1, <1>3

LEMMA ProductNat ==
    ASSUME NEW a \in Nat, NEW b \in Nat
    PROVE  a * b \in Nat
OBVIOUS

LEMMA HalfEven ==
    ASSUME NEW amount \in Nat, NEW numer \in Nat, NEW denom \in Nat \ {0}
    PROVE  LET cents == RoundHalfEvenCents(amount, numer, denom)
               error == 2 * (cents * denom - amount * numer)
           IN  /\ cents \in Nat
               /\ error \in -denom..denom
               /\ error \in {-denom, denom} => cents % 2 = 0
<1> DEFINE x == amount * numer
           q == x \div denom
           r == x % denom
           cents == RoundHalfEvenCents(amount, numer, denom)
<1>1. x \in Nat
  BY ProductNat
<1>2. q \in Nat /\ r \in Nat /\ r < denom /\ x = denom * q + r
  BY <1>1, Divided
<1>3. cents = IF 2 * r < denom \/ (2 * r = denom /\ q % 2 = 0) THEN q ELSE q + 1
  BY DEF RoundHalfEvenCents
<1> HIDE DEF x, q, r, cents
<1>4. CASE cents = q
  <2>1. 2 * (cents * denom - x) = -(2 * r)
    BY <1>2, <1>4
  <2> QED BY <1>1, <1>2, <1>3, <1>4, <2>1 DEF x, cents
<1>5. CASE cents = q + 1 /\ cents # q
  <2>1. 2 * (cents * denom - x) = 2 * denom - 2 * r
    BY <1>2, <1>5
  <2> QED BY <1>1, <1>2, <1>3, <1>5, <2>1 DEF x, cents
<1> QED BY <1>3, <1>4, <1>5

-----------------------------------------------------------------------------
(* Lemmas: sums of sequences                                               *)

(* f holds the sums of the first elements of s.                            *)
SumsUp(f, s) ==
    /\ f \in [0..Len(s) -> Int]
    /\ f[0] = 0
    /\ \A n \in 1..Len(s) : f[n] = f[n - 1] + s[n]

LEMMA SumsExist ==
    ASSUME NEW s \in Seq(Int)
    PROVE  \E f : SumsUp(f, s)
<1> DEFINE Up(f, m) == /\ f \in [0..m -> Int]
                       /\ f[0] = 0
                       /\ \A n \in 1..m : f[n] = f[n - 1] + s[n]
           S == {m \in 0..Len(s) : \E f : Up(f, m)}
<1>1. Len(s) \in Nat /\ \A n \in 1..Len(s) : s[n] \in Int
  BY LenProperties, ElementOfSeq
<1>2. 0 \in S
  <2>1. Up([n \in 0..0 |-> 0], 0)
    OBVIOUS
  <2>2. 0 \in 0..Len(s)
    BY <1>1
  <2> HIDE DEF Up
  <2>3. \E f : Up(f, 0)
    BY <2>1
  <2> QED BY <2>2, <2>3
<1>3. ASSUME NEW m \in 0..Len(s) - 1, m \in S PROVE m + 1 \in S
  <2>1. PICK f : Up(f, m)
    BY <1>3
  <2> DEFINE g == [n \in 0..m + 1 |-> IF n <= m THEN f[n] ELSE f[m] + s[m + 1]]
  <2>2. g \in [0..m + 1 -> Int]
    BY <1>1, <2>1
  <2>3. g[0] = 0
    BY <2>1
  <2>4. ASSUME NEW n \in 1..m + 1 PROVE g[n] = g[n - 1] + s[n]
    <3>1. CASE n <= m
      BY <2>1, <3>1
    <3>2. CASE n = m + 1
      BY <2>1, <3>2
    <3> QED BY <3>1, <3>2
  <2>5. Up(g, m + 1)
    BY <2>2, <2>3, <2>4
  <2>6. m + 1 \in 0..Len(s)
    BY <1>1
  <2> HIDE DEF Up, g
  <2>7. \E h : Up(h, m + 1)
    BY <2>5
  <2> QED BY <2>6, <2>7
<1> HIDE DEF S
<1>4. \A n \in 0..Len(s) : n \in S
  BY <1>1, <1>2, <1>3, StepByStep
<1>5. Len(s) \in S
  BY <1>1, <1>4
<1> QED BY <1>5 DEF S, SumsUp

LEMMA RunningSumsUp ==
    ASSUME NEW s \in Seq(Int)
    PROVE  SumsUp(RunningSums(s), s)
<1>1. PICK f : SumsUp(f, s)
  BY SumsExist
<1> DEFINE Law(g) == g = [n \in 0..Len(s) |-> IF n = 0 THEN 0 ELSE g[n - 1] + s[n]]
           c == CHOOSE g : Law(g)
<1>2. Len(s) \in Nat
  BY LenProperties
<1>3. Law(f)
  BY <1>1, <1>2 DEF SumsUp
<1>4. c = RunningSums(s)
  BY DEF RunningSums
<1>5. Law(c)
  BY <1>3
<1> HIDE DEF c
<1> DEFINE S == {n \in 0..Len(s) : c[n] = f[n]}
<1>6. 0 \in S
  BY <1>1, <1>2, <1>5 DEF SumsUp
<1>7. ASSUME NEW n \in 0..Len(s) - 1, n \in S PROVE n + 1 \in S
  <2>1. n + 1 \in 1..Len(s) /\ (n + 1) - 1 = n
    BY <1>2
  <2>2. c[n + 1] = c[n] + s[n + 1]
    BY <1>5, <2>1
  <2>3. f[n + 1] = f[n] + s[n + 1]
    BY <1>1, <2>1 DEF SumsUp
  <2> QED BY <1>7, <2>1, <2>2, <2>3
<1>8. \A n \in 0..Len(s) : n \in S
  BY <1>2, <1>6, <1>7, StepByStep
<1>9. c = f
  BY <1>1, <1>5, <1>8 DEF SumsUp
<1> QED BY <1>1, <1>4, <1>9

LEMMA SumIs ==
    ASSUME NEW s \in Seq(Int), NEW f, SumsUp(f, s)
    PROVE  RunningSums(s) = f /\ SumSeq(s) = f[Len(s)] /\ SumSeq(s) \in Int
<1> DEFINE c == RunningSums(s)
           S == {n \in 0..Len(s) : c[n] = f[n]}
<1>1. SumsUp(c, s) /\ Len(s) \in Nat
  BY RunningSumsUp, LenProperties
<1> HIDE DEF c
<1>2. 0 \in S
  BY <1>1 DEF SumsUp
<1>3. ASSUME NEW n \in 0..Len(s) - 1, n \in S PROVE n + 1 \in S
  <2>1. n + 1 \in 1..Len(s) /\ (n + 1) - 1 = n
    BY <1>1
  <2> QED BY <1>1, <1>3, <2>1 DEF SumsUp
<1>4. \A n \in 0..Len(s) : n \in S
  BY <1>1, <1>2, <1>3, StepByStep
<1>5. c = f
  BY <1>1, <1>4 DEF SumsUp
<1> QED BY <1>1, <1>5 DEF c, SumSeq, SumsUp

LEMMA IntLengths ==
    ASSUME NEW s \in Seq(Int)
    PROVE  /\ Len(s) \in Nat /\ DOMAIN s = 1..Len(s)
           /\ \A n \in 1..Len(s) : s[n] \in Int
BY LenProperties, ElementOfSeq

LEMMA Distribute ==
    ASSUME NEW a \in Int, NEW b \in Int, NEW c \in Int
    PROVE  a * (b + c) = a * b + a * c /\ a * b \in Int /\ a * c \in Int
OBVIOUS

LEMMA Regroup ==
    ASSUME NEW a \in Int, NEW b \in Int, NEW c \in Int, NEW d \in Int
    PROVE  (a + b) + (c + d) = (a + c) + (b + d)
OBVIOUS

LEMMA SplitProduct ==
    ASSUME NEW a \in Int, NEW b \in Int, NEW c \in Int
    PROVE  (a + b) * c = c * a + b * c
OBVIOUS

LEMMA SumOfSums ==
    ASSUME NEW s \in Seq(Int), NEW t \in Seq(Int), NEW u \in Seq(Int),
           Len(s) = Len(t), Len(s) = Len(u), \A n \in 1..Len(s) : u[n] = s[n] + t[n]
    PROVE  SumSeq(u) = SumSeq(s) + SumSeq(t)
<1> DEFINE f == RunningSums(s)
           g == RunningSums(t)
           h == [n \in 0..Len(u) |-> f[n] + g[n]]
<1>1. SumsUp(f, s) /\ SumsUp(g, t)
  BY RunningSumsUp
<1>2. /\ SumSeq(s) = f[Len(s)] /\ SumSeq(t) = g[Len(t)]
      /\ Len(s) \in Nat /\ \A n \in 1..Len(s) : s[n] \in Int /\ t[n] \in Int
  BY IntLengths DEF SumSeq
<1> HIDE DEF f, g
<1>3. /\ \A n \in 0..Len(u) : f[n] \in Int /\ g[n] \in Int
      /\ f[0] = 0 /\ g[0] = 0
  BY <1>1 DEF SumsUp
<1>4. h \in [0..Len(u) -> Int] /\ h[0] = 0
  <2>1. \A n \in 0..Len(u) : f[n] + g[n] \in Int
    BY <1>3
  <2>2. 0 \in 0..Len(u) /\ f[0] + g[0] = 0
    BY <1>2, <1>3
  <2> QED BY <2>1, <2>2
<1>5. ASSUME NEW n \in 1..Len(u) PROVE h[n] = h[n - 1] + u[n]
  <2>1. n - 1 \in 0..Len(u) /\ n \in 0..Len(u) /\ n \in 1..Len(s)
    BY <1>2
  <2>2. h[n] = f[n] + g[n] /\ h[n - 1] = f[n - 1] + g[n - 1] /\ u[n] = s[n] + t[n]
    BY <2>1
  <2>3. f[n] = f[n - 1] + s[n] /\ g[n] = g[n - 1] + t[n]
    BY <1>1, <2>1 DEF SumsUp
  <2>4. f[n - 1] \in Int /\ g[n - 1] \in Int /\ s[n] \in Int /\ t[n] \in Int
    BY <1>2, <1>3, <2>1
  <2> HIDE DEF h
  <2>5. PICK x \in Int, y \in Int, p \in Int, q \in Int :
           x = f[n - 1] /\ y = g[n - 1] /\ p = s[n] /\ q = t[n]
    BY <2>4, Zenon
  <2>6. f[n] = x + p /\ g[n] = y + q /\ h[n - 1] = x + y /\ u[n] = p + q
    BY <2>2, <2>3, <2>5, Zenon
  <2>7. (x + p) + (y + q) = (x + y) + (p + q)
    BY Regroup
  <2> QED BY <2>2, <2>6, <2>7, Zenon
<1>6. SumsUp(h, u)
  BY <1>4, <1>5 DEF SumsUp
<1>7. SumSeq(u) = h[Len(u)]
  BY <1>6, SumIs
<1>8. h[Len(u)] = f[Len(s)] + g[Len(t)]
  BY <1>2
<1> QED BY <1>2, <1>7, <1>8

(* The product, under a name that the lemmas below need not expand.        *)
Times(a, b) == a * b

LEMMA TimesLaws ==
    ASSUME NEW a \in Int, NEW b \in Int, NEW c \in Int
    PROVE  Times(a, b) \in Int /\ Times(a, b + c) = Times(a, b) + Times(a, c) /\ Times(a, 0) = 0
BY DEF Times

LEMMA SumScaled ==
    ASSUME NEW s \in Seq(Int), NEW w \in Seq(Int), NEW c \in Int,
           Len(s) = Len(w), \A n \in 1..Len(s) : w[n] = Times(c, s[n])
    PROVE  SumSeq(w) = Times(c, SumSeq(s))
<1> DEFINE f == RunningSums(s)
           h == [n \in 0..Len(w) |-> Times(c, f[n])]
<1>1. SumsUp(f, s) /\ SumSeq(s) = f[Len(s)] /\ Len(s) \in Nat /\ \A n \in 1..Len(s) : s[n] \in Int
  BY RunningSumsUp, IntLengths DEF SumSeq
<1> HIDE DEF f
<1>2. f[0] = 0 /\ \A n \in 0..Len(w) : f[n] \in Int
  BY <1>1 DEF SumsUp
<1>3. h \in [0..Len(w) -> Int]
  BY <1>2, TimesLaws
<1>4. h[0] = 0
  <2>1. Times(c, 0) = 0
    BY TimesLaws
  <2>2. 0 \in 0..Len(w)
    BY <1>1
  <2> QED BY <1>2, <2>1, <2>2
<1>5. ASSUME NEW n \in 1..Len(w) PROVE h[n] = h[n - 1] + w[n]
  <2>1. n - 1 \in 0..Len(w) /\ n \in 0..Len(w) /\ n \in 1..Len(s)
    BY <1>1
  <2>2. h[n] = Times(c, f[n]) /\ h[n - 1] = Times(c, f[n - 1]) /\ w[n] = Times(c, s[n])
    BY <2>1
  <2>3. f[n] = f[n - 1] + s[n]
    BY <1>1, <2>1 DEF SumsUp
  <2>4. f[n - 1] \in Int /\ s[n] \in Int
    BY <1>1, <1>2, <2>1
  <2>5. Times(c, f[n - 1] + s[n]) = Times(c, f[n - 1]) + Times(c, s[n])
    BY <2>4, TimesLaws
  <2> QED BY <2>2, <2>3, <2>5, Zenon
<1>6. SumsUp(h, w)
  BY <1>3, <1>4, <1>5 DEF SumsUp
<1>7. SumSeq(w) = h[Len(w)]
  BY <1>6, SumIs
<1>8. h[Len(w)] = Times(c, f[Len(s)])
  BY <1>1
<1> QED BY <1>1, <1>7, <1>8, Zenon

LEMMA ScaledSeq ==
    ASSUME NEW s \in Seq(Int), NEW c \in Int
    PROVE  \E w \in Seq(Int) : Len(w) = Len(s) /\ \A n \in 1..Len(s) : w[n] = Times(c, s[n])
<1> DEFINE w == [n \in 1..Len(s) |-> Times(c, s[n])]
<1>1. Len(s) \in Nat /\ \A n \in 1..Len(s) : s[n] \in Int
  BY IntLengths
<1>2. w \in [1..Len(s) -> Int]
  BY <1>1, TimesLaws
<1>3. \A n \in 1..Len(s) : w[n] = Times(c, s[n])
  OBVIOUS
<1> HIDE DEF w
<1>4. w \in Seq(Int) /\ Len(w) = Len(s)
  BY <1>1, <1>2, FunctionIsSeq
<1> QED BY <1>3, <1>4

LEMMA SumLinear ==
    ASSUME NEW s \in Seq(Int), NEW t \in Seq(Int), NEW u \in Seq(Int), NEW c \in Int,
           Len(s) = Len(t), Len(s) = Len(u), \A n \in 1..Len(s) : u[n] = c * s[n] + t[n]
    PROVE  SumSeq(u) = c * SumSeq(s) + SumSeq(t)
<1>1. PICK w \in Seq(Int) : Len(w) = Len(s) /\ \A n \in 1..Len(s) : w[n] = Times(c, s[n])
  BY ScaledSeq, Zenon
<1>2. Len(s) = Len(w) /\ Len(w) = Len(t) /\ Len(w) = Len(u)
  BY <1>1, Zenon
<1>3. SumSeq(w) = Times(c, SumSeq(s))
  BY <1>1, <1>2, SumScaled, Zenon
<1>4. SumSeq(u) = SumSeq(w) + SumSeq(t)
  <2>1. ASSUME NEW n \in 1..Len(w) PROVE u[n] = w[n] + t[n]
    BY <1>1, Zenon DEF Times
  <2> QED BY <1>2, <2>1, SumOfSums, Zenon
<1> QED BY <1>3, <1>4, Zenon DEF Times

LEMMA SumPrefix ==
    ASSUME NEW s \in Seq(Int), NEW k \in 0..Len(s)
    PROVE  /\ SubSeq(s, 1, k) \in Seq(Int)
           /\ Len(SubSeq(s, 1, k)) = k
           /\ \A i \in 1..k : SubSeq(s, 1, k)[i] = s[i]
           /\ SumSeq(SubSeq(s, 1, k)) = RunningSums(s)[k]
<1> DEFINE p == SubSeq(s, 1, k)
           f == RunningSums(s)
           g == [n \in 0..k |-> f[n]]
<1>1. SumsUp(f, s) /\ Len(s) \in Nat
  BY RunningSumsUp, IntLengths
<1> HIDE DEF f
<1>2. p \in Seq(Int) /\ Len(p) = k /\ \A i \in 1..k : p[i] = s[i]
  BY <1>1, SubSeqProperties, IntLengths
<1> HIDE DEF p
<1>3. SumsUp(g, p)
  <2>1. g \in [0..Len(p) -> Int] /\ g[0] = 0
    <3>1. f[0] = 0 /\ 0 \in 0..k /\ \A n \in 0..k : f[n] \in Int
      BY <1>1 DEF SumsUp
    <3> QED BY <1>2, <3>1
  <2>2. ASSUME NEW n \in 1..Len(p) PROVE g[n] = g[n - 1] + p[n]
    <3>1. n \in 0..k /\ n - 1 \in 0..k /\ n \in 1..k /\ n \in 1..Len(s)
      BY <1>1, <1>2
    <3> QED BY <1>1, <1>2, <3>1 DEF SumsUp
  <2> QED BY <2>1, <2>2 DEF SumsUp
<1>4. SumSeq(p) = g[Len(p)]
  BY <1>2, <1>3, SumIs
<1>5. k \in 0..k
  BY <1>1
<1> QED BY <1>2, <1>4, <1>5 DEF p, f

LEMMA SumsGrow ==
    ASSUME NEW s \in Seq(Int), \A i \in 1..Len(s) : s[i] >= 0,
           NEW n \in 0..Len(s), NEW m \in n..Len(s)
    PROVE  RunningSums(s)[n] <= RunningSums(s)[m]
<1> DEFINE f == RunningSums(s)
           S == {d \in 0..Len(s) - n : f[n] <= f[n + d]}
<1>1. SumsUp(f, s) /\ Len(s) \in Nat /\ \A i \in 1..Len(s) : s[i] \in Int
  BY RunningSumsUp, IntLengths
<1> HIDE DEF f
<1>2. 0 \in S
  <2>1. f[n] \in Int
    BY <1>1 DEF SumsUp
  <2>2. n + 0 = n /\ 0 \in 0..Len(s) - n
    BY <1>1
  <2> QED BY <2>1, <2>2
<1>3. ASSUME NEW d \in 0..(Len(s) - n) - 1, d \in S PROVE d + 1 \in S
  <2>1. n + d \in 0..Len(s) /\ n + d + 1 \in 1..Len(s) /\ (n + d + 1) - 1 = n + d
    BY <1>1
  <2>2. f[n + d + 1] = f[n + d] + s[n + d + 1]
    BY <1>1, <2>1 DEF SumsUp
  <2>3. f[n + d] \in Int /\ f[n] \in Int /\ s[n + d + 1] \in Int /\ s[n + d + 1] >= 0
    BY <1>1, <2>1 DEF SumsUp
  <2> QED BY <1>1, <1>3, <2>1, <2>2, <2>3
<1> HIDE DEF S
<1>4. \A d \in 0..Len(s) - n : d \in S
  <2>1. Len(s) - n \in Nat
    BY <1>1
  <2> QED BY <1>2, <1>3, <2>1, StepByStep
<1>5. m - n \in 0..Len(s) - n /\ n + (m - n) = m
  BY <1>1
<1> QED BY <1>4, <1>5 DEF S, f

(* Nothing follows a prefix that adds up to the whole but zeros.           *)
LEMMA SumTail ==
    ASSUME NEW s \in Seq(Int), \A i \in 1..Len(s) : s[i] >= 0, NEW k \in 0..Len(s)
    PROVE  /\ 0 <= RunningSums(s)[k]
           /\ RunningSums(s)[k] \in Int
           /\ RunningSums(s)[k] <= SumSeq(s)
           /\ RunningSums(s)[k] = SumSeq(s) => \A i \in k + 1..Len(s) : s[i] = 0
<1> DEFINE f == RunningSums(s)
<1>1. SumsUp(f, s) /\ Len(s) \in Nat /\ \A i \in 1..Len(s) : s[i] \in Int
  BY RunningSumsUp, IntLengths
<1>2. \A n \in 0..Len(s) : \A m \in n..Len(s) : f[n] <= f[m]
  BY SumsGrow
<1>3. SumSeq(s) = f[Len(s)]
  BY DEF SumSeq
<1> HIDE DEF f
<1>4. 0 <= f[k] /\ f[k] <= f[Len(s)] /\ f[k] \in Int /\ f[Len(s)] \in Int
  <2>1. k \in 0..Len(s) /\ Len(s) \in k..Len(s) /\ 0 \in 0..Len(s) /\ Len(s) \in 0..Len(s)
    BY <1>1
  <2>2. f[k] <= f[Len(s)] /\ f[0] <= f[k]
    BY <1>2, <2>1
  <2> QED BY <1>1, <2>1, <2>2 DEF SumsUp
<1>5. ASSUME f[k] = f[Len(s)], NEW i \in k + 1..Len(s) PROVE s[i] = 0
  <2>1. k \in 0..Len(s) /\ i - 1 \in k..Len(s) /\ i \in 0..Len(s) /\ Len(s) \in i..Len(s) /\ i \in 1..Len(s)
        /\ i - 1 \in 0..Len(s)
    BY <1>1
  <2>2. f[k] <= f[i - 1] /\ f[i] <= f[Len(s)]
    BY <1>2, <2>1
  <2>3. f[i] = f[i - 1] + s[i] /\ f[i - 1] \in Int /\ s[i] \in Int /\ s[i] >= 0
    BY <1>1, <2>1 DEF SumsUp
  <2> QED BY <1>4, <1>5, <2>2, <2>3
<1> QED BY <1>3, <1>4, <1>5 DEF f

LEMMA SumBelow ==
    ASSUME NEW s \in Seq(Int), NEW b \in Int, \A i \in 1..Len(s) : s[i] <= b
    PROVE  SumSeq(s) <= b * Len(s)
<1> DEFINE f == RunningSums(s)
           S == {n \in 0..Len(s) : f[n] <= b * n}
<1>1. SumsUp(f, s) /\ Len(s) \in Nat /\ \A i \in 1..Len(s) : s[i] \in Int
  BY RunningSumsUp, IntLengths
<1> HIDE DEF f
<1>2. 0 \in S
  BY <1>1 DEF SumsUp
<1>3. ASSUME NEW n \in 0..Len(s) - 1, n \in S PROVE n + 1 \in S
  <2>1. n \in 0..Len(s) /\ n + 1 \in 1..Len(s) /\ (n + 1) - 1 = n
    BY <1>1
  <2>2. f[n + 1] = f[n] + s[n + 1] /\ f[n] \in Int /\ s[n + 1] \in Int /\ s[n + 1] <= b
    BY <1>1, <2>1 DEF SumsUp
  <2>3. b * (n + 1) = b * n + b /\ b * n \in Int
    BY <1>1
  <2> QED BY <1>3, <2>1, <2>2, <2>3
<1> HIDE DEF S
<1>4. \A n \in 0..Len(s) : n \in S
  BY <1>1, <1>2, <1>3, StepByStep
<1>5. Len(s) \in S
  BY <1>1, <1>4
<1> QED BY <1>5 DEF S, f, SumSeq

(* A sequence of ones and zeros adds up to the number of ones.             *)
LEMMA SumOfOnes ==
    ASSUME NEW n \in Nat, NEW T \in SUBSET (1..n)
    PROVE  /\ [i \in 1..n |-> IF i \in T THEN 1 ELSE 0] \in Seq(Int)
           /\ Len([i \in 1..n |-> IF i \in T THEN 1 ELSE 0]) = n
           /\ SumSeq([i \in 1..n |-> IF i \in T THEN 1 ELSE 0]) = Cardinality(T)
<1> DEFINE u == [i \in 1..n |-> IF i \in T THEN 1 ELSE 0]
           f == [m \in 0..n |-> Cardinality({i \in T : i <= m})]
<1>1. u \in Seq(Int) /\ Len(u) = n
  OBVIOUS
<1>0. \A i \in T : i \in Int /\ i >= 1 /\ i <= n
  OBVIOUS
<1>2. \A m \in 0..n : IsFiniteSet({i \in T : i <= m}) /\ Cardinality({i \in T : i <= m}) \in Nat
  <2> TAKE m \in 0..n
  <2>1. IsFiniteSet({i \in T : i <= m})
    <3>1. {i \in T : i <= m} \subseteq 1..n
      BY <1>0
    <3>2. {i \in T : i <= m} \in SUBSET (1..n) /\ IsFiniteSet(1..n)
      BY <3>1, FS_Interval
    <3> HIDE DEF f, u
    <3> QED BY <3>2, FS_Subset
  <2> QED BY <2>1, FS_CardinalityType
<1>3. f[0] = 0
  <2>1. {i \in T : i <= 0} = {}
    <3>1. \A i \in T : ~(i <= 0)
      BY <1>0
    <3> QED BY <3>1
  <2> QED BY <2>1, FS_EmptySet
<1>4. ASSUME NEW m \in 1..n PROVE f[m] = f[m - 1] + u[m]
  <2>1. m - 1 \in 0..n /\ m \in 0..n
    OBVIOUS
  <2>2. CASE m \in T
    <3>1. {i \in T : i <= m} = {i \in T : i <= m - 1} \cup {m} /\ m \notin {i \in T : i <= m - 1}
      <4>1. \A i \in T : i <= m <=> i <= m - 1 \/ i = m
        BY <1>0
      <4>2. ~(m <= m - 1)
        OBVIOUS
      <4> QED BY <2>2, <4>1, <4>2
    <3>2. Cardinality({i \in T : i <= m}) = Cardinality({i \in T : i <= m - 1}) + 1
      BY <1>2, <2>1, <3>1, FS_AddElement
    <3> QED BY <2>1, <2>2, <3>2
  <2>3. CASE m \notin T
    <3>1. {i \in T : i <= m} = {i \in T : i <= m - 1}
      <4>1. \A i \in T : i <= m <=> i <= m - 1
        <5>1. \A i \in T : i # m
          BY <2>3
        <5> QED BY <1>0, <5>1
      <4> QED BY <4>1
    <3>2. Cardinality({i \in T : i <= m - 1}) \in Nat
      BY <1>2, <2>1
    <3> QED BY <2>1, <2>3, <3>1, <3>2
  <2> QED BY <2>2, <2>3
<1>5. SumsUp(f, u)
  <2>1. f \in [0..Len(u) -> Int]
    BY <1>1, <1>2
  <2> QED BY <1>1, <1>3, <1>4, <2>1 DEF SumsUp
<1>6. SumSeq(u) = f[n]
  <2> HIDE DEF f, u
  <2> QED BY <1>1, <1>5, SumIs
<1>7. {i \in T : i <= n} = T
  BY <1>0
<1>8. f[n] = Cardinality({i \in T : i <= n})
  OBVIOUS
<1> QED BY <1>1, <1>6, <1>7, <1>8

-----------------------------------------------------------------------------
(* Lemmas: allocate_cents()                                                *)

Leftover(revenue, weights) == revenue - SumSeq(Floors(revenue, weights))

LEMMA ZeroSum ==
    ASSUME NEW n \in Nat
    PROVE  /\ [i \in 1..n |-> 0] \in Seq(Int) /\ Len([i \in 1..n |-> 0]) = n
           /\ SumSeq([i \in 1..n |-> 0]) = 0
<1> DEFINE z == [i \in 1..n |-> 0]
           f == [m \in 0..n |-> 0]
<1>1. z \in Seq(Int) /\ Len(z) = n
  OBVIOUS
<1>2. SumsUp(f, z)
  BY <1>1 DEF SumsUp
<1>3. f[n] = 0
  OBVIOUS
<1> HIDE DEF f, z
<1>4. SumSeq(z) = f[Len(z)]
  BY <1>1, <1>2, SumIs
<1> QED BY <1>1, <1>3, <1>4 DEF z

LEMMA Division ==
    ASSUME NEW revenue \in Nat, NEW weights \in Seq(Nat)
    PROVE  /\ Len(weights) \in Nat /\ DOMAIN weights = 1..Len(weights)
           /\ Floors(revenue, weights) \in Seq(Int) /\ Len(Floors(revenue, weights)) = Len(weights)
           /\ Remainders(revenue, weights) \in Seq(Int)
           /\ Len(Remainders(revenue, weights)) = Len(weights)
           /\ Remainders(revenue, weights) \in [1..Len(weights) -> Int]
           /\ \A i \in 1..Len(weights) :
                /\ weights[i] \in Nat
                /\ Floors(revenue, weights)[i] \in Nat
                /\ Remainders(revenue, weights)[i] \in Nat
                /\ Remainders(revenue, weights)[i] < BasisPointsTotal
                /\ revenue * weights[i] = BasisPointsTotal * Floors(revenue, weights)[i]
                                            + Remainders(revenue, weights)[i]
<1> DEFINE F == Floors(revenue, weights)
           M == Remainders(revenue, weights)
<1>1. Len(weights) \in Nat /\ DOMAIN weights = 1..Len(weights)
      /\ \A i \in 1..Len(weights) : weights[i] \in Nat
  BY LenProperties, ElementOfSeq
<1>2. ASSUME NEW i \in 1..Len(weights)
      PROVE  /\ F[i] \in Nat /\ M[i] \in Nat /\ M[i] < BasisPointsTotal
             /\ revenue * weights[i] = BasisPointsTotal * F[i] + M[i]
  <2>1. F[i] = (revenue * weights[i]) \div BasisPointsTotal
        /\ M[i] = (revenue * weights[i]) % BasisPointsTotal
    BY <1>1 DEF Floors, Remainders
  <2>2. revenue * weights[i] \in Nat
    BY <1>1, ProductNat
  <2> QED BY <2>1, <2>2, Divided, TotalAssumption
<1>3. F \in [1..Len(weights) -> Int] /\ M \in [1..Len(weights) -> Int]
  <2>1. DOMAIN F = 1..Len(weights) /\ DOMAIN M = 1..Len(weights)
        /\ F = [i \in 1..Len(weights) |-> F[i]] /\ M = [i \in 1..Len(weights) |-> M[i]]
    BY <1>1 DEF Floors, Remainders
  <2> HIDE DEF F, M
  <2> QED BY <1>2, <2>1
<1> HIDE DEF F, M
<1>4. F \in Seq(Int) /\ Len(F) = Len(weights) /\ M \in Seq(Int) /\ Len(M) = Len(weights)
  BY <1>1, <1>3, FunctionIsSeq
<1> QED BY <1>1, <1>2, <1>3, <1>4 DEF F, M

(* The leftover is what the remainders make up, less than a cent each.     *)
LEMMA LeftoverFits ==
    ASSUME NEW revenue \in Nat, NEW weights \in Seq(Nat), ValidWeights(weights)
    PROVE  /\ Len(weights) # 0
           /\ SumSeq(Floors(revenue, weights)) \in Int
           /\ Leftover(revenue, weights) \in 0..Len(weights) - 1
<1> DEFINE F == Floors(revenue, weights)
           M == Remainders(revenue, weights)
           n == Len(weights)
           B == BasisPointsTotal
           p == [i \in 1..n |-> revenue * weights[i]]
           z == [i \in 1..n |-> 0]
<1>1. /\ n \in Nat /\ F \in Seq(Int) /\ Len(F) = n /\ M \in Seq(Int) /\ Len(M) = n
      /\ \A i \in 1..n : weights[i] \in Nat /\ M[i] \in Nat /\ M[i] < B
                         /\ revenue * weights[i] = B * F[i] + M[i]
  BY Division
<1>2. weights \in Seq(Int) /\ SumSeq(weights) = B /\ B \in Nat \ {0} /\ n # 0
  <2>1. weights \in Seq(Int) /\ weights # <<>> /\ SumSeq(weights) = B /\ B \in Nat \ {0}
    BY TotalAssumption DEF ValidWeights
  <2> QED BY <2>1, EmptySeq
<1>3. p \in Seq(Int) /\ Len(p) = n /\ \A i \in 1..n : p[i] = revenue * weights[i]
  <2>1. \A i \in 1..n : revenue * weights[i] \in Int
    BY <1>1, ProductNat
  <2> QED BY <1>1, <2>1
<1>4. z \in Seq(Int) /\ Len(z) = n /\ SumSeq(z) = 0 /\ \A i \in 1..n : z[i] = 0
  BY <1>1, ZeroSum
<1> HIDE DEF F, M, p, z, n
<1>5. SumSeq(p) = revenue * B
  <2>1. \A i \in 1..Len(weights) : p[i] = revenue * weights[i] + z[i]
    <3> TAKE i \in 1..Len(weights)
    <3>1. revenue * weights[i] \in Int
      BY <1>1, ProductNat DEF n
    <3> QED BY <1>3, <1>4, <3>1 DEF n
  <2>2. SumSeq(p) = revenue * SumSeq(weights) + SumSeq(z)
    <3>1. revenue \in Int /\ Len(weights) = Len(z) /\ Len(weights) = Len(p)
      BY <1>3, <1>4 DEF n
    <3> QED BY <1>2, <1>3, <1>4, <2>1, <3>1, SumLinear, Zenon
  <2>3. revenue * B \in Int
    BY <1>2
  <2> QED BY <1>2, <1>4, <2>2, <2>3
<1>6. SumSeq(p) = B * SumSeq(F) + SumSeq(M)
  <2>1. \A i \in 1..Len(F) : p[i] = B * F[i] + M[i]
    BY <1>1, <1>3
  <2>2. B \in Int /\ Len(F) = Len(M) /\ Len(F) = Len(p)
    BY <1>1, <1>2, <1>3
  <2> QED BY <1>1, <1>3, <2>1, <2>2, SumLinear, Zenon
<1>7. SumSeq(F) \in Int /\ SumSeq(M) \in Int
  BY <1>1, RunningSumsUp, SumIs
<1>8. 0 <= SumSeq(M)
  <2>1. \A i \in 1..Len(M) : M[i] >= 0
    BY <1>1
  <2>2. 0 \in 0..Len(M)
    BY <1>1
  <2>3. 0 <= RunningSums(M)[0] /\ RunningSums(M)[0] <= SumSeq(M) /\ RunningSums(M)[0] \in Int
    BY <1>1, <2>1, <2>2, SumTail
  <2> QED BY <1>7, <2>3
<1>9. SumSeq(M) <= (B - 1) * n
  <2>1. \A i \in 1..Len(M) : M[i] <= B - 1
    BY <1>1, <1>2
  <2>2. B - 1 \in Int
    BY <1>2
  <2> QED BY <1>1, <2>1, <2>2, SumBelow
<1>10. B * (revenue - SumSeq(F)) = SumSeq(M)
  <2> PICK f \in Int, m \in Int : f = SumSeq(F) /\ m = SumSeq(M)
    BY <1>7
  <2>1. revenue * B = B * f + m
    BY <1>5, <1>6
  <2>2. B * (revenue - f) = revenue * B - B * f
    BY <1>2
  <2>3. B * f \in Int /\ revenue * B \in Int
    BY <1>2
  <2> QED BY <2>1, <2>2, <2>3
<1>11. ASSUME NEW L \in Int, 0 <= B * L, B * L <= (B - 1) * n PROVE L \in 0..n - 1
  <2>1. ASSUME L < 0 PROVE FALSE
    <3>1. B * L <= -B
      BY <1>2, <2>1
    <3> QED BY <1>2, <1>11, <3>1
  <2>2. ASSUME L >= n PROVE FALSE
    <3>1. B * L >= B * n /\ (B - 1) * n = B * n - n /\ B * n \in Int /\ B * L \in Int
      BY <1>1, <1>2, <2>2
    <3>2. PICK x \in Int, y \in Int : x = B * L /\ y = B * n
      BY <3>1
    <3>3. x <= y - n /\ x >= y /\ n > 0
      BY <1>1, <1>2, <1>11, <3>1, <3>2
    <3> QED BY <1>1, <3>2, <3>3
  <2> QED BY <1>1, <2>1, <2>2
<1>12. revenue - SumSeq(F) \in 0..n - 1
  BY <1>7, <1>8, <1>9, <1>10, <1>11
<1> QED BY <1>2, <1>7, <1>12 DEF Leftover, F, n

(* The first in the order get a leftover cent each.                        *)
Keys(revenue, weights) == HandoutKeys(Remainders(revenue, weights))

Gets(revenue, weights, i) == Rank(Keys(revenue, weights), i) < Leftover(revenue, weights)

LEMMA KeysTyped ==
    ASSUME NEW revenue \in Nat, NEW weights \in Seq(Nat)
    PROVE  /\ Keys(revenue, weights) \in [1..Len(weights) -> Int]
           /\ \A i \in 1..Len(weights) :
                Keys(revenue, weights)[i] = -Remainders(revenue, weights)[i]
<1> DEFINE M == Remainders(revenue, weights)
<1>1. M \in [1..Len(weights) -> Int]
  BY Division
<1> HIDE DEF M
<1>2. /\ HandoutKeys(M) \in [1..Len(weights) -> Int]
      /\ \A i \in 1..Len(weights) : HandoutKeys(M)[i] = -M[i]
  BY <1>1 DEF HandoutKeys
<1> QED BY <1>2 DEF Keys, M

LEMMA AllocationOf ==
    ASSUME NEW revenue \in Nat, NEW weights \in Seq(Nat), ValidWeights(weights)
    PROVE  /\ AllocateCents(revenue, weights) \in Seq(Nat)
           /\ Len(AllocateCents(revenue, weights)) = Len(weights)
           /\ \A i \in 1..Len(weights) :
                AllocateCents(revenue, weights)[i]
                  = Floors(revenue, weights)[i] + (IF Gets(revenue, weights, i) THEN 1 ELSE 0)
<1> DEFINE F == Floors(revenue, weights)
           K == Keys(revenue, weights)
           n == Len(weights)
           L == Leftover(revenue, weights)
           A == AllocateCents(revenue, weights)
           Turns(i) == {k \in 0..L - 1 : k % n = Rank(K, i)}
<1>1. /\ n \in Nat /\ n # 0 /\ L \in 0..n - 1 /\ DOMAIN weights = 1..n
      /\ K \in [1..n -> Int] /\ \A i \in 1..n : F[i] \in Nat
  BY Division, KeysTyped, LeftoverFits
<1>2. A = [i \in 1..n |-> F[i] + Cardinality(Turns(i))]
  BY <1>1 DEF AllocateCents, Leftover, Keys
<1>3. \A i \in 1..n : Rank(K, i) \in 0..n - 1
  BY <1>1, RankRange
<1>4. ASSUME NEW i \in 1..n
      PROVE  Cardinality(Turns(i)) = IF Gets(revenue, weights, i) THEN 1 ELSE 0
  <2>1. \A k \in 0..L - 1 : k % n = k
    <3> TAKE k \in 0..L - 1
    <3>1. k \in 0..n - 1 /\ n \in Nat \ {0}
      BY <1>1
    <3> HIDE DEF n, L
    <3> QED BY <3>1, SmallModulus
  <2>2. CASE Rank(K, i) < L
    <3>1. Turns(i) = {Rank(K, i)}
      BY <1>1, <1>3, <2>1, <2>2
    <3> QED BY <2>2, <3>1, FS_Singleton DEF Gets
  <2>3. CASE ~(Rank(K, i) < L)
    <3>1. Turns(i) = {}
      BY <1>1, <1>3, <2>1, <2>3
    <3> QED BY <2>3, <3>1, FS_EmptySet DEF Gets
  <2> QED BY <2>2, <2>3
<1> HIDE DEF F, K, n, L, A, Turns
<1>5. \A i \in 1..n : A[i] = F[i] + (IF Gets(revenue, weights, i) THEN 1 ELSE 0)
  BY <1>2, <1>4
<1>6. A \in [1..n -> Nat]
  <2>1. \A i \in 1..n : F[i] + Cardinality(Turns(i)) \in Nat
    BY <1>1, <1>4
  <2> QED BY <1>2, <2>1
<1>7. A \in Seq(Nat) /\ Len(A) = n
  BY <1>1, <1>6, FunctionIsSeq
<1> QED BY <1>5, <1>7 DEF A, F, n

(* Not a cent is lost or made up.                                          *)
LEMMA AllocationExact ==
    ASSUME NEW revenue \in Nat, NEW weights \in Seq(Nat), ValidWeights(weights)
    PROVE  SumSeq(AllocateCents(revenue, weights)) = revenue
<1> DEFINE F == Floors(revenue, weights)
           K == Keys(revenue, weights)
           n == Len(weights)
           L == Leftover(revenue, weights)
           A == AllocateCents(revenue, weights)
           T == {i \in 1..n : Rank(K, i) < L}
           e == [i \in 1..n |-> IF i \in T THEN 1 ELSE 0]
<1>1. /\ n \in Nat /\ n # 0 /\ L \in 0..n - 1 /\ L = revenue - SumSeq(F) /\ SumSeq(F) \in Int
      /\ K \in [1..n -> Int] /\ F \in Seq(Int) /\ Len(F) = n /\ \A i \in 1..n : F[i] \in Nat
  BY Division, KeysTyped, LeftoverFits DEF Leftover
<1>2. A \in Seq(Nat) /\ Len(A) = n
      /\ \A i \in 1..n : A[i] = F[i] + (IF i \in T THEN 1 ELSE 0)
  BY AllocationOf DEF Gets
<1>3. Cardinality(T) = L
  <2>1. L \in 0..n
    BY <1>1
  <2> QED BY <1>1, <2>1, FirstPlaces
<1>4. e \in Seq(Int) /\ Len(e) = n /\ SumSeq(e) = Cardinality(T)
  BY <1>1, SumOfOnes
<1>5. \A i \in 1..n : e[i] = IF i \in T THEN 1 ELSE 0
  OBVIOUS
<1>6. A \in Seq(Int)
  BY <1>2
<1> HIDE DEF F, K, n, L, A, T, e
<1>7. SumSeq(A) = 1 * SumSeq(F) + SumSeq(e)
  <2>1. \A i \in 1..Len(F) : A[i] = 1 * F[i] + e[i]
    <3> TAKE i \in 1..Len(F)
    <3>1. i \in 1..n /\ F[i] \in Nat
      BY <1>1
    <3>2. e[i] = (IF i \in T THEN 1 ELSE 0) /\ A[i] = F[i] + (IF i \in T THEN 1 ELSE 0)
      BY <1>2, <1>5, <3>1
    <3>3. A[i] = F[i] + e[i] /\ 1 * F[i] = F[i]
      BY <3>1, <3>2
    <3> QED BY <3>3
  <2>2. 1 \in Int /\ Len(F) = Len(e) /\ Len(F) = Len(A)
    BY <1>1, <1>2, <1>4
  <2> QED BY <1>1, <1>4, <1>6, <2>1, <2>2, SumLinear, Zenon
<1>8. SumSeq(A) = revenue
  BY <1>1, <1>3, <1>4, <1>7
<1> QED BY <1>8 DEF A

(* The least by which two elements can be out of proportion.               *)
LEMMA AllocationFair ==
    ASSUME NEW revenue \in Nat, NEW weights \in Seq(Nat), ValidWeights(weights),
           NEW i \in 1..Len(weights), NEW j \in 1..Len(weights)
    PROVE  LET above(k) == AllocateCents(revenue, weights)[k] * BasisPointsTotal
                             - revenue * weights[k]
           IN  \/ above(i) - above(j) < BasisPointsTotal
               \/ above(i) - above(j) = BasisPointsTotal /\ i < j
<1> DEFINE F == Floors(revenue, weights)
           M == Remainders(revenue, weights)
           K == Keys(revenue, weights)
           n == Len(weights)
           L == Leftover(revenue, weights)
           A == AllocateCents(revenue, weights)
           B == BasisPointsTotal
           above(k) == A[k] * B - revenue * weights[k]
           cent(k) == IF Rank(K, k) < L THEN 1 ELSE 0
<1>1. /\ n \in Nat /\ L \in 0..n - 1 /\ K \in [1..n -> Int] /\ B \in Nat \ {0}
      /\ \A k \in 1..n : F[k] \in Nat /\ M[k] \in Nat /\ M[k] < B /\ K[k] = -M[k]
                         /\ revenue * weights[k] = B * F[k] + M[k]
      /\ \A k \in 1..n : A[k] = F[k] + cent(k) /\ cent(k) \in {0, 1}
  <2>1. \A k \in 1..n : A[k] = F[k] + cent(k)
    BY AllocationOf DEF Gets
  <2>2. /\ n \in Nat
        /\ \A k \in 1..n : F[k] \in Nat /\ M[k] \in Nat /\ M[k] < B
                           /\ revenue * weights[k] = B * F[k] + M[k]
    BY Division
  <2>4. K \in [1..n -> Int] /\ \A k \in 1..n : K[k] = -M[k]
    BY KeysTyped
  <2>3. L \in 0..n - 1 /\ B \in Nat \ {0}
    BY LeftoverFits, TotalAssumption
  <2> HIDE DEF F, M, K, n, L, A
  <2> QED BY <2>1, <2>2, <2>3, <2>4
<1>2. \A k \in 1..n : Rank(K, k) \in 0..n - 1
  BY <1>1, RankRange
<1> HIDE DEF F, M, K, n, L, A
<1>3. \A k \in 1..n : above(k) = cent(k) * B - M[k]
  <2> TAKE k \in 1..n
  <2> PICK a \in Int, f \in Int, m \in Int, c \in Int : a = A[k] /\ f = F[k] /\ m = M[k] /\ c = cent(k)
    <3> HIDE DEF cent
    <3>1. F[k] \in Int /\ M[k] \in Int /\ cent(k) \in Int /\ A[k] = F[k] + cent(k)
      BY <1>1
    <3>2. A[k] \in Int
      BY <3>1
    <3> QED BY <3>1, <3>2
  <2>1. a = f + c /\ revenue * weights[k] = B * f + m
    BY <1>1
  <2>4. B \in Int
    BY <1>1
  <2>2. (f + c) * B = B * f + c * B
    BY <2>4, SplitProduct
  <2>3. B * f \in Int /\ c * B \in Int
    BY <2>4, Distribute
  <2> QED BY <2>1, <2>2, <2>3
<1>4. i \in 1..n /\ j \in 1..n
  BY DEF n
<1>5. /\ K[i] = -M[i] /\ K[j] = -M[j]
      /\ M[i] \in Nat /\ M[i] < B /\ M[j] \in Nat /\ M[j] < B /\ B \in Nat
  BY <1>1, <1>4
<1>7. /\ above(i) = IF Rank(K, i) < L THEN B - M[i] ELSE -M[i]
      /\ above(j) = IF Rank(K, j) < L THEN B - M[j] ELSE -M[j]
  <2>1. above(i) = cent(i) * B - M[i] /\ above(j) = cent(j) * B - M[j]
    BY <1>3, <1>4
  <2>2. 1 * B = B /\ 0 * B = 0
    BY <1>5
  <2> HIDE DEF above
  <2> QED BY <1>5, <2>1, <2>2
<1> HIDE DEF above
<1>6. above(i) - above(j) < B \/ (above(i) - above(j) = B /\ i < j)
  <2>1. CASE Rank(K, i) < L /\ ~(Rank(K, j) < L)
    <3>1. ~(Rank(K, j) < Rank(K, i)) /\ i # j
      <4>1. Rank(K, i) \in Int /\ Rank(K, j) \in Int /\ L \in Int
        BY <1>1, <1>2, <1>4
      <4> QED BY <2>1, <4>1
    <3>2. ~Ahead(K, j, i)
      BY <1>1, <1>4, <3>1, RankOrders
    <3>3. M[i] > M[j] \/ (M[i] = M[j] /\ i < j)
      <4>1. ~(K[j] < K[i]) /\ (K[j] # K[i] \/ ~(j < i))
        BY <3>2 DEF Ahead
      <4>2. i \in Nat /\ j \in Nat /\ i # j
        BY <1>1, <1>4, <3>1
      <4> QED BY <1>5, <4>1, <4>2
    <3>4. above(i) = B - M[i] /\ above(j) = -M[j]
      BY <1>7, <2>1
    <3> QED BY <1>5, <3>3, <3>4
  <2>2. CASE ~(Rank(K, i) < L) \/ Rank(K, j) < L
    <3>1. above(i) - above(j) < B
      <4>3. PICK x \in Nat, y \in Nat : x = M[i] /\ y = M[j]
        BY <1>5
      <4>4. x < B /\ y < B /\ B \in Nat
        BY <1>5, <4>3
      <4>1. CASE ~(Rank(K, i) < L)
        <5>1. above(i) = -x
          BY <1>7, <4>1, <4>3
        <5>2. above(j) = -y \/ above(j) = B - y
          BY <1>7, <4>3
        <5> QED BY <4>4, <5>1, <5>2
      <4>2. CASE Rank(K, i) < L
        <5>1. above(i) = B - x /\ above(j) = B - y
          BY <1>7, <2>2, <4>2, <4>3
        <5> QED BY <4>4, <5>1
      <4> QED BY <4>1, <4>2
    <3> QED BY <3>1
  <2> QED BY <2>1, <2>2
<1> QED BY <1>6 DEF above, A

LEMMA ZeroTail ==
    ASSUME NEW s \in Seq(Int), NEW k \in 0..Len(s), \A i \in k + 1..Len(s) : s[i] = 0
    PROVE  RunningSums(s)[k] = SumSeq(s)
<1> DEFINE f == RunningSums(s)
           g == [m \in 0..Len(s) |-> IF m <= k THEN f[m] ELSE f[k]]
<1>1. SumsUp(f, s) /\ Len(s) \in Nat
  BY RunningSumsUp, IntLengths
<1> HIDE DEF f
<1>2. SumsUp(g, s)
  <2>3. f[0] = 0 /\ \A m \in 0..Len(s) : f[m] \in Int
    BY <1>1 DEF SumsUp
  <2>1. g \in [0..Len(s) -> Int] /\ g[0] = 0
    BY <1>1, <2>3
  <2>2. ASSUME NEW m \in 1..Len(s) PROVE g[m] = g[m - 1] + s[m]
    <3>1. m \in 0..Len(s) /\ m - 1 \in 0..Len(s) /\ f[m - 1] \in Int /\ f[k] \in Int
      BY <1>1, <2>3
    <3>2. CASE m <= k
      BY <1>1, <3>1, <3>2 DEF SumsUp
    <3>3. CASE ~(m <= k)
      <4>1. s[m] = 0 /\ g[m] = f[k]
        BY <1>1, <3>1, <3>3
      <4>2. g[m - 1] = f[k]
        <5>1. CASE m - 1 = k
          BY <3>1, <5>1
        <5>2. CASE m - 1 # k
          BY <3>1, <3>3, <5>2
        <5> QED BY <5>1, <5>2
      <4> QED BY <3>1, <4>1, <4>2
    <3> QED BY <3>2, <3>3
  <2> QED BY <2>1, <2>2 DEF SumsUp
<1>3. g[Len(s)] = f[k]
  <2>1. CASE Len(s) = k
    BY <1>1, <2>1
  <2>2. CASE Len(s) # k
    BY <1>1, <2>2
  <2> QED BY <2>1, <2>2
<1> HIDE DEF g
<1>4. SumSeq(s) = g[Len(s)]
  BY <1>2, SumIs
<1> QED BY <1>3, <1>4 DEF f

(* Contributions that follow a whole get nothing, and change nothing for   *)
(* those before them.                                                      *)
LEMMA AllocationOfPrefix ==
    ASSUME NEW revenue \in Nat, NEW weights \in Seq(Nat), ValidWeights(weights),
           NEW k \in 1..Len(weights), SumSeq(SubSeq(weights, 1, k)) = BasisPointsTotal
    PROVE  LET prefix == SubSeq(weights, 1, k)
           IN  /\ prefix \in Seq(Nat) /\ Len(prefix) = k /\ ValidWeights(prefix)
               /\ \A i \in 1..k : prefix[i] = weights[i]
               /\ \A i \in 1..k :
                    AllocateCents(revenue, prefix)[i] = AllocateCents(revenue, weights)[i]
<1> DEFINE n == Len(weights)
           v == SubSeq(weights, 1, k)
           B == BasisPointsTotal
           F == Floors(revenue, weights)
           M == Remainders(revenue, weights)
           G == Floors(revenue, v)
           N == Remainders(revenue, v)
           K == Keys(revenue, weights)
           J == Keys(revenue, v)
<1>1. /\ n \in Nat /\ DOMAIN weights = 1..n /\ F \in Seq(Int) /\ Len(F) = n
      /\ M \in [1..n -> Int]
      /\ \A i \in 1..n : weights[i] \in Nat /\ F[i] \in Nat /\ M[i] \in Nat
                         /\ revenue * weights[i] = B * F[i] + M[i]
  BY Division
<1>2. B \in Nat \ {0} /\ weights \in Seq(Int) /\ SumSeq(weights) = B /\ k \in 0..n /\ k # 0
  BY <1>1, TotalAssumption DEF ValidWeights
<1>3. v \in Seq(Nat) /\ Len(v) = k /\ (\A i \in 1..k : v[i] = weights[i]) /\ ValidWeights(v)
  <2>1. v \in Seq(Nat) /\ Len(v) = k /\ \A i \in 1..k : v[i] = weights[i]
    BY <1>1, SubSeqProperties
  <2>2. v # <<>>
    BY <1>2, <2>1
  <2> QED BY <2>1, <2>2 DEF ValidWeights
<1>4. \A i \in k + 1..n : weights[i] = 0
  <2>1. RunningSums(weights)[k] = SumSeq(weights)
    BY <1>2, SumPrefix
  <2>2. \A i \in 1..Len(weights) : weights[i] >= 0
    BY <1>1
  <2> QED BY <1>2, <2>1, <2>2, SumTail
<1>5. \A i \in k + 1..n : F[i] = 0 /\ M[i] = 0
  <2> TAKE i \in k + 1..n
  <2> HIDE DEF F, M, n, v
  <2>1. i \in 1..n
    BY <1>1, <1>2
  <2> PICK f \in Nat, m \in Nat : f = F[i] /\ m = M[i]
    BY <1>1, <2>1
  <2>2. PICK p \in Nat : p = B * f
    BY <1>2, ProductNat
  <2>4. p + m = 0
    <3>1. revenue * 0 = 0
      OBVIOUS
    <3>2. weights[i] = 0
      BY <1>4
    <3>3. revenue * weights[i] = B * F[i] + M[i]
      BY <1>1, <2>1
    <3>4. 0 = B * f + m
      BY <3>1, <3>2, <3>3, Zenon
    <3> QED BY <2>2, <3>4
  <2>3. f # 0 => p >= B
    <3>1. f # 0 => B * f >= B
      BY <1>2, ProductGrows
    <3> QED BY <2>2, <3>1, Zenon
  <2>5. m = 0 /\ p = 0
    BY <2>2, <2>4
  <2>6. f = 0
    BY <1>2, <2>3, <2>5
  <2> QED BY <2>5, <2>6
<1>6. /\ G \in Seq(Int) /\ Len(G) = k /\ N \in [1..k -> Int]
      /\ \A i \in 1..k : G[i] = F[i] /\ N[i] = M[i]
  <2>1. DOMAIN v = 1..k
    BY <1>3, LenProperties
  <2>2. G \in Seq(Int) /\ Len(G) = k /\ N \in [1..k -> Int]
    BY <1>3, Division
  <2>3. \A i \in 1..k : i \in 1..n /\ v[i] = weights[i]
    BY <1>1, <1>3
  <2> HIDE DEF v
  <2>4. \A i \in 1..k : G[i] = (revenue * v[i]) \div B /\ N[i] = (revenue * v[i]) % B
    BY <2>1 DEF Floors, Remainders
  <2>5. \A i \in 1..n : F[i] = (revenue * weights[i]) \div B /\ M[i] = (revenue * weights[i]) % B
    BY <1>1 DEF Floors, Remainders
  <2> HIDE DEF F, M, G, N
  <2>6. ASSUME NEW i \in 1..k PROVE G[i] = F[i] /\ N[i] = M[i]
    BY <2>3, <2>4, <2>5, Zenon
  <2> QED BY <2>2, <2>6
<1>10. n \in Nat /\ \A i \in 1..k : i \in 1..n /\ \A j \in k + 1..n : j \in 1..n /\ ~(j < i)
  BY <1>1, <1>2
<1>11. /\ K \in [1..n -> Int] /\ \A i \in 1..n : K[i] = -M[i]
       /\ J \in [1..k -> Int] /\ \A i \in 1..k : J[i] = -N[i]
  BY <1>3, KeysTyped
<1> HIDE DEF F, M, G, N, K, J, n, v
<1>12. \A i \in 1..k : J[i] = K[i]
  BY <1>6, <1>10, <1>11
<1>7. SumSeq(G) = SumSeq(F)
  <2>1. k \in 0..Len(F)
    BY <1>1, <1>2
  <2>2. /\ SubSeq(F, 1, k) \in Seq(Int) /\ Len(SubSeq(F, 1, k)) = k
        /\ \A i \in 1..k : SubSeq(F, 1, k)[i] = F[i]
        /\ SumSeq(SubSeq(F, 1, k)) = RunningSums(F)[k]
    BY <1>1, <2>1, SumPrefix
  <2>3. G = SubSeq(F, 1, k)
    <3>1. DOMAIN G = 1..k /\ DOMAIN SubSeq(F, 1, k) = 1..k
      BY <1>6, <2>2, LenProperties
    <3> QED BY <1>6, <2>2, <3>1, SeqEqual
  <2>4. RunningSums(F)[k] = SumSeq(F)
    BY <1>1, <1>5, <2>1, ZeroTail
  <2> QED BY <2>2, <2>3, <2>4
<1>8. \A i \in 1..k : Rank(J, i) = Rank(K, i)
  <2> TAKE i \in 1..k
  <2>1. ASSUME NEW j \in 1..n, j \notin 1..k PROVE ~Ahead(K, j, i)
    <3>1. j \in k + 1..n /\ i \in 1..n /\ K[i] <= 0 /\ K[j] = 0 /\ K[i] \in Int /\ ~(j < i)
      <4>1. j \in k + 1..n
        BY <1>10, <2>1
      <4>2. i \in 1..n /\ j \in 1..n /\ ~(j < i)
        BY <1>10, <4>1
      <4>3. K[i] = -M[i] /\ K[j] = -M[j] /\ M[i] \in Nat /\ M[j] = 0
        BY <1>1, <1>5, <1>11, <4>1, <4>2
      <4>4. \A x \in Nat : (-x) \in Int /\ (-x) <= 0 /\ (x = 0 => (-x) = 0)
        OBVIOUS
      <4>5. K[i] \in Int /\ K[i] <= 0
        <5> PICK x \in Nat : x = M[i]
          BY <4>3
        <5> QED BY <4>3, <4>4
      <4>6. K[j] = 0
        <5> PICK x \in Nat : x = M[j]
          BY <4>3
        <5> QED BY <4>3, <4>4
      <4> QED BY <4>1, <4>2, <4>5, <4>6
    <3> QED BY <3>1 DEF Ahead
  <2>2. \A j \in 1..k : Ahead(J, j, i) <=> Ahead(K, j, i)
    BY <1>12 DEF Ahead
  <2>3. DOMAIN J = 1..k /\ DOMAIN K = 1..n /\ 1..k \subseteq 1..n
    BY <1>10, <1>11
  <2>4. {j \in DOMAIN J : Ahead(J, j, i)} = {j \in DOMAIN K : Ahead(K, j, i)}
    BY <2>1, <2>2, <2>3
  <2> QED BY <2>4 DEF Rank
<1>9. ASSUME NEW i \in 1..k
      PROVE  AllocateCents(revenue, v)[i] = AllocateCents(revenue, weights)[i]
  <2>1. i \in 1..n /\ G[i] = F[i] /\ Rank(J, i) = Rank(K, i)
    BY <1>6, <1>8, <1>10
  <2>2. AllocateCents(revenue, v)[i] = G[i] + (IF Rank(J, i) < revenue - SumSeq(G) THEN 1 ELSE 0)
    BY <1>3, AllocationOf DEF Gets, Leftover, G, J
  <2>3. AllocateCents(revenue, weights)[i] = F[i] + (IF Rank(K, i) < revenue - SumSeq(F) THEN 1 ELSE 0)
    BY <2>1, AllocationOf DEF Gets, Leftover, F, K, n
  <2> QED BY <1>7, <2>1, <2>2, <2>3
<1> QED BY <1>3, <1>9 DEF v

-----------------------------------------------------------------------------
(* Lemmas: the records of a post                                           *)

Contribution == [asset : Assets, custodian : Custodians, weight : Nat]

(* What post_run() would record if no custodian id were refused.           *)
Entry == [asset : Assets, custodian : Custodians, revenue : Revenues,
          share : 0..BasisPointsTotal, allocated : Nat]

LEMMA ListTyped ==
    ASSUME NEW list \in Contributions
    PROVE  /\ Len(list) \in Nat /\ DOMAIN list = 1..Len(list)
           /\ \A i \in 1..Len(list) : list[i] \in Contribution
           /\ Weights(list) \in Seq(Nat) /\ Len(Weights(list)) = Len(list)
           /\ \A i \in 1..Len(list) : Weights(list)[i] = list[i].weight
<1>1. list \in Seq(Contribution)
  BY LedgerAssumption DEF Contribution
<1>2. Len(list) \in Nat /\ DOMAIN list = 1..Len(list) /\ \A i \in 1..Len(list) : list[i] \in Contribution
  BY <1>1, LenProperties, ElementOfSeq
<1>3. Weights(list) \in [1..Len(list) -> Nat] /\ \A i \in 1..Len(list) : Weights(list)[i] = list[i].weight
  <2>1. \A i \in 1..Len(list) : list[i].weight \in Nat
    BY <1>2 DEF Contribution
  <2> QED BY <1>2, <2>1 DEF Weights
<1> QED BY <1>2, <1>3, FunctionIsSeq

LEMMA RecordsTyped ==
    ASSUME NEW revenue \in Revenues, NEW list \in Contributions, ValidWeights(Weights(list))
    PROVE  /\ RecordsFor(revenue, list) \in Seq(Entry)
           /\ Len(RecordsFor(revenue, list)) = Len(list)
           /\ \A i \in 1..Len(list) :
                RecordsFor(revenue, list)[i] =
                  [asset |-> list[i].asset, custodian |-> list[i].custodian, revenue |-> revenue,
                   share |-> Weights(list)[i], allocated |-> AllocateCents(revenue, Weights(list))[i]]
<1> DEFINE w == Weights(list)
           A == AllocateCents(revenue, w)
           R == RecordsFor(revenue, list)
           n == Len(list)
<1>1. /\ n \in Nat /\ DOMAIN list = 1..n /\ \A i \in 1..n : list[i] \in Contribution
      /\ w \in Seq(Nat) /\ Len(w) = n /\ \A i \in 1..n : w[i] = list[i].weight /\ w[i] \in Nat
  BY ListTyped DEF Contribution
<1>2. revenue \in Nat
  BY LedgerAssumption
<1>3. A \in Seq(Nat) /\ Len(A) = n
  BY <1>1, <1>2, AllocationOf
<1>4. \A i \in 1..n : A[i] \in Nat
  BY <1>3, ElementOfSeq
<1>5. R = [i \in 1..n |-> [asset |-> list[i].asset, custodian |-> list[i].custodian,
                           revenue |-> revenue, share |-> list[i].weight, allocated |-> A[i]]]
  BY <1>1 DEF RecordsFor
<1>6. \A i \in 1..n : w[i] \in 0..BasisPointsTotal
  <2>1. w \in Seq(Int) /\ (\A i \in 1..Len(w) : w[i] >= 0) /\ SumSeq(w) = BasisPointsTotal
        /\ BasisPointsTotal \in Nat
    BY <1>1, TotalAssumption DEF ValidWeights
  <2> HIDE DEF w
  <2> TAKE i \in 1..n
  <2>2. i \in 0..Len(w) /\ i - 1 \in 0..Len(w) /\ i \in 1..Len(w)
    BY <1>1
  <2>3. /\ RunningSums(w)[i] <= SumSeq(w) /\ 0 <= RunningSums(w)[i - 1]
        /\ RunningSums(w)[i] \in Int /\ RunningSums(w)[i - 1] \in Int
    BY <2>1, <2>2, SumTail
  <2>4. RunningSums(w)[i] = RunningSums(w)[i - 1] + w[i]
    BY <2>1, <2>2, RunningSumsUp DEF SumsUp
  <2> QED BY <1>1, <2>1, <2>3, <2>4
<1> HIDE DEF w, A, R, n
<1>7. \A i \in 1..n : R[i] = [asset |-> list[i].asset, custodian |-> list[i].custodian,
                             revenue |-> revenue, share |-> w[i], allocated |-> A[i]]
  BY <1>1, <1>5
<1>8. \A i \in 1..n : R[i] \in Entry
  <2>1. \A i \in 1..n : list[i].asset \in Assets /\ list[i].custodian \in Custodians
    BY <1>1 DEF Contribution
  <2> TAKE i \in 1..n
  <2>2. /\ list[i].asset \in Assets /\ list[i].custodian \in Custodians
        /\ w[i] \in 0..BasisPointsTotal /\ A[i] \in Nat
    BY <1>4, <1>6, <2>1
  <2>3. R[i] = [asset |-> list[i].asset, custodian |-> list[i].custodian,
                revenue |-> revenue, share |-> w[i], allocated |-> A[i]]
    BY <1>7
  <2> QED BY <2>2, <2>3 DEF Entry
<1>9. R \in [1..n -> Entry]
  <2>1. DOMAIN R = 1..n /\ R = [i \in 1..n |-> R[i]]
    BY <1>5
  <2> QED BY <1>8, <2>1
<1>10. R \in Seq(Entry) /\ Len(R) = n
  BY <1>1, <1>9, FunctionIsSeq
<1> QED BY <1>7, <1>10 DEF R, n, w, A

LEMMA FirstRefusedIs ==
    ASSUME NEW list \in Contributions
    PROVE  \/ FirstRefused(list) = 0 /\ \A i \in 1..Len(list) : list[i].custodian \notin Malformed
           \/ /\ FirstRefused(list) \in 1..Len(list)
              /\ \A i \in 1..FirstRefused(list) - 1 : list[i].custodian \notin Malformed
<1> DEFINE I == {i \in 1..Len(list) : list[i].custodian \in Malformed}
<1>1. FirstRefused(list) = IF I # {} THEN Min(I) ELSE 0
  BY DEF FirstRefused, SelectInSeq
<1>2. CASE I = {}
  BY <1>1, <1>2
<1>3. CASE I # {}
  <2>1. I \in SUBSET Nat /\ Len(list) \in Nat
    BY ListTyped
  <2>2. \E m \in I : \A k \in I : m <= k
    <3> HIDE DEF I
    <3> QED BY <1>3, <2>1, LeastNatural
  <2>3. Min(I) \in I /\ \A k \in I : Min(I) <= k
    <3> HIDE DEF I
    <3> QED BY <2>2 DEF Min
  <2>4. FirstRefused(list) \in I /\ \A k \in I : FirstRefused(list) <= k
    BY <1>1, <1>3, <2>3
  <2>5. ASSUME NEW i \in 1..FirstRefused(list) - 1 PROVE i \notin I /\ i \in 1..Len(list)
    <3>1. FirstRefused(list) \in 1..Len(list) /\ ~(FirstRefused(list) <= i)
      BY <2>1, <2>4
    <3> QED BY <2>1, <2>4, <3>1
  <2> QED BY <2>4, <2>5
<1> QED BY <1>2, <1>3

LEMMA PostedIs ==
    ASSUME NEW revenue \in Revenues, NEW list \in Contributions, ValidWeights(Weights(list))
    PROVE  /\ Posted(revenue, list) \in Seq(LedgerRecord)
           /\ Len(Posted(revenue, list)) \in 0..Len(list)
           /\ Posted(revenue, list) = SubSeq(RecordsFor(revenue, list), 1, Len(Posted(revenue, list)))
<1> DEFINE R == RecordsFor(revenue, list)
           P == Posted(revenue, list)
           n == Len(list)
<1>1. n \in Nat /\ R \in Seq(Entry) /\ Len(R) = n
      /\ \A i \in 1..n : R[i].custodian = list[i].custodian /\ R[i] \in Entry
  <2>1. n \in Nat /\ R \in Seq(Entry) /\ Len(R) = n
    BY ListTyped, RecordsTyped
  <2>2. ASSUME NEW i \in 1..n PROVE R[i].custodian = list[i].custodian
    <3>1. R[i] = [asset |-> list[i].asset, custodian |-> list[i].custodian, revenue |-> revenue,
                  share |-> Weights(list)[i], allocated |-> AllocateCents(revenue, Weights(list))[i]]
      BY RecordsTyped
    <3> HIDE DEF R, n
    <3> QED BY <3>1
  <2> HIDE DEF R, n
  <2>3. \A i \in 1..n : R[i] \in Entry
    BY <2>1, ElementOfSeq
  <2> QED BY <2>1, <2>2, <2>3
<1>2. PICK k \in 0..n : P = SubSeq(R, 1, k) /\ \A i \in 1..k : list[i].custodian \notin Malformed
  <2>1. CASE FirstRefused(list) = 0
    <3>1. \A i \in 1..n : list[i].custodian \notin Malformed
      BY <1>1, <2>1, FirstRefusedIs
    <3>2. SubSeq(R, 1, n) = R
      <4> HIDE DEF R, n
      <4>1. SubSeq(R, 1, n) \in Seq(Entry) /\ Len(SubSeq(R, 1, n)) = n
            /\ \A i \in 1..n : SubSeq(R, 1, n)[i] = R[i]
        BY <1>1, SubSeqProperties
      <4> QED BY <1>1, <4>1, SeqEqual
    <3>3. P = R
      BY <2>1 DEF Posted
    <3>4. n \in 0..n
      BY <1>1
    <3> HIDE DEF P, R, n
    <3> QED BY <3>1, <3>2, <3>3, <3>4
  <2>2. CASE FirstRefused(list) # 0
    <3>1. FirstRefused(list) \in 1..n /\ \A i \in 1..FirstRefused(list) - 1 : list[i].custodian \notin Malformed
      BY <2>2, FirstRefusedIs
    <3>2. FirstRefused(list) - 1 \in 0..n
      BY <1>1, <3>1
    <3>3. P = SubSeq(R, 1, FirstRefused(list) - 1)
      BY <2>2 DEF Posted
    <3> QED BY <3>1, <3>2, <3>3
  <2> QED BY <2>1, <2>2
<1> HIDE DEF R, P, n
<1>3. P \in Seq(Entry) /\ Len(P) = k /\ \A i \in 1..k : P[i] = R[i]
  BY <1>1, <1>2, SubSeqProperties
<1>4. \A i \in 1..k : P[i] \in LedgerRecord
  <2> TAKE i \in 1..k
  <2>1. i \in 1..n
    BY <1>1
  <2>2. R[i] \in Entry /\ R[i].custodian \notin Malformed
    BY <1>1, <1>2, <2>1
  <2> QED BY <1>3, <2>2 DEF Entry, LedgerRecord
<1>5. P \in [1..k -> LedgerRecord]
  <2>1. DOMAIN P = 1..k /\ P = [i \in 1..k |-> P[i]]
    BY <1>3
  <2> QED BY <1>4, <2>1
<1>6. P \in Seq(LedgerRecord)
  BY <1>5, FunctionIsSeq
<1> QED BY <1>2, <1>3, <1>6 DEF P, R, n

-----------------------------------------------------------------------------
(* The invariant of the ledger                                             *)

(* A run's records are the first of those one post amounts to.             *)
FromOnePost ==
    \A r \in Runs : records[r] # <<>> =>
        \E revenue \in Revenues, list \in Contributions : \E k \in 1..Len(list) :
            /\ ValidWeights(Weights(list))
            /\ records[r] = SubSeq(RecordsFor(revenue, list), 1, k)

LedgerInv == TypeOK /\ FromOnePost /\ RefundsRounded

RefundLaw(record, o) ==
    LET error == 2 * (-o.cents * o.ratio[2] - record.allocated * o.ratio[1])
    IN  o.ratio # NoRatio =>
          /\ error \in -o.ratio[2]..o.ratio[2]
          /\ error \in {-o.ratio[2], o.ratio[2]} => o.cents % 2 = 0

Posts(r, list, revenue) ==
    /\ ValidWeights(Weights(list))
    /\ records[r] = <<>>
    /\ records' = [records EXCEPT ![r] = Posted(revenue, list)]
    /\ offsets' = [offsets EXCEPT ![r] = [i \in DOMAIN Posted(revenue, list) |-> <<>>]]

Files(r, i, o) ==
    /\ records' = records
    /\ offsets' = [offsets EXCEPT ![r][i] = Append(@, o)]

-----------------------------------------------------------------------------
(* Proofs: the ledger                                                      *)

LEMMA LedgerTyped ==
    ASSUME TypeOK, NEW r \in Runs
    PROVE  /\ records[r] \in Seq(LedgerRecord) /\ Len(records[r]) \in Nat
           /\ DOMAIN records[r] = 1..Len(records[r])
           /\ \A i \in DOMAIN records[r] : records[r][i] \in LedgerRecord
           /\ offsets[r] \in Seq(Seq(Offset)) /\ DOMAIN offsets[r] = 1..Len(records[r])
           /\ \A i \in DOMAIN records[r] : offsets[r][i] \in Seq(Offset)
<1>1. records[r] \in Seq(LedgerRecord) /\ offsets[r] \in Seq(Seq(Offset))
      /\ DOMAIN offsets[r] = DOMAIN records[r]
  BY DEF TypeOK
<1>2. /\ Len(records[r]) \in Nat /\ DOMAIN records[r] = 1..Len(records[r])
      /\ \A i \in DOMAIN records[r] : records[r][i] \in LedgerRecord
  BY <1>1, LenProperties, ElementOfSeq
<1>3. DOMAIN offsets[r] = 1..Len(offsets[r]) /\ \A i \in 1..Len(offsets[r]) : offsets[r][i] \in Seq(Offset)
  BY <1>1, LenProperties, ElementOfSeq
<1> QED BY <1>1, <1>2, <1>3

(* A refund comes out rounded, whatever was allocated.                     *)
LEMMA RefundOf ==
    ASSUME NEW record \in LedgerRecord, NEW ratio \in Ratios
    PROVE  LET o == [cents |-> -RoundHalfEvenCents(record.allocated, ratio[1], ratio[2]), ratio |-> ratio]
           IN  o \in Offset /\ RefundLaw(record, o)
<1>1. record.allocated \in Nat /\ ratio[1] \in Nat /\ ratio[2] \in Nat \ {0}
  BY LedgerAssumption DEF LedgerRecord
<1> PICK a \in Nat, n \in Nat, d \in Nat \ {0} : a = record.allocated /\ n = ratio[1] /\ d = ratio[2]
  BY <1>1
<1>2. /\ RoundHalfEvenCents(a, n, d) \in Nat
      /\ 2 * (RoundHalfEvenCents(a, n, d) * d - a * n) \in -d..d
      /\ 2 * (RoundHalfEvenCents(a, n, d) * d - a * n) \in {-d, d} => RoundHalfEvenCents(a, n, d) % 2 = 0
  BY HalfEven
<1> PICK q \in Nat : q = RoundHalfEvenCents(a, n, d)
  BY <1>2
<1> DEFINE o == [cents |-> -q, ratio |-> ratio]
<1>3. o \in Offset
  BY DEF Offset
<1>4. -o.cents * o.ratio[2] - record.allocated * o.ratio[1] = q * d - a * n
  OBVIOUS
<1>5. (-q) % 2 = 0 <=> q % 2 = 0
  OBVIOUS
<1>6. RefundLaw(record, o)
  BY <1>2, <1>4, <1>5 DEF RefundLaw
<1> QED BY <1>3, <1>6

LEMMA NextEffect ==
    ASSUME TypeOK, Next
    PROVE  \E r \in Runs :
             \/ \E revenue \in Revenues, list \in Contributions : Posts(r, list, revenue)
             \/ \E i \in DOMAIN records[r], o \in Offset : Files(r, i, o) /\ RefundLaw(records[r][i], o)
<1> PICK r \in Runs : \/ PostRun(r)
                      \/ \E i \in DOMAIN records[r] :
                           \/ \E cents \in Adjustments : ApplyDisputeOffset(r, i, cents)
                           \/ \E ratio \in Ratios : ApplyPartialRefund(r, i, ratio)
  BY DEF Next
<1>1. CASE PostRun(r)
  BY <1>1 DEF PostRun, Posts
<1>2. ASSUME NEW i \in DOMAIN records[r], NEW cents \in Adjustments, ApplyDisputeOffset(r, i, cents)
      PROVE  \E o \in Offset : Files(r, i, o) /\ RefundLaw(records[r][i], o)
  <2> DEFINE o == [cents |-> cents, ratio |-> NoRatio]
  <2>1. o \in Offset
    BY LedgerAssumption DEF Offset
  <2>2. Files(r, i, o)
    BY <1>2 DEF ApplyDisputeOffset, AddOffset, Files
  <2>3. RefundLaw(records[r][i], o)
    BY DEF RefundLaw
  <2> QED BY <2>1, <2>2, <2>3
<1>3. ASSUME NEW i \in DOMAIN records[r], NEW ratio \in Ratios, ApplyPartialRefund(r, i, ratio)
      PROVE  \E o \in Offset : Files(r, i, o) /\ RefundLaw(records[r][i], o)
  <2> DEFINE o == [cents |-> -RoundHalfEvenCents(records[r][i].allocated, ratio[1], ratio[2]),
                   ratio |-> ratio]
  <2>1. Files(r, i, o)
    BY <1>3 DEF ApplyPartialRefund, AddOffset, Files
  <2>2. o \in Offset /\ RefundLaw(records[r][i], o)
    BY LedgerTyped, RefundOf
  <2> QED BY <2>1, <2>2
<1> QED BY <1>1, <1>2, <1>3

LEMMA RefundsAsLaw ==
    RefundsRounded <=> \A r \in Runs : \A i \in DOMAIN offsets[r] : \A k \in DOMAIN offsets[r][i] :
                         RefundLaw(records[r][i], offsets[r][i][k])
BY DEF RefundsRounded, RefundLaw

LEMMA LedgerStarts ==
    ASSUME Init
    PROVE  LedgerInv
<1>1. records \in [Runs -> Seq(LedgerRecord)] /\ offsets \in [Runs -> Seq(Seq(Offset))]
      /\ \A r \in Runs : records[r] = <<>> /\ offsets[r] = <<>>
  BY DEF Init
<1>2. TypeOK /\ FromOnePost
  BY <1>1 DEF TypeOK, FromOnePost
<1>3. RefundsRounded
  BY <1>1 DEF RefundsRounded
<1> QED BY <1>2, <1>3 DEF LedgerInv

LEMMA PostKeeps ==
    ASSUME LedgerInv, NEW r \in Runs, NEW revenue \in Revenues, NEW list \in Contributions,
           Posts(r, list, revenue)
    PROVE  LedgerInv'
<1> DEFINE P == Posted(revenue, list)
           e == [i \in DOMAIN P |-> <<>>]
<1>1. /\ ValidWeights(Weights(list)) /\ TypeOK
      /\ records' = [records EXCEPT ![r] = P] /\ offsets' = [offsets EXCEPT ![r] = e]
  BY DEF Posts, LedgerInv
<1>2. P \in Seq(LedgerRecord) /\ Len(P) \in 0..Len(list) /\ P = SubSeq(RecordsFor(revenue, list), 1, Len(P))
  BY <1>1, PostedIs
<1>3. e \in Seq(Seq(Offset)) /\ DOMAIN e = DOMAIN P /\ \A i \in DOMAIN e : e[i] = <<>>
  <2>1. Len(P) \in Nat /\ DOMAIN P = 1..Len(P)
    BY <1>2, LenProperties
  <2>2. e \in [1..Len(P) -> Seq(Offset)]
    BY <2>1
  <2> HIDE DEF P
  <2> QED BY <2>1, <2>2, FunctionIsSeq
<1> HIDE DEF P, e
<1>4. TypeOK'
  BY <1>1, <1>2, <1>3 DEF TypeOK
<1>5. FromOnePost'
  <2> SUFFICES ASSUME NEW s \in Runs, records'[s] # <<>>
               PROVE  \E rev \in Revenues, l \in Contributions : \E k \in 1..Len(l) :
                        /\ ValidWeights(Weights(l))
                        /\ records'[s] = SubSeq(RecordsFor(rev, l), 1, k)
    BY DEF FromOnePost
  <2>1. CASE s = r
    <3>1. records'[s] = P
      BY <1>1, <2>1 DEF TypeOK
    <3>2. Len(P) \in 1..Len(list)
      <4>1. Len(P) # 0
        BY <1>2, <3>1, EmptySeq
      <4> QED BY <1>2, <4>1, ListTyped
    <3> QED BY <1>1, <1>2, <3>1, <3>2
  <2>2. CASE s # r
    <3>1. records'[s] = records[s]
      BY <1>1, <2>2 DEF TypeOK
    <3> QED BY <3>1 DEF LedgerInv, FromOnePost
  <2> QED BY <2>1, <2>2
<1>6. RefundsRounded'
  <2> SUFFICES ASSUME NEW s \in Runs, NEW i \in DOMAIN offsets'[s], NEW k \in DOMAIN offsets'[s][i]
               PROVE  RefundLaw(records'[s][i], offsets'[s][i][k])
    BY DEF RefundsRounded, RefundLaw
  <2>1. s # r
    <3>1. ASSUME s = r PROVE FALSE
      <4>1. offsets'[s] = e
        BY <1>1, <3>1 DEF TypeOK
      <4>2. offsets'[s][i] = <<>>
        BY <1>3, <4>1
      <4> QED BY <4>2
    <3> QED BY <3>1
  <2>2. records'[s] = records[s] /\ offsets'[s] = offsets[s]
    BY <1>1, <2>1 DEF TypeOK
  <2>3. i \in DOMAIN offsets[s] /\ k \in DOMAIN offsets[s][i]
    BY <2>2
  <2>4. RefundLaw(records[s][i], offsets[s][i][k])
    BY <2>3, RefundsAsLaw DEF LedgerInv
  <2> QED BY <2>2, <2>4
<1> QED BY <1>4, <1>5, <1>6 DEF LedgerInv

LEMMA FileKeeps ==
    ASSUME LedgerInv, NEW r \in Runs, NEW i \in DOMAIN records[r], NEW o \in Offset,
           Files(r, i, o), RefundLaw(records[r][i], o)
    PROVE  LedgerInv'
<1> DEFINE filed == Append(offsets[r][i], o)
<1>1. /\ TypeOK /\ records' = records
      /\ offsets' = [offsets EXCEPT ![r] = [offsets[r] EXCEPT ![i] = filed]]
  BY DEF Files, LedgerInv
<1>2. /\ offsets[r] \in Seq(Seq(Offset)) /\ DOMAIN offsets[r] = DOMAIN records[r]
      /\ offsets[r][i] \in Seq(Offset)
  BY <1>1, LedgerTyped
<1>3. filed \in Seq(Offset) /\ DOMAIN filed = 1..Len(offsets[r][i]) + 1
      /\ (\A k \in 1..Len(offsets[r][i]) : filed[k] = offsets[r][i][k])
      /\ filed[Len(offsets[r][i]) + 1] = o /\ Len(offsets[r][i]) \in Nat
  BY <1>2, AppendProperties, LenProperties
<1> HIDE DEF filed
<1>4. [offsets[r] EXCEPT ![i] = filed] \in Seq(Seq(Offset))
  BY <1>2, <1>3, ExceptSeq
<1>5. TypeOK'
  BY <1>1, <1>2, <1>4 DEF TypeOK
<1>6. FromOnePost'
  BY <1>1 DEF LedgerInv, FromOnePost
<1>7. RefundsRounded'
  <2> SUFFICES ASSUME NEW s \in Runs, NEW j \in DOMAIN offsets'[s], NEW k \in DOMAIN offsets'[s][j]
               PROVE  RefundLaw(records'[s][j], offsets'[s][j][k])
    BY DEF RefundsRounded, RefundLaw
  <2>1. CASE s = r /\ j = i
    <3>1. offsets'[s][j] = filed
      BY <1>1, <1>2, <2>1 DEF TypeOK
    <3>2. k \in 1..Len(offsets[r][i]) \/ k = Len(offsets[r][i]) + 1
      BY <1>3, <3>1
    <3>3. CASE k \in 1..Len(offsets[r][i])
      <4>1. k \in DOMAIN offsets[r][i] /\ filed[k] = offsets[r][i][k] /\ i \in DOMAIN offsets[r]
        BY <1>2, <1>3, <3>3, LenProperties
      <4>2. RefundLaw(records[r][i], offsets[r][i][k])
        BY <4>1, RefundsAsLaw DEF LedgerInv
      <4> QED BY <1>1, <2>1, <3>1, <4>1, <4>2
    <3>4. CASE k = Len(offsets[r][i]) + 1
      BY <1>1, <1>3, <2>1, <3>1, <3>4
    <3> QED BY <3>2, <3>3, <3>4
  <2>2. CASE ~(s = r /\ j = i)
    <3>1. j \in DOMAIN offsets[s] /\ offsets'[s][j] = offsets[s][j]
      BY <1>1, <1>2, <2>2 DEF TypeOK
    <3>2. RefundLaw(records[s][j], offsets[s][j][k])
      BY <3>1, RefundsAsLaw DEF LedgerInv
    <3> QED BY <1>1, <3>1, <3>2
  <2> QED BY <2>1, <2>2
<1> QED BY <1>5, <1>6, <1>7 DEF LedgerInv

LEMMA LedgerInvariant == Spec => []LedgerInv
<1>1. Init => LedgerInv
  BY LedgerStarts
<1>2. ASSUME LedgerInv, Next PROVE LedgerInv'
  <2>1. TypeOK
    BY <1>2 DEF LedgerInv
  <2> QED BY <1>2, <2>1, NextEffect, PostKeeps, FileKeeps
<1>3. ASSUME LedgerInv, UNCHANGED vars PROVE LedgerInv'
  <2>1. records' = records /\ offsets' = offsets
    BY <1>3 DEF vars
  <2>2. TypeOK'
    BY <1>3, <2>1 DEF LedgerInv, TypeOK
  <2>3. FromOnePost'
    BY <1>3, <2>1, Zenon DEF LedgerInv, FromOnePost
  <2>4. RefundsRounded'
    <3>1. \A r \in Runs : \A i \in DOMAIN offsets[r] : \A k \in DOMAIN offsets[r][i] :
             RefundLaw(records[r][i], offsets[r][i][k])
      BY <1>3, RefundsAsLaw DEF LedgerInv
    <3>2. \A r \in Runs : \A i \in DOMAIN offsets'[r] : \A k \in DOMAIN offsets'[r][i] :
             RefundLaw(records'[r][i], offsets'[r][i][k])
      BY <2>1, <3>1, Zenon
    <3> QED BY <3>2 DEF RefundsRounded, RefundLaw
  <2> QED BY <2>2, <2>3, <2>4 DEF LedgerInv
<1>4. LedgerInv /\ [Next]_vars => LedgerInv'
  BY <1>2, <1>3
<1> QED BY <1>1, <1>4, PTL DEF Spec

-----------------------------------------------------------------------------
(* Proofs: whole runs                                                      *)

(* The records of a run, as the prefix of the post they came from.         *)
LEMMA PrefixOfPost ==
    ASSUME TypeOK, FromOnePost, NEW r \in Runs, records[r] # <<>>
    PROVE  \E revenue \in Nat, weights \in Seq(Nat) : \E k \in 1..Len(weights) :
             /\ ValidWeights(weights)
             /\ Len(records[r]) = k
             /\ \A i \in 1..k :
                  /\ records[r][i].revenue = revenue
                  /\ records[r][i].share = weights[i]
                  /\ records[r][i].allocated = AllocateCents(revenue, weights)[i]
<1>1. PICK revenue \in Revenues, list \in Contributions : \E k \in 1..Len(list) :
        /\ ValidWeights(Weights(list))
        /\ records[r] = SubSeq(RecordsFor(revenue, list), 1, k)
  BY DEF FromOnePost
<1>2. PICK k \in 1..Len(list) : /\ ValidWeights(Weights(list))
                                /\ records[r] = SubSeq(RecordsFor(revenue, list), 1, k)
  BY <1>1
<1> DEFINE w == Weights(list)
           R == RecordsFor(revenue, list)
<1>3. revenue \in Nat /\ w \in Seq(Nat) /\ Len(w) = Len(list) /\ Len(list) \in Nat
  BY ListTyped, LedgerAssumption
<1>4. R \in Seq(Entry) /\ Len(R) = Len(list)
      /\ \A i \in 1..Len(list) : /\ R[i].revenue = revenue
                                 /\ R[i].share = w[i]
                                 /\ R[i].allocated = AllocateCents(revenue, w)[i]
  <2>1. R \in Seq(Entry) /\ Len(R) = Len(list)
    BY <1>2, RecordsTyped
  <2>2. ASSUME NEW i \in 1..Len(list)
        PROVE  /\ R[i].revenue = revenue
               /\ R[i].share = w[i]
               /\ R[i].allocated = AllocateCents(revenue, w)[i]
    <3>1. R[i] = [asset |-> list[i].asset, custodian |-> list[i].custodian, revenue |-> revenue,
                  share |-> w[i], allocated |-> AllocateCents(revenue, w)[i]]
      BY <1>2, RecordsTyped
    <3> HIDE DEF R, w
    <3> QED BY <3>1
  <2> QED BY <2>1, <2>2
<1> HIDE DEF w, R
<1>5. records[r] = SubSeq(R, 1, k) /\ ValidWeights(w)
  BY <1>2 DEF R, w
<1>6. Len(SubSeq(R, 1, k)) = k /\ \A i \in 1..k : SubSeq(R, 1, k)[i] = R[i]
  BY <1>3, <1>4, SubSeqProperties
<1>7. k \in 1..Len(w) /\ \A i \in 1..k : i \in 1..Len(list)
  BY <1>3
<1>8. ASSUME NEW i \in 1..k
      PROVE  /\ records[r][i].revenue = revenue
             /\ records[r][i].share = w[i]
             /\ records[r][i].allocated = AllocateCents(revenue, w)[i]
  <2>1. records[r][i] = R[i] /\ i \in 1..Len(list)
    BY <1>5, <1>6, <1>7
  <2> QED BY <1>4, <2>1
<1>9. Len(records[r]) = k
  BY <1>5, <1>6
<1> QED BY <1>3, <1>5, <1>7, <1>8, <1>9

LEMMA SharesOf ==
    ASSUME TypeOK, NEW r \in Runs
    PROVE  /\ Shares(r) \in Seq(Nat) /\ Len(Shares(r)) = Len(records[r])
           /\ \A i \in 1..Len(records[r]) : Shares(r)[i] = records[r][i].share
<1>1. /\ Len(records[r]) \in Nat /\ DOMAIN records[r] = 1..Len(records[r])
      /\ \A i \in 1..Len(records[r]) : records[r][i] \in LedgerRecord
  BY LedgerTyped
<1>2. \A i \in 1..Len(records[r]) : records[r][i].share \in Nat
  BY <1>1, TotalAssumption DEF LedgerRecord
<1>3. Shares(r) \in [1..Len(records[r]) -> Nat]
      /\ \A i \in 1..Len(records[r]) : Shares(r)[i] = records[r][i].share
  BY <1>1, <1>2 DEF Shares
<1> QED BY <1>1, <1>3, FunctionIsSeq

(* A whole run holds the allocation of its revenue to its own shares.      *)
LEMMA WholeRun ==
    ASSUME TypeOK, FromOnePost, NEW r \in Runs, Whole(r)
    PROVE  /\ records[r] # <<>> /\ Len(records[r]) \in Nat /\ 1 \in 1..Len(records[r])
           /\ records[r][1].revenue \in Nat /\ ValidWeights(Shares(r))
           /\ \A i \in 1..Len(records[r]) :
                /\ records[r][i].revenue = records[r][1].revenue
                /\ records[r][i].allocated = AllocateCents(records[r][1].revenue, Shares(r))[i]
<1>1. records[r] # <<>> /\ SumSeq(Shares(r)) = BasisPointsTotal
  BY DEF Whole
<1>2. PICK revenue \in Nat, weights \in Seq(Nat) : \E k \in 1..Len(weights) :
        /\ ValidWeights(weights)
        /\ Len(records[r]) = k
        /\ \A i \in 1..k :
             /\ records[r][i].revenue = revenue
             /\ records[r][i].share = weights[i]
             /\ records[r][i].allocated = AllocateCents(revenue, weights)[i]
  BY <1>1, PrefixOfPost
<1>3. PICK k \in 1..Len(weights) :
        /\ ValidWeights(weights)
        /\ Len(records[r]) = k
        /\ \A i \in 1..k :
             /\ records[r][i].revenue = revenue
             /\ records[r][i].share = weights[i]
             /\ records[r][i].allocated = AllocateCents(revenue, weights)[i]
  BY <1>2
<1>4. /\ Shares(r) \in Seq(Nat) /\ Len(Shares(r)) = k
      /\ \A i \in 1..k : Shares(r)[i] = weights[i]
  BY <1>3, SharesOf
<1>5. Shares(r) = SubSeq(weights, 1, k)
  <2>1. /\ SubSeq(weights, 1, k) \in Seq(Nat) /\ Len(SubSeq(weights, 1, k)) = k
        /\ \A i \in 1..k : SubSeq(weights, 1, k)[i] = weights[i]
    BY LenProperties, SubSeqProperties
  <2> QED BY <1>4, <2>1, SeqEqual
<1>6. /\ ValidWeights(Shares(r))
      /\ \A i \in 1..k : AllocateCents(revenue, Shares(r))[i] = AllocateCents(revenue, weights)[i]
  BY <1>1, <1>3, <1>5, AllocationOfPrefix
<1>7. Len(records[r]) \in Nat /\ 1 \in 1..k
  BY <1>3, LedgerTyped
<1> QED BY <1>1, <1>3, <1>6, <1>7

LEMMA AllocatedOf ==
    ASSUME TypeOK, NEW r \in Runs, NEW a \in Seq(Nat), Len(a) = Len(records[r]),
           \A i \in 1..Len(records[r]) : records[r][i].allocated = a[i]
    PROVE  Allocated(r) = SumSeq(a)
<1>1. DOMAIN records[r] = 1..Len(records[r]) /\ Len(records[r]) \in Nat
  BY LedgerTyped
<1>2. DOMAIN a = 1..Len(records[r]) /\ a = [i \in DOMAIN a |-> a[i]]
  BY LenProperties
<1>3. [i \in DOMAIN records[r] |-> records[r][i].allocated] = a
  BY <1>1, <1>2
<1> QED BY <1>3 DEF Allocated

LEMMA SplitIsExact ==
    ASSUME TypeOK, FromOnePost
    PROVE  SplitExact
<1> SUFFICES ASSUME NEW r \in Runs, records[r] # <<>>
             PROVE  /\ Allocated(r) <= records[r][1].revenue
                    /\ Whole(r) => Allocated(r) = records[r][1].revenue
  BY DEF SplitExact
<1>1. Allocated(r) <= records[r][1].revenue
  <2>1. PICK revenue \in Nat, weights \in Seq(Nat) : \E k \in 1..Len(weights) :
          /\ ValidWeights(weights)
          /\ Len(records[r]) = k
          /\ \A i \in 1..k :
               /\ records[r][i].revenue = revenue
               /\ records[r][i].share = weights[i]
               /\ records[r][i].allocated = AllocateCents(revenue, weights)[i]
    BY PrefixOfPost
  <2>2. PICK k \in 1..Len(weights) :
          /\ ValidWeights(weights)
          /\ Len(records[r]) = k
          /\ \A i \in 1..k :
               /\ records[r][i].revenue = revenue
               /\ records[r][i].share = weights[i]
               /\ records[r][i].allocated = AllocateCents(revenue, weights)[i]
    BY <2>1
  <2> DEFINE A == AllocateCents(revenue, weights)
             p == SubSeq(A, 1, k)
  <2>3. A \in Seq(Nat) /\ Len(A) = Len(weights) /\ SumSeq(A) = revenue /\ Len(weights) \in Nat
    BY <2>2, AllocationOf, AllocationExact, LenProperties
  <2> HIDE DEF A
  <2>4. A \in Seq(Int) /\ (\A i \in 1..Len(A) : A[i] >= 0) /\ k \in 0..Len(A) /\ 1 \in 1..k
    <3>1. \A i \in 1..Len(A) : A[i] \in Nat
      BY <2>3, ElementOfSeq
    <3> QED BY <2>3, <3>1
  <2>5. p \in Seq(Nat) /\ Len(p) = k /\ \A i \in 1..k : p[i] = A[i]
    BY <2>3, SubSeqProperties
  <2>6. SumSeq(p) = RunningSums(A)[k] /\ RunningSums(A)[k] <= SumSeq(A)
    BY <2>4, SumPrefix, SumTail
  <2> HIDE DEF p
  <2>7. Allocated(r) = SumSeq(p)
    BY <2>2, <2>5, AllocatedOf DEF A
  <2> QED BY <2>2, <2>3, <2>4, <2>6, <2>7
<1>2. ASSUME Whole(r) PROVE Allocated(r) = records[r][1].revenue
  <2> DEFINE A == AllocateCents(records[r][1].revenue, Shares(r))
  <2>1. /\ records[r][1].revenue \in Nat /\ ValidWeights(Shares(r)) /\ Shares(r) \in Seq(Nat)
        /\ Len(Shares(r)) = Len(records[r])
        /\ \A i \in 1..Len(records[r]) : records[r][i].allocated = A[i]
    BY <1>2, WholeRun, SharesOf
  <2>2. A \in Seq(Nat) /\ Len(A) = Len(records[r]) /\ SumSeq(A) = records[r][1].revenue
    BY <2>1, AllocationOf, AllocationExact
  <2> HIDE DEF A
  <2> QED BY <2>1, <2>2, AllocatedOf
<1> QED BY <1>1, <1>2

LEMMA SplitIsFair ==
    ASSUME TypeOK, FromOnePost
    PROVE  SplitFair
<1> SUFFICES ASSUME NEW r \in Runs, Whole(r), NEW i \in DOMAIN records[r], NEW j \in DOMAIN records[r]
             PROVE  \/ Excess(r, i) - Excess(r, j) < BasisPointsTotal
                    \/ Excess(r, i) - Excess(r, j) = BasisPointsTotal /\ i < j
  BY DEF SplitFair
<1> DEFINE rev == records[r][1].revenue
           w == Shares(r)
           above(k) == AllocateCents(rev, w)[k] * BasisPointsTotal - rev * w[k]
<1>1. /\ rev \in Nat /\ w \in Seq(Nat) /\ ValidWeights(w) /\ Len(w) = Len(records[r])
      /\ i \in 1..Len(records[r]) /\ j \in 1..Len(records[r])
  BY WholeRun, SharesOf, LedgerTyped
<1>2. \A k \in 1..Len(records[r]) : Excess(r, k) = above(k)
  <2>1. \A k \in 1..Len(records[r]) : /\ records[r][k].revenue = rev
                                      /\ records[r][k].allocated = AllocateCents(rev, w)[k]
                                      /\ w[k] = records[r][k].share
    BY WholeRun, SharesOf
  <2> QED BY <2>1 DEF Excess
<1>3. \/ above(i) - above(j) < BasisPointsTotal
      \/ above(i) - above(j) = BasisPointsTotal /\ i < j
  <2> HIDE DEF rev, w
  <2> QED BY <1>1, AllocationFair
<1> QED BY <1>1, <1>2, <1>3

(* Indices that fit the padding sort as the numbers they are.              *)
LEMMA PaddedSorted ==
    ASSUME TypeOK, NEW r \in Runs, Len(records[r]) <= PaddedIds
    PROVE  RecordsForRun(r) = records[r]
<1> PICK n \in Nat : n = Len(records[r])
  BY LedgerTyped
<1> DEFINE keys == [i \in DOMAIN records[r] |-> IdKey(i - 1)]
<1>1. records[r] \in [1..n -> LedgerRecord] /\ DOMAIN records[r] = 1..n
  BY LedgerTyped
<1>2. IdRadix \in Nat /\ PaddedIds \in Nat
  BY LedgerAssumption
<1>3. ASSUME NEW i \in 1..n
      PROVE  IdKey(i - 1) = (i - 1) * (IdRadix + 1) /\ (i - 1) * (IdRadix + 1) \in Int
  <2>1. i - 1 < PaddedIds
    BY <1>2
  <2> QED BY <1>2, <2>1 DEF IdKey
<1>4. keys \in [1..n -> Int] /\ \A i \in 1..n : keys[i] = (i - 1) * (IdRadix + 1)
  BY <1>1, <1>3
<1> HIDE DEF keys
<1>5. ASSUME NEW i \in 1..n, NEW j \in 1..n, i < j PROVE keys[i] < keys[j]
  <2>1. /\ i - 1 \in Nat /\ j - i \in Nat \ {0} /\ IdRadix + 1 \in Nat \ {0}
        /\ j - 1 = (i - 1) + (j - i)
    BY <1>2, <1>5
  <2>2. \A a \in Nat, b, c \in Nat \ {0} : a * c < (a + b) * c
    <3> TAKE a \in Nat, b \in Nat \ {0}, c \in Nat \ {0}
    <3>1. c * (a + b) = c * a + c * b /\ c * a \in Int /\ c * b \in Int
      BY Distribute
    <3>2. c * b >= c
      BY ProductGrows
    <3>3. a * c = c * a /\ (a + b) * c = c * (a + b)
      OBVIOUS
    <3> QED BY <3>1, <3>2, <3>3
  <2>3. (i - 1) * (IdRadix + 1) < (j - 1) * (IdRadix + 1)
    BY <2>1, <2>2
  <2> QED BY <1>4, <2>3
<1> QED BY <1>1, <1>4, <1>5, SortedAlready DEF RecordsForRun, keys

LEMMA ReplayFinds ==
    ASSUME TypeOK, FromOnePost
    PROVE  WholeRunsReplay
<1> SUFFICES ASSUME NEW r \in Runs, Whole(r), Len(records[r]) <= PaddedIds
             PROVE  ReplayRun(r, records[r][1].revenue,
                              [i \in DOMAIN records[r] |->
                                 [asset |-> records[r][i].asset,
                                  custodian |-> records[r][i].custodian,
                                  weight |-> records[r][i].share]])
  BY DEF WholeRunsReplay
<1> DEFINE rev == records[r][1].revenue
           list == [i \in DOMAIN records[r] |->
                      [asset |-> records[r][i].asset,
                       custodian |-> records[r][i].custodian,
                       weight |-> records[r][i].share]]
           n == Len(records[r])
<1>1. /\ n \in Nat /\ DOMAIN records[r] = 1..n /\ records[r] = [i \in 1..n |-> records[r][i]]
      /\ \A i \in 1..n : records[r][i] \in LedgerRecord
  BY LedgerTyped
<1>2. DOMAIN list = 1..n /\ \A i \in 1..n : list[i] = [asset |-> records[r][i].asset,
                                                       custodian |-> records[r][i].custodian,
                                                       weight |-> records[r][i].share]
  BY <1>1
<1> HIDE DEF list
<1>3. Weights(list) = Shares(r)
  <2>1. ASSUME NEW i \in 1..n PROVE list[i].weight = records[r][i].share
    <3>1. list[i] = [asset |-> records[r][i].asset, custodian |-> records[r][i].custodian,
                     weight |-> records[r][i].share]
      BY <1>2
    <3> QED BY <3>1
  <2> QED BY <1>1, <1>2, <2>1 DEF Weights, Shares
<1>4. ValidWeights(Shares(r))
      /\ \A i \in 1..n : /\ records[r][i].revenue = rev
                         /\ records[r][i].allocated = AllocateCents(rev, Shares(r))[i]
  BY WholeRun
<1>5. RecordsFor(rev, list) =
        [i \in 1..n |-> [asset |-> list[i].asset, custodian |-> list[i].custodian, revenue |-> rev,
                         share |-> list[i].weight, allocated |-> AllocateCents(rev, Shares(r))[i]]]
  BY <1>2, <1>3 DEF RecordsFor
<1>6. ASSUME NEW i \in 1..n
      PROVE  records[r][i] =
               [asset |-> list[i].asset, custodian |-> list[i].custodian, revenue |-> rev,
                share |-> list[i].weight, allocated |-> AllocateCents(rev, Shares(r))[i]]
  <2>1. records[r][i] = [asset |-> records[r][i].asset, custodian |-> records[r][i].custodian,
                         revenue |-> records[r][i].revenue, share |-> records[r][i].share,
                         allocated |-> records[r][i].allocated]
    BY <1>1 DEF LedgerRecord
  <2>2. list[i].asset = records[r][i].asset /\ list[i].custodian = records[r][i].custodian
        /\ list[i].weight = records[r][i].share
    <3>1. list[i] = [asset |-> records[r][i].asset, custodian |-> records[r][i].custodian,
                     weight |-> records[r][i].share]
      BY <1>2
    <3> QED BY <3>1
  <2>3. records[r][i].revenue = rev /\ records[r][i].allocated = AllocateCents(rev, Shares(r))[i]
    BY <1>4
  <2> HIDE DEF rev
  <2> QED BY <2>1, <2>2, <2>3
<1>7. RecordsFor(rev, list) = records[r]
  <2> HIDE DEF rev
  <2> QED BY <1>1, <1>5, <1>6
<1>8. RecordsForRun(r) = records[r]
  BY PaddedSorted
<1> QED BY <1>3, <1>4, <1>7, <1>8 DEF ReplayRun, list

-----------------------------------------------------------------------------
(* Lemmas: totals of statements                                            *)

One(s) == CHOOSE x \in s : TRUE

(* g adds up f over the subsets of D, as MapThenSumSet does.               *)
SumsOver(g, f, D) == g = [s \in SUBSET D |-> IF s = {} THEN 0 ELSE f[One(s)] + g[s \ {One(s)}]]

LEMMA OneOf ==
    ASSUME NEW s, s # {}
    PROVE  One(s) \in s
<1>1. \E x \in s : TRUE
  OBVIOUS
<1> QED BY <1>1, Zenon DEF One

LEMMA SetSum ==
    ASSUME NEW D, IsFiniteSet(D), NEW h \in [SUBSET D -> Int], h[{}] = 0, NEW f,
           \A s \in SUBSET D : \A x \in s : h[s] = f[x] + h[s \ {x}]
    PROVE  (\E g : SumsOver(g, f, D)) /\ \A g : SumsOver(g, f, D) => g[D] = h[D]
<1>1. ASSUME NEW s \in SUBSET D, s # {} PROVE One(s) \in s /\ s \ {One(s)} \in SUBSET D
  BY <1>1, OneOf
<1>2. SumsOver(h, f, D)
  <2>1. ASSUME NEW s \in SUBSET D
        PROVE  h[s] = IF s = {} THEN 0 ELSE f[One(s)] + h[s \ {One(s)}]
    BY <1>1
  <2> QED BY <2>1 DEF SumsOver
<1>3. ASSUME NEW g, SumsOver(g, f, D) PROVE g[D] = h[D]
  <2> DEFINE S == {n \in 0..Cardinality(D) : \A s \in SUBSET D : Cardinality(s) = n => g[s] = h[s]}
  <2>1. Cardinality(D) \in Nat
    BY FS_CardinalityType
  <2>2. \A s \in SUBSET D : IsFiniteSet(s) /\ Cardinality(s) \in Nat
    BY FS_Subset, FS_CardinalityType
  <2>3. 0 \in S
    <3>1. ASSUME NEW s \in SUBSET D, Cardinality(s) = 0 PROVE g[s] = h[s]
      <4>1. s = {}
        BY <2>2, <3>1, FS_EmptySet
      <4> QED BY <1>3, <4>1 DEF SumsOver
    <3> QED BY <2>1, <3>1
  <2>4. ASSUME NEW n \in 0..Cardinality(D) - 1, n \in S PROVE n + 1 \in S
    <3>1. ASSUME NEW s \in SUBSET D, Cardinality(s) = n + 1 PROVE g[s] = h[s]
      <4>1. s # {}
        <5>1. n + 1 # 0
          BY <2>1
        <5> QED BY <3>1, <5>1, FS_EmptySet
      <4>2. One(s) \in s /\ s \ {One(s)} \in SUBSET D
        BY <1>1, <4>1
      <4>3. Cardinality(s \ {One(s)}) = n
        <5>1. Cardinality(s \ {One(s)}) = Cardinality(s) - 1
          BY <2>2, <4>2, FS_RemoveElement
        <5> QED BY <2>1, <3>1, <5>1
      <4>4. g[s \ {One(s)}] = h[s \ {One(s)}]
        BY <2>4, <4>2, <4>3
      <4>5. g[s] = f[One(s)] + g[s \ {One(s)}]
        BY <1>3, <4>1 DEF SumsOver
      <4> QED BY <4>2, <4>4, <4>5
    <3> QED BY <2>1, <3>1
  <2> HIDE DEF S
  <2>5. Cardinality(D) \in S
    <3>1. \A n \in 0..Cardinality(D) : n \in S
      BY <2>1, <2>3, <2>4, StepByStep
    <3> QED BY <2>1, <3>1
  <2> QED BY <2>5 DEF S
<1> QED BY <1>2, <1>3

LEMMA GrossIs ==
    ASSUME NEW c, IsFiniteSet(HeldBy(c)), NEW h \in [SUBSET HeldBy(c) -> Int], h[{}] = 0,
           \A s \in SUBSET HeldBy(c) : \A x \in s : h[s] = records[x[1]][x[2]].allocated + h[s \ {x}]
    PROVE  MapThenSumSet(LAMBDA p : records[p[1]][p[2]].allocated, HeldBy(c)) = h[HeldBy(c)]
<1> DEFINE f == [x \in HeldBy(c) |-> records[x[1]][x[2]].allocated]
           Law(g) == g = [s \in SUBSET HeldBy(c) |->
                            IF s = {} THEN 0
                            ELSE records[One(s)[1]][One(s)[2]].allocated + g[s \ {One(s)}]]
<1>1. MapThenSumSet(LAMBDA p : records[p[1]][p[2]].allocated, HeldBy(c)) = (CHOOSE g : Law(g))[HeldBy(c)]
  BY DEF MapThenSumSet, MapThenFoldSet, One
<1>2. ASSUME NEW g PROVE Law(g) <=> SumsOver(g, f, HeldBy(c))
  <2>1. \A s \in SUBSET HeldBy(c) :
          s # {} => f[One(s)] = records[One(s)[1]][One(s)[2]].allocated
    BY OneOf
  <2> HIDE DEF f
  <2> QED BY <2>1 DEF SumsOver
<1>3. \A s \in SUBSET HeldBy(c) : \A x \in s : h[s] = f[x] + h[s \ {x}]
  OBVIOUS
<1> HIDE DEF f, Law
<1>4. (\E g : SumsOver(g, f, HeldBy(c))) /\ \A g : SumsOver(g, f, HeldBy(c)) => g[HeldBy(c)] = h[HeldBy(c)]
  BY <1>3, SetSum
<1>5. SumsOver(CHOOSE g : Law(g), f, HeldBy(c))
  <2>1. Law(CHOOSE g : Law(g))
    BY <1>2, <1>4
  <2> QED BY <1>2, <2>1
<1> QED BY <1>1, <1>4, <1>5

LEMMA AdjustmentsAre ==
    ASSUME NEW c, IsFiniteSet(HeldBy(c)), NEW h \in [SUBSET HeldBy(c) -> Int], h[{}] = 0,
           \A s \in SUBSET HeldBy(c) : \A x \in s : h[s] = OffsetSum(offsets[x[1]][x[2]]) + h[s \ {x}]
    PROVE  MapThenSumSet(LAMBDA p : OffsetSum(offsets[p[1]][p[2]]), HeldBy(c)) = h[HeldBy(c)]
<1> DEFINE f == [x \in HeldBy(c) |-> OffsetSum(offsets[x[1]][x[2]])]
           Law(g) == g = [s \in SUBSET HeldBy(c) |->
                            IF s = {} THEN 0
                            ELSE OffsetSum(offsets[One(s)[1]][One(s)[2]]) + g[s \ {One(s)}]]
<1>1. MapThenSumSet(LAMBDA p : OffsetSum(offsets[p[1]][p[2]]), HeldBy(c)) = (CHOOSE g : Law(g))[HeldBy(c)]
  BY DEF MapThenSumSet, MapThenFoldSet, One
<1>2. ASSUME NEW g PROVE Law(g) <=> SumsOver(g, f, HeldBy(c))
  <2>1. \A s \in SUBSET HeldBy(c) :
          s # {} => f[One(s)] = OffsetSum(offsets[One(s)[1]][One(s)[2]])
    BY OneOf
  <2> HIDE DEF f
  <2> QED BY <2>1 DEF SumsOver
<1>3. \A s \in SUBSET HeldBy(c) : \A x \in s : h[s] = f[x] + h[s \ {x}]
  OBVIOUS
<1> HIDE DEF f, Law
<1>4. (\E g : SumsOver(g, f, HeldBy(c))) /\ \A g : SumsOver(g, f, HeldBy(c)) => g[HeldBy(c)] = h[HeldBy(c)]
  BY <1>3, SetSum
<1>5. SumsOver(CHOOSE g : Law(g), f, HeldBy(c))
  <2>1. Law(CHOOSE g : Law(g))
    BY <1>2, <1>4
  <2> QED BY <1>2, <2>1
<1> QED BY <1>1, <1>4, <1>5

LEMMA NetsOfAll ==
    ASSUME IsFiniteSet(Custodians), NEW h \in [SUBSET Custodians -> Int], h[{}] = 0,
           \A s \in SUBSET Custodians : \A x \in s : h[s] = CustodianNet(x) + h[s \ {x}]
    PROVE  MapThenSumSet(CustodianNet, Custodians) = h[Custodians]
<1> DEFINE f == [x \in Custodians |-> CustodianNet(x)]
           Law(g) == g = [s \in SUBSET Custodians |->
                            IF s = {} THEN 0 ELSE CustodianNet(One(s)) + g[s \ {One(s)}]]
<1>1. MapThenSumSet(CustodianNet, Custodians) = (CHOOSE g : Law(g))[Custodians]
  BY DEF MapThenSumSet, MapThenFoldSet, One
<1>2. ASSUME NEW g PROVE Law(g) <=> SumsOver(g, f, Custodians)
  <2>1. \A s \in SUBSET Custodians : s # {} => f[One(s)] = CustodianNet(One(s))
    BY OneOf
  <2> HIDE DEF f
  <2> QED BY <2>1 DEF SumsOver
<1>3. \A s \in SUBSET Custodians : \A x \in s : h[s] = f[x] + h[s \ {x}]
  OBVIOUS
<1> HIDE DEF f, Law
<1>4. (\E g : SumsOver(g, f, Custodians)) /\ \A g : SumsOver(g, f, Custodians) => g[Custodians] = h[Custodians]
  BY <1>3, SetSum
<1>5. SumsOver(CHOOSE g : Law(g), f, Custodians)
  <2>1. Law(CHOOSE g : Law(g))
    BY <1>2, <1>4
  <2> QED BY <1>2, <2>1
<1> QED BY <1>1, <1>4, <1>5

(* The terms of v at the places T.                                         *)
Masked(v, T) == [i \in DOMAIN v |-> IF i \in T THEN v[i] ELSE 0]

LEMMA MaskedTyped ==
    ASSUME NEW n \in Nat, NEW v \in [1..n -> Int], NEW T
    PROVE  /\ Masked(v, T) \in Seq(Int) /\ Len(Masked(v, T)) = n /\ SumSeq(Masked(v, T)) \in Int
           /\ \A i \in 1..n : Masked(v, T)[i] = IF i \in T THEN v[i] ELSE 0
<1>1. Masked(v, T) \in [1..n -> Int] /\ \A i \in 1..n : Masked(v, T)[i] = IF i \in T THEN v[i] ELSE 0
  BY DEF Masked
<1>2. Masked(v, T) \in Seq(Int) /\ Len(Masked(v, T)) = n
  BY <1>1, FunctionIsSeq
<1>3. SumSeq(Masked(v, T)) \in Int
  BY <1>2, RunningSumsUp, SumIs
<1> QED BY <1>1, <1>2, <1>3

LEMMA MaskedSum ==
    ASSUME NEW n \in Nat, NEW v \in [1..n -> Int], NEW A, NEW B, A \cap B = {}
    PROVE  SumSeq(Masked(v, A \cup B)) = SumSeq(Masked(v, A)) + SumSeq(Masked(v, B))
<1> DEFINE s == Masked(v, A)
           t == Masked(v, B)
           u == Masked(v, A \cup B)
<1>1. /\ s \in Seq(Int) /\ t \in Seq(Int) /\ u \in Seq(Int)
      /\ Len(s) = n /\ Len(t) = n /\ Len(u) = n
  BY MaskedTyped
<1>2. ASSUME NEW i \in 1..Len(s) PROVE u[i] = s[i] + t[i]
  <2>1. i \in 1..n /\ v[i] \in Int
    BY <1>1
  <2>2. /\ s[i] = IF i \in A THEN v[i] ELSE 0
        /\ t[i] = IF i \in B THEN v[i] ELSE 0
        /\ u[i] = IF i \in A \cup B THEN v[i] ELSE 0
    BY <2>1, MaskedTyped
  <2> HIDE DEF s, t, u
  <2> QED BY <2>1, <2>2
<1> HIDE DEF s, t, u
<1>3. SumSeq(u) = SumSeq(s) + SumSeq(t)
  <2>1. /\ Len(s) = Len(t) /\ Len(s) = Len(u)
        /\ \A i \in 1..Len(s) : u[i] = s[i] + t[i]
    BY <1>1, <1>2
  <2>2. s \in Seq(Int) /\ t \in Seq(Int) /\ u \in Seq(Int)
    BY <1>1
  <2> QED BY <2>1, <2>2, SumOfSums
<1> QED BY <1>3 DEF s, t, u

LEMMA MaskedNone ==
    ASSUME NEW n \in Nat, NEW v \in [1..n -> Int]
    PROVE  SumSeq(Masked(v, {})) = 0
<1>1. SumSeq(Masked(v, {} \cup {})) = SumSeq(Masked(v, {})) + SumSeq(Masked(v, {}))
  BY MaskedSum
<1>2. SumSeq(Masked(v, {})) \in Int
  BY MaskedTyped
<1>3. {} \cup {} = {}
  OBVIOUS
<1> QED BY <1>1, <1>2, <1>3

LEMMA MaskedOne ==
    ASSUME NEW n \in Nat, NEW v \in [1..n -> Int], NEW j \in 1..n
    PROVE  SumSeq(Masked(v, {j})) = v[j]
<1> DEFINE u == Masked(v, {j})
           f == [m \in 0..n |-> IF m < j THEN 0 ELSE v[j]]
<1>1. /\ u \in Seq(Int) /\ Len(u) = n /\ v[j] \in Int
      /\ \A i \in 1..n : u[i] = IF i = j THEN v[i] ELSE 0
  BY MaskedTyped
<1> HIDE DEF u
<1>2. SumsUp(f, u)
  <2>1. f \in [0..Len(u) -> Int] /\ f[0] = 0
    BY <1>1
  <2>2. ASSUME NEW m \in 1..Len(u) PROVE f[m] = f[m - 1] + u[m]
    BY <1>1
  <2> QED BY <2>1, <2>2 DEF SumsUp
<1>3. SumSeq(u) = f[Len(u)]
  BY <1>1, <1>2, SumIs
<1> QED BY <1>1, <1>3 DEF u

LEMMA MaskedAll ==
    ASSUME NEW n \in Nat, NEW v \in [1..n -> Int]
    PROVE  Masked(v, 1..n) = v
BY DEF Masked

OfCustodian(r, c) == {j \in DOMAIN records[r] : records[r][j].custodian = c}

LEMMA HeldOne ==
    ASSUME TypeOK, NEW r, Runs = {r}, NEW c
    PROVE  /\ IsFiniteSet(HeldBy(c))
           /\ \A x \in HeldBy(c) : x = <<r, x[2]>> /\ x[2] \in OfCustodian(r, c)
           /\ \A i \in OfCustodian(r, c) : <<r, i>> \in HeldBy(c)
<1> DEFINE n == Len(records[r])
<1>1. DOMAIN records[r] = 1..n /\ n \in Nat
  BY LedgerTyped
<1> HIDE DEF n
<1>2. HeldBy(c) = {<<r, i>> : i \in OfCustodian(r, c)}
  BY DEF HeldBy, OfCustodian
<1>3. IsFiniteSet(HeldBy(c))
  <2>1. HeldBy(c) \subseteq {r} \X (1..n)
    BY <1>1, <1>2 DEF OfCustodian
  <2>2. IsFiniteSet({r}) /\ IsFiniteSet(1..n)
    <3>1. IsFiniteSet(1..n)
      BY <1>1, FS_Interval
    <3> QED BY <3>1, FS_Singleton
  <2>3. IsFiniteSet({r} \X (1..n))
    BY <2>2, FS_Product
  <2> QED BY <2>1, <2>3, FS_Subset
<1> QED BY <1>2, <1>3

(* h adds up v over what a custodian holds, in the form SetSum takes it.   *)
SumsHeld(h, r, c, v) ==
    /\ h \in [SUBSET HeldBy(c) -> Int]
    /\ h[{}] = 0
    /\ \A s \in SUBSET HeldBy(c) : \A x \in s : h[s] = v[x[2]] + h[s \ {x}]
    /\ h[HeldBy(c)] = SumSeq(Masked(v, OfCustodian(r, c)))

HeldSums(c, v) == [s \in SUBSET HeldBy(c) |-> SumSeq(Masked(v, {p[2] : p \in s}))]

LEMMA HeldSumsLaw ==
    ASSUME TypeOK, NEW r, Runs = {r}, NEW c, NEW v \in [1..Len(records[r]) -> Int]
    PROVE  SumsHeld(HeldSums(c, v), r, c, v)
<1> PICK n \in Nat : n = Len(records[r])
  BY LedgerTyped
<1>1. v \in [1..n -> Int] /\ DOMAIN records[r] = 1..n
  BY LedgerTyped
<1>2. /\ \A x \in HeldBy(c) : x = <<r, x[2]>> /\ x[2] \in OfCustodian(r, c)
      /\ \A i \in OfCustodian(r, c) : <<r, i>> \in HeldBy(c)
  BY HeldOne
<1> DEFINE P(s) == {p[2] : p \in s}
<1>3. HeldSums(c, v) \in [SUBSET HeldBy(c) -> Int]
  BY <1>1, MaskedTyped DEF HeldSums
<1>4. HeldSums(c, v)[{}] = 0
  <2>1. P({}) = {}
    OBVIOUS
  <2> QED BY <1>1, <2>1, MaskedNone DEF HeldSums
<1>5. ASSUME NEW s \in SUBSET HeldBy(c), NEW x \in s
      PROVE  HeldSums(c, v)[s] = v[x[2]] + HeldSums(c, v)[s \ {x}]
  <2>1. x[2] \in 1..n
    BY <1>1, <1>2 DEF OfCustodian
  <2>2. P(s) = {x[2]} \cup P(s \ {x})
    OBVIOUS
  <2>3. x[2] \notin P(s \ {x})
    <3>1. ASSUME NEW p \in s \ {x}, p[2] = x[2] PROVE FALSE
      <4>1. p = <<r, p[2]>> /\ x = <<r, x[2]>>
        BY <1>2
      <4> QED BY <3>1, <4>1
    <3> QED BY <3>1
  <2> HIDE DEF P
  <2>4. SumSeq(Masked(v, P(s))) = SumSeq(Masked(v, {x[2]})) + SumSeq(Masked(v, P(s \ {x})))
    <3>0. PICK A, B : A = {x[2]} /\ B = P(s \ {x})
      OBVIOUS
    <3>1. A \cap B = {} /\ P(s) = A \cup B
      BY <2>2, <2>3, <3>0
    <3>2. SumSeq(Masked(v, A \cup B)) = SumSeq(Masked(v, A)) + SumSeq(Masked(v, B))
      BY <1>1, <3>1, MaskedSum, Zenon
    <3> QED BY <3>0, <3>1, <3>2, Zenon
  <2>5. SumSeq(Masked(v, {x[2]})) = v[x[2]]
    BY <1>1, <2>1, MaskedOne
  <2>6. s \ {x} \in SUBSET HeldBy(c)
    OBVIOUS
  <2> QED BY <2>4, <2>5, <2>6 DEF HeldSums, P
<1>6. P(HeldBy(c)) = OfCustodian(r, c)
  <2>1. ASSUME NEW i \in OfCustodian(r, c) PROVE i \in P(HeldBy(c))
    <3>1. <<r, i>> \in HeldBy(c) /\ <<r, i>>[2] = i
      BY <1>2
    <3> QED BY <3>1
  <2> QED BY <1>2, <2>1
<1>7. HeldSums(c, v)[HeldBy(c)] = SumSeq(Masked(v, OfCustodian(r, c)))
  BY <1>6 DEF HeldSums
<1> QED BY <1>3, <1>4, <1>5, <1>7 DEF SumsHeld

LEMMA OffsetsTyped ==
    ASSUME NEW list \in Seq(Offset)
    PROVE  OffsetSum(list) \in Int
<1> DEFINE s == [k \in DOMAIN list |-> list[k].cents]
<1>1. Len(list) \in Nat /\ DOMAIN list = 1..Len(list) /\ \A k \in 1..Len(list) : list[k] \in Offset
  BY LenProperties, ElementOfSeq
<1>2. s \in [1..Len(list) -> Int]
  BY <1>1 DEF Offset
<1> HIDE DEF s
<1>3. s \in Seq(Int)
  BY <1>1, <1>2, FunctionIsSeq
<1>4. SumSeq(s) \in Int
  BY <1>3, RunningSumsUp, SumIs
<1> QED BY <1>4 DEF OffsetSum, s

Net(r) == [i \in DOMAIN records[r] |-> NetForRecord(r, i)]

LEMMA CustodianNetIs ==
    ASSUME TypeOK, NEW r, Runs = {r}, NEW c
    PROVE  /\ Net(r) \in [1..Len(records[r]) -> Int]
           /\ CustodianNet(c) = SumSeq(Masked(Net(r), OfCustodian(r, c)))
<1> PICK n \in Nat : n = Len(records[r])
  BY LedgerTyped
<1> DEFINE a == [i \in 1..n |-> records[r][i].allocated]
           o == [i \in 1..n |-> OffsetSum(offsets[r][i])]
           T == OfCustodian(r, c)
<1>1. DOMAIN records[r] = 1..n
  BY LedgerTyped
<1>2. a \in [1..n -> Int]
  <2>1. \A i \in 1..n : records[r][i] \in LedgerRecord
    BY <1>1, LedgerTyped
  <2> QED BY <2>1 DEF LedgerRecord
<1>3. o \in [1..n -> Int]
  <2>1. \A i \in 1..n : offsets[r][i] \in Seq(Offset)
    BY <1>1, LedgerTyped
  <2> QED BY <2>1, OffsetsTyped
<1>4. Net(r) \in [1..n -> Int] /\ \A i \in 1..n : Net(r)[i] = a[i] + o[i]
  <2>1. \A i \in 1..n : Net(r)[i] = a[i] + o[i]
    BY <1>1 DEF Net, NetForRecord
  <2>2. \A i \in 1..n : a[i] \in Int /\ o[i] \in Int
    BY <1>2, <1>3
  <2> HIDE DEF a, o
  <2>3. \A i \in 1..n : Net(r)[i] \in Int
    BY <2>1, <2>2
  <2> QED BY <1>1, <2>1, <2>3 DEF Net
<1>5. /\ IsFiniteSet(HeldBy(c))
      /\ \A x \in HeldBy(c) : x[1] = r /\ x[2] \in 1..n
  <2>1. IsFiniteSet(HeldBy(c)) /\ \A x \in HeldBy(c) : x = <<r, x[2]>> /\ x[2] \in OfCustodian(r, c)
    BY HeldOne
  <2> QED BY <1>1, <2>1 DEF OfCustodian
<1>6. MapThenSumSet(LAMBDA p : records[p[1]][p[2]].allocated, HeldBy(c)) = SumSeq(Masked(a, T))
  <2> DEFINE h == HeldSums(c, a)
  <2>1. /\ h \in [SUBSET HeldBy(c) -> Int] /\ h[{}] = 0
        /\ \A s \in SUBSET HeldBy(c) : \A x \in s : h[s] = a[x[2]] + h[s \ {x}]
        /\ h[HeldBy(c)] = SumSeq(Masked(a, T))
    <3>1. a \in [1..Len(records[r]) -> Int]
      BY <1>2
    <3> HIDE DEF a
    <3>2. SumsHeld(HeldSums(c, a), r, c, a)
      BY <3>1, HeldSumsLaw
    <3> QED BY <3>2 DEF SumsHeld
  <2>2. \A x \in HeldBy(c) : a[x[2]] = records[x[1]][x[2]].allocated
    BY <1>5
  <2> HIDE DEF h, a, T
  <2>3. \A s \in SUBSET HeldBy(c) : \A x \in s : h[s] = records[x[1]][x[2]].allocated + h[s \ {x}]
    BY <2>1, <2>2
  <2> QED BY <1>5, <2>1, <2>3, GrossIs
<1>7. MapThenSumSet(LAMBDA p : OffsetSum(offsets[p[1]][p[2]]), HeldBy(c)) = SumSeq(Masked(o, T))
  <2> DEFINE h == HeldSums(c, o)
  <2>1. /\ h \in [SUBSET HeldBy(c) -> Int] /\ h[{}] = 0
        /\ \A s \in SUBSET HeldBy(c) : \A x \in s : h[s] = o[x[2]] + h[s \ {x}]
        /\ h[HeldBy(c)] = SumSeq(Masked(o, T))
    <3>1. o \in [1..Len(records[r]) -> Int]
      BY <1>3
    <3> HIDE DEF o
    <3>2. SumsHeld(HeldSums(c, o), r, c, o)
      BY <3>1, HeldSumsLaw
    <3> QED BY <3>2 DEF SumsHeld
  <2>2. \A x \in HeldBy(c) : o[x[2]] = OffsetSum(offsets[x[1]][x[2]])
    BY <1>5
  <2> HIDE DEF h, o, T
  <2>3. \A s \in SUBSET HeldBy(c) : \A x \in s : h[s] = OffsetSum(offsets[x[1]][x[2]]) + h[s \ {x}]
    BY <2>1, <2>2
  <2> QED BY <1>5, <2>1, <2>3, AdjustmentsAre
<1> HIDE DEF a, o, T
<1>8. SumSeq(Masked(Net(r), T)) = SumSeq(Masked(a, T)) + SumSeq(Masked(o, T))
  <2> DEFINE s == Masked(a, T)
             t == Masked(o, T)
             u == Masked(Net(r), T)
  <2>1. s \in Seq(Int) /\ Len(s) = n /\ \A i \in 1..n : s[i] = IF i \in T THEN a[i] ELSE 0
    BY <1>2, MaskedTyped
  <2>2. t \in Seq(Int) /\ Len(t) = n /\ \A i \in 1..n : t[i] = IF i \in T THEN o[i] ELSE 0
    BY <1>3, MaskedTyped
  <2>3. u \in Seq(Int) /\ Len(u) = n /\ \A i \in 1..n : u[i] = IF i \in T THEN Net(r)[i] ELSE 0
    <3>1. Net(r) \in [1..n -> Int]
      BY <1>4
    <3> QED BY <3>1, MaskedTyped
  <2> HIDE DEF s, t, u
  <2>4. ASSUME NEW i \in 1..Len(s) PROVE u[i] = s[i] + t[i]
    <3>1. i \in 1..n
      BY <2>1
    <3>2. a[i] \in Int /\ o[i] \in Int /\ Net(r)[i] = a[i] + o[i]
      BY <1>2, <1>3, <1>4, <3>1
    <3>3. /\ s[i] = IF i \in T THEN a[i] ELSE 0
          /\ t[i] = IF i \in T THEN o[i] ELSE 0
          /\ u[i] = IF i \in T THEN Net(r)[i] ELSE 0
      BY <2>1, <2>2, <2>3, <3>1
    <3> QED BY <3>2, <3>3
  <2>5. SumSeq(u) = SumSeq(s) + SumSeq(t)
    BY <2>1, <2>2, <2>3, <2>4, SumOfSums
  <2> QED BY <2>5 DEF s, t, u
<1> QED BY <1>4, <1>6, <1>7, <1>8 DEF CustodianNet, T

(* What the custodians are paid is what the records net, whoever has them. *)
LEMMA CustodiansShareNet ==
    ASSUME TypeOK, NEW r, Runs = {r}, IsFiniteSet(Custodians)
    PROVE  MapThenSumSet(CustodianNet, Custodians) = SumSeq(Net(r))
<1> PICK n \in Nat : n = Len(records[r])
  BY LedgerTyped
<1> DEFINE O(s) == {i \in 1..n : records[r][i].custodian \in s}
           h == [s \in SUBSET Custodians |-> SumSeq(Masked(Net(r), O(s)))]
<1>1. DOMAIN records[r] = 1..n /\ \A i \in 1..n : records[r][i].custodian \in Custodians
  <2>1. DOMAIN records[r] = 1..n /\ \A i \in 1..n : records[r][i] \in LedgerRecord
    BY LedgerTyped
  <2> QED BY <2>1 DEF LedgerRecord
<1>2. Net(r) \in [1..n -> Int]
  BY CustodianNetIs
<1>3. h \in [SUBSET Custodians -> Int]
  BY <1>2, MaskedTyped
<1>4. h[{}] = 0
  <2>1. O({}) = {}
    OBVIOUS
  <2> QED BY <1>2, <2>1, MaskedNone
<1>5. ASSUME NEW s \in SUBSET Custodians, NEW x \in s
      PROVE  h[s] = CustodianNet(x) + h[s \ {x}]
  <2>1. O(s) = OfCustodian(r, x) \cup O(s \ {x}) /\ OfCustodian(r, x) \cap O(s \ {x}) = {}
    BY <1>1 DEF OfCustodian
  <2>2. CustodianNet(x) = SumSeq(Masked(Net(r), OfCustodian(r, x)))
    BY CustodianNetIs
  <2> HIDE DEF O
  <2>3. SumSeq(Masked(Net(r), O(s)))
          = SumSeq(Masked(Net(r), OfCustodian(r, x))) + SumSeq(Masked(Net(r), O(s \ {x})))
    <3>0. PICK A, B : A = OfCustodian(r, x) /\ B = O(s \ {x})
      OBVIOUS
    <3>1. A \cap B = {} /\ O(s) = A \cup B
      BY <2>1, <3>0
    <3>2. SumSeq(Masked(Net(r), A \cup B)) = SumSeq(Masked(Net(r), A)) + SumSeq(Masked(Net(r), B))
      BY <1>2, <3>1, MaskedSum, Zenon
    <3> QED BY <3>0, <3>1, <3>2, Zenon
  <2>4. s \ {x} \in SUBSET Custodians
    OBVIOUS
  <2> QED BY <2>2, <2>3, <2>4
<1>6. h[Custodians] = SumSeq(Net(r))
  <2>1. O(Custodians) = 1..n
    BY <1>1
  <2> HIDE DEF O
  <2>2. Masked(Net(r), O(Custodians)) = Net(r)
    BY <1>2, <2>1, MaskedAll
  <2> QED BY <2>2
<1> HIDE DEF h
<1>7. MapThenSumSet(CustodianNet, Custodians) = h[Custodians]
  BY <1>3, <1>4, <1>5, NetsOfAll
<1> QED BY <1>6, <1>7

-----------------------------------------------------------------------------
(* Proofs: statements                                                      *)

(* A statement that is being written, line by line.                        *)
StatementInv ==
    statement # NoStatement =>
      /\ statement \in Statement
      /\ records[statement.run] # <<>>
      /\ DOMAIN statement.settled = DOMAIN records[statement.run]
      /\ DOMAIN statement.nets \subseteq DOMAIN statement.settled
      /\ \A i \in DOMAIN statement.settled : statement.settled[i] <= Len(offsets[statement.run][i])
      /\ \A i \in DOMAIN statement.nets :
           \E k \in statement.settled[i]..Len(offsets[statement.run][i]) :
             statement.nets[i] = NetAfter(statement.run, i, k)

LEMMA NetNow ==
    ASSUME TypeOK, NEW r \in Runs, NEW i \in DOMAIN records[r]
    PROVE  /\ NetForRecord(r, i) \in Int
           /\ NetForRecord(r, i) = NetAfter(r, i, Len(offsets[r][i]))
           /\ Len(offsets[r][i]) \in Nat
<1>1. offsets[r][i] \in Seq(Offset) /\ records[r][i] \in LedgerRecord
  BY LedgerTyped
<1>2. OffsetSum(offsets[r][i]) \in Int /\ records[r][i].allocated \in Int
  BY <1>1, OffsetsTyped DEF LedgerRecord
<1>3. SubSeq(offsets[r][i], 1, Len(offsets[r][i])) = offsets[r][i] /\ Len(offsets[r][i]) \in Nat
  BY <1>1, LenProperties
<1>4. /\ NetForRecord(r, i) = records[r][i].allocated + OffsetSum(offsets[r][i])
      /\ NetAfter(r, i, Len(offsets[r][i]))
           = records[r][i].allocated + OffsetSum(SubSeq(offsets[r][i], 1, Len(offsets[r][i])))
  BY DEF NetForRecord, NetAfter
<1>5. NetAfter(r, i, Len(offsets[r][i])) = NetForRecord(r, i)
  BY <1>3, <1>4, Zenon
<1> QED BY <1>2, <1>3, <1>4, <1>5

(* What was read of a record, once true, stays what it had been.           *)
LEMMA NetStays ==
    ASSUME TypeOK, Next, NEW r \in Runs, NEW i \in DOMAIN records[r]
    PROVE  /\ records'[r] = records[r]
           /\ Len(offsets[r][i]) \in Nat /\ Len(offsets'[r][i]) \in Nat
           /\ Len(offsets[r][i]) <= Len(offsets'[r][i])
           /\ \A k \in 0..Len(offsets[r][i]) :
                SubSeq(offsets'[r][i], 1, k) = SubSeq(offsets[r][i], 1, k)
<1> PICK q \in Runs :
      \/ \E revenue \in Revenues, list \in Contributions : Posts(q, list, revenue)
      \/ \E j \in DOMAIN records[q], o \in Offset : Files(q, j, o) /\ RefundLaw(records[q][j], o)
  BY NextEffect
<1>1. /\ offsets[r][i] \in Seq(Offset) /\ i \in DOMAIN offsets[r] /\ records[r] # <<>>
      /\ DOMAIN offsets[r] = DOMAIN records[r]
  BY LedgerTyped
<1>2. Len(offsets[r][i]) \in Nat
  BY <1>1, LenProperties
<1>3. ASSUME NEW revenue \in Revenues, NEW list \in Contributions, Posts(q, list, revenue)
      PROVE  records'[r] = records[r] /\ offsets'[r] = offsets[r]
  <2>1. r # q
    BY <1>1, <1>3 DEF Posts
  <2> QED BY <1>3, <2>1 DEF Posts, TypeOK
<1>4. ASSUME NEW j \in DOMAIN records[q], NEW o \in Offset, Files(q, j, o)
      PROVE  /\ records'[r] = records[r]
             /\ offsets'[r][i] = offsets[r][i] \/ offsets'[r][i] = Append(offsets[r][i], o)
  <2>1. offsets' = [offsets EXCEPT ![q] = [offsets[q] EXCEPT ![j] = Append(offsets[q][j], o)]]
    BY <1>4 DEF Files
  <2> QED BY <1>1, <1>4, <2>1 DEF Files, TypeOK
<1>5. ASSUME NEW l \in Seq(Offset), NEW o \in Offset
      PROVE  /\ Len(Append(l, o)) = Len(l) + 1
             /\ \A k \in 0..Len(l) : SubSeq(Append(l, o), 1, k) = SubSeq(l, 1, k)
  <2>1. Len(Append(l, o)) = Len(l) + 1 /\ \A m \in 1..Len(l) : Append(l, o)[m] = l[m]
    OBVIOUS
  <2>2. ASSUME NEW k \in 0..Len(l) PROVE SubSeq(Append(l, o), 1, k) = SubSeq(l, 1, k)
    <3>1. \A m \in 1..k : Append(l, o)[m] = l[m]
      BY <2>1, LenProperties
    <3>2. /\ SubSeq(Append(l, o), 1, k) = [m \in 1..k |-> Append(l, o)[m]]
          /\ SubSeq(l, 1, k) = [m \in 1..k |-> l[m]]
      OBVIOUS
    <3> QED BY <3>1, <3>2
  <2> QED BY <2>1, <2>2
<1>6. \/ records'[r] = records[r] /\ offsets'[r][i] = offsets[r][i]
      \/ \E o \in Offset : records'[r] = records[r] /\ offsets'[r][i] = Append(offsets[r][i], o)
  BY <1>3, <1>4
<1>7. CASE \E o \in Offset : records'[r] = records[r] /\ offsets'[r][i] = Append(offsets[r][i], o)
  <2> PICK o \in Offset : records'[r] = records[r] /\ offsets'[r][i] = Append(offsets[r][i], o)
    BY <1>7
  <2>1. /\ Len(Append(offsets[r][i], o)) = Len(offsets[r][i]) + 1
        /\ \A k \in 0..Len(offsets[r][i]) :
             SubSeq(Append(offsets[r][i], o), 1, k) = SubSeq(offsets[r][i], 1, k)
    BY <1>1, <1>5
  <2> QED BY <1>2, <2>1
<1> QED BY <1>2, <1>6, <1>7

LEMMA StatementTyped ==
    ASSUME TypeOK, StatementInv, statement # NoStatement
    PROVE  /\ statement.run \in Runs /\ statement.settled \in Seq(Nat)
           /\ statement.nets \in [DOMAIN statement.nets -> Int]
           /\ records[statement.run] # <<>>
           /\ DOMAIN statement.settled = DOMAIN records[statement.run]
           /\ DOMAIN statement.nets \subseteq DOMAIN statement.settled
           /\ DOMAIN statement.settled \subseteq Nat \ {0}
           /\ \A i \in DOMAIN statement.settled : statement.settled[i] \in Nat
<1>1. statement \in Statement
  BY DEF StatementInv
<1>2. /\ statement.run \in Runs /\ statement.settled \in Seq(Nat)
      /\ statement.nets \in UNION {[D -> Int] : D \in SUBSET (Nat \ {0})}
  BY <1>1 DEF Statement
<1>3. /\ DOMAIN statement.settled = 1..Len(statement.settled) /\ Len(statement.settled) \in Nat
      /\ \A i \in DOMAIN statement.settled : statement.settled[i] \in Nat
  BY <1>2, LenProperties, ElementOfSeq
<1>4. statement.nets \in [DOMAIN statement.nets -> Int]
  BY <1>2
<1>5. /\ records[statement.run] # <<>>
      /\ DOMAIN statement.settled = DOMAIN records[statement.run]
      /\ DOMAIN statement.nets \subseteq DOMAIN statement.settled
  BY DEF StatementInv
<1> QED BY <1>2, <1>3, <1>4, <1>5

LEMMA LedgerStepKeeps ==
    ASSUME TypeOK, StatementInv, Next, UNCHANGED statement
    PROVE  StatementInv'
<1> SUFFICES ASSUME statement # NoStatement
             PROVE  /\ statement \in Statement
                    /\ records'[statement.run] # <<>>
                    /\ DOMAIN statement.settled = DOMAIN records'[statement.run]
                    /\ DOMAIN statement.nets \subseteq DOMAIN statement.settled
                    /\ \A i \in DOMAIN statement.settled :
                         statement.settled[i] <= Len(offsets'[statement.run][i])
                    /\ \A i \in DOMAIN statement.nets :
                         \E k \in statement.settled[i]..Len(offsets'[statement.run][i]) :
                           statement.nets[i] = NetAfter(statement.run, i, k)'
  BY DEF StatementInv
<1> PICK r : r = statement.run
  OBVIOUS
<1>1. /\ r \in Runs /\ records[r] # <<>> /\ DOMAIN statement.settled = DOMAIN records[r]
      /\ DOMAIN records[r] = 1..Len(records[r]) /\ Len(records[r]) \in Nat
      /\ DOMAIN statement.nets \subseteq DOMAIN statement.settled
      /\ \A i \in DOMAIN statement.settled : statement.settled[i] \in Nat
  BY StatementTyped, LedgerTyped
<1>2. records'[r] = records[r]
  <2>1. 1 \in DOMAIN records[r]
    <3>1. records[r] \in Seq(LedgerRecord) /\ Len(records[r]) # 0
      BY <1>1, LedgerTyped, EmptySeq
    <3> QED BY <1>1, <3>1
  <2> QED BY <1>1, <2>1, NetStays
<1>3. ASSUME NEW i \in DOMAIN statement.settled PROVE statement.settled[i] <= Len(offsets'[r][i])
  <2>1. /\ Len(offsets[r][i]) \in Nat /\ Len(offsets'[r][i]) \in Nat
        /\ Len(offsets[r][i]) <= Len(offsets'[r][i])
    BY <1>1, NetStays
  <2>2. statement.settled[i] <= Len(offsets[r][i])
    BY DEF StatementInv
  <2> QED BY <1>1, <2>1, <2>2
<1>4. ASSUME NEW i \in DOMAIN statement.nets
      PROVE  \E k \in statement.settled[i]..Len(offsets'[r][i]) :
               statement.nets[i] = NetAfter(r, i, k)'
  <2>1. PICK k \in statement.settled[i]..Len(offsets[r][i]) : statement.nets[i] = NetAfter(r, i, k)
    BY DEF StatementInv
  <2>2. /\ i \in DOMAIN records[r] /\ statement.settled[i] \in Nat
    BY <1>1
  <2>3. /\ Len(offsets[r][i]) \in Nat /\ Len(offsets'[r][i]) \in Nat
        /\ Len(offsets[r][i]) <= Len(offsets'[r][i])
        /\ \A m \in 0..Len(offsets[r][i]) :
             SubSeq(offsets'[r][i], 1, m) = SubSeq(offsets[r][i], 1, m)
    BY <1>1, <2>2, NetStays
  <2>4. k \in 0..Len(offsets[r][i]) /\ k \in statement.settled[i]..Len(offsets'[r][i])
    BY <2>2, <2>3
  <2>5. SubSeq(offsets'[r][i], 1, k) = SubSeq(offsets[r][i], 1, k)
    BY <2>3, <2>4
  <2>6. NetAfter(r, i, k)' = NetAfter(r, i, k)
    BY <1>2, <2>5 DEF NetAfter, OffsetSum
  <2> QED BY <2>1, <2>4, <2>6
<1>5. statement \in Statement
  BY DEF StatementInv
<1> QED BY <1>1, <1>2, <1>3, <1>4, <1>5

LEMMA StartKeeps ==
    ASSUME TypeOK, NEW r \in Runs, StartStatement(r)
    PROVE  StatementInv'
<1> DEFINE settled == [i \in DOMAIN offsets[r] |-> Len(offsets[r][i])]
<1>1. /\ statement' = [run |-> r, settled |-> settled, nets |-> <<>>]
      /\ records[r] # <<>> /\ records' = records /\ offsets' = offsets
  BY DEF StartStatement, vars
<1>2. /\ DOMAIN offsets[r] = DOMAIN records[r] /\ DOMAIN records[r] = 1..Len(records[r])
      /\ Len(records[r]) \in Nat
      /\ \A i \in DOMAIN records[r] : Len(offsets[r][i]) \in Nat
  BY LedgerTyped, NetNow
<1>3. /\ settled \in [1..Len(records[r]) -> Nat] /\ DOMAIN settled = DOMAIN records[r]
      /\ \A i \in DOMAIN settled : settled[i] = Len(offsets[r][i]) /\ settled[i] <= Len(offsets[r][i])
  BY <1>2
<1> HIDE DEF settled
<1>4. settled \in Seq(Nat) /\ Len(settled) \in Nat
  BY <1>2, <1>3, FunctionIsSeq
<1>5. statement' \in Statement
  <2>1. <<>> \in [{} -> Int] /\ {} \in SUBSET (Nat \ {0})
    OBVIOUS
  <2>2. <<>> \in UNION {[D -> Int] : D \in SUBSET (Nat \ {0})}
    BY <2>1
  <2> QED BY <1>1, <1>4, <2>2 DEF Statement
<1>6. /\ statement'.run = r /\ statement'.settled = settled /\ statement'.nets = <<>>
      /\ DOMAIN <<>> = {}
  BY <1>1
<1> QED BY <1>1, <1>3, <1>4, <1>5, <1>6 DEF StatementInv

LEMMA LineKeeps ==
    ASSUME TypeOK, StatementInv, WriteNet
    PROVE  StatementInv'
<1> PICK s : s = statement
  OBVIOUS
<1>1. statement # NoStatement /\ records' = records /\ offsets' = offsets
  BY DEF WriteNet, vars
<1>2. PICK n \in DOMAIN s.settled :
        statement' = [s EXCEPT !.nets = [j \in DOMAIN @ \cup {n} |->
                                          IF j = n THEN NetForRecord(s.run, n) ELSE @[j]]]
  BY DEF WriteNet
<1> DEFINE nets == [j \in DOMAIN s.nets \cup {n} |->
                     IF j = n THEN NetForRecord(s.run, n) ELSE s.nets[j]]
<1>3. /\ s.run \in Runs /\ s.settled \in Seq(Nat) /\ s.nets \in [DOMAIN s.nets -> Int]
      /\ records[s.run] # <<>> /\ DOMAIN s.settled = DOMAIN records[s.run]
      /\ DOMAIN s.nets \subseteq DOMAIN s.settled /\ DOMAIN s.settled \subseteq Nat \ {0}
      /\ \A i \in DOMAIN s.settled : s.settled[i] \in Nat
  BY <1>1, StatementTyped
<1>4. s \in Statement /\ \A i \in DOMAIN s.settled : s.settled[i] <= Len(offsets[s.run][i])
  BY <1>1 DEF StatementInv
<1>5. /\ NetForRecord(s.run, n) \in Int /\ Len(offsets[s.run][n]) \in Nat
      /\ NetForRecord(s.run, n) = NetAfter(s.run, n, Len(offsets[s.run][n]))
  BY <1>3, NetNow
<1>6. /\ nets \in [DOMAIN s.nets \cup {n} -> Int] /\ DOMAIN nets = DOMAIN s.nets \cup {n}
      /\ nets[n] = NetForRecord(s.run, n)
      /\ \A j \in DOMAIN nets : j # n => j \in DOMAIN s.nets /\ nets[j] = s.nets[j]
  BY <1>3, <1>5
<1>7. statement' = [s EXCEPT !.nets = nets]
  BY <1>2
<1> HIDE DEF nets
<1>8. /\ statement'.run = s.run /\ statement'.settled = s.settled /\ statement'.nets = nets
      /\ statement' \in Statement
  <2>1. DOMAIN nets \in SUBSET (Nat \ {0})
    BY <1>3, <1>6
  <2>2. nets \in UNION {[D -> Int] : D \in SUBSET (Nat \ {0})}
    BY <1>6, <2>1
  <2> QED BY <1>4, <1>7, <2>2 DEF Statement
<1>9. ASSUME NEW i \in DOMAIN nets
      PROVE  \E k \in s.settled[i]..Len(offsets[s.run][i]) : nets[i] = NetAfter(s.run, i, k)
  <2>1. CASE i = n
    <3>1. s.settled[n] \in Nat /\ s.settled[n] <= Len(offsets[s.run][n])
      BY <1>3, <1>4
    <3>2. Len(offsets[s.run][n]) \in s.settled[n]..Len(offsets[s.run][n])
      BY <1>5, <3>1
    <3> QED BY <1>5, <1>6, <2>1, <3>2
  <2>2. CASE i # n
    <3>1. i \in DOMAIN s.nets /\ nets[i] = s.nets[i]
      BY <1>6, <2>2
    <3>2. \E k \in s.settled[i]..Len(offsets[s.run][i]) : s.nets[i] = NetAfter(s.run, i, k)
      BY <1>1, <3>1 DEF StatementInv
    <3> QED BY <3>1, <3>2
  <2> QED BY <2>1, <2>2
<1>10. DOMAIN nets \subseteq DOMAIN s.settled
  BY <1>3, <1>6
<1>11. \A i \in DOMAIN statement'.settled :
         statement'.settled[i] <= Len(offsets'[statement'.run][i])
  BY <1>1, <1>4, <1>8
<1>12. \A i \in DOMAIN statement'.nets :
         \E k \in statement'.settled[i]..Len(offsets'[statement'.run][i]) :
           statement'.nets[i] = NetAfter(s.run, i, k)
  BY <1>1, <1>8, <1>9
<1>13. \A i, k : NetAfter(s.run, i, k) = NetAfter(statement.run, i, k)'
  BY <1>1, <1>8 DEF NetAfter, OffsetSum
<1> QED BY <1>1, <1>3, <1>8, <1>10, <1>11, <1>12, <1>13 DEF StatementInv

(* A statement that nothing disturbed says what the records net.           *)
LEMMA UndisturbedNets ==
    ASSUME TypeOK, StatementInv, statement # NoStatement,
           DOMAIN statement.nets = DOMAIN statement.settled, Undisturbed(statement)
    PROVE  statement.nets = Net(statement.run)
<1> PICK s : s = statement
  OBVIOUS
<1>1. /\ s.run \in Runs /\ s.nets \in [DOMAIN s.nets -> Int] /\ DOMAIN s.nets = DOMAIN records[s.run]
      /\ DOMAIN s.settled = DOMAIN s.nets
  BY StatementTyped
<1>2. ASSUME NEW i \in DOMAIN s.nets PROVE s.nets[i] = NetForRecord(s.run, i)
  <2>1. PICK k \in s.settled[i]..Len(offsets[s.run][i]) : s.nets[i] = NetAfter(s.run, i, k)
    BY DEF StatementInv
  <2>2. Len(offsets[s.run][i]) = s.settled[i]
    BY <1>1 DEF Undisturbed
  <2>3. /\ NetForRecord(s.run, i) = NetAfter(s.run, i, Len(offsets[s.run][i]))
        /\ Len(offsets[s.run][i]) \in Nat
    BY <1>1, NetNow
  <2>4. k = Len(offsets[s.run][i])
    BY <2>2, <2>3
  <2> QED BY <2>1, <2>3, <2>4
<1>3. s.nets = [i \in DOMAIN s.nets |-> s.nets[i]]
  BY <1>1
<1> QED BY <1>1, <1>2, <1>3 DEF Net

LEMMA StatementIsJustified ==
    ASSUME TypeOK, StatementInv
    PROVE  StatementsJustified
<1> SUFFICES ASSUME statement # NoStatement
             PROVE  /\ \A i \in DOMAIN statement.nets :
                         \E k \in statement.settled[i]..Len(offsets[statement.run][i]) :
                           statement.nets[i] = NetAfter(statement.run, i, k)
                    /\ DOMAIN statement.nets = DOMAIN statement.settled /\ Undisturbed(statement)
                         /\ Runs = {statement.run} =>
                           SumSeq(statement.nets) = MapThenSumSet(CustodianNet, Custodians)
  BY DEF StatementsJustified
<1>1. ASSUME DOMAIN statement.nets = DOMAIN statement.settled, Undisturbed(statement), Runs = {statement.run}
      PROVE  SumSeq(statement.nets) = MapThenSumSet(CustodianNet, Custodians)
  <2>1. statement.nets = Net(statement.run)
    BY <1>1, UndisturbedNets
  <2>2. MapThenSumSet(CustodianNet, Custodians) = SumSeq(Net(statement.run))
    BY <1>1, StatementAssumption, CustodiansShareNet
  <2> QED BY <2>1, <2>2
<1> QED BY <1>1 DEF StatementInv

-----------------------------------------------------------------------------
(* The theorems                                                            *)

(* Every record and offset keeps its type, and offsets are kept for the    *)
(* records there are.                                                      *)
THEOREM LedgerTypeCorrect == Spec => []TypeOK
BY LedgerInvariant, PTL DEF LedgerInv

(* Whatever the revenue and the weights, the records of a run add up to    *)
(* the revenue to the cent, and those of a broken-off post to no more.     *)
THEOREM NoDrift == Spec => []SplitExact
<1>1. LedgerInv => SplitExact
  BY SplitIsExact DEF LedgerInv
<1> QED BY <1>1, LedgerInvariant, PTL

(* No other split of the revenue in whole cents is fairer.                 *)
THEOREM SplitsAreFair == Spec => []SplitFair
<1>1. LedgerInv => SplitFair
  BY SplitIsFair DEF LedgerInv
<1> QED BY <1>1, LedgerInvariant, PTL

(* Whatever the base of the ids and their padding: what the records of a   *)
(* whole run within the padding say suffices to compute them anew, in the  *)
(* order in which they are listed.                                         *)
THEOREM RecordsReplay == Spec => []WholeRunsReplay
<1>1. LedgerInv => WholeRunsReplay
  BY ReplayFinds DEF LedgerInv
<1> QED BY <1>1, LedgerInvariant, PTL

(* Refunds are rounded half to even, for any allocation and any ratio.     *)
THEOREM RefundsHalfEven == Spec => []RefundsRounded
<1>1. LedgerInv => RefundsRounded
  BY DEF LedgerInv
<1> QED BY <1>1, LedgerInvariant, PTL

(* Nothing that was recorded changes or goes.                              *)
THEOREM LedgerAppends == Spec => AppendOnly
<1> DEFINE Kept == \A r \in Runs : \A i \in DOMAIN records[r] :
                     /\ records'[r] = records[r]
                     /\ IsPrefix(offsets[r][i], offsets'[r][i])
<1>1. ASSUME NEW S, NEW f \in Seq(S), NEW x
      PROVE  IsPrefix(f, f) /\ IsPrefix(f, Append(f, x))
  <2>1. Len(f) \in Nat /\ \A i \in 1..Len(f) : f[i] \in S
    BY LenProperties, ElementOfSeq
  <2>2. SubSeq(Append(f, x), 1, Len(f)) = SubSeq(f, 1, Len(f))
    <3>1. Len(Append(f, x)) = Len(f) + 1 /\ \A i \in 1..Len(f) : Append(f, x)[i] = f[i]
      OBVIOUS
    <3> QED BY <2>1, <3>1
  <2> QED BY <2>1, <2>2 DEF IsPrefix
<1>2. ASSUME LedgerInv, Next PROVE Kept
  <2>1. TypeOK
    BY <1>2 DEF LedgerInv
  <2> PICK r \in Runs :
        \/ \E revenue \in Revenues, list \in Contributions : Posts(r, list, revenue)
        \/ \E i \in DOMAIN records[r], o \in Offset : Files(r, i, o) /\ RefundLaw(records[r][i], o)
    BY <1>2, <2>1, NextEffect
  <2> SUFFICES ASSUME NEW s \in Runs, NEW j \in DOMAIN records[s]
               PROVE  records'[s] = records[s] /\ IsPrefix(offsets[s][j], offsets'[s][j])
    OBVIOUS
  <2>2. /\ offsets[s][j] \in Seq(Offset) /\ j \in DOMAIN offsets[s]
        /\ DOMAIN offsets[s] = DOMAIN records[s]
    BY <2>1, LedgerTyped
  <2>3. ASSUME NEW revenue \in Revenues, NEW list \in Contributions, Posts(r, list, revenue)
        PROVE  records'[s] = records[s] /\ offsets'[s] = offsets[s]
    <3>1. s # r
      BY <2>3 DEF Posts
    <3> QED BY <2>1, <2>3, <3>1 DEF Posts, TypeOK
  <2>4. ASSUME NEW i \in DOMAIN records[r], NEW o \in Offset, Files(r, i, o)
        PROVE  /\ records'[s] = records[s]
               /\ offsets'[s][j] = offsets[s][j] \/ offsets'[s][j] = Append(offsets[s][j], o)
    <3>1. /\ records' = records
          /\ offsets' = [offsets EXCEPT ![r] = [offsets[r] EXCEPT ![i] = Append(offsets[r][i], o)]]
      BY <2>4 DEF Files
    <3> QED BY <2>1, <2>2, <3>1 DEF TypeOK
  <2> QED BY <1>1, <2>2, <2>3, <2>4
<1>3. LedgerInv /\ [Next]_vars => [Kept]_vars
  BY <1>2
<1> QED BY <1>3, LedgerInvariant, PTL DEF Spec, AppendOnly

(* Statements only read: with them, the ledger does what it does alone, so *)
(* all of the above holds while statements are written.                    *)
THEOREM StatementsOnlyRead == StatementSpec => Spec
<1>1. StatementInit => Init
  BY DEF StatementInit
<1>2. [StatementNext]_statementVars => [Next]_vars
  BY DEF StatementNext, statementVars, StartStatement, WriteNet
<1> QED BY <1>1, <1>2, PTL DEF StatementSpec, Spec

(* For any number of records, offsets and custodians, and whatever is      *)
(* filed between the lines: a run statement gives nets the records had,    *)
(* and pays out what the custodians' statements do.                        *)
THEOREM StatementsAreJustified == StatementSpec => []StatementsJustified
<1>1. StatementSpec => []LedgerInv
  BY StatementsOnlyRead, LedgerInvariant, PTL
<1>2. LedgerInv => TypeOK
  BY DEF LedgerInv
<1>3. StatementInit => StatementInv
  BY DEF StatementInit, StatementInv
<1>4. ASSUME TypeOK, StatementInv, [StatementNext]_statementVars PROVE StatementInv'
  <2>1. CASE StatementNext
    BY <1>4, <2>1, LedgerStepKeeps, StartKeeps, LineKeeps DEF StatementNext
  <2>2. CASE UNCHANGED statementVars
    BY <1>4, <2>2 DEF StatementInv, statementVars, vars, NetAfter, OffsetSum
  <2> QED BY <1>4, <2>1, <2>2
<1>5. TypeOK /\ StatementInv => StatementsJustified
  BY StatementIsJustified
<1> QED BY <1>1, <1>2, <1>3, <1>4, <1>5, PTL DEF StatementSpec

=============================================================================
