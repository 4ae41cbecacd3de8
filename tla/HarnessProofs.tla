--------------------------- MODULE HarnessProofs ---------------------------
(***************************************************************************)
(* Proofs about the evaluation and the benchmark: their verdicts, means,   *)
(* percentiles and counts, for every dataset, every outcome of the runs    *)
(* they ask and every measurement.                                         *)
(***************************************************************************)
EXTENDS AgentRuntimeProofs, Evals, Benchmark, WellFoundedInduction

-----------------------------------------------------------------------------
(* Induction up to a number                                                *)

\* A property of some natural number has a least one.
LEMMA LeastNumber ==
    ASSUME NEW S \in SUBSET Nat, S # {}
    PROVE  \E m \in S : \A n \in S : m <= n
<1> DEFINE R == {ss \in Nat \X Nat : ss[1] < ss[2]}
<1>1. IsWellFoundedOn(R, Nat)
  BY NatLessThanWellFounded DEF OpToRel
<1> HIDE DEF R
<1>2. PICK m \in S : \A n \in S : ~(<<n, m>> \in R)
  BY <1>1, WFMin
<1>3. \A n \in S : <<n, m>> \in R <=> n < m
  BY DEF R
<1>4. m \in Nat /\ \A n \in S : n \in Nat
  BY <1>2
<1>5. \A n \in S : ~(n < m)
  BY <1>2, <1>3
<1>6. \A n \in S : m <= n
  BY <1>4, <1>5
<1>. QED
  BY <1>2, <1>6

\* What holds of 0, and of each number up to n when it holds of the one before, holds of
\* them all.
LEMMA Climb ==
    ASSUME NEW n \in Nat, NEW S, 0 \in S, \A k \in 1 .. n : k - 1 \in S => k \in S
    PROVE  \A k \in 0 .. n : k \in S
<1> DEFINE T == (0 .. n) \ S
<1>1. SUFFICES ASSUME T # {} PROVE FALSE
  OBVIOUS
<1>2. PICK m \in T : \A k \in T : m <= k
  <2>1. T \in SUBSET Nat
    OBVIOUS
  <2> HIDE DEF T
  <2>. QED
    BY <1>1, <2>1, LeastNumber
<1>3. m \in 0 .. n /\ m \notin S
  BY <1>2
<1>4. m \in 1 .. n /\ m - 1 \in 0 .. n /\ ~(m <= m - 1)
  BY <1>3
<1>5. m - 1 \in S
  BY <1>2, <1>4
<1>. QED
  BY <1>3, <1>4, <1>5

-----------------------------------------------------------------------------
(* Percentiles                                                             *)

\* Measurements: a list of natural numbers.  What is at most v, and what is below it.
UpTo(values, v) == {i \in DOMAIN values : values[i] <= v}

LEMMA ListsAre ==
    ASSUME NEW values \in Seq(Nat)
    PROVE  /\ Len(values) \in Nat /\ DOMAIN values = 1 .. Len(values)
           /\ \A i \in DOMAIN values : values[i] \in Nat
           /\ IsFiniteSet(DOMAIN values) /\ Cardinality(DOMAIN values) = Len(values)
<1>1. Len(values) \in Nat /\ DOMAIN values = 1 .. Len(values)
  OBVIOUS
<1>2. \A i \in DOMAIN values : values[i] \in Nat
  OBVIOUS
<1>3. IsFiniteSet(1 .. Len(values)) /\ Cardinality(1 .. Len(values)) = Len(values)
  <2>1. PICK n \in Nat : n = Len(values)
    BY <1>1
  <2>2. /\ IsFiniteSet(1 .. n)
        /\ Cardinality(1 .. n) = IF 1 > n THEN 0 ELSE n - 1 + 1
    BY FS_Interval
  <2>3. IsFiniteSet(1 .. n) /\ Cardinality(1 .. n) = n
    BY <2>2
  <2>. QED
    BY <2>1, <2>3, Zenon
<1>4. IsFiniteSet(DOMAIN values) /\ Cardinality(DOMAIN values) = Len(values)
  BY <1>1, <1>3, Zenon
<1>. QED
  BY <1>1, <1>2, <1>4, Zenon

LEMMA ListOf ==
    ASSUME NEW n \in Nat, NEW f, f = [i \in 1 .. n |-> f[i]], \A i \in 1 .. n : f[i] \in Nat
    PROVE  f \in Seq(Nat) /\ Len(f) = n /\ DOMAIN f = 1 .. n
OBVIOUS

\* Below, at most and above: natural numbers that add up, and grow with v.
LEMMA CountsAre ==
    ASSUME NEW values \in Seq(Nat), NEW v \in Nat
    PROVE  /\ Cardinality(Below(values, v)) \in Nat
           /\ Cardinality(Above(values, v)) \in Nat
           /\ Cardinality(UpTo(values, v)) \in Nat
           /\ Cardinality(UpTo(values, v)) = Len(values) - Cardinality(Above(values, v))
           /\ Cardinality(Below(values, v)) <= Cardinality(UpTo(values, v))
<1> DEFINE D == DOMAIN values
<1>1. IsFiniteSet(D) /\ Cardinality(D) = Len(values) /\ Len(values) \in Nat
  BY ListsAre
<1>2. \A i \in D : values[i] \in Nat
  BY ListsAre
<1>3. /\ Below(values, v) \subseteq UpTo(values, v) /\ UpTo(values, v) \subseteq D
      /\ Above(values, v) \subseteq D
  BY <1>2 DEF Below, UpTo, Above
<1>4. UpTo(values, v) = D \ Above(values, v)
  BY <1>2 DEF UpTo, Above
<1>5. D \cap Above(values, v) = Above(values, v)
  BY <1>3
<1> HIDE DEF D
<1>6. IsFiniteSet(UpTo(values, v)) /\ IsFiniteSet(Above(values, v))
  BY <1>1, <1>3, FS_Subset
<1>7. IsFiniteSet(Below(values, v))
  BY <1>3, <1>6, FS_Subset
<1>8. Cardinality(UpTo(values, v)) = Cardinality(D) - Cardinality(D \cap Above(values, v))
  BY <1>1, <1>4, FS_Difference
<1>9. Cardinality(Below(values, v)) <= Cardinality(UpTo(values, v))
  BY <1>3, <1>6, FS_Subset
<1>. QED
  BY <1>1, <1>5, <1>6, <1>7, <1>8, <1>9, FS_CardinalityType

LEMMA CountsGrow ==
    ASSUME NEW values \in Seq(Nat), NEW u \in Nat, NEW v \in Nat, u < v
    PROVE  Cardinality(UpTo(values, u)) <= Cardinality(Below(values, v))
<1>1. \A i \in DOMAIN values : values[i] \in Nat
  BY ListsAre
<1>2. UpTo(values, u) \subseteq Below(values, v) /\ Below(values, v) \subseteq DOMAIN values
  BY <1>1 DEF UpTo, Below
<1>3. IsFiniteSet(Below(values, v))
  BY <1>2, ListsAre, FS_Subset
<1>. QED
  BY <1>2, <1>3, FS_Subset

\* Some number is at least every measurement.
LEMMA Bounded ==
    ASSUME NEW values \in Seq(Nat)
    PROVE  \E b \in Nat : \A i \in DOMAIN values : values[i] <= b
<1> DEFINE n == Len(values)
           S == {m \in 0 .. n : \E b \in Nat : \A i \in 1 .. m : values[i] <= b}
<1>1. n \in Nat /\ DOMAIN values = 1 .. n /\ \A i \in 1 .. n : values[i] \in Nat
  BY ListsAre
<1>2. 0 \in S
  <2>1. 0 \in 0 .. n /\ 0 \in Nat /\ \A i \in 1 .. 0 : values[i] <= 0
    BY <1>1
  <2>. QED
    BY <2>1
<1>3. ASSUME NEW m \in 1 .. n, m - 1 \in S PROVE m \in S
  <2>1. PICK b \in Nat : \A i \in 1 .. m - 1 : values[i] <= b
    BY <1>3
  <2>2. m \in 0 .. n /\ values[m] \in Nat
    BY <1>1
  <2>3. PICK c \in Nat : b <= c /\ values[m] <= c
    <3>1. \A x, y \in Nat : \E c \in Nat : x <= c /\ y <= c
      <4>1. \A x, y \in Nat : x <= y \/ y <= x
        OBVIOUS
      <4>2. \A x \in Nat : x <= x
        OBVIOUS
      <4>. QED
        BY <4>1, <4>2, Zenon
    <3>2. b \in Nat
      BY <2>1
    <3>. QED
      BY <2>2, <3>1, <3>2, Zenon
  <2>4. \A i \in 1 .. m : values[i] <= c
    <3> SUFFICES ASSUME NEW i \in 1 .. m PROVE values[i] <= c
      OBVIOUS
    <3>1. CASE i = m
      BY <2>3, <3>1
    <3>2. CASE i # m
      <4>1. i \in 1 .. m - 1 /\ i \in 1 .. n
        BY <1>1, <2>2, <3>2
      <4>2. values[i] <= b /\ values[i] \in Nat
        BY <1>1, <2>1, <4>1
      <4>. QED
        BY <2>1, <2>3, <4>2
    <3>. QED
      BY <3>1, <3>2
  <2>. QED
    BY <2>2, <2>3, <2>4
<1>4. n \in S
  <2>1. \A m \in 1 .. n : m - 1 \in S => m \in S
    BY <1>3
  <2>2. n \in 0 .. n
    BY <1>1
  <2> HIDE DEF S
  <2>. QED
    BY <1>1, <1>2, <2>1, <2>2, Climb
<1>. QED
  BY <1>1, <1>4

\* sorted(values)[k] exists: the least number that more than k measurements do not exceed.
LEMMA NthIs ==
    ASSUME NEW values \in Seq(Nat), NEW k \in 0 .. Len(values) - 1
    PROVE  /\ Nth(values, k) \in {values[i] : i \in DOMAIN values}
           /\ Nth(values, k) \in Nat
           /\ Cardinality(Below(values, Nth(values, k))) <= k
           /\ k < Cardinality(UpTo(values, Nth(values, k)))
<1> DEFINE S == {n \in Nat : k < Cardinality(UpTo(values, n))}
           Heights == {values[i] : i \in DOMAIN values}
<1>0. /\ Len(values) \in Nat /\ Cardinality(DOMAIN values) = Len(values) /\ k \in Nat
      /\ \A i \in DOMAIN values : values[i] \in Nat
  BY ListsAre
<1>1. S # {}
  <2>1. PICK b \in Nat : \A i \in DOMAIN values : values[i] <= b
    BY Bounded
  <2>2. UpTo(values, b) = DOMAIN values
    BY <2>1 DEF UpTo
  <2>. QED
    BY <1>0, <2>2
<1>2. PICK m \in S : \A n \in S : m <= n
  <2>1. S \in SUBSET Nat
    OBVIOUS
  <2> HIDE DEF S
  <2>. QED
    BY <1>1, <2>1, LeastNumber
<1>3. m \in Nat /\ k < Cardinality(UpTo(values, m))
  BY <1>2
<1>4. Cardinality(Below(values, m)) <= k
  <2>1. CASE m = 0
    <3>1. Below(values, m) = {}
      BY <1>0, <2>1 DEF Below
    <3>. QED
      BY <1>0, <3>1, FS_EmptySet
  <2>2. CASE m # 0
    <3>1. m - 1 \in Nat /\ ~(m <= m - 1)
      BY <1>3, <2>2
    <3>2. ~(k < Cardinality(UpTo(values, m - 1)))
      BY <1>2, <3>1
    <3>3. Below(values, m) = UpTo(values, m - 1)
      BY <1>0, <1>3 DEF Below, UpTo
    <3>4. Cardinality(UpTo(values, m - 1)) \in Nat
      BY <3>1, CountsAre
    <3>. QED
      BY <1>0, <3>2, <3>3, <3>4
  <2>. QED
    BY <2>1, <2>2
<1>5. m \in Heights
  <2>1. SUFFICES ASSUME m \notin Heights PROVE FALSE
    OBVIOUS
  <2>2. UpTo(values, m) = Below(values, m)
    BY <1>0, <1>3, <2>1 DEF UpTo, Below
  <2>3. Cardinality(UpTo(values, m)) \in Nat
    BY <1>3, CountsAre
  <2>. QED
    BY <1>0, <1>3, <1>4, <2>2, <2>3
<1>6. \A v \in Heights : Cardinality(UpTo(values, v)) = Len(values) - Cardinality(Above(values, v))
  <2>1. \A v \in Heights : v \in Nat
    BY <1>0
  <2>. QED
    BY <2>1, CountsAre
<1> HIDE DEF Heights
<1>7. \E v \in Heights : /\ Cardinality(Below(values, v)) <= k
                         /\ k < Len(values) - Cardinality(Above(values, v))
  BY <1>3, <1>4, <1>5, <1>6
<1>8. /\ Nth(values, k) \in Heights
      /\ Cardinality(Below(values, Nth(values, k))) <= k
      /\ k < Len(values) - Cardinality(Above(values, Nth(values, k)))
  BY <1>7 DEF Nth, Heights
<1>9. Nth(values, k) \in Nat
  BY <1>0, <1>8 DEF Heights
<1>. QED
  BY <1>6, <1>8, <1>9 DEF Heights

LEMMA NthGrows ==
    ASSUME NEW values \in Seq(Nat), NEW k \in 0 .. Len(values) - 1, NEW j \in 0 .. k
    PROVE  Nth(values, j) <= Nth(values, k)
<1>0. Len(values) \in Nat /\ k \in Nat /\ j \in Nat /\ j <= k /\ j \in 0 .. Len(values) - 1
  BY ListsAre
<1> DEFINE u == Nth(values, j)
           v == Nth(values, k)
<1>1. u \in Nat /\ v \in Nat /\ Cardinality(Below(values, u)) <= j /\ k < Cardinality(UpTo(values, v))
  BY <1>0, NthIs
<1> HIDE DEF u, v
<1>2. Cardinality(Below(values, u)) \in Nat /\ Cardinality(UpTo(values, v)) \in Nat
  BY <1>1, CountsAre
<1>3. v < u => Cardinality(UpTo(values, v)) <= Cardinality(Below(values, u))
  BY <1>1, CountsGrow
<1>4. ~(v < u)
  BY <1>0, <1>1, <1>2, <1>3
<1>5. u <= v
  BY <1>1, <1>4
<1>. QED
  BY <1>5 DEF u, v

\* p is w hundredths of the way from the measurement at rank k to v, the next one.
Lies(values, p, k, w, v) ==
    /\ k \in 0 .. Len(values) - 1 /\ w \in 0 .. 99 /\ v \in Nat
    /\ p * (Len(values) - 1) = 100 * k + w
    /\ w > 0 => k + 1 <= Len(values) - 1 /\ v = Nth(values, k + 1)

\* A point of the line that joins the measurements is the percentile of its place.
LEMMA Joined ==
    ASSUME NEW values \in Seq(Nat), NEW p \in Nat, NEW k, NEW w, NEW v, Lies(values, p, k, w, v)
    PROVE  IsPercentile(values, p, Nth(values, k) * (100 - w) + v * w)
<1> USE DEF Lies
<1> DEFINE u == Nth(values, k)
           x == u * (100 - w) + v * w
           others == Len(values) - 1
           at == p * others
           Heights == {values[i] : i \in DOMAIN values}
           from(h) == 100 * Cardinality(Below(values, h))
           upto(h) == 100 * (others - Cardinality(Above(values, h)))
<1>1. u \in Heights /\ u \in Nat /\ Cardinality(Below(values, u)) <= k
      /\ k < Cardinality(UpTo(values, u))
  BY NthIs
<1>2. w > 0 => /\ v \in Heights /\ Cardinality(Below(values, v)) <= k + 1
               /\ k + 1 < Cardinality(UpTo(values, v)) /\ u <= v
  <2>1. SUFFICES ASSUME w > 0
                 PROVE  /\ v \in Heights /\ Cardinality(Below(values, v)) <= k + 1
                        /\ k + 1 < Cardinality(UpTo(values, v)) /\ u <= v
    OBVIOUS
  <2>2. k + 1 \in 0 .. Len(values) - 1 /\ k \in 0 .. k + 1 /\ v = Nth(values, k + 1)
    BY <2>1, ListsAre
  <2>. QED
    BY <2>2, NthIs, NthGrows
<1>3. Len(values) \in Nat /\ k \in Nat /\ k <= others /\ w \in Nat /\ w < 100 /\ others \in Nat
  BY ListsAre
<1>4. ASSUME NEW h \in Nat
      PROVE  /\ Cardinality(Below(values, h)) \in Nat
             /\ Cardinality(UpTo(values, h)) \in Nat
             /\ upto(h) = 100 * (Cardinality(UpTo(values, h)) - 1)
             /\ from(h) = 100 * Cardinality(Below(values, h))
  <2>1. /\ Cardinality(Below(values, h)) \in Nat /\ Cardinality(UpTo(values, h)) \in Nat
        /\ Cardinality(Above(values, h)) \in Nat
        /\ Cardinality(UpTo(values, h)) = Len(values) - Cardinality(Above(values, h))
    BY CountsAre
  <2>2. upto(h) = 100 * (Len(values) - 1 - Cardinality(Above(values, h)))
    OBVIOUS
  <2> DEFINE a == Cardinality(Above(values, h))
             c == Cardinality(UpTo(values, h))
  <2>3. upto(h) = 100 * (c - 1)
    <3>1. a \in Nat /\ c \in Nat /\ c = Len(values) - a /\ upto(h) = 100 * (Len(values) - 1 - a)
      BY <2>1, <2>2
    <3> HIDE DEF a, c, upto
    <3>. QED
      BY <1>3, <3>1
  <2>. QED
    BY <2>1, <2>3
<1>5. at = 100 * k + w
  OBVIOUS
<1>6. x = 100 * u + (v - u) * w
  <2>1. \A a, b \in Nat : a * (100 - w) + b * w = 100 * a + (b - a) * w
    BY <1>3
  <2>2. v \in Nat
    OBVIOUS
  <2> HIDE DEF u
  <2>. QED
    BY <1>1, <2>1, <2>2
<1>7. \/ \E h \in Heights : x = 100 * h /\ from(h) <= at /\ at <= upto(h)
      \/ \E g, h \in Heights : /\ from(h) = upto(g) + 100
                               /\ upto(g) < at /\ at < from(h)
                               /\ x = 100 * g + (h - g) * (at - upto(g))
  <2>0. v \in Nat
    OBVIOUS
  <2> DEFINE bu == Cardinality(Below(values, u))
             tu == Cardinality(UpTo(values, u))
             bv == Cardinality(Below(values, v))
             tv == Cardinality(UpTo(values, v))
  <2>a. /\ bu \in Nat /\ tu \in Nat /\ from(u) = 100 * bu /\ upto(u) = 100 * (tu - 1)
        /\ bu <= k /\ k < tu /\ u \in Nat /\ u \in Heights
    BY <1>1, <1>4
  <2>b. bv \in Nat /\ tv \in Nat /\ from(v) = 100 * bv
    BY <1>4, <2>0
  <2>c. w > 0 => v \in Heights /\ bv <= k + 1 /\ k + 1 < tv /\ u <= v
    BY <1>2
  <2>d. u < v => tu <= bv
    BY <1>1, <2>0, CountsGrow
  <2>e. u = v => tu = tv
    OBVIOUS
  <2> HIDE DEF u, x, others, at, Heights, from, upto, bu, tu, bv, tv
  <2>1. CASE w = 0 \/ u = v
    <3>1. x = 100 * u
      <4>1. (v - u) * w = 0
        BY <1>1, <1>3, <2>1
      <4>. QED
        BY <1>1, <1>6, <4>1
    <3>2. from(u) <= at
      BY <1>3, <1>5, <2>a
    <3>3. at <= upto(u)
      <4>1. CASE w = 0
        BY <1>3, <1>5, <2>a, <4>1
      <4>2. CASE w # 0
        <5>1. k + 1 < tu
          BY <1>3, <2>1, <2>c, <2>e, <4>2
        <5>. QED
          BY <1>3, <1>5, <2>a, <5>1
      <4>. QED
        BY <4>1, <4>2
    <3>. QED
      BY <2>a, <3>1, <3>2, <3>3
  <2>2. CASE w # 0 /\ u # v
    <3>1. w > 0 /\ v \in Heights /\ u < v /\ bv <= k + 1
      BY <1>3, <2>0, <2>2, <2>a, <2>c
    <3>2. tu = k + 1 /\ bv = k + 1
      BY <1>3, <2>a, <2>b, <2>d, <3>1
    <3>3. upto(u) = 100 * k /\ from(v) = 100 * (k + 1)
      BY <1>3, <2>a, <2>b, <3>2
    <3>4. from(v) = upto(u) + 100 /\ upto(u) < at /\ at < from(v) /\ at - upto(u) = w
      BY <1>3, <1>5, <3>1, <3>3
    <3>. QED
      BY <1>6, <2>a, <3>1, <3>4
  <2>. QED
    BY <2>1, <2>2
<1>. QED
  BY <1>7 DEF IsPercentile

\* statistics.median is the interpolation at 50, and so the 50th percentile.
LEMMA MedianIs ==
    ASSUME NEW values \in Seq(Nat), values # <<>>
    PROVE  Median(values) = Interpolated(values, 50)
<1> DEFINE n == Len(values)
           half == n \div 2
<1>1. n \in Nat /\ n > 0 /\ (n % 2 = 0 \/ n % 2 = 1) /\ half \in Nat
  BY ListsAre
<1>2. n % 2 = 1 => n = 2 * half + 1
  BY <1>1
<1>3. n % 2 = 0 => n = 2 * half /\ half > 0
  BY <1>1
<1>4. \A k \in 0 .. n - 1 : Nth(values, k) \in Nat
  BY NthIs
<1>5. CASE n % 2 = 1
  <2>1. Rank(values, 50) = 100 * half
    BY <1>1, <1>2, <1>5 DEF Rank
  <2>2. Rank(values, 50) \div 100 = half /\ Rank(values, 50) % 100 = 0
    BY <1>1, <2>1
  <2>3. Median(values) = 100 * Nth(values, half)
    BY <1>5 DEF Median
  <2> DEFINE upper == IF half < n - 1 THEN half + 1 ELSE n - 1
  <2>4. Interpolated(values, 50) = Nth(values, half) * (100 - 0) + Nth(values, upper) * 0
    BY <2>2 DEF Interpolated
  <2>5. half \in 0 .. n - 1 /\ upper \in 0 .. n - 1
    BY <1>1, <1>2, <1>5
  <2> HIDE DEF half, upper, n
  <2>. QED
    BY <1>4, <2>3, <2>4, <2>5
<1>6. CASE n % 2 = 0
  <2>1. Rank(values, 50) = 100 * (half - 1) + 50
    BY <1>1, <1>3, <1>6 DEF Rank
  <2>2. Rank(values, 50) \div 100 = half - 1 /\ Rank(values, 50) % 100 = 50
    BY <1>1, <1>3, <1>6, <2>1
  <2>3. Median(values) = 50 * (Nth(values, half - 1) + Nth(values, half))
    BY <1>6 DEF Median
  <2>4. half - 1 < n - 1 /\ (half - 1) + 1 = half
    <3>1. half \in Nat /\ n = 2 * half /\ half > 0
      BY <1>1, <1>3, <1>6
    <3> HIDE DEF half, n
    <3>. QED
      BY <3>1
  <2>5. Interpolated(values, 50) = Nth(values, half - 1) * (100 - 50) + Nth(values, half) * 50
    BY <2>2, <2>4 DEF Interpolated
  <2>6. half - 1 \in 0 .. n - 1 /\ half \in 0 .. n - 1
    BY <1>1, <1>3, <1>6
  <2> HIDE DEF half, n
  <2>. QED
    BY <1>4, <2>3, <2>5, <2>6
<1>. QED
  BY <1>1, <1>5, <1>6

\* The place of p on the line, and the measurements on both sides of it.
LEMMA PlaceIs ==
    ASSUME NEW values \in Seq(Nat), values # <<>>, NEW p \in 0 .. 100
    PROVE  \E k, w, v : /\ Lies(values, p, k, w, v)
                        /\ Interpolated(values, p) = Nth(values, k) * (100 - w) + v * w
<1> DEFINE others == Len(values) - 1
           at == Rank(values, p)
           k == at \div 100
           w == at % 100
           upper == IF k < others THEN k + 1 ELSE others
<1>1. Len(values) \in Nat /\ Len(values) > 0 /\ others \in Nat
  BY ListsAre
<1>2. at = p * others /\ at \in Nat /\ at <= 100 * others
  <2>1. at = others * p
    BY DEF Rank
  <2>2. \A a \in Nat : a * p = p * a /\ a * p \in Nat /\ a * p <= 100 * a
    OBVIOUS
  <2>. QED
    BY <1>1, <2>1, <2>2
<1>3. k \in Nat /\ w \in 0 .. 99 /\ at = 100 * k + w
  <2>1. \A a \in Nat : /\ a \div 100 \in Nat /\ a % 100 \in 0 .. 99
                       /\ a = 100 * (a \div 100) + (a % 100)
    OBVIOUS
  <2> HIDE DEF at
  <2>. QED
    BY <1>2, <2>1
<1>4. k <= others /\ (w > 0 => k < others)
  BY <1>1, <1>2, <1>3
<1>5. Interpolated(values, p) = Nth(values, k) * (100 - w) + Nth(values, upper) * w
  BY DEF Interpolated
<1>6. upper \in 0 .. others /\ k \in 0 .. others /\ (w > 0 => upper = k + 1)
  BY <1>1, <1>3, <1>4
<1>7. Nth(values, upper) \in Nat
  BY <1>6, NthIs
<1>8. p * (Len(values) - 1) = 100 * k + w
  BY <1>2, <1>3
<1>9. w > 0 => k + 1 <= Len(values) - 1 /\ Nth(values, upper) = Nth(values, k + 1)
  BY <1>1, <1>3, <1>4, <1>6
<1>10. k \in 0 .. Len(values) - 1
  BY <1>6
<1> HIDE DEF k, w, upper, at
<1>11. Lies(values, p, k, w, Nth(values, upper))
  BY <1>3, <1>7, <1>8, <1>9, <1>10 DEF Lies
<1>. QED
  BY <1>5, <1>11

\* The percentile of the code is the height of the line at p.
LEMMA InterpolatedIs ==
    ASSUME NEW values \in Seq(Nat), values # <<>>, NEW p \in 0 .. 100
    PROVE  IsPercentile(values, p, Interpolated(values, p))
<1>1. PICK k, w, v : /\ Lies(values, p, k, w, v)
                     /\ Interpolated(values, p) = Nth(values, k) * (100 - w) + v * w
  BY PlaceIs
<1>2. p \in Nat
  OBVIOUS
<1>3. IsPercentile(values, p, Nth(values, k) * (100 - w) + v * w)
  BY <1>1, <1>2, Joined
<1>. QED
  BY <1>1, <1>3

LEMMA PercentileIs ==
    ASSUME NEW values \in Seq(Nat), values # <<>>, NEW p \in 0 .. 100
    PROVE  PercentileOf(values, p) = Interpolated(values, p)
BY MedianIs DEF PercentileOf

\* Later places on the line are not lower.
LEMMA PercentilesGrow ==
    ASSUME NEW values \in Seq(Nat), values # <<>>, NEW p \in 0 .. 100, NEW q \in p .. 100
    PROVE  Interpolated(values, p) <= Interpolated(values, q)
<1> DEFINE others == Len(values) - 1
           x == Interpolated(values, p)
           y == Interpolated(values, q)
<1>0. others \in Nat /\ p \in Nat /\ q \in Nat /\ p <= q /\ q \in 0 .. 100
  BY ListsAre
<1>1. PICK k, w, v : /\ Lies(values, p, k, w, v)
                     /\ Interpolated(values, p) = Nth(values, k) * (100 - w) + v * w
  BY PlaceIs
<1>2. PICK j, z, h : /\ Lies(values, q, j, z, h)
                     /\ Interpolated(values, q) = Nth(values, j) * (100 - z) + h * z
  <2>1. q \in 0 .. 100
    BY <1>0
  <2>. QED
    BY <2>1, PlaceIs
<1> USE DEF Lies
<1> DEFINE u == Nth(values, k)
           g == Nth(values, j)
<1>3. u \in Nat /\ g \in Nat
  BY <1>1, <1>2, NthIs
<1>4. /\ k \in Nat /\ k <= others /\ w \in Nat /\ w < 100 /\ v \in Nat
      /\ j \in Nat /\ j <= others /\ z \in Nat /\ z < 100 /\ h \in Nat
  <2>1. k \in 0 .. Len(values) - 1 /\ w \in 0 .. 99 /\ v \in Nat
    BY <1>1
  <2>2. j \in 0 .. Len(values) - 1 /\ z \in 0 .. 99 /\ h \in Nat
    BY <1>2
  <2>. QED
    BY <1>0, <2>1, <2>2
<1>5. 100 * k + w <= 100 * j + z
  <2>1. \A n \in Nat : p * n <= q * n
    BY <1>0
  <2>2. p * others <= q * others
    BY <1>0, <2>1
  <2>. QED
    BY <1>1, <1>2, <2>2
<1>6. k < j \/ (k = j /\ w <= z)
  BY <1>4, <1>5
<1>7. w > 0 => u <= v /\ (k < j => v <= g) /\ (k = j /\ w <= z => v = h)
  <2>1. SUFFICES ASSUME w > 0 PROVE u <= v /\ (k < j => v <= g) /\ (k = j /\ w <= z => v = h)
    OBVIOUS
  <2>2. k + 1 \in 0 .. Len(values) - 1 /\ v = Nth(values, k + 1)
    BY <1>0, <1>1, <1>4, <2>1
  <2>3. u <= v
    BY <1>4, <2>2, NthGrows
  <2>4. k < j => v <= g
    BY <1>2, <1>4, <2>2, NthGrows
  <2>5. k = j /\ w <= z => v = h
    BY <1>2, <1>4, <2>1, <2>2
  <2>. QED
    BY <2>3, <2>4, <2>5
<1>8. z > 0 => g <= h
  <2>1. SUFFICES ASSUME z > 0 PROVE g <= h
    OBVIOUS
  <2>2. j + 1 \in 0 .. Len(values) - 1 /\ h = Nth(values, j + 1)
    BY <1>0, <1>2, <1>4, <2>1
  <2>. QED
    BY <1>4, <2>2, NthGrows
<1>9. k < j => u <= g
  BY <1>1, <1>2, <1>4, NthGrows
<1>10. x = u * (100 - w) + v * w /\ y = g * (100 - z) + h * z
  BY <1>1, <1>2
<1>11. k = j => u = g
  OBVIOUS
<1> SUFFICES x <= y
  OBVIOUS
<1> HIDE DEF x, y, u, g, others
<1>12. w > 0 => u * (100 - w) + v * w <= 100 * v
  <2>1. u <= v => u * (100 - w) <= v * (100 - w)
    BY <1>3, <1>4
  <2>. QED
    BY <1>3, <1>4, <1>7, <2>1
<1>13. 100 * g <= y
  <2>1. CASE z = 0
    BY <1>3, <1>4, <1>10, <2>1
  <2>2. CASE z > 0
    <3>1. g * z <= h * z
      BY <1>3, <1>4, <1>8, <2>2
    <3>. QED
      BY <1>3, <1>4, <1>10, <3>1
  <2>. QED
    BY <1>4, <2>1, <2>2
<1>14. CASE k < j
  <2>1. CASE w = 0
    BY <1>3, <1>4, <1>9, <1>10, <1>13, <1>14, <2>1
  <2>2. CASE w > 0
    BY <1>3, <1>4, <1>7, <1>10, <1>12, <1>13, <1>14, <2>2
  <2>. QED
    BY <1>4, <2>1, <2>2
<1>15. CASE k = j /\ w <= z
  <2>1. CASE w = 0
    BY <1>3, <1>4, <1>10, <1>11, <1>13, <1>15, <2>1
  <2>2. CASE w > 0
    <3>1. u = g /\ v = h /\ u <= v
      BY <1>4, <1>7, <1>11, <1>15, <2>2
    <3>2. (v - u) * w <= (v - u) * z
      <4>1. \A a, b, c \in Nat : b <= c => a * b <= a * c
        OBVIOUS
      <4>2. v - u \in Nat
        BY <1>3, <1>4, <3>1
      <4>. QED
        BY <1>4, <1>15, <4>1, <4>2
    <3>3. x = 100 * u + (v - u) * w /\ y = 100 * u + (v - u) * z
      <4>1. \A a, b, n \in Nat : a * (100 - n) + b * n = 100 * a + (b - a) * n
        OBVIOUS
      <4>2. x = u * (100 - w) + v * w /\ y = u * (100 - z) + v * z
        BY <1>10, <3>1
      <4>. QED
        BY <1>3, <1>4, <4>1, <4>2
    <3>4. (v - u) * w \in Int /\ (v - u) * z \in Int /\ 100 * u \in Int
      BY <1>3, <1>4
    <3>. QED
      BY <3>2, <3>3, <3>4
  <2>. QED
    BY <1>4, <2>1, <2>2
<1>. QED
  BY <1>6, <1>14, <1>15

-----------------------------------------------------------------------------
(* Total and Mean                                                          *)

\* upTo[k] is the sum of the first k scores.
Sums(scores, upTo) ==
    /\ upTo \in [0 .. Len(scores) -> Nat]
    /\ upTo[0] = 0
    /\ \A k \in 1 .. Len(scores) : upTo[k] = upTo[k - 1] + scores[k]

\* Total goes through these sums: the recursion in it defines a function.
LEMMA TotalIs ==
    ASSUME NEW scores \in Seq(Nat)
    PROVE  \E upTo : Sums(scores, upTo) /\ Total(scores) = upTo[Len(scores)]
<1> DEFINE n == Len(scores)
           Solves(m, f) == f = [k \in 0 .. m |-> IF k = 0 THEN 0 ELSE f[k - 1] + scores[k]]
           S == {m \in 0 .. n : \E f : Solves(m, f)}
           upTo == CHOOSE f : Solves(n, f)
<1>1. n \in Nat /\ \A k \in 1 .. n : scores[k] \in Nat
  BY ListsAre
<1>2. 0 \in S
  <2>1. Solves(0, [k \in 0 .. 0 |-> 0])
    OBVIOUS
  <2>2. 0 \in 0 .. n
    BY <1>1
  <2> HIDE DEF Solves
  <2>. QED
    BY <2>1, <2>2
<1>3. ASSUME NEW m \in 1 .. n, m - 1 \in S PROVE m \in S
  <2>1. PICK f : Solves(m - 1, f)
    <3> HIDE DEF Solves
    <3>. QED
      BY <1>3
  <2> DEFINE g == [k \in 0 .. m |-> IF k = m THEN f[m - 1] + scores[m] ELSE f[k]]
  <2>2. m \in Nat /\ m # 0 /\ m \in 0 .. n
    BY <1>1
  <2>3. \A k \in 0 .. m - 1 : f[k] = IF k = 0 THEN 0 ELSE f[k - 1] + scores[k]
    BY <2>1
  <2>4. \A k \in 0 .. m : g[k] = IF k = 0 THEN 0 ELSE g[k - 1] + scores[k]
    <3> SUFFICES ASSUME NEW k \in 0 .. m
                 PROVE  g[k] = IF k = 0 THEN 0 ELSE g[k - 1] + scores[k]
      OBVIOUS
    <3>1. CASE k = m
      BY <2>2, <3>1
    <3>2. CASE k # m
      BY <2>2, <2>3, <3>2
    <3>. QED
      BY <3>1, <3>2
  <2>5. Solves(m, g)
    BY <2>4
  <2> HIDE DEF Solves, g
  <2>. QED
    BY <2>2, <2>5
<1>4. n \in S
  <2>1. \A k \in 1 .. n : k - 1 \in S => k \in S
    BY <1>3
  <2>2. n \in 0 .. n
    BY <1>1
  <2> HIDE DEF S
  <2>. QED
    BY <1>1, <1>2, <2>1, <2>2, Climb
<1>5. Solves(n, upTo)
  <2> HIDE DEF Solves
  <2>. QED
    BY <1>4
<1>6. Total(scores) = upTo[n]
  BY DEF Total
<1> HIDE DEF upTo
<1>7. \A k \in 0 .. n : upTo[k] = IF k = 0 THEN 0 ELSE upTo[k - 1] + scores[k]
  BY <1>5
<1>8. upTo[0] = 0 /\ \A k \in 1 .. n : upTo[k] = upTo[k - 1] + scores[k]
  <2>1. 0 \in 0 .. n /\ \A k \in 1 .. n : k \in 0 .. n /\ k # 0
    BY <1>1
  <2>2. upTo[0] = 0
    BY <1>7, <2>1, Zenon
  <2>3. ASSUME NEW k \in 1 .. n PROVE upTo[k] = upTo[k - 1] + scores[k]
    <3>1. k \in 0 .. n /\ k # 0
      BY <2>1
    <3>2. upTo[k] = IF k = 0 THEN 0 ELSE upTo[k - 1] + scores[k]
      BY <1>7, <3>1
    <3>. QED
      BY <3>1, <3>2, Zenon
  <2>. QED
    BY <2>2, <2>3
<1>9. \A k \in 0 .. n : upTo[k] \in Nat
  <2> DEFINE T == {k \in 0 .. n : upTo[k] \in Nat}
  <2>1. 0 \in T
    BY <1>1, <1>8
  <2>2. ASSUME NEW k \in 1 .. n, k - 1 \in T PROVE k \in T
    <3>1. k \in 0 .. n /\ scores[k] \in Nat
      BY <1>1
    <3>2. upTo[k - 1] \in Nat /\ upTo[k] = upTo[k - 1] + scores[k]
      BY <1>8, <2>2
    <3>. QED
      BY <3>1, <3>2
  <2>3. \A k \in 0 .. n : k \in T
    <3> HIDE DEF T
    <3>. QED
      BY <1>1, <2>1, <2>2, Climb
  <2>. QED
    BY <2>3
<1>10. upTo \in [0 .. n -> Nat]
  BY <1>5, <1>9
<1>. QED
  BY <1>6, <1>8, <1>10 DEF Sums

\* A list whose scores are at most b sums to at most b for each, and to no less only if
\* they are all b.
LEMMA TotalAtMost ==
    ASSUME NEW scores \in Seq(Nat), NEW b \in Nat, \A i \in DOMAIN scores : scores[i] <= b
    PROVE  /\ Total(scores) \in Nat
           /\ Total(scores) <= b * Len(scores)
           /\ Total(scores) = b * Len(scores) <=> \A i \in DOMAIN scores : scores[i] = b
<1>1. PICK upTo : Sums(scores, upTo) /\ Total(scores) = upTo[Len(scores)]
  BY TotalIs
<1> DEFINE n == Len(scores)
           S == {k \in 0 .. n : /\ upTo[k] <= b * k
                                /\ upTo[k] = b * k <=> \A i \in 1 .. k : scores[i] = b}
<1>2. /\ n \in Nat /\ DOMAIN scores = 1 .. n
      /\ \A k \in 1 .. n : scores[k] \in Nat /\ scores[k] <= b
  BY ListsAre
<1>3. /\ \A k \in 0 .. n : upTo[k] \in Nat
      /\ upTo[0] = 0 /\ \A k \in 1 .. n : upTo[k] = upTo[k - 1] + scores[k]
  BY <1>1 DEF Sums
<1>4. 0 \in S
  BY <1>2, <1>3
<1>5. ASSUME NEW k \in 1 .. n, k - 1 \in S PROVE k \in S
  <2> DEFINE u == upTo[k - 1]
             s == scores[k]
             Full(m) == \A i \in 1 .. m : scores[i] = b
  <2>1. u <= b * (k - 1) /\ (u = b * (k - 1) <=> Full(k - 1))
    BY <1>5
  <2>2. k \in Nat /\ k \in 0 .. n /\ k - 1 \in 0 .. n /\ u \in Nat /\ s \in Nat /\ s <= b
    BY <1>2, <1>3
  <2>3. upTo[k] = u + s
    BY <1>3
  <2>4. b * k = b * (k - 1) + b /\ b * (k - 1) \in Nat
    <3>1. \A x \in Nat : b * (x + 1) = b * x + b /\ b * x \in Nat
      OBVIOUS
    <3>2. k - 1 \in Nat /\ (k - 1) + 1 = k
      BY <2>2
    <3>. QED
      BY <3>1, <3>2
  <2>5. Full(k) <=> Full(k - 1) /\ s = b
    <3>1. \A i : i \in 1 .. k <=> i \in 1 .. k - 1 \/ i = k
      BY <2>2
    <3>. QED
      BY <3>1
  <2> HIDE DEF u, s, Full
  <2>6. u + s <= b * k
    BY <2>1, <2>2, <2>4
  <2>7. u + s = b * k <=> u = b * (k - 1) /\ s = b
    BY <2>1, <2>2, <2>4
  <2>8. u + s = b * k <=> Full(k)
    BY <2>1, <2>5, <2>7, Zenon
  <2>. QED
    BY <2>2, <2>3, <2>6, <2>8 DEF Full
<1>6. n \in S
  <2>1. \A k \in 1 .. n : k - 1 \in S => k \in S
    BY <1>5
  <2>2. n \in 0 .. n
    BY <1>2
  <2> HIDE DEF S
  <2>. QED
    BY <1>2, <1>4, <2>1, <2>2, Climb
<1>7. /\ upTo[n] <= b * n
      /\ upTo[n] = b * n <=> \A i \in 1 .. n : scores[i] = b
  BY <1>6
<1>8. n \in 0 .. n
  BY <1>2
<1>. QED
  BY <1>1, <1>2, <1>3, <1>7, <1>8

\* No score is more than the total.
LEMMA TotalAtLeast ==
    ASSUME NEW scores \in Seq(Nat)
    PROVE  \A i \in DOMAIN scores : scores[i] <= Total(scores)
<1>1. PICK upTo : Sums(scores, upTo) /\ Total(scores) = upTo[Len(scores)]
  BY TotalIs
<1> DEFINE n == Len(scores)
           S == {k \in 0 .. n : \A i \in 1 .. k : scores[i] <= upTo[k]}
<1>2. n \in Nat /\ DOMAIN scores = 1 .. n /\ \A k \in 1 .. n : scores[k] \in Nat
  BY ListsAre
<1>3. /\ \A k \in 0 .. n : upTo[k] \in Nat
      /\ \A k \in 1 .. n : upTo[k] = upTo[k - 1] + scores[k]
  BY <1>1 DEF Sums
<1>4. 0 \in S
  BY <1>2
<1>5. ASSUME NEW k \in 1 .. n, k - 1 \in S PROVE k \in S
  <2>1. \A i \in 1 .. k - 1 : scores[i] <= upTo[k - 1]
    BY <1>5
  <2>2. k \in 0 .. n /\ k - 1 \in 0 .. n
    BY <1>2
  <2>3. upTo[k] = upTo[k - 1] + scores[k] /\ upTo[k] \in Nat /\ upTo[k - 1] \in Nat /\ scores[k] \in Nat
    BY <1>2, <1>3, <2>2
  <2>4. upTo[k - 1] <= upTo[k] /\ scores[k] <= upTo[k]
    BY <2>3
  <2>5. \A i \in 1 .. k : scores[i] <= upTo[k]
    <3> SUFFICES ASSUME NEW i \in 1 .. k PROVE scores[i] <= upTo[k]
      OBVIOUS
    <3>1. CASE i = k
      BY <2>4, <3>1
    <3>2. CASE i # k
      <4>1. i \in 1 .. k - 1 /\ i \in 1 .. n
        BY <1>2, <3>2
      <4>2. scores[i] <= upTo[k - 1] /\ scores[i] \in Nat
        BY <1>2, <2>1, <4>1
      <4>. QED
        BY <2>3, <2>4, <4>2
    <3>. QED
      BY <3>1, <3>2
  <2>. QED
    BY <2>2, <2>5
<1>6. n \in S
  <2>1. \A k \in 1 .. n : k - 1 \in S => k \in S
    BY <1>5
  <2>2. n \in 0 .. n
    BY <1>2
  <2> HIDE DEF S
  <2>. QED
    BY <1>2, <1>4, <2>1, <2>2, Climb
<1>. QED
  BY <1>1, <1>2, <1>6

LEMMA Division ==
    ASSUME NEW a \in Nat, NEW n \in Nat, n > 0, NEW u \in Nat
    PROVE  /\ a \div n \in Nat
           /\ a \div n >= u <=> a >= u * n
OBVIOUS

\* The mean of scores is perfect only if they all are.
LEMMA MeanIsUnit ==
    ASSUME NEW scores \in Seq(Nat), scores # <<>>, \A i \in DOMAIN scores : scores[i] <= Unit
    PROVE  Mean(scores) = Unit <=> \A i \in DOMAIN scores : scores[i] = Unit
<1> DEFINE n == Len(scores)
           total == Total(scores)
<1>1. n \in Nat /\ n > 0 /\ Unit \in Nat
  BY ListsAre, EvalAssumption
<1>2. /\ total \in Nat /\ total <= Unit * n
      /\ total = Unit * n <=> \A i \in DOMAIN scores : scores[i] = Unit
  BY <1>1, TotalAtMost
<1>3. Mean(scores) = total \div n
  BY DEF Mean
<1> HIDE DEF n, total
<1>4. total \div n \in Nat /\ (total \div n >= Unit <=> total >= Unit * n)
  BY <1>1, <1>2, Division
<1>5. Unit * n \in Nat /\ (total \div n >= Unit + 1 <=> total >= (Unit + 1) * n)
  BY <1>1, <1>2, Division
<1>6. (Unit + 1) * n = Unit * n + n
  BY <1>1
<1>7. ~(total \div n >= Unit + 1)
  BY <1>1, <1>2, <1>5, <1>6
<1>8. total \div n = Unit <=> total \div n >= Unit
  BY <1>1, <1>4, <1>7
<1>9. total = Unit * n <=> total >= Unit * n
  BY <1>2, <1>5
<1>. QED
  BY <1>2, <1>3, <1>4, <1>8, <1>9, Zenon

\* A mean is not rounded down to zero when a score that is not zero is at least as large as
\* their number.
LEMMA MeanIsZero ==
    ASSUME NEW scores \in Seq(Nat), scores # <<>>,
           \A i \in DOMAIN scores : scores[i] = 0 \/ scores[i] >= Len(scores)
    PROVE  Mean(scores) = 0 <=> \A i \in DOMAIN scores : scores[i] = 0
<1> DEFINE n == Len(scores)
           total == Total(scores)
<1>1. n \in Nat /\ n > 0 /\ \A i \in DOMAIN scores : scores[i] \in Nat
  BY ListsAre
<1>2. total \in Nat
  BY TotalIs, <1>1 DEF Sums
<1>3. Mean(scores) = total \div n
  BY DEF Mean
<1>4. CASE \A i \in DOMAIN scores : scores[i] = 0
  <2>1. \A i \in DOMAIN scores : scores[i] <= 0
    BY <1>4
  <2>2. total = 0 * n
    BY <1>4, <2>1, TotalAtMost
  <2> HIDE DEF n, total
  <2>3. total \div n = 0
    BY <1>1, <2>2
  <2>. QED
    BY <1>3, <1>4, <2>3
<1>5. CASE ~\A i \in DOMAIN scores : scores[i] = 0
  <2>1. PICK i \in DOMAIN scores : scores[i] # 0
    BY <1>5
  <2>2. scores[i] >= n /\ scores[i] <= total
    BY <2>1, TotalAtLeast
  <2>3. scores[i] \in Nat
    BY <1>1, <2>1
  <2> HIDE DEF n, total
  <2>4. total >= 1 * n
    BY <1>1, <1>2, <2>2, <2>3
  <2>5. total \div n >= 1
    BY <1>1, <1>2, <2>4, Division
  <2>6. total \div n # 0
    BY <1>1, <1>2, <2>5, Division
  <2>. QED
    BY <1>3, <1>5, <2>6
<1>. QED
  BY <1>4, <1>5

-----------------------------------------------------------------------------
(* Metrics                                                                 *)

CaseResult ==
    [case : Case, response : Answer, latency : Nat, contains : 0 .. Unit, precision : 0 .. Unit,
     recall : 0 .. Unit, refusal : {0, Unit}, rate : 0 .. Unit, passed : BOOLEAN]

\* Rounded down, a fraction is the perfect score only if it is whole.
LEMMA RatioIs ==
    ASSUME NEW whole \in Nat, whole > 0, NEW part \in 0 .. whole
    PROVE  /\ Ratio(part, whole) \in 0 .. Unit
           /\ Ratio(part, whole) = Unit <=> part = whole
<1> DEFINE a == Unit * part
           q == a \div whole
<1>1. Unit \in Nat /\ Unit > 0 /\ part \in Nat /\ part <= whole
  BY EvalAssumption
<1>2. a \in Nat /\ a <= Unit * whole
  <2>1. \A m \in Nat : m <= whole => Unit * m \in Nat /\ Unit * m <= Unit * whole
    BY <1>1
  <2>. QED
    BY <1>1, <2>1
<1>3. a >= Unit * whole <=> part = whole
  <2>1. part < whole => a < Unit * whole
    <3>1. \A m \in Nat : m < whole => Unit * m < Unit * whole
      BY <1>1
    <3>. QED
      BY <1>1, <3>1
  <2>2. part = whole => a >= Unit * whole
    BY <1>1
  <2>. QED
    BY <1>1, <1>2, <2>1, <2>2
<1> HIDE DEF a
<1>4. q \in Nat /\ (q >= Unit <=> a >= Unit * whole) /\ (q >= Unit + 1 <=> a >= (Unit + 1) * whole)
  BY <1>1, <1>2, Division
<1>5. (Unit + 1) * whole = Unit * whole + whole /\ Unit * whole \in Nat
  BY <1>1
<1>6. q <= Unit
  BY <1>1, <1>2, <1>4, <1>5
<1>7. q \in 0 .. Unit /\ (q = Unit <=> part = whole)
  BY <1>1, <1>3, <1>4, <1>6
<1>8. Ratio(part, whole) = q
  BY DEF Ratio, a
<1>. QED
  BY <1>7, <1>8

LEMMA PartsAre ==
    ASSUME NEW S, IsFiniteSet(S), NEW T \in SUBSET S
    PROVE  /\ Cardinality(S) \in Nat /\ Cardinality(T) \in 0 .. Cardinality(S)
           /\ Cardinality(T) = Cardinality(S) <=> T = S
<1>1. IsFiniteSet(T) /\ Cardinality(T) <= Cardinality(S) /\ (Cardinality(S) = Cardinality(T) => S = T)
  BY FS_Subset
<1>2. Cardinality(S) \in Nat /\ Cardinality(T) \in Nat
  BY <1>1, FS_CardinalityType
<1>. QED
  BY <1>1, <1>2

LEMMA CaseIs ==
    ASSUME NEW case \in Case
    PROVE  /\ IsFiniteSet(case.terms) /\ IsFiniteSet(case.docs) /\ case.should_refuse \in BOOLEAN
           /\ case.tenant \in Tenant
<1>1. case.terms \subseteq Term /\ case.docs \subseteq Document
      /\ case.should_refuse \in BOOLEAN /\ case.tenant \in Tenant
  BY DEF Case
<1>. QED
  BY <1>1, EvalAssumption, FS_Subset

LEMMA ContainsIs ==
    ASSUME NEW case \in Case, NEW response
    PROVE  /\ AnswerContainsScore(case, response) \in 0 .. Unit
           /\ AnswerContainsScore(case, response) = Unit <=> case.terms \subseteq Shown(response)
<1> DEFINE part == case.terms \cap Shown(response)
<1>0. Unit \in Nat
  BY EvalAssumption
<1>1. CASE case.terms = {}
  BY <1>0, <1>1 DEF AnswerContainsScore
<1>2. CASE case.terms # {}
  <2>1. /\ Cardinality(case.terms) \in Nat /\ Cardinality(part) \in 0 .. Cardinality(case.terms)
        /\ Cardinality(part) = Cardinality(case.terms) <=> part = case.terms
    <3>1. part \in SUBSET case.terms
      OBVIOUS
    <3> HIDE DEF part
    <3>. QED
      BY <3>1, CaseIs, PartsAre
  <2>2. Cardinality(case.terms) > 0
    BY <1>2, <2>1, CaseIs, FS_EmptySet
  <2>3. AnswerContainsScore(case, response) = Ratio(Cardinality(part), Cardinality(case.terms))
    BY <1>2 DEF AnswerContainsScore
  <2>4. part = case.terms <=> case.terms \subseteq Shown(response)
    OBVIOUS
  <2> HIDE DEF part
  <2>5. /\ Ratio(Cardinality(part), Cardinality(case.terms)) \in 0 .. Unit
        /\ Ratio(Cardinality(part), Cardinality(case.terms)) = Unit <=> part = case.terms
    BY <2>1, <2>2, RatioIs
  <2>. QED
    BY <2>3, <2>4, <2>5
<1>. QED
  BY <1>1, <1>2

LEMMA RecallIs ==
    ASSUME NEW case \in Case, NEW response
    PROVE  /\ CitationRecall(case, response) \in 0 .. Unit
           /\ CitationRecall(case, response) = Unit <=> case.docs \subseteq CitedSet(response)
<1> DEFINE part == case.docs \cap CitedSet(response)
<1>0. Unit \in Nat
  BY EvalAssumption
<1>1. CASE case.docs = {}
  BY <1>0, <1>1 DEF CitationRecall
<1>2. CASE case.docs # {}
  <2>1. /\ Cardinality(case.docs) \in Nat /\ Cardinality(part) \in 0 .. Cardinality(case.docs)
        /\ Cardinality(part) = Cardinality(case.docs) <=> part = case.docs
    <3>1. part \in SUBSET case.docs
      OBVIOUS
    <3> HIDE DEF part
    <3>. QED
      BY <3>1, CaseIs, PartsAre
  <2>2. Cardinality(case.docs) > 0
    BY <1>2, <2>1, CaseIs, FS_EmptySet
  <2>3. CitationRecall(case, response) = Ratio(Cardinality(part), Cardinality(case.docs))
    BY <1>2 DEF CitationRecall
  <2>4. part = case.docs <=> case.docs \subseteq CitedSet(response)
    OBVIOUS
  <2> HIDE DEF part
  <2>5. /\ Ratio(Cardinality(part), Cardinality(case.docs)) \in 0 .. Unit
        /\ Ratio(Cardinality(part), Cardinality(case.docs)) = Unit <=> part = case.docs
    BY <2>1, <2>2, RatioIs
  <2>. QED
    BY <2>3, <2>4, <2>5
<1>. QED
  BY <1>1, <1>2

\* Precision is perfect when nothing else is cited, and something is if it should be.
LEMMA PrecisionIs ==
    ASSUME NEW case \in Case, NEW response \in Answer
    PROVE  /\ CitationPrecision(case, response) \in 0 .. Unit
           /\ CitationPrecision(case, response) = Unit <=>
                 /\ CitedSet(response) \subseteq case.docs
                 /\ CitedSet(response) = {} => case.docs = {}
<1> DEFINE cited == CitedDocs(response)
           n == Len(response.citations)
           part == {i \in 1 .. n : cited[i] \in case.docs}
<1>0. Unit \in Nat /\ Unit # 0
  BY EvalAssumption
<1>1. response.citations \in Seq(Hit)
  BY DEF Answer
<1>2. n \in Nat /\ DOMAIN response.citations = 1 .. n
  BY <1>1
<1>3. cited = [i \in 1 .. n |-> DocumentOf[response.citations[i].chunk]]
  BY <1>2 DEF CitedDocs
<1>4. DOMAIN cited = 1 .. n /\ Len(cited) = n
  BY <1>2, <1>3
<1>5. CitedSet(response) = {cited[i] : i \in 1 .. n}
  BY <1>2 DEF CitedSet
<1> HIDE DEF cited, n
<1>6. CASE n = 0
  <2>1. cited = <<>>
    BY <1>3, <1>6
  <2>2. CitedSet(response) = {}
    BY <1>5, <1>6
  <2>3. CitationPrecision(case, response) = IF case.docs = {} THEN Unit ELSE 0
    BY <2>1 DEF CitationPrecision, cited
  <2>. QED
    BY <1>0, <2>2, <2>3
<1>7. CASE n # 0
  <2>1. n > 0 /\ 1 \in 1 .. n
    BY <1>2, <1>7
  <2>2. cited # <<>>
    BY <1>4, <2>1
  <2>3. CitedSet(response) # {}
    BY <1>5, <2>1
  <2>4. CitationPrecision(case, response) = Ratio(Cardinality(part), n)
    BY <1>4, <2>2 DEF CitationPrecision, cited
  <2>5. IsFiniteSet(1 .. n) /\ Cardinality(1 .. n) = n
    BY <1>2, FS_Interval
  <2>6. Cardinality(part) \in 0 .. n /\ (Cardinality(part) = n <=> part = 1 .. n)
    <3>1. part \in SUBSET (1 .. n)
      OBVIOUS
    <3> HIDE DEF part
    <3>. QED
      BY <2>5, <3>1, PartsAre
  <2>7. part = 1 .. n <=> CitedSet(response) \subseteq case.docs
    BY <1>5
  <2> HIDE DEF part
  <2>8. /\ Ratio(Cardinality(part), n) \in 0 .. Unit
        /\ Ratio(Cardinality(part), n) = Unit <=> Cardinality(part) = n
    BY <1>2, <2>1, <2>6, RatioIs
  <2>. QED
    BY <2>3, <2>4, <2>6, <2>7, <2>8
<1>. QED
  BY <1>6, <1>7

\* A claim counts for more than the mean can lose.
LEMMA RateIs ==
    ASSUME NEW response, IsFiniteSet(response.unsupported)
    PROVE  /\ UnsupportedClaimRate(response) \in 0 .. Unit
           /\ UnsupportedClaimRate(response) = 0 <=> response.unsupported = {}
           /\ UnsupportedClaimRate(response) # 0 => UnsupportedClaimRate(response) >= Cardinality(Request)
<1> DEFINE claims == Cardinality(response.unsupported)
           rate == UnsupportedClaimRate(response)
           size == Cardinality(Request)
<1>1. claims \in Nat /\ (claims = 0 <=> response.unsupported = {})
  BY FS_CardinalityType, FS_EmptySet
<1>2. size \in Nat /\ Unit \in Nat /\ Unit > 0 /\ Unit >= 13 * size
  BY EvalAssumption, FS_CardinalityType DEF RefusalLength
<1>3. rate = IF claims > 13 THEN Unit ELSE Ratio(claims, 13)
  BY DEF UnsupportedClaimRate, RefusalLength
<1> HIDE DEF claims, rate, size
<1>4. CASE claims > 13
  <2>1. rate = Unit
    BY <1>3, <1>4
  <2>2. Unit >= size /\ claims # 0
    BY <1>1, <1>2, <1>4
  <2>. QED
    BY <1>1, <1>2, <2>1, <2>2 DEF rate, size
<1>5. CASE ~(claims > 13)
  <2>1. rate = Ratio(claims, 13) /\ claims \in 0 .. 13
    BY <1>1, <1>3, <1>5
  <2>2. rate \in 0 .. Unit
    BY <2>1, RatioIs
  <2>3. rate = (Unit * claims) \div 13
    BY <2>1 DEF Ratio
  <2>4. CASE claims = 0
    <3>1. rate = 0
      BY <1>2, <2>3, <2>4
    <3>. QED
      BY <1>1, <2>2, <2>4, <3>1 DEF rate
  <2>5. CASE claims # 0
    <3>1. \A c \in Nat : c # 0 => Unit * c \in Nat /\ Unit * c >= Unit
      BY <1>2
    <3>2. Unit * claims \in Nat /\ Unit * claims >= Unit
      BY <1>1, <2>5, <3>1
    <3>3. rate >= size
      BY <1>2, <2>3, <3>2
    <3>4. rate # 0
      <4>1. size > 0
        BY <1>2, EvalAssumption, FS_EmptySet DEF size
      <4>. QED
        BY <1>2, <2>2, <3>3, <4>1
    <3>. QED
      BY <1>1, <2>2, <2>5, <3>3, <3>4 DEF rate, size
  <2>. QED
    BY <2>4, <2>5
<1>. QED
  BY <1>4, <1>5

\* What docs/eval-methodology.md asks of a case.
Expected(case, response) ==
    /\ response.refused = case.should_refuse
    /\ CitedSet(response) = case.docs
    /\ case.terms \subseteq Shown(response)
    /\ response.unsupported = {}

LEMMA ResultIs ==
    ASSUME NEW case \in Case, NEW response \in Answer, IsFiniteSet(response.unsupported),
           NEW latency \in Nat
    PROVE  LET result == Result(case, response, latency)
           IN  /\ result \in CaseResult
               /\ result.case = case /\ result.response = response
               /\ result.rate = 0 \/ result.rate >= Cardinality(Request)
               /\ result.passed <=> /\ result.contains = Unit /\ result.precision = Unit
                                    /\ result.recall = Unit /\ result.refusal = Unit
                                    /\ result.rate = 0
               /\ result.passed <=> Expected(case, response)
<1> DEFINE contains == AnswerContainsScore(case, response)
           precision == CitationPrecision(case, response)
           recall == CitationRecall(case, response)
           correct == response.refused = case.should_refuse
           refusal == IF correct THEN Unit ELSE 0
           rate == UnsupportedClaimRate(response)
           passed == contains = Unit /\ precision = Unit /\ recall = Unit /\ correct /\ rate = 0
           result == Result(case, response, latency)
<1>1. result = [case |-> case, response |-> response, latency |-> latency,
                contains |-> contains, precision |-> precision, recall |-> recall,
                refusal |-> refusal, rate |-> rate, passed |-> passed]
  BY DEF Result
<1>2. contains \in 0 .. Unit /\ (contains = Unit <=> case.terms \subseteq Shown(response))
  BY ContainsIs
<1>3. precision \in 0 .. Unit
      /\ (precision = Unit <=> /\ CitedSet(response) \subseteq case.docs
                               /\ CitedSet(response) = {} => case.docs = {})
  BY PrecisionIs
<1>4. recall \in 0 .. Unit /\ (recall = Unit <=> case.docs \subseteq CitedSet(response))
  BY RecallIs
<1>5. rate \in 0 .. Unit /\ (rate = 0 <=> response.unsupported = {})
      /\ (rate = 0 \/ rate >= Cardinality(Request))
  BY RateIs
<1>6. Unit # 0
  BY EvalAssumption
<1>7. refusal \in {0, Unit} /\ (refusal = Unit <=> correct) /\ passed \in BOOLEAN
  BY <1>6
<1>8. precision = Unit /\ recall = Unit <=> CitedSet(response) = case.docs
  BY <1>3, <1>4
<1>9. passed <=> Expected(case, response)
  BY <1>2, <1>5, <1>8 DEF Expected
<1>10. passed <=> /\ contains = Unit /\ precision = Unit /\ recall = Unit
                  /\ refusal = Unit /\ rate = 0
  BY <1>7
<1> HIDE DEF contains, precision, recall, correct, refusal, rate, passed, result
<1>11. result \in CaseResult
  BY <1>1, <1>2, <1>3, <1>4, <1>5, <1>7 DEF CaseResult
<1>12. /\ result.case = case /\ result.response = response /\ result.passed = passed
       /\ result.contains = contains /\ result.precision = precision
       /\ result.recall = recall /\ result.refusal = refusal /\ result.rate = rate
  BY <1>1
<1>. QED
  BY <1>5, <1>9, <1>10, <1>11, <1>12 DEF result

-----------------------------------------------------------------------------
(* The inductive invariant of the evaluation                               *)

\* What an answer reports as unsupported comes from two quotes at most.
Claims == \A r \in Request : IsFiniteSet(answer[r].unsupported)

\* Each case is asked for its own tenant.
Tenants == \A k \in DOMAIN Cases : tenant[k] = Cases[k].tenant

\* A result speaks of the case in its place, and of the answer to it, which is final.
Scored ==
    /\ results \in Seq(CaseResult) /\ Len(results) <= Len(Cases)
    /\ \A i \in DOMAIN results :
          /\ pc[i] = "done"
          /\ \E latency \in Latency : results[i] = Result(Cases[i], answer[i], latency)

Stages ==
    /\ stage \in {"build", "load", "ask", "reported", "died"}
    /\ stage = "build" => \A r \in Request : pc[r] = "new"
    /\ stage \in {"ask", "reported"} => \A i \in DOMAIN rows : rows[i].kind # "invalid"

Written ==
    report # NoReport =>
        stage = "reported" /\ Len(results) = Len(Cases) /\ report = Report

EvalInv ==
    Inv /\ Claims /\ rows \in Datasets /\ Tenants /\ Scored /\ Stages /\ Written

LEMMA CasesAre ==
    ASSUME rows \in Datasets
    PROVE  /\ Cases \in Seq(Case) /\ Len(Cases) \in Nat /\ DOMAIN Cases = 1 .. Len(Cases)
           /\ Len(Cases) <= Cardinality(Request)
           /\ 1 .. Len(Cases) \subseteq Request /\ Request \subseteq Nat
<1>1. Cases \in Seq(Case) /\ Len(Cases) <= Cardinality(Request)
  BY EvalAssumption DEF Cases
<1>2. Len(Cases) \in Nat /\ DOMAIN Cases = 1 .. Len(Cases)
  BY <1>1
<1>3. Cardinality(Request) \in Nat /\ Request = 1 .. Cardinality(Request)
  BY EvalAssumption, FS_CardinalityType
<1>. QED
  BY <1>1, <1>2, <1>3

\* A quote has finitely many tokens, and an answer at most two quotes.
LEMMA TokensAreFinite ==
    ASSUME NEW used \in Seq(Hit), Len(used) <= 2
    PROVE  IsFiniteSet(AnswerTokens(used))
<1> DEFINE n == Len(used)
<1>1. n \in Nat /\ DOMAIN used = 1 .. n /\ \A i \in 1 .. n : used[i] \in Hit
  OBVIOUS
<1>2. \A i \in 1 .. n : IsFiniteSet(Quoted[used[i].text])
  BY <1>1, ConstantsAssumption DEF Hit
<1> HIDE DEF n
<1>3. n = 0 \/ n = 1 \/ n = 2
  BY <1>1 DEF n
<1>4. CASE n = 0
  <2>1. AnswerTokens(used) = {}
    BY <1>1, <1>4 DEF AnswerTokens
  <2>. QED
    BY <2>1, FS_EmptySet
<1>5. CASE n = 1
  <2>1. DOMAIN used = {1}
    BY <1>1, <1>5
  <2>2. AnswerTokens(used) = Quoted[used[1].text]
    BY <2>1 DEF AnswerTokens
  <2>. QED
    BY <1>1, <1>2, <2>1, <2>2
<1>6. CASE n = 2
  <2>1. DOMAIN used = {1, 2}
    BY <1>1, <1>6
  <2>2. AnswerTokens(used) = Quoted[used[1].text] \cup Quoted[used[2].text]
    BY <2>1 DEF AnswerTokens
  <2>3. IsFiniteSet(Quoted[used[1].text]) /\ IsFiniteSet(Quoted[used[2].text])
    BY <1>1, <1>2, <2>1
  <2>. QED
    BY <2>2, <2>3, FS_Union
<1>. QED
  BY <1>3, <1>4, <1>5, <1>6

LEMMA ReportedIsFinite ==
    ASSUME NEW used \in Seq(Hit), Len(used) <= 2
    PROVE  /\ IsFiniteSet(Refusal(used, used).unsupported)
           /\ IsFiniteSet(Response(used, used).unsupported)
<1>1. IsFiniteSet(AnswerTokens(used))
  BY TokensAreFinite
<1>2. Reported(used, used) \subseteq AnswerTokens(used)
  BY DEF Reported, Unsupported
<1>3. IsFiniteSet(Reported(used, used)) /\ IsFiniteSet({})
  BY <1>1, <1>2, FS_Subset, FS_EmptySet
<1>4. Refusal(used, used).unsupported = Reported(used, used)
  BY DEF Refusal
<1>5. Response(used, used).unsupported = Reported(used, used) \/ Response(used, used).unsupported = {}
  BY <1>4 DEF Response
<1>. QED
  BY <1>3, <1>4, <1>5

\* The steps of a run keep AgentRuntime's invariant, touch no other run, and leave every
\* answer with finitely many claims.
LEMMA StepOfRun ==
    ASSUME Inv, NEW r \in Request,
           Refuse(r) \/ Retrieve(r) \/ Bm25Search(r) \/ VectorSearch(r) \/ Fail(r)
    PROVE  /\ Inv' /\ UNCHANGED <<index, tenant>>
           /\ \A q \in Request : q # r => pc'[q] = pc[q] /\ answer'[q] = answer[q]
           /\ Claims => Claims'
           /\ pc[r] \notin {"done", "failed"}
<1>1. Inv'
  BY RefuseInv, RetrieveInv, Bm25SearchInv, VectorSearchInv, FailInv
<1>2. UNCHANGED <<index, tenant>>
  BY DEF Refuse, Retrieve, Bm25Search, VectorSearch, Fail
<1>3. pc[r] \notin {"done", "failed"}
  BY DEF Refuse, Retrieve, Bm25Search, VectorSearch, Fail
<1>4. \A q \in Request : q # r => pc'[q] = pc[q]
  BY DEF Inv, TypeOK, Refuse, Retrieve, Bm25Search, VectorSearch, Fail, Goto
<1>5. \/ answer' = answer
      \/ \E used : /\ used \in Seq(Hit) /\ Len(used) <= 2
                   /\ \/ answer' = [answer EXCEPT ![r] = Refusal(used, used)]
                      \/ answer' = [answer EXCEPT ![r] = Response(used, used)]
  <2>1. CASE Refuse(r)
    <3>1. <<>> \in Seq(Hit) /\ Len(<<>>) = 0
      OBVIOUS
    <3>2. answer' = [answer EXCEPT ![r] = Refusal(<<>>, <<>>)]
      BY <2>1 DEF Refuse
    <3> DEFINE none == <<>>
    <3>3. none \in Seq(Hit) /\ Len(none) <= 2 /\ answer' = [answer EXCEPT ![r] = Refusal(none, none)]
      BY <3>1, <3>2
    <3> HIDE DEF none
    <3>. QED
      BY <3>3
  <2>2. CASE Retrieve(r) \/ Bm25Search(r) \/ Fail(r)
    BY <2>2 DEF Retrieve, Bm25Search, Fail
  <2>3. CASE VectorSearch(r)
    <3>1. PICK list \in VectorResults(r) : \E fused \in Fusions(bm25[r], list) :
             answer' = [answer EXCEPT ![r] = Response(Used(fused), Citations(fused))]
      BY <2>3 DEF VectorSearch
    <3>2. PICK fused \in Fusions(bm25[r], list) :
             answer' = [answer EXCEPT ![r] = Response(Used(fused), Citations(fused))]
      BY <3>1
    <3>3. list \in Seq(ScoredHit) /\ bm25[r] \in Seq(ScoredHit)
      BY <3>1, VectorResultsAre DEF Inv, TypeOK
    <3>4. fused \in Seq(Hit)
      BY <3>2, <3>3, FusionsAre
    <3>5. Used(fused) \in Seq(Hit) /\ Len(Used(fused)) <= 2
      BY <3>4, UsedAre
    <3>6. answer' = [answer EXCEPT ![r] = Response(Used(fused), Used(fused))]
      BY <3>2 DEF Citations
    <3>. QED
      BY <3>5, <3>6
  <2>. QED
    BY <2>1, <2>2, <2>3
<1>6. \A q \in Request : q # r => answer'[q] = answer[q]
  BY <1>5 DEF Inv, TypeOK
<1>7. Claims => Claims'
  <2>1. CASE answer' = answer
    BY <2>1 DEF Claims
  <2>2. CASE answer' # answer
    <3>1. PICK used : /\ used \in Seq(Hit) /\ Len(used) <= 2
                      /\ \/ answer' = [answer EXCEPT ![r] = Refusal(used, used)]
                         \/ answer' = [answer EXCEPT ![r] = Response(used, used)]
      BY <1>5, <2>2
    <3>2. answer'[r] = Refusal(used, used) \/ answer'[r] = Response(used, used)
      BY <3>1 DEF Inv, TypeOK
    <3>3. IsFiniteSet(answer'[r].unsupported)
      BY <3>1, <3>2, ReportedIsFinite
    <3>. QED
      BY <1>6, <3>3 DEF Claims
  <2>. QED
    BY <2>1, <2>2
<1>. QED
  BY <1>1, <1>2, <1>3, <1>4, <1>6, <1>7

-----------------------------------------------------------------------------
(* Every step preserves it                                                 *)

LEMMA EvalInitInv == EvalInit => EvalInv
<1> SUFFICES ASSUME EvalInit PROVE EvalInv
  OBVIOUS
<1>1. Inv /\ rows \in Datasets /\ results = <<>> /\ report = NoReport /\ stage = "build"
  BY InitInv DEF EvalInit
<1>2. Claims
  <2>1. \A r \in Request : answer[r].unsupported = {}
    BY DEF EvalInit, Init, NoAnswer
  <2>. QED
    BY <2>1, FS_EmptySet DEF Claims
<1>3. Tenants
  <2>1. \A k \in 1 .. Len(Cases) : k \in Request /\ k <= Len(Cases)
    BY <1>1, CasesAre
  <2>. QED
    BY <1>1, <2>1, CasesAre DEF EvalInit, Tenants
<1>4. Scored
  <2>1. Len(Cases) \in Nat
    BY <1>1, CasesAre
  <2>. QED
    BY <1>1, <2>1 DEF Scored
<1>5. Stages /\ Written
  BY <1>1 DEF EvalInit, Init, Stages, Written
<1>. QED
  BY <1>1, <1>2, <1>3, <1>4, <1>5 DEF EvalInv

\* The report is a function of the results.
LEMMA SameReport == UNCHANGED results => Report' = Report
BY DEF Report, Column

LEMMA SameCases == UNCHANGED rows => Cases' = Cases
BY DEF Cases

\* The index is built before any run looks at it.
LEMMA BuildInv == ASSUME EvalInv, Build PROVE EvalInv'
<1>1. \A r \in Request : pc[r] = "new"
  BY DEF EvalInv, Stages, Build
<1>2. index' \in [Chunk -> Text \cup {Absent}]
  BY EvalAssumption DEF Build
<1>3. UNCHANGED <<openSearch, writes, pc, tenant, bm25, vector, hits, answer, seen>>
  BY DEF Build
<1>4. Inv'
  <2>1. TypeOK'
    BY <1>2, <1>3 DEF EvalInv, Inv, TypeOK
  <2>2. Fresh' /\ Watches' /\ Found' /\ Cited' /\ CitationsWereIndexed'
    BY <1>1, <1>3 DEF EvalInv, Inv, Fresh, Watches, Found, Evidence, Cited, CitationsWereIndexed
  <2>. QED
    BY <2>1, <2>2 DEF Inv
<1>5. UNCHANGED <<rows, results, report>> /\ stage = "build" /\ stage' = "load"
  BY DEF Build
<1>6. Cases' = Cases
  BY <1>5, SameCases
<1>7. Claims' /\ Tenants' /\ Scored'
  BY <1>3, <1>5, <1>6 DEF EvalInv, Claims, Tenants, Scored
<1>8. Stages' /\ Written'
  BY <1>5 DEF EvalInv, Stages, Written
<1>. QED
  BY <1>4, <1>5, <1>7, <1>8 DEF EvalInv

LEMMA UnchangedInv == Inv /\ UNCHANGED vars => Inv'
BY DEF vars, Inv, TypeOK, Fresh, Watches, Found, Cited, CitationsWereIndexed, Held, Evidence

LEMMA LoadInv == ASSUME EvalInv, Load PROVE EvalInv'
<1>1. UNCHANGED <<vars, rows, results, report>> /\ stage = "load"
  BY DEF Load
<1>2. Inv'
  BY <1>1, UnchangedInv DEF EvalInv
<1>3. Cases' = Cases
  BY <1>1, SameCases
<1>4. Claims' /\ Tenants' /\ Scored'
  BY <1>1, <1>3 DEF EvalInv, Claims, Tenants, Scored, vars
<1>5. Stages' /\ Written'
  BY <1>1 DEF EvalInv, Stages, Written, Load
<1>. QED
  BY <1>1, <1>2, <1>4, <1>5 DEF EvalInv

\* The case at hand has a request of its own, and no result yet.
LEMMA CurrentIs ==
    ASSUME EvalInv, Current <= Len(Cases)
    PROVE  /\ Current \in Request /\ Current \in DOMAIN Cases
           /\ \A i \in DOMAIN results : i \in Request /\ i # Current
<1>1. results \in Seq(CaseResult) /\ Len(results) <= Len(Cases)
  BY DEF EvalInv, Scored
<1>2. Len(results) \in Nat /\ DOMAIN results = 1 .. Len(results)
  BY <1>1
<1>3. /\ Len(Cases) \in Nat /\ DOMAIN Cases = 1 .. Len(Cases) /\ 1 .. Len(Cases) \subseteq Request
  BY CasesAre DEF EvalInv
<1>4. Current \in 1 .. Len(Cases) /\ \A i \in 1 .. Len(results) : i \in 1 .. Len(Cases) /\ i # Current
  BY <1>1, <1>2, <1>3 DEF Current
<1>. QED
  BY <1>2, <1>3, <1>4

LEMMA AskCaseInv == ASSUME EvalInv, AskCase PROVE EvalInv'
<1> DEFINE r == Current
<1>1. /\ r \in Request /\ r \in DOMAIN Cases
      /\ \A i \in DOMAIN results : i \in Request /\ i # r
  BY CurrentIs DEF AskCase
<1>2. Refuse(r) \/ Retrieve(r) \/ Bm25Search(r) \/ VectorSearch(r) \/ Fail(r)
  BY DEF AskCase
<1>3. UNCHANGED <<rows, results, report>> /\ stage = "ask" /\ (stage' = "ask" \/ stage' = "died")
  BY DEF AskCase
<1> HIDE DEF r
<1>4. /\ Inv' /\ UNCHANGED <<index, tenant>> /\ Claims'
      /\ \A q \in Request : q # r => pc'[q] = pc[q] /\ answer'[q] = answer[q]
  BY <1>1, <1>2, StepOfRun DEF EvalInv
<1>5. Cases' = Cases
  BY <1>3, SameCases
<1>6. Tenants'
  BY <1>4, <1>5 DEF EvalInv, Tenants
<1>7. Scored'
  <2>1. results' = results
    BY <1>3
  <2>2. \A i \in DOMAIN results : pc'[i] = pc[i] /\ answer'[i] = answer[i]
    BY <1>1, <1>4
  <2>3. /\ results \in Seq(CaseResult) /\ Len(results) <= Len(Cases)
        /\ \A i \in DOMAIN results :
              /\ pc[i] = "done"
              /\ \E latency \in Latency : results[i] = Result(Cases[i], answer[i], latency)
    BY DEF EvalInv, Scored
  <2>. QED
    BY <1>5, <2>1, <2>2, <2>3 DEF Scored
<1>8. Stages' /\ Written'
  BY <1>3 DEF EvalInv, Stages, Written
<1>. QED
  BY <1>3, <1>4, <1>6, <1>7, <1>8 DEF EvalInv

LEMMA ScoreCaseInv == ASSUME EvalInv, ScoreCase PROVE EvalInv'
<1> DEFINE r == Current
           n == Len(results)
<1>1. r \in Request /\ r \in DOMAIN Cases /\ pc[r] = "done" /\ r <= Len(Cases) /\ r = n + 1
  BY CurrentIs DEF ScoreCase, Current
<1>2. UNCHANGED <<vars, stage, rows, report>> /\ stage = "ask"
  BY DEF ScoreCase
<1>3. PICK latency \in Latency : results' = Append(results, Result(Cases[r], answer[r], latency))
  BY DEF ScoreCase
<1> HIDE DEF r
<1>4. Inv'
  BY <1>2, UnchangedInv DEF EvalInv
<1>5. Cases' = Cases
  BY <1>2, SameCases
<1>6. Claims' /\ Tenants'
  BY <1>2, <1>5 DEF EvalInv, Claims, Tenants, vars
<1>7. Scored'
  <2> DEFINE result == Result(Cases[r], answer[r], latency)
  <2>1. result \in CaseResult
    <3>1. Cases[r] \in Case
      BY <1>1, CasesAre DEF EvalInv
    <3>2. answer[r] \in Answer /\ IsFiniteSet(answer[r].unsupported)
      BY <1>1 DEF EvalInv, Inv, TypeOK, Claims
    <3>3. latency \in Nat
      BY <1>3, EvalAssumption
    <3>. QED
      BY <3>1, <3>2, <3>3, ResultIs
  <2>2. results \in Seq(CaseResult) /\ n \in Nat /\ DOMAIN results = 1 .. n
    BY DEF EvalInv, Scored
  <2> HIDE DEF result, n
  <2>3. results' = Append(results, result)
    BY <1>3 DEF result
  <2>4. results' \in Seq(CaseResult) /\ Len(results') = n + 1 /\ DOMAIN results' = 1 .. n + 1
    BY <2>1, <2>2, <2>3 DEF n
  <2>5. (\A i \in 1 .. n : results'[i] = results[i]) /\ results'[n + 1] = result
    BY <2>1, <2>2, <2>3 DEF n
  <2>6. pc' = pc /\ answer' = answer
    BY <1>2 DEF vars
  <2>7. \A i \in 1 .. n + 1 :
           /\ pc'[i] = "done"
           /\ \E l \in Latency : results'[i] = Result(Cases[i], answer'[i], l)
    <3> SUFFICES ASSUME NEW i \in 1 .. n + 1
                 PROVE  /\ pc'[i] = "done"
                        /\ \E l \in Latency : results'[i] = Result(Cases[i], answer'[i], l)
      OBVIOUS
    <3>1. CASE i = n + 1
      BY <1>1, <1>3, <2>5, <2>6, <3>1 DEF result
    <3>2. CASE i # n + 1
      <4>1. i \in 1 .. n
        BY <2>2, <3>2
      <4>2. pc[i] = "done" /\ \E l \in Latency : results[i] = Result(Cases[i], answer[i], l)
        BY <2>2, <4>1 DEF EvalInv, Scored
      <4>. QED
        BY <2>5, <2>6, <4>1, <4>2
    <3>. QED
      BY <3>1, <3>2
  <2>8. Len(results') <= Len(Cases')
    BY <1>1, <1>5, <2>4
  <2>. QED
    BY <1>5, <2>4, <2>7, <2>8 DEF Scored
<1>8. Stages' /\ Written'
  BY <1>2 DEF EvalInv, Stages, Written, vars
<1>. QED
  BY <1>2, <1>4, <1>6, <1>7, <1>8 DEF EvalInv

LEMMA WriteReportInv == ASSUME EvalInv, WriteReport PROVE EvalInv'
<1>1. UNCHANGED <<vars, rows, results>> /\ stage = "ask" /\ stage' = "reported"
      /\ report' = Report /\ Current > Len(Cases)
  BY DEF WriteReport
<1>2. Inv'
  BY <1>1, UnchangedInv DEF EvalInv
<1>3. Cases' = Cases /\ Report' = Report
  BY <1>1, SameCases, SameReport
<1>4. Claims' /\ Tenants' /\ Scored'
  BY <1>1, <1>3 DEF EvalInv, Claims, Tenants, Scored, vars
<1>5. Stages'
  BY <1>1 DEF EvalInv, Stages, vars
<1>6. Len(results) = Len(Cases)
  <2>1. Len(results) \in Nat /\ Len(Cases) \in Nat /\ Len(results) <= Len(Cases)
    BY CasesAre DEF EvalInv, Scored
  <2>. QED
    BY <1>1, <2>1 DEF Current
<1>7. Written'
  BY <1>1, <1>3, <1>6 DEF Written
<1>. QED
  BY <1>1, <1>2, <1>4, <1>5, <1>7 DEF EvalInv

LEMMA EvalNextInv == EvalInv /\ [EvalNext]_<<vars, evalOnly>> => EvalInv'
<1> SUFFICES ASSUME EvalInv, [EvalNext]_<<vars, evalOnly>> PROVE EvalInv'
  OBVIOUS
<1>1. CASE EvalNext
  BY <1>1, BuildInv, LoadInv, AskCaseInv, ScoreCaseInv, WriteReportInv DEF EvalNext
<1>2. CASE UNCHANGED <<vars, evalOnly>>
  <2>1. UNCHANGED vars /\ UNCHANGED <<stage, rows, results, report>>
    BY <1>2 DEF evalOnly
  <2>2. Inv'
    BY <2>1, UnchangedInv DEF EvalInv
  <2>3. Cases' = Cases /\ Report' = Report
    BY <2>1, SameCases, SameReport
  <2>4. Claims' /\ Tenants' /\ Scored' /\ Stages' /\ Written'
    BY <2>1, <2>3 DEF EvalInv, Claims, Tenants, Scored, Stages, Written, vars
  <2>. QED
    BY <2>1, <2>2, <2>4 DEF EvalInv
<1>. QED
  BY <1>1, <1>2

\* The invariant of run_eval.py: a result is that of the case in its place.
THEOREM EvalInvariance == EvalSpec => []EvalInv
<1>1. EvalInit => EvalInv
  BY EvalInitInv
<1>2. EvalInv /\ [EvalNext]_<<vars, evalOnly>> => EvalInv'
  BY EvalNextInv
<1>. QED
  BY <1>1, <1>2, PTL DEF EvalSpec

-----------------------------------------------------------------------------
(* What it implies                                                         *)

\* What the invariant says of one result.
LEMMA ResultsSpeak ==
    ASSUME EvalInv, NEW i \in DOMAIN results
    PROVE  /\ i \in Request /\ Cases[i] \in Case /\ answer[i] \in Answer
           /\ results[i] \in CaseResult
           /\ results[i].case = Cases[i] /\ results[i].response = answer[i]
           /\ results[i].rate = 0 \/ results[i].rate >= Cardinality(Request)
           /\ results[i].passed <=> /\ results[i].contains = Unit /\ results[i].precision = Unit
                                    /\ results[i].recall = Unit /\ results[i].refusal = Unit
                                    /\ results[i].rate = 0
           /\ results[i].passed <=> Expected(Cases[i], answer[i])
<1>1. /\ results \in Seq(CaseResult) /\ Len(results) <= Len(Cases)
      /\ \E latency \in Latency : results[i] = Result(Cases[i], answer[i], latency)
  BY DEF EvalInv, Scored
<1>2. PICK latency \in Latency : results[i] = Result(Cases[i], answer[i], latency)
  BY <1>1
<1>3. i \in 1 .. Len(Cases)
  <2>1. Len(results) \in Nat /\ DOMAIN results = 1 .. Len(results)
    BY <1>1
  <2>2. Len(Cases) \in Nat
    BY CasesAre DEF EvalInv
  <2>. QED
    BY <1>1, <2>1, <2>2
<1>4. i \in Request /\ Cases[i] \in Case
  BY <1>3, CasesAre DEF EvalInv
<1>5. answer[i] \in Answer /\ IsFiniteSet(answer[i].unsupported)
  BY <1>4 DEF EvalInv, Inv, TypeOK, Claims
<1>6. latency \in Nat
  BY <1>2, EvalAssumption
<1>. QED
  BY <1>2, <1>4, <1>5, <1>6, ResultIs

LEMMA VerdictIs == EvalInv => PassedMeansExpected
<1> SUFFICES ASSUME EvalInv, NEW i \in DOMAIN results
             PROVE  results[i].passed <=> Expected(results[i].case, results[i].response)
  BY DEF PassedMeansExpected, Expected
<1>. QED
  BY ResultsSpeak

\* A case passes exactly when the answer is what the case expects, however its scores are
\* computed, rounded and combined.
THEOREM VerdictCorrectness == EvalSpec => []PassedMeansExpected
BY EvalInvariance, VerdictIs, PTL

LEMMA VerdictOwner == EvalInv => PassesStayInTenant
<1> SUFFICES ASSUME EvalInv, NEW i \in DOMAIN results, results[i].passed,
                    NEW d \in results[i].case.docs
             PROVE  \E c \in Chunk : DocumentOf[c] = d /\ Owner[c] = results[i].case.tenant
  BY DEF PassesStayInTenant
<1>1. /\ i \in Request /\ answer[i] \in Answer /\ Cases[i] \in Case
      /\ results[i].case = Cases[i] /\ Expected(Cases[i], answer[i])
  BY ResultsSpeak
<1> DEFINE cited == answer[i].citations
<1>2. cited \in Seq(Hit)
  BY <1>1 DEF Answer
<1>3. d \in CitedSet(answer[i])
  BY <1>1 DEF Expected
<1>4. PICK k \in DOMAIN cited : d = DocumentOf[cited[k].chunk]
  BY <1>3 DEF CitedSet, CitedDocs
<1>5. cited[k].chunk \in Chunk
  <2>1. cited[k] \in Hit
    BY <1>2, <1>4
  <2>. QED
    BY <2>1 DEF Hit
<1>6. Owner[cited[k].chunk] = tenant[i]
  BY <1>1, <1>4 DEF EvalInv, Inv, CitationsWereIndexed
<1>7. tenant[i] = Cases[i].tenant
  <2>1. i \in DOMAIN Cases
    <3>1. results \in Seq(CaseResult) /\ Len(results) <= Len(Cases) /\ Len(Cases) \in Nat
          /\ DOMAIN Cases = 1 .. Len(Cases)
      BY CasesAre DEF EvalInv, Scored
    <3>2. Len(results) \in Nat /\ i \in 1 .. Len(results)
      BY <3>1
    <3>. QED
      BY <3>1, <3>2
  <2>. QED
    BY <2>1 DEF EvalInv, Tenants
<1>. QED
  BY <1>1, <1>4, <1>5, <1>6, <1>7

\* No case passes on the strength of another tenant's document.
THEOREM VerdictsStayInTenant == EvalSpec => []PassesStayInTenant
BY EvalInvariance, VerdictOwner, PTL

\* What Column makes of the results.
LEMMA ColumnsAre ==
    ASSUME EvalInv
    PROVE  LET n == Len(results)
           IN  /\ n \in Nat /\ DOMAIN results = 1 .. n /\ n <= Cardinality(Request)
               /\ \A field \in {"contains", "precision", "recall", "refusal", "rate"} :
                     /\ Column(field) \in Seq(Nat) /\ Len(Column(field)) = n
                     /\ DOMAIN Column(field) = 1 .. n
                     /\ \A i \in 1 .. n : Column(field)[i] <= Unit
               /\ Column("latency") \in Seq(Nat) /\ Len(Column("latency")) = n
               /\ \A i \in 1 .. n : /\ Column("contains")[i] = results[i].contains
                                    /\ Column("precision")[i] = results[i].precision
                                    /\ Column("recall")[i] = results[i].recall
                                    /\ Column("refusal")[i] = results[i].refusal
                                    /\ Column("rate")[i] = results[i].rate
<1> DEFINE n == Len(results)
<1>1. results \in Seq(CaseResult) /\ n \in Nat /\ DOMAIN results = 1 .. n
  BY DEF EvalInv, Scored
<1>2. n <= Cardinality(Request)
  <2>1. n <= Len(Cases) /\ Len(Cases) \in Nat /\ Len(Cases) <= Cardinality(Request)
    BY CasesAre DEF EvalInv, Scored
  <2>2. Cardinality(Request) \in Nat
    BY EvalAssumption, FS_CardinalityType
  <2>. QED
    BY <1>1, <2>1, <2>2
<1>3. Unit \in Nat
  BY EvalAssumption
<1>4. \A i \in 1 .. n : /\ results[i].contains \in 0 .. Unit /\ results[i].precision \in 0 .. Unit
                        /\ results[i].recall \in 0 .. Unit /\ results[i].refusal \in {0, Unit}
                        /\ results[i].rate \in 0 .. Unit /\ results[i].latency \in Nat
  <2>1. \A i \in 1 .. n : results[i] \in CaseResult
    BY <1>1
  <2>. QED
    BY <2>1 DEF CaseResult
<1>5. \A field \in {"contains", "precision", "recall", "refusal", "rate"} :
         \A i \in 1 .. n : results[i][field] \in Nat /\ results[i][field] <= Unit
  BY <1>3, <1>4
<1>6. \A field : Column(field) = [i \in 1 .. n |-> results[i][field]]
  BY <1>1 DEF Column
<1> HIDE DEF n
<1>7. \A field \in {"contains", "precision", "recall", "refusal", "rate"} :
         /\ Column(field) \in Seq(Nat) /\ Len(Column(field)) = n
         /\ DOMAIN Column(field) = 1 .. n
         /\ \A i \in 1 .. n : Column(field)[i] <= Unit
  <2> SUFFICES ASSUME NEW field \in {"contains", "precision", "recall", "refusal", "rate"}
               PROVE  /\ Column(field) \in Seq(Nat) /\ Len(Column(field)) = n
                      /\ DOMAIN Column(field) = 1 .. n
                      /\ \A i \in 1 .. n : Column(field)[i] <= Unit
    OBVIOUS
  <2> DEFINE column == Column(field)
  <2>1. column = [i \in 1 .. n |-> results[i][field]]
    BY <1>6
  <2>2. \A i \in 1 .. n : results[i][field] \in Nat /\ results[i][field] <= Unit
    BY <1>5
  <2> HIDE DEF column
  <2>3. column = [i \in 1 .. n |-> column[i]]
    BY <2>1
  <2>4. \A i \in 1 .. n : column[i] \in Nat /\ column[i] <= Unit
    BY <2>1, <2>2
  <2>. QED
    BY <1>1, <2>3, <2>4, ListOf DEF column
<1>8. Column("latency") \in Seq(Nat) /\ Len(Column("latency")) = n
  <2> DEFINE column == Column("latency")
  <2>1. column = [i \in 1 .. n |-> results[i].latency]
    BY <1>6
  <2> HIDE DEF column
  <2>2. column = [i \in 1 .. n |-> column[i]] /\ \A i \in 1 .. n : column[i] \in Nat
    BY <1>4, <2>1
  <2>. QED
    BY <1>1, <2>2, ListOf DEF column
<1>9. \A i \in 1 .. n : /\ Column("contains")[i] = results[i].contains
                        /\ Column("precision")[i] = results[i].precision
                        /\ Column("recall")[i] = results[i].recall
                        /\ Column("refusal")[i] = results[i].refusal
                        /\ Column("rate")[i] = results[i].rate
  BY <1>6
<1>. QED
  BY <1>1, <1>2, <1>7, <1>8, <1>9 DEF n

LEMMA PerfectReport ==
    ASSUME EvalInv, results # <<>>
    PROVE  Report.passed_count = Report.case_count <=>
              /\ Report.contains = Unit /\ Report.precision = Unit /\ Report.recall = Unit
              /\ Report.refusal = Unit /\ Report.rate = 0
<1> DEFINE n == Len(results)
           passed == {i \in 1 .. n : results[i].passed}
           All(field, score) == \A i \in 1 .. n : Column(field)[i] = score
<1>1. n \in Nat /\ DOMAIN results = 1 .. n /\ n <= Cardinality(Request) /\ n # 0
  BY ColumnsAre DEF EvalInv, Scored
<1>2. ASSUME NEW field \in {"contains", "precision", "recall", "refusal"}
      PROVE  Mean(Column(field)) = Unit <=> All(field, Unit)
  <2>1. /\ Column(field) \in Seq(Nat) /\ DOMAIN Column(field) = 1 .. n /\ Len(Column(field)) = n
        /\ \A i \in 1 .. n : Column(field)[i] <= Unit
    BY ColumnsAre
  <2>2. Column(field) # <<>>
    BY <1>1, <2>1
  <2>. QED
    BY <2>1, <2>2, MeanIsUnit
<1>3. Mean(Column("rate")) = 0 <=> All("rate", 0)
  <2>1. /\ Column("rate") \in Seq(Nat) /\ DOMAIN Column("rate") = 1 .. n /\ Len(Column("rate")) = n
    BY ColumnsAre
  <2>2. Column("rate") # <<>>
    BY <1>1, <2>1
  <2>3. \A i \in 1 .. n : Column("rate")[i] = 0 \/ Column("rate")[i] >= n
    <3> SUFFICES ASSUME NEW i \in 1 .. n, Column("rate")[i] # 0 PROVE Column("rate")[i] >= n
      OBVIOUS
    <3>0. Column("rate")[i] = results[i].rate
      BY ColumnsAre
    <3>1. Column("rate")[i] = results[i].rate /\ Column("rate")[i] \in Nat
      BY <2>1, <3>0
    <3>2. results[i].rate >= Cardinality(Request)
      BY <1>1, <3>1, ResultsSpeak
    <3>3. Cardinality(Request) \in Nat
      BY EvalAssumption, FS_CardinalityType
    <3>. QED
      BY <1>1, <3>1, <3>2, <3>3
  <2>. QED
    BY <2>1, <2>2, <2>3, MeanIsZero
<1>4. /\ Report.case_count = n /\ Report.passed_count = Cardinality(passed)
      /\ Report.contains = Mean(Column("contains")) /\ Report.precision = Mean(Column("precision"))
      /\ Report.recall = Mean(Column("recall")) /\ Report.refusal = Mean(Column("refusal"))
      /\ Report.rate = Mean(Column("rate"))
  BY <1>1 DEF Report
<1>5. Cardinality(passed) = n <=> passed = 1 .. n
  <2>1. IsFiniteSet(1 .. n) /\ Cardinality(1 .. n) = n
    BY <1>1, FS_Interval
  <2>2. passed \in SUBSET (1 .. n)
    OBVIOUS
  <2> HIDE DEF passed
  <2>. QED
    BY <2>1, <2>2, PartsAre
<1>6. passed = 1 .. n <=> \A i \in 1 .. n : results[i].passed
  OBVIOUS
<1>7. (\A i \in 1 .. n : results[i].passed) <=>
         /\ All("contains", Unit) /\ All("precision", Unit) /\ All("recall", Unit)
         /\ All("refusal", Unit) /\ All("rate", 0)
  <2>1. \A i \in 1 .. n :
           results[i].passed <=> /\ Column("contains")[i] = Unit /\ Column("precision")[i] = Unit
                                 /\ Column("recall")[i] = Unit /\ Column("refusal")[i] = Unit
                                 /\ Column("rate")[i] = 0
    <3> SUFFICES ASSUME NEW i \in 1 .. n
                 PROVE  results[i].passed <=>
                           /\ Column("contains")[i] = Unit /\ Column("precision")[i] = Unit
                           /\ Column("recall")[i] = Unit /\ Column("refusal")[i] = Unit
                           /\ Column("rate")[i] = 0
      OBVIOUS
    <3>1. /\ Column("contains")[i] = results[i].contains
          /\ Column("precision")[i] = results[i].precision
          /\ Column("recall")[i] = results[i].recall
          /\ Column("refusal")[i] = results[i].refusal
          /\ Column("rate")[i] = results[i].rate
      BY ColumnsAre
    <3>. QED
      BY <1>1, <3>1, ResultsSpeak
  <2> HIDE DEF n
  <2>. QED
    BY <2>1, Zenon
<1> HIDE DEF n, passed, All
<1>8. /\ Report.contains = Unit <=> All("contains", Unit)
      /\ Report.precision = Unit <=> All("precision", Unit)
      /\ Report.recall = Unit <=> All("recall", Unit)
      /\ Report.refusal = Unit <=> All("refusal", Unit)
      /\ Report.rate = 0 <=> All("rate", 0)
  BY <1>2, <1>3, <1>4
<1>9. Report.passed_count = Report.case_count <=> \A i \in 1 .. n : results[i].passed
  BY <1>4, <1>5, <1>6, Zenon
<1>. QED
  BY <1>7, <1>8, <1>9, Zenon

LEMMA ReportIs == EvalInv => ReportAddsUp
<1> SUFFICES ASSUME EvalInv, report # NoReport
             PROVE  /\ \A i \in DOMAIN rows : rows[i].kind # "invalid"
                    /\ [i \in DOMAIN results |-> results[i].case] = Cases
                    /\ report.case_count = Len(Cases)
                    /\ Cases # <<>> =>
                          ( report.passed_count = report.case_count <=>
                              /\ report.contains = Unit /\ report.precision = Unit
                              /\ report.recall = Unit /\ report.refusal = Unit
                              /\ report.rate = 0 )
  BY DEF ReportAddsUp
<1>1. stage = "reported" /\ Len(results) = Len(Cases) /\ report = Report
  BY DEF EvalInv, Written
<1>2. \A i \in DOMAIN rows : rows[i].kind # "invalid"
  BY <1>1 DEF EvalInv, Stages
<1>3. /\ Len(Cases) \in Nat /\ DOMAIN Cases = 1 .. Len(Cases) /\ Cases \in Seq(Case)
      /\ DOMAIN results = 1 .. Len(Cases)
  BY <1>1, CasesAre, ColumnsAre DEF EvalInv
<1>4. [i \in DOMAIN results |-> results[i].case] = Cases
  <2>1. \A i \in DOMAIN results : results[i].case = Cases[i]
    BY ResultsSpeak
  <2>. QED
    BY <1>3, <2>1
<1>5. report.case_count = Len(Cases)
  BY <1>1 DEF Report
<1>6. Cases # <<>> => results # <<>>
  BY <1>1, <1>3
<1>. QED
  BY <1>1, <1>2, <1>4, <1>5, <1>6, PerfectReport

\* A report covers the whole dataset, case by case, and is perfect exactly when every case
\* passed: no mean hides a case that did not.
THEOREM ReportCorrectness == EvalSpec => []ReportAddsUp
BY EvalInvariance, ReportIs, PTL

\* percentile computes percentiles.
LEMMA PercentilesAre ==
    ASSUME NEW values \in Seq(Nat), values # <<>>
    PROVE  /\ IsPercentile(values, 50, PercentileOf(values, 50))
           /\ IsPercentile(values, 95, PercentileOf(values, 95))
           /\ PercentileOf(values, 50) <= PercentileOf(values, 95)
<1>1. 50 \in 0 .. 100 /\ 95 \in 50 .. 100 /\ 95 \in 0 .. 100
  OBVIOUS
<1>2. /\ PercentileOf(values, 50) = Interpolated(values, 50)
      /\ PercentileOf(values, 95) = Interpolated(values, 95)
  BY <1>1, PercentileIs
<1>3. /\ IsPercentile(values, 50, Interpolated(values, 50))
      /\ IsPercentile(values, 95, Interpolated(values, 95))
  BY <1>1, InterpolatedIs
<1>4. Interpolated(values, 50) <= Interpolated(values, 95)
  BY <1>1, PercentilesGrow
<1>. QED
  BY <1>2, <1>3, <1>4

LEMMA LatenciesAre == EvalInv => LatenciesAreRanked
<1> SUFFICES ASSUME EvalInv, report # NoReport, results # <<>>
             PROVE  /\ IsPercentile(Column("latency"), 50, report.p50)
                    /\ IsPercentile(Column("latency"), 95, report.p95)
                    /\ report.p50 <= report.p95
  BY DEF LatenciesAreRanked
<1>1. report = Report
  BY DEF EvalInv, Written
<1>2. Column("latency") \in Seq(Nat) /\ Len(Column("latency")) = Len(results)
  BY ColumnsAre
<1>3. Column("latency") # <<>>
  BY <1>2 DEF EvalInv, Scored
<1>4. report.p50 = PercentileOf(Column("latency"), 50)
      /\ report.p95 = PercentileOf(Column("latency"), 95)
  BY <1>1 DEF Report
<1>. QED
  BY <1>2, <1>3, <1>4, PercentilesAre

\* The reported latencies are percentiles of those measured, for any number of them.
THEOREM LatencyCorrectness == EvalSpec => []LatenciesAreRanked
BY EvalInvariance, LatenciesAre, PTL

-----------------------------------------------------------------------------
(* The inductive invariant of the benchmark                                *)

\* The tasks that have been counted, and those of them with an outcome.
Counted == {r \in Request : r \notin created /\ r # task}
Failed == {r \in Counted : pc[r] = "failed"}
Refused == {r \in Counted : pc[r] = "done" /\ answer[r].refused}

BenchTypes ==
    /\ step \in {"build", "gather", "summarized"}
    /\ created \subseteq Request /\ task \in Request \cup {0} /\ task \notin created
    /\ outcomes \in [answered : Nat, refused : Nat, failed : Nat]
    /\ latencies \in Seq(Nat)

\* Before the tasks exist nothing runs and nothing is counted.
Waiting ==
    /\ task = 0 /\ created = {} /\ latencies = <<>>
    /\ outcomes = [answered |-> 0, refused |-> 0, failed |-> 0]
    /\ \A r \in Request : pc[r] = "new"

\* Each task that is over is counted once, under its outcome, and measured once.
Tallied ==
    /\ \A r \in Counted : pc[r] \in {"done", "failed"}
    /\ Len(latencies) = Cardinality(Counted)
    /\ outcomes.failed = Cardinality(Failed)
    /\ outcomes.refused = Cardinality(Refused)
    /\ outcomes.answered + outcomes.refused + outcomes.failed = Cardinality(Counted)

Summarized ==
    summary # NoSummary =>
        /\ step = "summarized" /\ task = 0 /\ created = {}
        /\ summary = [request_count |-> Cardinality(Request),
                      p50 |-> PercentileOf(latencies, 50),
                      p95 |-> PercentileOf(latencies, 95),
                      failed |-> outcomes.failed,
                      refused |-> outcomes.refused]

BenchInv ==
    /\ Inv /\ BenchTypes /\ Summarized
    /\ IF step = "build" THEN Waiting ELSE Tallied

\* No task has the number that stands for none.
LEMMA NoTask == 0 \notin Request
<1>1. PICK n : n = Cardinality(Request)
  OBVIOUS
<1>2. Request = 1 .. n
  BY <1>1, BenchmarkAssumption
<1>. QED
  BY <1>2

LEMMA BenchInitInv == BenchInit => BenchInv
<1> SUFFICES ASSUME BenchInit PROVE BenchInv
  OBVIOUS
<1>1. Inv
  BY InitInv DEF BenchInit
<1>2. BenchTypes /\ Summarized /\ step = "build"
  BY DEF BenchInit, BenchTypes, Summarized
<1>3. Waiting
  BY DEF BenchInit, Init, Waiting
<1>. QED
  BY <1>1, <1>2, <1>3 DEF BenchInv

LEMMA BuildRuntimeInv == ASSUME BenchInv, BuildRuntime PROVE BenchInv'
<1>1. Waiting /\ step = "build" /\ step' = "gather" /\ created' = Request
  BY DEF BenchInv, BuildRuntime
<1>2. index' \in [Chunk -> Text \cup {Absent}]
  BY BenchmarkAssumption DEF BuildRuntime
<1>3. UNCHANGED <<openSearch, writes, pc, tenant, bm25, vector, hits, answer, seen>>
      /\ UNCHANGED <<task, outcomes, latencies, summary>>
  BY DEF BuildRuntime
<1>4. Inv'
  <2>1. TypeOK'
    BY <1>2, <1>3 DEF BenchInv, Inv, TypeOK
  <2>2. Fresh' /\ Watches' /\ Found' /\ Cited' /\ CitationsWereIndexed'
    BY <1>1, <1>3 DEF BenchInv, Inv, Fresh, Watches, Found, Evidence, Cited,
                      CitationsWereIndexed, Waiting
  <2>. QED
    BY <2>1, <2>2 DEF Inv
<1>5. 0 \notin Request
  BY NoTask
<1>6. BenchTypes' /\ Summarized'
  BY <1>1, <1>3, <1>5 DEF BenchInv, BenchTypes, Summarized, Waiting
<1>7. Tallied'
  <2>1. Counted' = {} /\ Failed' = {} /\ Refused' = {}
    BY <1>1 DEF Counted, Failed, Refused
  <2>2. Cardinality(Counted') = 0 /\ Cardinality(Failed') = 0 /\ Cardinality(Refused') = 0
    BY <2>1, FS_EmptySet
  <2>. QED
    BY <1>1, <1>3, <2>1, <2>2 DEF Tallied, Waiting
<1>. QED
  BY <1>1, <1>4, <1>6, <1>7 DEF BenchInv

\* What is counted depends only on these.
LEMMA SameTally ==
    ASSUME Counted' = Counted, \A r \in Counted : pc'[r] = pc[r] /\ answer'[r] = answer[r],
           UNCHANGED <<outcomes, latencies>>, Tallied
    PROVE  Tallied'
<1>1. Failed' = Failed /\ Refused' = Refused
  BY DEF Failed, Refused
<1>. QED
  BY <1>1 DEF Tallied

LEMMA AcquireInv == ASSUME BenchInv, NEW r \in Request, Acquire(r) PROVE BenchInv'
<1>1. /\ task = 0 /\ r \in created /\ task' = r /\ created' = created \ {r}
      /\ UNCHANGED vars /\ UNCHANGED <<step, outcomes, latencies, summary>>
  BY DEF Acquire
<1>2. step # "build"
  BY <1>1 DEF BenchInv, Waiting
<1>3. Inv'
  BY <1>1, UnchangedInv DEF BenchInv
<1>4. BenchTypes' /\ Summarized'
  BY <1>1 DEF BenchInv, BenchTypes, Summarized
<1>5. Tallied'
  <2>1. 0 \notin Request
    BY NoTask
  <2>2. Counted' = Counted
    BY <1>1, <2>1 DEF Counted
  <2>. QED
    BY <1>1, <1>2, <2>2, SameTally DEF BenchInv, vars
<1>. QED
  BY <1>1, <1>2, <1>3, <1>4, <1>5 DEF BenchInv

LEMMA RunTaskInv == ASSUME BenchInv, RunTask PROVE BenchInv'
<1>1. /\ task # 0 /\ UNCHANGED <<step, permits, task, created, outcomes, latencies, summary>>
      /\ Refuse(task) \/ Retrieve(task) \/ Bm25Search(task) \/ VectorSearch(task) \/ Fail(task)
  BY DEF RunTask, benchOnly
<1>2. task \in Request /\ step # "build"
  BY <1>1 DEF BenchInv, BenchTypes, Waiting
<1>3. Inv' /\ \A q \in Request : q # task => pc'[q] = pc[q] /\ answer'[q] = answer[q]
  BY <1>1, <1>2, StepOfRun DEF BenchInv
<1>4. BenchTypes' /\ Summarized'
  BY <1>1 DEF BenchInv, BenchTypes, Summarized
<1>5. Tallied'
  <2>1. Counted' = Counted /\ \A q \in Counted : q \in Request /\ q # task
    BY <1>1 DEF Counted
  <2>. QED
    BY <1>1, <1>2, <1>3, <2>1, SameTally DEF BenchInv
<1>. QED
  BY <1>1, <1>2, <1>3, <1>4, <1>5 DEF BenchInv

\* The task that is over joins those that are counted.
LEMMA CountInv == ASSUME BenchInv, Count PROVE BenchInv'
<1>1. /\ task # 0 /\ pc[task] \in {"done", "failed"} /\ task' = 0
      /\ outcomes' = [outcomes EXCEPT ![Outcome(task)] = @ + 1]
      /\ UNCHANGED vars /\ UNCHANGED <<step, created, summary>>
  BY DEF Count
<1>2. PICK latency \in Elapsed : latencies' = Append(latencies, latency)
  BY DEF Count, Measured
<1>3. task \in Request /\ task \notin created /\ step # "build" /\ Tallied
  BY <1>1 DEF BenchInv, BenchTypes, Waiting
<1>4. Inv'
  BY <1>1, UnchangedInv DEF BenchInv
<1>5. /\ latencies \in Seq(Nat) /\ latency \in Nat /\ latencies' \in Seq(Nat)
      /\ Len(latencies') = Len(latencies) + 1
  BY <1>2, BenchmarkAssumption DEF BenchInv, BenchTypes
<1> DEFINE a == outcomes.answered
           b == outcomes.refused
           c == outcomes.failed
<1>6. outcomes = [answered |-> a, refused |-> b, failed |-> c]
      /\ a \in Nat /\ b \in Nat /\ c \in Nat
  BY DEF BenchInv, BenchTypes
<1>7. answer[task].refused \in BOOLEAN
  BY <1>3 DEF BenchInv, Inv, TypeOK, Answer
<1>8. pc' = pc /\ answer' = answer
  BY <1>1 DEF vars
<1>9. Counted' = Counted \cup {task} /\ task \notin Counted
  <2>1. 0 \notin Request
    BY NoTask
  <2>. QED
    BY <1>1, <1>3, <2>1 DEF Counted
<1>10. IsFiniteSet(Counted) /\ IsFiniteSet(Failed) /\ IsFiniteSet(Refused)
       /\ task \notin Failed /\ task \notin Refused
  <2>1. Counted \subseteq Request /\ Failed \subseteq Request /\ Refused \subseteq Request
    BY DEF Counted, Failed, Refused
  <2>. QED
    BY <1>9, <2>1, FS_Subset, BenchmarkAssumption DEF Failed, Refused
<1>11. Cardinality(Counted') = Cardinality(Counted) + 1
  BY <1>9, <1>10, FS_AddElement
<1>12. \A r \in Counted' : pc'[r] \in {"done", "failed"}
  BY <1>1, <1>3, <1>8, <1>9 DEF Tallied
<1>13. /\ Len(latencies) = Cardinality(Counted) /\ c = Cardinality(Failed)
       /\ b = Cardinality(Refused) /\ a + b + c = Cardinality(Counted)
  BY <1>3 DEF Tallied
<1> HIDE DEF a, b, c
<1>14. /\ outcomes' \in [answered : Nat, refused : Nat, failed : Nat]
       /\ outcomes'.failed = Cardinality(Failed')
       /\ outcomes'.refused = Cardinality(Refused')
       /\ outcomes'.answered + outcomes'.refused + outcomes'.failed = Cardinality(Counted) + 1
  <2>1. CASE pc[task] = "failed"
    <3>1. Outcome(task) = "failed"
      BY <2>1 DEF Outcome
    <3>2. outcomes' = [answered |-> a, refused |-> b, failed |-> c + 1]
      <4>1. outcomes' = [outcomes EXCEPT !["failed"] = outcomes["failed"] + 1]
        BY <1>1, <3>1
      <4>. QED
        BY <1>6, <4>1
    <3>3. Failed' = Failed \cup {task} /\ Refused' = Refused
      BY <1>8, <1>9, <2>1 DEF Failed, Refused
    <3>4. Cardinality(Failed') = c + 1 /\ Cardinality(Refused') = b
      BY <1>10, <1>13, <3>3, FS_AddElement
    <3>5. a + b + (c + 1) = Cardinality(Counted) + 1
      BY <1>6, <1>13
    <3>. QED
      BY <1>6, <3>2, <3>4, <3>5
  <2>2. CASE pc[task] = "done" /\ answer[task].refused
    <3>1. Outcome(task) = "refused"
      BY <2>2 DEF Outcome
    <3>2. outcomes' = [answered |-> a, refused |-> b + 1, failed |-> c]
      <4>1. outcomes' = [outcomes EXCEPT !["refused"] = outcomes["refused"] + 1]
        BY <1>1, <3>1
      <4>. QED
        BY <1>6, <4>1
    <3>3. Failed' = Failed /\ Refused' = Refused \cup {task}
      BY <1>8, <1>9, <2>2 DEF Failed, Refused
    <3>4. Cardinality(Failed') = c /\ Cardinality(Refused') = b + 1
      BY <1>10, <1>13, <3>3, FS_AddElement
    <3>5. a + (b + 1) + c = Cardinality(Counted) + 1
      BY <1>6, <1>13
    <3>. QED
      BY <1>6, <3>2, <3>4, <3>5
  <2>3. CASE pc[task] = "done" /\ ~answer[task].refused
    <3>1. Outcome(task) = "answered"
      BY <2>3 DEF Outcome
    <3>2. outcomes' = [answered |-> a + 1, refused |-> b, failed |-> c]
      <4>1. outcomes' = [outcomes EXCEPT !["answered"] = outcomes["answered"] + 1]
        BY <1>1, <3>1
      <4>. QED
        BY <1>6, <4>1
    <3>3. Failed' = Failed /\ Refused' = Refused
      BY <1>8, <1>9, <2>3 DEF Failed, Refused
    <3>4. Cardinality(Failed') = c /\ Cardinality(Refused') = b
      BY <1>13, <3>3
    <3>5. (a + 1) + b + c = Cardinality(Counted) + 1
      BY <1>6, <1>13
    <3>. QED
      BY <1>6, <3>2, <3>4, <3>5
  <2>. QED
    BY <1>1, <2>1, <2>2, <2>3
<1>15. Tallied'
  BY <1>5, <1>11, <1>12, <1>13, <1>14 DEF Tallied
<1>16. BenchTypes'
  <2>1. 0 \notin created /\ task' \notin created'
    BY <1>1, NoTask DEF BenchInv, BenchTypes
  <2>. QED
    BY <1>1, <1>5, <1>14, <2>1 DEF BenchInv, BenchTypes
<1>17. Summarized'
  BY <1>1 DEF BenchInv, Summarized
<1>. QED
  BY <1>1, <1>3, <1>4, <1>15, <1>16, <1>17 DEF BenchInv

LEMMA SummarizeInv == ASSUME BenchInv, Summarize PROVE BenchInv'
<1>1. /\ step = "gather" /\ task = 0 /\ created = {} /\ step' = "summarized"
      /\ summary' = [request_count |-> Cardinality(Request),
                     p50 |-> PercentileOf(latencies, 50),
                     p95 |-> PercentileOf(latencies, 95),
                     failed |-> outcomes.failed,
                     refused |-> outcomes.refused]
      /\ UNCHANGED vars /\ UNCHANGED <<permits, task, created, outcomes, latencies>>
  BY DEF Summarize
<1>2. Inv'
  BY <1>1, UnchangedInv DEF BenchInv
<1>3. BenchTypes' /\ Summarized'
  BY <1>1 DEF BenchInv, BenchTypes, Summarized
<1>4. Tallied'
  <2>1. Counted' = Counted
    BY <1>1 DEF Counted
  <2>. QED
    BY <1>1, <2>1, SameTally DEF BenchInv, vars
<1>. QED
  BY <1>1, <1>2, <1>3, <1>4 DEF BenchInv

LEMMA BenchNextInv == BenchInv /\ [BenchNext]_<<vars, benchOnly>> => BenchInv'
<1> SUFFICES ASSUME BenchInv, [BenchNext]_<<vars, benchOnly>> PROVE BenchInv'
  OBVIOUS
<1>1. CASE BenchNext
  BY <1>1, BuildRuntimeInv, RunTaskInv, CountInv, SummarizeInv, AcquireInv DEF BenchNext
<1>2. CASE UNCHANGED <<vars, benchOnly>>
  <2>1. UNCHANGED vars /\ UNCHANGED <<step, permits, task, created, outcomes, latencies, summary>>
    BY <1>2 DEF benchOnly
  <2>2. Inv'
    BY <2>1, UnchangedInv DEF BenchInv
  <2>3. BenchTypes' /\ Summarized' /\ (Waiting => Waiting')
    BY <2>1 DEF BenchInv, BenchTypes, Summarized, Waiting, vars
  <2>4. Tallied => Tallied'
    <3>1. Counted' = Counted
      BY <2>1 DEF Counted
    <3>. QED
      BY <2>1, <3>1, SameTally DEF vars
  <2>. QED
    BY <2>1, <2>2, <2>3, <2>4 DEF BenchInv
<1>. QED
  BY <1>1, <1>2

LEMMA SummaryIs == BenchInv => SummaryAddsUp
<1> SUFFICES ASSUME BenchInv, summary # NoSummary
             PROVE  /\ Len(latencies) = summary.request_count
                    /\ summary.failed = Cardinality({r \in Request : pc[r] = "failed"})
                    /\ summary.refused =
                          Cardinality({r \in Request : pc[r] = "done" /\ answer[r].refused})
                    /\ outcomes.answered =
                          summary.request_count - summary.failed - summary.refused
                    /\ IsPercentile(latencies, 50, summary.p50)
                    /\ IsPercentile(latencies, 95, summary.p95)
  BY DEF SummaryAddsUp
<1>1. /\ step = "summarized" /\ task = 0 /\ created = {}
      /\ summary.request_count = Cardinality(Request)
      /\ summary.failed = outcomes.failed /\ summary.refused = outcomes.refused
      /\ summary.p50 = PercentileOf(latencies, 50) /\ summary.p95 = PercentileOf(latencies, 95)
  BY DEF BenchInv, Summarized
<1>2. Tallied /\ BenchTypes
  BY <1>1 DEF BenchInv
<1>3. Counted = Request
  <2>1. 0 \notin Request
    BY NoTask
  <2>. QED
    BY <1>1, <2>1 DEF Counted
<1>4. /\ Len(latencies) = Cardinality(Request)
      /\ outcomes.failed = Cardinality({r \in Request : pc[r] = "failed"})
      /\ outcomes.refused = Cardinality({r \in Request : pc[r] = "done" /\ answer[r].refused})
      /\ outcomes.answered + outcomes.refused + outcomes.failed = Cardinality(Request)
  BY <1>2, <1>3 DEF Tallied, Failed, Refused
<1>5. outcomes.answered \in Nat /\ outcomes.refused \in Nat /\ outcomes.failed \in Nat
  BY <1>2 DEF BenchTypes
<1>6. latencies \in Seq(Nat) /\ latencies # <<>>
  <2>1. Cardinality(Request) # 0
    BY BenchmarkAssumption, FS_EmptySet
  <2>. QED
    BY <1>2, <1>4, <2>1 DEF BenchTypes
<1>7. outcomes.answered = Cardinality(Request) - outcomes.failed - outcomes.refused
  BY <1>4, <1>5
<1>. QED
  BY <1>1, <1>4, <1>6, <1>7, PercentilesAre

\* The summary of the benchmark accounts for every request once, whatever became of it and
\* however many permits there are, and its latencies are percentiles of all of them.
THEOREM SummaryCorrectness == BenchSpec => []SummaryAddsUp
<1>1. BenchInit => BenchInv
  BY BenchInitInv
<1>2. BenchInv /\ [BenchNext]_<<vars, benchOnly>> => BenchInv'
  BY BenchNextInv
<1>. QED
  BY <1>1, <1>2, SummaryIs, PTL DEF BenchSpec
=============================================================================
