----------------------------- MODULE AnalysisProofs -----------------------------
(***************************************************************************)
(* The algorithms of an analysis, StudyInference and Retrieval, for any    *)
(* number of p-values, replicates, words, tasks and arms, and for traces   *)
(* and commands of any length: what is computed is what the method         *)
(* promises, and what the metrics report is what the agents have read.     *)
(***************************************************************************)
EXTENDS StudyInference, Retrieval, SumTheorems, SequenceTheorems, FiniteSetTheorems, TLAPS

-----------------------------------------------------------------------------
(* Confirmatory inference                                                  *)

\* The p-values that are not before n, and p-values.
NotBefore(p, n) == {k \in Family : ~RankedBefore(p, k, n)}
PValues == [Family -> 0..Unit]

(* A family and its p-values. *)
LEMMA FamilyIs ==
    /\ IsFiniteSet(Family) /\ Cardinality(Family) = FamilySize /\ FamilySize \in Nat \ {0}
    /\ Unit \in Nat \ {0} /\ Family \subseteq Nat
    /\ \A p \in PValues, n \in Family : p[n] \in 0..Unit
<1>1. FamilySize \in Nat \ {0} /\ Unit \in Nat \ {0}
  BY InferenceAssumption
<1>2. IsFiniteSet(Family) /\ Cardinality(Family) = FamilySize
  <2>1. /\ IsFiniteSet(1..FamilySize)
        /\ Cardinality(1..FamilySize) = IF 1 > FamilySize THEN 0 ELSE FamilySize - 1 + 1
    BY <1>1, FS_Interval
  <2>. QED
    BY <1>1, <2>1 DEF Family
<1>3. Family \subseteq Nat
  BY <1>1 DEF Family
<1>4. \A p \in PValues, n \in Family : p[n] \in 0..Unit
  BY DEF PValues
<1>. QED
  BY <1>1, <1>2, <1>3, <1>4

(* As many are not before a p-value as its step multiplies it by. *)
LEMMA NotBeforeAre ==
    ASSUME NEW p \in PValues, NEW n \in Family
    PROVE  /\ Cardinality(NotBefore(p, n)) = FamilySize - Rank(p, n)
           /\ Rank(p, n) \in Nat /\ FamilySize - Rank(p, n) \in 1..FamilySize
           /\ n \in NotBefore(p, n) /\ NotBefore(p, n) \in SUBSET Family
<1>. DEFINE Before == {m \in Family : RankedBefore(p, m, n)}
<1>1. NotBefore(p, n) = Family \ Before /\ Before \in SUBSET Family /\ Family \cap Before = Before
  BY DEF NotBefore
<1>. HIDE DEF Before
<1>2. IsFiniteSet(Before) /\ Cardinality(Before) \in Nat
  BY <1>1, FamilyIs, FS_Subset, FS_CardinalityType
<1>3. Cardinality(NotBefore(p, n)) = FamilySize - Cardinality(Before)
      /\ IsFiniteSet(NotBefore(p, n))
  <2>1. IsFiniteSet(Family) /\ Cardinality(Family) = FamilySize
    BY FamilyIs
  <2>2. /\ IsFiniteSet(Family \ Before)
        /\ Cardinality(Family \ Before) = Cardinality(Family) - Cardinality(Family \cap Before)
    BY <2>1, FS_Difference, Zenon
  <2>. QED
    BY <1>1, <2>1, <2>2
<1>4. n \in NotBefore(p, n)
  BY FamilyIs DEF NotBefore, RankedBefore
<1>5. Cardinality(NotBefore(p, n)) \in Nat /\ Cardinality(NotBefore(p, n)) # 0
  BY <1>3, <1>4, FS_CardinalityType, FS_EmptySet
<1>6. Rank(p, n) = Cardinality(Before)
  BY DEF Rank, Before
<1>7. FamilySize - Rank(p, n) \in 1..FamilySize
  BY <1>2, <1>3, <1>5, <1>6, FamilyIs
<1>. QED
  BY <1>1, <1>2, <1>3, <1>4, <1>6, <1>7

(* Of some p-values one comes first. *)
LEMMA FirstOfSome ==
    ASSUME NEW p \in PValues, NEW s \in SUBSET Family, s # {}
    PROVE  \E m \in s : \A k \in s : ~RankedBefore(p, k, m)
<1>. DEFINE values == {p[k] : k \in s}
<1>1. values \in SUBSET Nat /\ values # {}
  <2>1. \A k \in s : p[k] \in Nat
    BY FamilyIs
  <2>. QED
    BY <2>1
<1>2. PICK v \in values : \A w \in values : v <= w
  BY <1>1, LeastOf
<1>. DEFINE least == {k \in s : p[k] = v}
<1>3. least \in SUBSET Nat /\ least # {}
  BY <1>2, FamilyIs
<1>4. PICK m \in least : \A k \in least : m <= k
  BY <1>3, LeastOf
<1>5. ASSUME NEW k \in s, RankedBefore(p, k, m) PROVE FALSE
  <2>1. p[k] \in values /\ p[m] = v /\ p[k] \in Nat /\ v \in Nat /\ k \in Nat /\ m \in Nat
    BY <1>1, <1>2, <1>4, FamilyIs
  <2>2. v <= p[k]
    BY <1>2, <2>1
  <2>3. p[k] = v /\ k < m
    BY <1>5, <2>1, <2>2 DEF RankedBefore
  <2>4. m <= k
    BY <1>4, <2>3
  <2>. QED
    BY <2>1, <2>3, <2>4
<1>. QED
  BY <1>4, <1>5

\* What the step of m asks, and what Bonferroni's correction asks of an intersection.
StepOf(p, m) == (FamilySize - Rank(p, m)) * p[m]
BonferroniOf(p, s) == Cardinality(s) * Min({p[m] : m \in s})
Capped(x) == Min({Unit, x})

(* What a capped number is. *)
LEMMA CapIs ==
    ASSUME NEW x \in Nat
    PROVE  Capped(x) \in 0..Unit /\ Capped(x) = IF x <= Unit THEN x ELSE Unit
<1>1. {Unit, x} \in SUBSET Nat /\ {Unit, x} # {}
  BY FamilyIs
<1>2. Min({Unit, x}) \in {Unit, x} /\ \A y \in {Unit, x} : Min({Unit, x}) <= y
  BY <1>1, LeastIs
<1>. QED
  BY <1>2, FamilyIs DEF Capped

(* The step of a p-value is a number up to a bound. *)
LEMMA StepIs ==
    ASSUME NEW p \in PValues, NEW m \in Family
    PROVE  StepOf(p, m) \in 0..(FamilySize * Unit)
<1>. DEFINE a == FamilySize - Rank(p, m)
<1>1. a \in 1..FamilySize /\ p[m] \in 0..Unit /\ FamilySize \in Nat /\ Unit \in Nat
  BY NotBeforeAre, FamilyIs
<1>2. StepOf(p, m) = a * p[m]
  BY DEF StepOf
<1>. HIDE DEF a
<1>3. a * p[m] <= FamilySize * p[m] /\ a * p[m] \in Nat
  BY <1>1, ProductsGrow
<1>4. FamilySize * p[m] <= FamilySize * Unit
  BY <1>1, ProductsGrow
<1>5. FamilySize * p[m] \in Nat /\ FamilySize * Unit \in Nat
  BY <1>1
<1>. QED
  BY <1>2, <1>3, <1>4, <1>5

(* An intersection asks no more than the step of its first p-value, which asks no more *)
(* than the intersection of all that are not before it.                               *)
LEMMA IntersectionIs ==
    ASSUME NEW p \in PValues, NEW s \in SUBSET Family, NEW m \in s,
           \A k \in s : ~RankedBefore(p, k, m)
    PROVE  /\ BonferroniOf(p, s) \in Nat /\ BonferroniOf(p, s) <= StepOf(p, m)
           /\ s = NotBefore(p, m) => BonferroniOf(p, s) = StepOf(p, m)
<1>. DEFINE values == {p[k] : k \in s}
<1>1. values \in SUBSET Nat /\ values # {} /\ p[m] \in values /\ p[m] \in Nat
  <2>1. \A k \in s : p[k] \in Nat
    BY FamilyIs
  <2>2. p[m] \in values
    OBVIOUS
  <2>. QED
    BY <2>1, <2>2
<1>2. \A k \in s : p[m] <= p[k]
  BY FamilyIs DEF RankedBefore
<1>3. Min(values) = p[m]
  <2>1. Min(values) \in values /\ \A y \in values : Min(values) <= y
    BY <1>1, LeastIs
  <2>2. PICK k \in s : Min(values) = p[k]
    BY <2>1
  <2>3. p[m] <= p[k] /\ p[k] <= p[m] /\ p[k] \in Nat
    BY <1>1, <1>2, <2>1, <2>2
  <2>. QED
    BY <1>1, <2>2, <2>3
<1>4. BonferroniOf(p, s) = Cardinality(s) * p[m]
  BY <1>3 DEF BonferroniOf
<1>5. s \in SUBSET NotBefore(p, m) /\ IsFiniteSet(NotBefore(p, m))
  BY NotBeforeAre, FamilyIs, FS_Subset DEF NotBefore
<1>6. Cardinality(s) <= FamilySize - Rank(p, m) /\ Cardinality(s) \in Nat
      /\ FamilySize - Rank(p, m) \in Nat
  <2>1. Cardinality(s) <= Cardinality(NotBefore(p, m)) /\ IsFiniteSet(s)
    BY <1>5, FS_Subset
  <2>. QED
    BY <2>1, NotBeforeAre, FS_CardinalityType
<1>7. Cardinality(s) * p[m] <= (FamilySize - Rank(p, m)) * p[m] /\ Cardinality(s) * p[m] \in Nat
  BY <1>1, <1>6, ProductsGrow
<1>8. s = NotBefore(p, m) => Cardinality(s) = FamilySize - Rank(p, m)
  BY NotBeforeAre
<1>. QED
  BY <1>4, <1>7, <1>8 DEF StepOf

(* Holm's procedure is the closed test, for any family: what the running maximum is at    *)
(* its greatest is what all that are not before that step ask together, and no            *)
(* intersection asks more than the step of its first p-value (_holm_adjust_raw).          *)
LEMMA HolmIsClosed ==
    ASSUME NEW p \in PValues
    PROVE  HolmAdjust(p) = ClosedBonferroni(p)
<1>. SUFFICES ASSUME NEW n \in Family
              PROVE  HolmAdjust(p)[n] = ClosedBonferroni(p)[n]
  BY DEF HolmAdjust, ClosedBonferroni
<1>. DEFINE sofar == {m \in Family : m = n \/ RankedBefore(p, m, n)}
            steps == {StepOf(p, m) : m \in sofar}
            closure == {x \in SUBSET Family : n \in x}
            asked == {Capped(BonferroniOf(p, s)) : s \in closure}
<1>1. HolmAdjust(p)[n] = Capped(Max(steps))
  BY DEF HolmAdjust, StepOf, Capped
<1>2. ClosedBonferroni(p)[n] = Max(asked)
  BY DEF ClosedBonferroni, BonferroniOf, Capped
<1>3. steps \in SUBSET (0..(FamilySize * Unit)) /\ steps # {} /\ FamilySize * Unit \in Nat
  <2>1. n \in sofar
    OBVIOUS
  <2>2. \A m \in sofar : StepOf(p, m) \in 0..(FamilySize * Unit)
    BY StepIs
  <2>3. FamilySize * Unit \in Nat
    BY FamilyIs
  <2>. QED
    BY <2>1, <2>2, <2>3
<1>4. Max(steps) \in steps /\ \A y \in steps : y <= Max(steps)
  BY <1>3, GreatestOf
<1>5. Max(steps) \in Nat
  BY <1>3, <1>4
<1>6. ASSUME NEW s \in closure
      PROVE  /\ BonferroniOf(p, s) \in Nat /\ BonferroniOf(p, s) <= Max(steps)
             /\ Capped(BonferroniOf(p, s)) \in 0..Unit
             /\ Capped(BonferroniOf(p, s)) <= Capped(Max(steps))
  <2>1. PICK m \in s : \A k \in s : ~RankedBefore(p, k, m)
    BY FirstOfSome
  <2>2. BonferroniOf(p, s) \in Nat /\ BonferroniOf(p, s) <= StepOf(p, m)
    BY <2>1, IntersectionIs
  <2>3. m \in sofar
    BY <2>1, FamilyIs DEF RankedBefore
  <2>4. StepOf(p, m) <= Max(steps) /\ StepOf(p, m) \in Nat
    BY <1>3, <1>4, <2>3
  <2>5. BonferroniOf(p, s) <= Max(steps)
    BY <1>5, <2>2, <2>4
  <2>. QED
    BY <1>5, <2>2, <2>5, CapIs, FamilyIs
<1>7. Capped(Max(steps)) \in asked
  <2>1. PICK m \in sofar : Max(steps) = StepOf(p, m)
    BY <1>4
  <2>2. NotBefore(p, m) \in closure
    BY <2>1, NotBeforeAre, FamilyIs DEF NotBefore, RankedBefore
  <2>3. BonferroniOf(p, NotBefore(p, m)) = StepOf(p, m)
    <3>1. \A k \in NotBefore(p, m) : ~RankedBefore(p, k, m)
      BY DEF NotBefore
    <3>. QED
      BY <3>1, NotBeforeAre, IntersectionIs
  <2>. QED
    BY <2>1, <2>2, <2>3
<1>8. asked \in SUBSET (0..Unit) /\ asked # {}
  BY <1>6, <1>7
<1>9. Max(asked) \in asked /\ \A y \in asked : y <= Max(asked)
  BY <1>8, FamilyIs, GreatestOf
<1>10. Max(asked) <= Capped(Max(steps)) /\ Capped(Max(steps)) <= Max(asked)
  BY <1>6, <1>7, <1>9
<1>11. Max(asked) \in Nat /\ Capped(Max(steps)) \in Nat
  BY <1>7, <1>8, <1>9
<1>. QED
  BY <1>1, <1>2, <1>10, <1>11

(* A replicate of the study's own mix of types sums up to what the study does, where tasks *)
(* of one type do not differ (_stratified_resample_indices).                              *)
LEMMA StrataKeep ==
    ASSUME NEW types \in [Sample -> TaskTypes], NEW delta \in [Sample -> -Unit..Unit],
           NEW r \in StratifiedResamples(types),
           \A i, j \in Sample : types[i] = types[j] => delta[i] = delta[j]
    PROVE  ReplicateSum(delta, r) = ReplicateSum(delta, [i \in Sample |-> i])
<1>. DEFINE self == [i \in Sample |-> i]
            Tbl(it, f) == it = [s \in SUBSET Sample |->
                                  IF s = {} THEN 0
                                  ELSE it[s \ {Max(s)}] + delta[f[self[Max(s)]]]]
<1>1. DOMAIN self = Sample
  OBVIOUS
<1>2. ASSUME NEW f
      PROVE  ReplicateSum(delta, f) = (CHOOSE it : Tbl(it, f))[Sample]
  BY <1>1 DEF ReplicateSum, FoldLeft, MapThenFoldSet
<1>3. ASSUME NEW s \in SUBSET Sample, s # {}
      PROVE  delta[r[self[Max(s)]]] = delta[self[self[Max(s)]]]
  <2>1. NSample \in Nat /\ s \in SUBSET (0..NSample)
    BY InferenceAssumption DEF Sample
  <2>2. Max(s) \in Sample
    BY <1>3, <2>1, GreatestOf
  <2>3. r[Max(s)] \in Sample /\ types[r[Max(s)]] = types[Max(s)]
    BY <2>2 DEF StratifiedResamples
  <2>. QED
    BY <2>2, <2>3
<1>4. ASSUME NEW it PROVE Tbl(it, r) <=> Tbl(it, self)
  BY <1>3
<1>5. (CHOOSE it : Tbl(it, r)) = (CHOOSE it : Tbl(it, self))
  <2>. HIDE DEF Tbl
  <2>. QED
    BY <1>4
<1>. QED
  BY <1>2, <1>5

\* In the order of their size.
Ordered(s) == \A i, j \in DOMAIN s : i <= j => s[i] <= s[j]

\* The quantile at l whole steps and f parts of 200 of one more.
QuantileAt(s, l, f) == 200 * s[l + 1] + (IF f = 0 THEN 0 ELSE (s[l + 2] - s[l + 1]) * f)

(* A percentile is a quantile between two of the means. *)
LEMMA QuantileIs ==
    ASSUME NEW s \in Seq(Int), s # <<>>, NEW q \in 0..200
    PROVE  \E l \in 0..(Len(s) - 1), f \in 0..199 :
               /\ (Len(s) - 1) * q = 200 * l + f
               /\ f > 0 => l + 1 <= Len(s) - 1
               /\ Percentile(s, q) = QuantileAt(s, l, f)
<1>. DEFINE n == Len(s) - 1
            p == n * q
            l == p \div 200
            f == p % 200
            u == (p + 199) \div 200
<1>1. n \in Nat /\ q \in Nat /\ p \in Nat /\ p <= n * 200
  <2>1. n \in Nat /\ q \in Nat /\ q <= 200
    OBVIOUS
  <2>. QED
    BY <2>1, ProductsGrow
<1>2. Percentile(s, q) = 200 * s[l + 1] + (s[u + 1] - s[l + 1]) * f
  BY DEF Percentile
<1>. HIDE DEF p
<1>3. p = 200 * l + f /\ l \in Nat /\ f \in 0..199
  BY <1>1
<1>4. u = IF f = 0 THEN l ELSE l + 1
  BY <1>1
<1>5. l <= n /\ (f > 0 => l + 1 <= n)
  BY <1>1, <1>3
<1>. HIDE DEF l, f, u
<1>6. \A k \in 0..n : s[k + 1] \in Int
  OBVIOUS
<1>7. l \in 0..n /\ s[l + 1] \in Int
  BY <1>1, <1>3, <1>5, <1>6
<1>8. CASE f = 0
  <2>1. Percentile(s, q) = 200 * s[l + 1]
    BY <1>2, <1>4, <1>7, <1>8
  <2>2. QuantileAt(s, l, f) = 200 * s[l + 1]
    BY <1>7, <1>8 DEF QuantileAt
  <2>. QED
    BY <1>3, <1>5, <1>7, <2>1, <2>2 DEF p
<1>9. CASE f # 0
  <2>1. u + 1 = l + 2
    BY <1>3, <1>4, <1>9
  <2>2. Percentile(s, q) = QuantileAt(s, l, f)
    BY <1>2, <1>9, <2>1 DEF QuantileAt
  <2>. QED
    BY <1>3, <1>5, <1>7, <2>2 DEF p
<1>. QED
  BY <1>8, <1>9

\* There are such means, and the quantile is between them.
IsPlace(s, l, f) == f > 0 => l + 1 <= Len(s) - 1
IsBetween(s, l, f) ==
    /\ QuantileAt(s, l, f) \in Int /\ s[l + 1] \in Int
    /\ 200 * s[l + 1] <= QuantileAt(s, l, f)
    /\ f > 0 => s[l + 2] \in Int /\ QuantileAt(s, l, f) <= 200 * s[l + 2]
    /\ \A g \in 0..f : QuantileAt(s, l, g) <= QuantileAt(s, l, f)

(* A quantile lies between the means around it. *)
LEMMA QuantileBetween ==
    ASSUME NEW s \in Seq(Int), Ordered(s), NEW l \in 0..(Len(s) - 1), NEW f \in 0..199,
           IsPlace(s, l, f)
    PROVE  IsBetween(s, l, f)
<1>1. s[l + 1] \in Int /\ l + 1 \in DOMAIN s
  OBVIOUS
<1>2. CASE f = 0
  BY <1>1, <1>2 DEF QuantileAt, IsBetween
<1>3. CASE f > 0
  <2>1. s[l + 2] \in Int /\ l + 2 \in DOMAIN s
    BY <1>3 DEF IsPlace
  <2>2. s[l + 1] <= s[l + 2]
    BY <1>1, <2>1 DEF Ordered
  <2>3. PICK d \in Nat : s[l + 2] = s[l + 1] + d
    <3>1. s[l + 2] - s[l + 1] \in Nat /\ s[l + 2] = s[l + 1] + (s[l + 2] - s[l + 1])
      BY <1>1, <2>1, <2>2
    <3>. QED
      BY <3>1
  <2>4. s[l + 2] - s[l + 1] = d
    BY <1>1, <2>3
  <2>5. \A g \in 0..f : QuantileAt(s, l, g) = 200 * s[l + 1] + d * g
    <3>1. \A g \in 0..f : g # 0 => QuantileAt(s, l, g) = 200 * s[l + 1] + d * g
      BY <2>4 DEF QuantileAt
    <3>2. QuantileAt(s, l, 0) = 200 * s[l + 1] + d * 0
      BY <1>1 DEF QuantileAt
    <3>. QED
      BY <3>1, <3>2
  <2>6. f \in 0..f /\ f \in Nat /\ f <= 200
    OBVIOUS
  <2>7. \A g \in 0..f : d * g <= d * f /\ d * g \in Nat
    BY <2>6, ProductsGrow
  <2>8. d * f <= d * 200 /\ d * f \in Nat
    BY <2>6, ProductsGrow
  <2>9. QuantileAt(s, l, f) = 200 * s[l + 1] + d * f
    BY <2>5, <2>6
  <2>10. \A g \in 0..f : QuantileAt(s, l, g) <= QuantileAt(s, l, f)
    BY <1>1, <2>5, <2>7, <2>8, <2>9
  <2>. QED
    BY <1>1, <2>1, <2>3, <2>8, <2>9, <2>10 DEF IsBetween
<1>. QED
  BY <1>2, <1>3

(* Of ordered means a higher percentile is no smaller (_percentile). *)
LEMMA PercentilesGrow ==
    ASSUME NEW s \in Seq(Int), s # <<>>, Ordered(s), NEW p \in 0..200, NEW q \in 0..200, p <= q
    PROVE  Percentile(s, p) <= Percentile(s, q) /\ Percentile(s, p) \in Int
<1>1. PICK l \in 0..(Len(s) - 1), f \in 0..199 :
               /\ (Len(s) - 1) * p = 200 * l + f
               /\ f > 0 => l + 1 <= Len(s) - 1
               /\ Percentile(s, p) = QuantileAt(s, l, f)
  BY QuantileIs
<1>2. PICK k \in 0..(Len(s) - 1), g \in 0..199 :
               /\ (Len(s) - 1) * q = 200 * k + g
               /\ g > 0 => k + 1 <= Len(s) - 1
               /\ Percentile(s, q) = QuantileAt(s, k, g)
  BY QuantileIs
<1>3. 200 * l + f <= 200 * k + g
  <2>1. Len(s) - 1 \in Nat /\ p \in Nat /\ q \in Nat
    OBVIOUS
  <2>2. (Len(s) - 1) * p <= (Len(s) - 1) * q
    BY <2>1, ProductsGrow
  <2>. QED
    BY <1>1, <1>2, <2>2
<1>4. IsBetween(s, l, f)
  BY <1>1, QuantileBetween DEF IsPlace
<1>5. IsBetween(s, k, g)
  BY <1>2, QuantileBetween DEF IsPlace
<1>9. s[l + 1] <= s[k + 1] \/ k < l
  <2>1. SUFFICES ASSUME l <= k PROVE s[l + 1] <= s[k + 1]
    OBVIOUS
  <2>2. l + 1 \in DOMAIN s /\ k + 1 \in DOMAIN s /\ l + 1 <= k + 1
    BY <2>1
  <2>. QED
    BY <2>2 DEF Ordered
<1>6. CASE l = k
  <2>1. f \in 0..g
    BY <1>3, <1>6
  <2>. QED
    BY <1>1, <1>2, <1>4, <1>5, <1>6, <2>1 DEF IsBetween
<1>7. CASE l < k
  <2>1. ASSUME NEW a \in Int, NEW b \in Int, a <= b, s[k + 1] = b,
               QuantileAt(s, l, f) <= 200 * a
        PROVE  QuantileAt(s, l, f) <= QuantileAt(s, k, g) /\ QuantileAt(s, l, f) \in Int
    <3>1. QuantileAt(s, k, g) \in Int /\ QuantileAt(s, l, f) \in Int
          /\ 200 * b <= QuantileAt(s, k, g)
      BY <1>4, <1>5, <2>1 DEF IsBetween
    <3>. QED
      BY <2>1, <3>1
  <2>2. CASE f = 0
    <3>1. QuantileAt(s, l, f) = 200 * s[l + 1] /\ s[l + 1] \in Int
      BY <1>4, <2>2 DEF QuantileAt, IsBetween
    <3>2. s[l + 1] <= s[k + 1] /\ s[k + 1] \in Int
      BY <1>5, <1>7, <1>9 DEF IsBetween
    <3>3. QuantileAt(s, l, f) <= 200 * s[l + 1]
      BY <3>1
    <3>4. QuantileAt(s, l, f) <= QuantileAt(s, k, g) /\ QuantileAt(s, l, f) \in Int
      BY <2>1, <3>1, <3>2, <3>3
    <3>. QED
      BY <1>1, <1>2, <3>4
  <2>3. CASE f > 0
    <3>1. s[l + 2] <= s[k + 1] /\ s[k + 1] \in Int
      <4>1. l + 2 \in DOMAIN s /\ k + 1 \in DOMAIN s /\ l + 2 <= k + 1
        BY <1>1, <1>7, <2>3
      <4>. QED
        BY <1>5, <4>1 DEF Ordered, IsBetween
    <3>2. s[l + 2] \in Int /\ QuantileAt(s, l, f) <= 200 * s[l + 2]
      BY <1>4, <2>3 DEF IsBetween
    <3>. QED
      BY <1>1, <1>2, <2>1, <3>1, <3>2
  <2>4. f = 0 \/ f > 0
    OBVIOUS
  <2>. QED
    BY <2>2, <2>3, <2>4
<1>8. l = k \/ l < k
  BY <1>3
<1>. QED
  BY <1>1, <1>4, <1>6, <1>7, <1>8

(* The percentile intervals of ordered means nest, and the widest is from the least to the *)
(* greatest of them, for any number of replicates and any levels (_percentile).            *)
THEOREM OrderedIntervalsNest ==
    ASSUME NEW s \in Seq(Int), s # <<>>, Ordered(s)
    PROVE  LET I(level) == [low |-> Percentile(s, 100 - level), high |-> Percentile(s, 100 + level)]
           IN  /\ \A a, b \in 0..100 : a <= b => Within(I(a), I(b))
               /\ I(100) = [low |-> 200 * s[1], high |-> 200 * s[Len(s)]]
<1>1. ASSUME NEW a \in 0..100, NEW b \in 0..100, a <= b
      PROVE  /\ Percentile(s, 100 - b) <= Percentile(s, 100 - a)
             /\ Percentile(s, 100 - a) <= Percentile(s, 100 + a)
             /\ Percentile(s, 100 + a) <= Percentile(s, 100 + b)
  <2>1. 100 - b \in 0..200 /\ 100 - a \in 0..200 /\ 100 + a \in 0..200 /\ 100 + b \in 0..200
    OBVIOUS
  <2>2. 100 - b <= 100 - a /\ 100 - a <= 100 + a /\ 100 + a <= 100 + b
    BY <1>1
  <2>. QED
    BY <2>1, <2>2, PercentilesGrow
<1>2. Percentile(s, 100 - 100) = 200 * s[1]
  <2>1. 100 - 100 = 0 /\ (Len(s) - 1) * 0 = 0
    OBVIOUS
  <2>. DEFINE q == 0
  <2>5. q \in 0..200
    OBVIOUS
  <2>. HIDE DEF q
  <2>6. PICK l \in 0..(Len(s) - 1), f \in 0..199 :
               /\ (Len(s) - 1) * q = 200 * l + f
               /\ Percentile(s, q) = QuantileAt(s, l, f)
    BY <2>5, QuantileIs
  <2>2. (Len(s) - 1) * 0 = 200 * l + f /\ Percentile(s, 0) = QuantileAt(s, l, f)
    BY <2>6 DEF q
  <2>3. l = 0 /\ f = 0
    BY <2>1, <2>2
  <2>4. s[1] \in Int
    OBVIOUS
  <2>. QED
    BY <2>1, <2>2, <2>3, <2>4 DEF QuantileAt
<1>3. Percentile(s, 100 + 100) = 200 * s[Len(s)]
  <2>1. 100 + 100 = 200 /\ (Len(s) - 1) * 200 = 200 * (Len(s) - 1)
    OBVIOUS
  <2>. DEFINE q == 200
  <2>5. q \in 0..200
    OBVIOUS
  <2>. HIDE DEF q
  <2>6. PICK l \in 0..(Len(s) - 1), f \in 0..199 :
               /\ (Len(s) - 1) * q = 200 * l + f
               /\ Percentile(s, q) = QuantileAt(s, l, f)
    BY <2>5, QuantileIs
  <2>2. (Len(s) - 1) * 200 = 200 * l + f /\ Percentile(s, 200) = QuantileAt(s, l, f)
    BY <2>6 DEF q
  <2>3. l = Len(s) - 1 /\ f = 0
    <3>1. PICK n \in Nat : n = Len(s) - 1
      OBVIOUS
    <3>2. 200 * n = 200 * l + f /\ l \in 0..n
      BY <2>1, <2>2, <3>1
    <3>3. l = n /\ f = 0
      BY <3>2
    <3>. QED
      BY <3>1, <3>3
  <2>4. s[Len(s)] \in Int /\ l + 1 = Len(s)
    BY <2>3
  <2>. QED
    BY <2>1, <2>2, <2>3, <2>4 DEF QuantileAt
<1>. DEFINE I(level) == [low |-> Percentile(s, 100 - level), high |-> Percentile(s, 100 + level)]
<1>4. \A a, b \in 0..100 : a <= b => Within(I(a), I(b))
  <2>1. \A x, y : I(x).low = Percentile(s, 100 - x) /\ I(x).high = Percentile(s, 100 + x)
    OBVIOUS
  <2>. HIDE DEF I
  <2>2. SUFFICES ASSUME NEW a \in 0..100, NEW b \in 0..100, a <= b PROVE Within(I(a), I(b))
    OBVIOUS
  <2>3. /\ Percentile(s, 100 - b) <= Percentile(s, 100 - a)
        /\ Percentile(s, 100 - a) <= Percentile(s, 100 + a)
        /\ Percentile(s, 100 + a) <= Percentile(s, 100 + b)
    BY <1>1, <2>2
  <2>. QED
    BY <2>1, <2>3, Zenon DEF Within
<1>5. I(100) = [low |-> 200 * s[1], high |-> 200 * s[Len(s)]]
  BY <1>2, <1>3
<1>. QED
  BY <1>4, <1>5

\* Where s is at most v, and below v.
NotAbove(s, v) == {j \in DOMAIN s : s[j] <= v}
Under(s, v) == {j \in DOMAIN s : s[j] < v}

(* There are finitely many of them. *)
LEMMA NotAboveIs ==
    ASSUME NEW n \in Nat \ {0}, NEW s \in [1..n -> Int], NEW v
    PROVE  /\ Cardinality(NotAbove(s, v)) \in 0..n /\ IsFiniteSet(NotAbove(s, v))
           /\ Cardinality(Under(s, v)) \in 0..n /\ IsFiniteSet(Under(s, v))
           /\ Cardinality(NotAbove(s, v)) = n => NotAbove(s, v) = 1..n
<1>1. IsFiniteSet(1..n) /\ Cardinality(1..n) = n
  BY FS_Interval
<1>2. NotAbove(s, v) \in SUBSET (1..n) /\ Under(s, v) \in SUBSET (1..n)
  BY DEF NotAbove, Under
<1>3. /\ IsFiniteSet(NotAbove(s, v)) /\ Cardinality(NotAbove(s, v)) <= n
      /\ Cardinality(1..n) = Cardinality(NotAbove(s, v)) => 1..n = NotAbove(s, v)
  BY <1>1, <1>2, FS_Subset
<1>4. IsFiniteSet(Under(s, v)) /\ Cardinality(Under(s, v)) <= n
  BY <1>1, <1>2, FS_Subset
<1>5. Cardinality(NotAbove(s, v)) \in Nat /\ Cardinality(Under(s, v)) \in Nat
  BY <1>3, <1>4, FS_CardinalityType
<1>. QED
  BY <1>1, <1>3, <1>4, <1>5

(* A mean that is greater than another has more that are not above it. *)
LEMMA MoreNotAbove ==
    ASSUME NEW n \in Nat \ {0}, NEW s \in [1..n -> Int], NEW j \in 1..n, NEW v \in Int, v < s[j]
    PROVE  /\ Cardinality(NotAbove(s, v)) <= Cardinality(Under(s, s[j]))
           /\ Cardinality(NotAbove(s, v)) < Cardinality(NotAbove(s, s[j]))
<1>1. NotAbove(s, v) \in SUBSET Under(s, s[j]) /\ Under(s, s[j]) \in SUBSET NotAbove(s, s[j])
  BY DEF NotAbove, Under
<1>2. j \in NotAbove(s, s[j]) /\ j \notin Under(s, s[j])
  BY DEF NotAbove, Under
<1>3. IsFiniteSet(NotAbove(s, s[j])) /\ IsFiniteSet(Under(s, s[j]))
  BY NotAboveIs
<1>4. /\ Cardinality(Under(s, s[j])) <= Cardinality(NotAbove(s, s[j]))
      /\ Cardinality(NotAbove(s, s[j])) = Cardinality(Under(s, s[j]))
           => NotAbove(s, s[j]) = Under(s, s[j])
  BY <1>1, <1>3, FS_Subset
<1>5. Cardinality(NotAbove(s, v)) <= Cardinality(Under(s, s[j]))
  BY <1>1, <1>3, FS_Subset
<1>6. /\ Cardinality(NotAbove(s, v)) \in Nat /\ Cardinality(NotAbove(s, s[j])) \in Nat
      /\ Cardinality(Under(s, s[j])) \in Nat
  BY NotAboveIs
<1>. QED
  BY <1>2, <1>4, <1>5, <1>6

\* A mean that belongs in the i-th place.
FitsPlace(s, i, v) == Cardinality(Under(s, v)) < i /\ i <= Cardinality(NotAbove(s, v))

(* Some mean belongs in every place. *)
LEMMA SomeBelongs ==
    ASSUME NEW n \in Nat \ {0}, NEW s \in [1..n -> Int], NEW i \in 1..n
    PROVE  \E v \in Range(s) : FitsPlace(s, i, v)
<1>. DEFINE C(v) == Cardinality(NotAbove(s, v))
            Enough == {C(s[j]) : j \in {k \in 1..n : i <= C(s[k])}}
            All == {C(s[j]) : j \in 1..n}
<1>1. \A j \in 1..n : C(s[j]) \in 0..n
  BY NotAboveIs
<1>2. \A j, k \in 1..n : s[j] < s[k] => C(s[j]) < C(s[k]) /\ C(s[j]) <= Cardinality(Under(s, s[k]))
  BY MoreNotAbove
<1>. HIDE DEF C
<1>3. Enough # {}
  <2>1. All \in SUBSET (0..n) /\ All # {}
    BY <1>1
  <2>2. Max(All) \in All /\ \A y \in All : y <= Max(All)
    BY <2>1, GreatestOf
  <2>3. PICK k \in 1..n : C(s[k]) = Max(All)
    BY <2>2
  <2>4. ASSUME NEW j \in 1..n PROVE s[j] <= s[k]
    <3>1. SUFFICES ASSUME s[k] < s[j] PROVE FALSE
      OBVIOUS
    <3>2. C(s[k]) < C(s[j]) /\ C(s[j]) <= C(s[k])
      BY <1>2, <2>2, <2>3, <3>1
    <3>3. C(s[k]) \in Nat /\ C(s[j]) \in Nat
      BY <1>1
    <3>. QED
      BY <3>2, <3>3
  <2>5. NotAbove(s, s[k]) = 1..n
    BY <2>4 DEF NotAbove
  <2>6. C(s[k]) = n
    BY <2>5, FS_Interval DEF C
  <2>. QED
    BY <2>6
<1>4. PICK m \in Enough : \A y \in Enough : m <= y
  <2>1. Enough \in SUBSET Nat
    BY <1>1
  <2>. HIDE DEF Enough
  <2>. QED
    BY <1>3, <2>1, LeastOf
<1>5. PICK k \in 1..n : i <= C(s[k]) /\ m = C(s[k])
  BY <1>4
<1>6. Cardinality(Under(s, s[k])) < i
  <2>. DEFINE Lower == {C(s[j]) : j \in Under(s, s[k])}
  <2>0. Under(s, s[k]) \in SUBSET (1..n) /\ \A j \in Under(s, s[k]) : s[j] < s[k]
    BY DEF Under
  <2>1. CASE Under(s, s[k]) = {}
    BY <2>1, FS_EmptySet
  <2>2. ASSUME Under(s, s[k]) # {}, i <= Cardinality(Under(s, s[k])) PROVE FALSE
    <3>1. Lower \in SUBSET (0..n) /\ Lower # {}
      BY <1>1, <2>0, <2>2
    <3>2. Max(Lower) \in Lower /\ \A y \in Lower : y <= Max(Lower)
      BY <3>1, GreatestOf
    <3>3. PICK j \in Under(s, s[k]) : C(s[j]) = Max(Lower)
      BY <3>2
    <3>4. \A l \in Under(s, s[k]) : s[l] <= s[j]
      <4>1. SUFFICES ASSUME NEW l \in Under(s, s[k]), s[j] < s[l] PROVE FALSE
        BY <2>0, <3>3
      <4>2. C(s[j]) < C(s[l]) /\ C(s[l]) <= C(s[j])
        BY <1>2, <2>0, <3>2, <3>3, <4>1
      <4>3. C(s[j]) \in Nat /\ C(s[l]) \in Nat
        <5>1. j \in 1..n /\ l \in 1..n
          BY <2>0
        <5>2. C(s[j]) \in 0..n /\ C(s[l]) \in 0..n
          BY <1>1, <5>1
        <5>. QED
          BY <5>2
      <4>. QED
        BY <4>2, <4>3
    <3>5. Under(s, s[k]) \in SUBSET NotAbove(s, s[j])
      BY <2>0, <3>4 DEF NotAbove
    <3>6. Cardinality(Under(s, s[k])) <= C(s[j])
      BY <3>5, NotAboveIs, FS_Subset DEF C
    <3>7. j \in 1..n /\ s[j] < s[k]
      BY <2>0
    <3>8. i <= C(s[j])
      <4>1. C(s[j]) \in Nat
        BY <1>1, <3>7
      <4>2. Cardinality(Under(s, s[k])) \in Nat
        BY NotAboveIs
      <4>. QED
        BY <2>2, <3>6, <4>1, <4>2
    <3>9. C(s[k]) <= C(s[j])
      BY <1>4, <1>5, <3>7, <3>8
    <3>10. C(s[j]) < C(s[k]) /\ C(s[j]) \in Nat /\ C(s[k]) \in Nat
      BY <1>1, <1>2, <3>7
    <3>. QED
      BY <3>9, <3>10
  <2>. QED
    BY <2>1, <2>2, NotAboveIs
<1>. QED
  BY <1>5, <1>6 DEF FitsPlace, C, Range

(* Sorted means are in order, and the first of them is the least, the last the greatest. *)
LEMMA InOrderIs ==
    ASSUME NEW n \in Nat \ {0}, NEW s \in [1..n -> Int]
    PROVE  /\ InOrder(s) \in [1..n -> Range(s)] /\ InOrder(s) \in Seq(Int) /\ Len(InOrder(s)) = n
           /\ Ordered(InOrder(s))
           /\ \A j \in 1..n : InOrder(s)[1] <= s[j] /\ s[j] <= InOrder(s)[n]
<1>. DEFINE o == InOrder(s)
<1>1. o = [i \in 1..n |-> CHOOSE v \in Range(s) : FitsPlace(s, i, v)]
  BY DEF InOrder, FitsPlace, NotAbove, Under
<1>2. \A i \in 1..n : o[i] \in Range(s) /\ FitsPlace(s, i, o[i])
  BY <1>1, SomeBelongs
<1>3. Range(s) \subseteq Int /\ \A i \in 1..n : \E j \in 1..n : o[i] = s[j]
  BY <1>2 DEF Range
<1>4. o \in [1..n -> Range(s)] /\ DOMAIN o = 1..n
  BY <1>1, <1>2
<1>. HIDE DEF o
<1>5. o \in Seq(Int) /\ Len(o) = n
  <2>1. o \in [1..n -> Int]
    BY <1>3, <1>4
  <2>. QED
    BY <2>1
<1>6. ASSUME NEW i \in 1..n, NEW k \in 1..n, i <= k PROVE o[i] <= o[k]
  <2>1. PICK j \in 1..n : o[i] = s[j]
    BY <1>3
  <2>2. o[k] \in Int /\ o[i] \in Int
    BY <1>2, <1>3
  <2>3. SUFFICES ASSUME o[k] < s[j] PROVE FALSE
    BY <2>1, <2>2
  <2>4. Cardinality(NotAbove(s, o[k])) <= Cardinality(Under(s, s[j]))
    BY <2>2, <2>3, MoreNotAbove
  <2>5. k <= Cardinality(NotAbove(s, o[k])) /\ Cardinality(Under(s, s[j])) < i
    BY <1>2, <2>1 DEF FitsPlace
  <2>6. Cardinality(NotAbove(s, o[k])) \in Nat /\ Cardinality(Under(s, s[j])) \in Nat
    BY NotAboveIs
  <2>. QED
    BY <1>6, <2>4, <2>5, <2>6
<1>7. ASSUME NEW j \in 1..n PROVE o[1] <= s[j] /\ s[j] <= o[n]
  <2>0. 1 \in 1..n /\ n \in 1..n
    OBVIOUS
  <2>1. 1 \in 1..n /\ n \in 1..n /\ o[1] \in Int /\ o[n] \in Int
    <3>1. o[1] \in Range(s) /\ o[n] \in Range(s)
      BY <1>2, <2>0
    <3>. QED
      BY <1>3, <2>0, <3>1
  <2>2. Under(s, o[1]) = {}
    <3>1. Cardinality(Under(s, o[1])) < 1
      BY <1>2, <2>1 DEF FitsPlace
    <3>2. Cardinality(Under(s, o[1])) = 0 /\ IsFiniteSet(Under(s, o[1]))
      BY <3>1, NotAboveIs
    <3>. QED
      BY <3>2, FS_EmptySet
  <2>3. NotAbove(s, o[n]) = 1..n
    <3>1. n <= Cardinality(NotAbove(s, o[n]))
      BY <1>2, <2>1 DEF FitsPlace
    <3>. QED
      BY <3>1, NotAboveIs
  <2>4. ~(s[j] < o[1])
    BY <2>2 DEF Under
  <2>. QED
    BY <2>1, <2>3, <2>4 DEF NotAbove
<1>. QED
  BY <1>4, <1>5, <1>6, <1>7 DEF Ordered, o

(* The reported intervals are those of the sorted means, so they nest between the extremes. *)
LEMMA IntervalsNested ==
    ASSUME question \in Questions
    PROVE  IntervalsNest
<1>. DEFINE means == question.means
            o == InOrder(means)
            Centred(level) == [low |-> Percentile(o, 100 - level), high |-> Percentile(o, 100 + level)]
            r == Range(means)
<1>1. SUFFICES ASSUME question.of = "means"
               PROVE  /\ Within(Interval(means, 90), Interval(means, 95))
                      /\ Within(Interval(means, 95), [low |-> 200 * Min(r), high |-> 200 * Max(r)])
  BY DEF IntervalsNest
<1>2. NReplicates \in Nat \ {0} /\ Unit \in Nat
  BY InferenceAssumption
<1>3. means \in [1..NReplicates -> Int]
  <2>1. means \in [1..NReplicates -> -Unit..Unit]
    BY <1>1 DEF Questions
  <2>2. -Unit..Unit \subseteq Int
    BY <1>2
  <2>. QED
    BY <2>1, <2>2
<1>. HIDE DEF means
<1>4. /\ o \in [1..NReplicates -> r] /\ o \in Seq(Int) /\ Len(o) = NReplicates /\ Ordered(o)
      /\ \A j \in 1..NReplicates : o[1] <= means[j] /\ means[j] <= o[NReplicates]
  BY <1>2, <1>3, InOrderIs
<1>5. \A level : Interval(means, level) = Centred(level)
  BY DEF Interval
<1>. HIDE DEF o
<1>6. /\ \A a, b \in 0..100 : a <= b => Within(Centred(a), Centred(b))
      /\ Centred(100) = [low |-> 200 * o[1], high |-> 200 * o[Len(o)]]
  <2>1. o # <<>>
    BY <1>2, <1>4
  <2>. QED
    BY <1>4, <2>1, OrderedIntervalsNest
<1>7. r \subseteq Int /\ \A v \in r : o[1] <= v /\ v <= o[NReplicates]
  BY <1>3, <1>4 DEF Range
<1>8. o[1] \in r /\ o[NReplicates] \in r
  BY <1>2, <1>4
<1>. HIDE DEF r
<1>9. Min(r) = o[1] /\ Max(r) = o[NReplicates]
  <2>1. Min(r) \in r /\ \A v \in r : Min(r) <= v
    BY <1>7, <1>8 DEF Min
  <2>2. Max(r) \in r /\ \A v \in r : v <= Max(r)
    BY <1>7, <1>8 DEF Max
  <2>3. Min(r) <= o[1] /\ o[1] <= Min(r) /\ Max(r) <= o[NReplicates] /\ o[NReplicates] <= Max(r)
    BY <1>7, <1>8, <2>1, <2>2
  <2>. QED
    <3>1. /\ Min(r) \in Int /\ Max(r) \in Int
          /\ o[1] \in Int /\ o[NReplicates] \in Int
      BY <1>7, <1>8, <2>1, <2>2
    <3>. QED
      BY <2>3, <3>1
<1>. HIDE DEF Centred
<1>10. Within(Centred(90), Centred(95)) /\ Within(Centred(95), Centred(100))
  <2>1. 90 \in 0..100 /\ 95 \in 0..100 /\ 100 \in 0..100 /\ 90 <= 95 /\ 95 <= 100
    OBVIOUS
  <2>. QED
    BY <1>6, <2>1
<1>11. Centred(100) = [low |-> 200 * Min(r), high |-> 200 * Max(r)]
  BY <1>4, <1>6, <1>9
<1>12. Interval(means, 90) = Centred(90) /\ Interval(means, 95) = Centred(95)
  BY <1>5
<1>. QED
  BY <1>10, <1>11, <1>12


(* Words are accepted in whole rounds. *)
LEMMA RoundsAreWhole ==
    ASSUME NEW b \in 1..Modulus
    PROVE  \E q \in Nat : AcceptedWords(b) = 0..(b * q - 1)
<1>1. Modulus \in Nat /\ b \in Nat \ {0}
  BY InferenceAssumption
<1>2. Modulus = b * (Modulus \div b) + (Modulus % b) /\ Modulus % b \in 0..(b - 1)
  BY <1>1, DivisionIs
<1>3. Modulus \div b \in Nat
  BY <1>1, DivisionIs
<1>4. Modulus - (Modulus % b) - 1 = b * (Modulus \div b) - 1
  BY <1>1, <1>2, <1>3
<1>. QED
  BY <1>3, <1>4 DEF AcceptedWords

(* To a word with one remainder belongs the word of its round with another. *)
LEMMA RoundsAreFair ==
    ASSUME NEW b \in 1..Modulus, NEW i \in 0..(b - 1), NEW j \in 0..(b - 1),
           NEW w \in AcceptedWords(b), w % b = i
    PROVE  w - i + j \in AcceptedWords(b) /\ (w - i + j) % b = j
<1>1. Modulus \in Nat /\ b \in Nat \ {0}
  BY InferenceAssumption
<1>2. PICK q \in Nat : AcceptedWords(b) = 0..(b * q - 1)
  BY RoundsAreWhole
<1>. DEFINE k == w \div b
<1>3. b * q \in Nat /\ w \in Nat /\ w < b * q
  BY <1>1, <1>2
<1>4. w = b * k + i /\ k \in Nat
  BY <1>1, <1>3
<1>. HIDE DEF k
<1>5. k < q
  <2>1. SUFFICES ASSUME q <= k PROVE FALSE
    BY <1>4
  <2>2. b * q <= b * k /\ b * k \in Nat
    BY <1>1, <1>4, <2>1, ProductsGrow
  <2>. QED
    BY <1>3, <1>4, <2>2
<1>6. w - i + j = b * k + j /\ b * k \in Nat
  BY <1>1, <1>4
<1>7. b * (k + 1) <= b * q /\ b * (k + 1) = b * k + b
  <2>1. k + 1 <= q /\ k + 1 \in Nat
    BY <1>4, <1>5
  <2>2. b * (k + 1) <= b * q
    BY <1>1, <2>1, ProductsGrow
  <2>. QED
    BY <1>1, <1>4, <2>2
<1>8. w - i + j \in 0..(b * q - 1)
  BY <1>1, <1>3, <1>6, <1>7
<1>9. (w - i + j) % b = j
  BY <1>1, <1>4, <1>6, RemainderIs
<1>. QED
  BY <1>2, <1>8, <1>9

(* The words that are accepted. *)
LEMMA WordsAre ==
    ASSUME NEW b \in 1..Modulus
    PROVE  AcceptedWords(b) \in SUBSET Nat /\ IsFiniteSet(AcceptedWords(b))
<1>1. PICK q \in Nat : AcceptedWords(b) = 0..(b * q - 1)
  BY RoundsAreWhole
<1>2. b \in Nat /\ b * q - 1 \in Int
  BY InferenceAssumption
<1>. QED
  BY <1>1, <1>2, FS_Interval

(* There are as many words for one index as for another (_Sha256IndexStream). *)
LEMMA WordsPerIndex ==
    ASSUME NEW b \in 1..Modulus, NEW i \in 0..(b - 1), NEW j \in 0..(b - 1)
    PROVE  Cardinality({w \in AcceptedWords(b) : w % b = i})
             = Cardinality({w \in AcceptedWords(b) : w % b = j})
<1>. DEFINE S == {w \in AcceptedWords(b) : w % b = i}
            T == {w \in AcceptedWords(b) : w % b = j}
            f == [w \in S |-> w - i + j]
<1>1. i \in Nat /\ j \in Nat /\ AcceptedWords(b) \in SUBSET Nat /\ IsFiniteSet(AcceptedWords(b))
  BY WordsAre, InferenceAssumption
<1>2. IsFiniteSet(S)
  BY <1>1, FS_Subset
<1>3. f \in [S -> T]
  BY RoundsAreFair
<1>4. \A v, w \in S : f[v] = f[w] => v = w
  BY <1>1
<1>5. \A t \in T : \E w \in S : f[w] = t
  <2>1. SUFFICES ASSUME NEW t \in T PROVE \E w \in S : f[w] = t
    OBVIOUS
  <2>2. t - j + i \in S
    BY RoundsAreFair
  <2>3. (t - j + i) - i + j = t
    BY <1>1
  <2>. QED
    BY <2>2, <2>3
<1>6. f \in Bijection(S, T)
  BY <1>3, <1>4, <1>5 DEF Bijection, Injection, Surjection, IsInjective, Range
<1>. HIDE DEF S, T, f
<1>7. Cardinality(T) = Cardinality(S)
  BY <1>2, <1>6, FS_Bijection DEF ExistsBijection
<1>. QED
  BY <1>7 DEF S, T

-----------------------------------------------------------------------------
(* Rollups                                                                 *)

(* What repeats of a task make, and how often it was repeated. *)
ShareOf(c) == (12 * c.ones) \div Repeats(c)
Shares(cells, m) == [t \in StudyTasks |-> ShareOf(cells[m][t])]

(* A cell and its share. *)
LEMMA CellsAre ==
    ASSUME NEW c \in Cells
    PROVE  Repeats(c) \in Nat /\ c.ones \in Nat /\ (Repeats(c) > 0 => ShareOf(c) \in Nat)
<1>1. c.zeros \in Nat /\ c.ones \in Nat
  BY RetrievalAssumption DEF Cells
<1>2. Repeats(c) \in Nat
  BY <1>1 DEF Repeats
<1>3. ASSUME Repeats(c) > 0 PROVE ShareOf(c) \in Nat
  BY <1>1, <1>2, <1>3, DivisionIs DEF ShareOf
<1>. QED
  BY <1>1, <1>2, <1>3

(* A share that is no smaller is not rounded to a smaller one. *)
LEMMA SharesCompare ==
    ASSUME NEW c \in Cells, NEW d \in Cells, Repeats(c) > 0, Repeats(d) > 0,
           c.ones * Repeats(d) >= d.ones * Repeats(c)
    PROVE  ShareOf(d) <= ShareOf(c)
<1>. DEFINE r == Repeats(c)
            s == Repeats(d)
            x == c.ones
            y == d.ones
            a == ShareOf(d)
            b == ShareOf(c)
<1>1. r \in Nat \ {0} /\ s \in Nat \ {0} /\ x \in Nat /\ y \in Nat /\ a \in Nat /\ b \in Nat
  BY CellsAre
<1>. DEFINE u == 12 * y
            v == 12 * x
<1>20. u \in Nat /\ v \in Nat
  BY <1>1
<1>2. s * a <= 12 * y
  <2>1. a = u \div s
    BY DEF ShareOf
  <2>. HIDE DEF a, s, u
  <2>2. u = s * (u \div s) + (u % s) /\ u % s \in 0..(s - 1)
    BY <1>1, <1>20, DivisionIs
  <2>3. s * a \in Nat
    BY <1>1
  <2>4. s * a <= u
    BY <1>1, <1>20, <2>1, <2>2, <2>3
  <2>. QED
    BY <2>4 DEF u
<1>3. 12 * x < r * (b + 1)
  <2>1. b = v \div r
    BY DEF ShareOf
  <2>. HIDE DEF b, r, v
  <2>2. v = r * (v \div r) + (v % r) /\ v % r \in 0..(r - 1)
    BY <1>1, <1>20, DivisionIs
  <2>3. r * (b + 1) = r * b + r /\ r * b \in Nat
    BY <1>1
  <2>4. v < r * (b + 1)
    BY <1>1, <1>20, <2>1, <2>2, <2>3
  <2>. QED
    BY <2>4 DEF v
<1>4. y * r <= x * s
  OBVIOUS
<1>. HIDE DEF a, b, r, s, x, y
<1>5. SUFFICES ASSUME b + 1 <= a PROVE FALSE
  BY <1>1 DEF a, b
<1>6. r * (s * a) <= r * (12 * y)
  BY <1>1, <1>2, ProductsGrow
<1>7. r * (12 * y) = 12 * (y * r) /\ 12 * (y * r) <= 12 * (x * s) /\ 12 * (x * s) = s * (12 * x)
      /\ y * r \in Nat /\ x * s \in Nat
  BY <1>1, <1>4
<1>8. s * (r * (b + 1)) <= s * (r * a)
  <2>1. r * (b + 1) <= r * a /\ r * (b + 1) \in Nat /\ r * a \in Nat
    BY <1>1, <1>5, ProductsGrow
  <2>. QED
    BY <1>1, <2>1, ProductsGrow
<1>9. s * (12 * x + 1) <= s * (r * (b + 1))
  BY <1>1, <1>3, ProductsGrow
<1>10. s * (12 * x + 1) = s * (12 * x) + s /\ s * (12 * x) \in Nat
  BY <1>1
<1>11. s * (r * a) = r * (s * a) /\ r * (s * a) \in Nat /\ s * (r * (b + 1)) \in Nat
  BY <1>1
<1>. QED
  BY <1>1, <1>6, <1>7, <1>8, <1>9, <1>10, <1>11

(* What a mean is made of. *)
LEMMA MeanIs ==
    ASSUME NEW cells \in [Modes -> [StudyTasks -> Cells]], NEW m \in Modes,
           NEW tasks \in SUBSET Observed(cells, m)
    PROVE  /\ MeanOf(cells, m, tasks).sum = SumOf(Shares(cells, m), tasks)
           /\ MeanOf(cells, m, tasks).n = 12 * Cardinality(tasks)
           /\ \A t \in tasks : Shares(cells, m)[t] \in Nat
           /\ IsFiniteSet(tasks) /\ Cardinality(tasks) \in Nat
<1>. DEFINE f == Shares(cells, m)
            Tbl(it) == it = [s \in SUBSET tasks |->
                              IF s = {} THEN 0
                              ELSE (12 * cells[m][First(s)].ones) \div Repeats(cells[m][First(s)])
                                     + it[s \ {First(s)}]]
            It == CHOOSE it : Tbl(it)
<1>1. tasks \cap Observed(cells, m) = tasks /\ tasks \in SUBSET StudyTasks
  BY DEF Observed
<1>2. MeanOf(cells, m, tasks).sum = It[tasks]
  BY <1>1 DEF MeanOf, MapThenSumSet, MapThenFoldSet, First
<1>3. MeanOf(cells, m, tasks).n = 12 * Cardinality(tasks)
  BY <1>1 DEF MeanOf
<1>4. IsFiniteSet(tasks) /\ Cardinality(tasks) \in Nat
  BY <1>1, RetrievalAssumption, FS_Subset, FS_CardinalityType
<1>5. \A t \in tasks : f[t] \in Nat /\ f[t] = (12 * cells[m][t].ones) \div Repeats(cells[m][t])
  BY <1>1, CellsAre DEF Shares, ShareOf, Observed
<1>. HIDE DEF f
<1>6. \A s \in SUBSET tasks : s # {} =>
         f[First(s)] = (12 * cells[m][First(s)].ones) \div Repeats(cells[m][First(s)])
  BY <1>5, FirstIsIn
<1>7. ASSUME NEW it PROVE Tbl(it) <=> Tabulates(it, f, tasks)
  BY <1>6 DEF Tabulates
<1>8. Tbl(It)
  <2>1. \E it : Tbl(it)
    BY <1>4, <1>5, <1>7, TableExists
  <2>. QED
    BY <2>1
<1>. HIDE DEF It, Tbl
<1>9. It[tasks] = SumOf(f, tasks)
  <2>1. Tabulates(It, f, tasks)
    BY <1>7, <1>8
  <2>. QED
    BY <1>4, <1>5, <2>1, TabledIsSum
<1>. QED
  BY <1>2, <1>3, <1>4, <1>5, <1>9 DEF f

(* An arm that is nowhere worse is not reported as worse, for any tasks, arms and repeats *)
(* (aggregate_retrieval).                                                                 *)
LEMMA BetterLeads ==
    ASSUME inquiry \in Rollups
    PROVE  BetterArmLeads
<1>. DEFINE cells == inquiry.cells
            tasks == TasksOfEveryArm(cells)
            arms == {a \in Modes : Observed(cells, a) # {}}
<1>1. cells \in [Modes -> [StudyTasks -> Cells]]
  BY DEF Rollups
<1>2. tasks = {t \in StudyTasks : \A a \in arms : t \in Observed(cells, a)}
  BY DEF TasksOfEveryArm
<1>. HIDE DEF cells, tasks
<1>3. ASSUME NEW m \in arms, NEW o \in arms,
             \A t \in tasks : cells[m][t].ones * Repeats(cells[o][t])
                                >= cells[o][t].ones * Repeats(cells[m][t])
      PROVE  AtLeast(MeanOf(cells, m, tasks), MeanOf(cells, o, tasks))
  <2>1. /\ tasks \in SUBSET Observed(cells, m) /\ tasks \in SUBSET Observed(cells, o)
        /\ m \in Modes /\ o \in Modes
    BY <1>2
  <2>2. /\ MeanOf(cells, m, tasks).sum = SumOf(Shares(cells, m), tasks)
        /\ MeanOf(cells, m, tasks).n = 12 * Cardinality(tasks)
        /\ \A t \in tasks : Shares(cells, m)[t] \in Nat
    BY <1>1, <2>1, MeanIs
  <2>3. /\ MeanOf(cells, o, tasks).sum = SumOf(Shares(cells, o), tasks)
        /\ MeanOf(cells, o, tasks).n = 12 * Cardinality(tasks)
        /\ \A t \in tasks : Shares(cells, o)[t] \in Nat
        /\ IsFiniteSet(tasks) /\ Cardinality(tasks) \in Nat
    BY <1>1, <2>1, MeanIs
  <2>4. \A t \in tasks : Shares(cells, o)[t] <= Shares(cells, m)[t]
    <3>1. SUFFICES ASSUME NEW t \in tasks PROVE Shares(cells, o)[t] <= Shares(cells, m)[t]
      OBVIOUS
    <3>2. /\ cells[m][t] \in Cells /\ cells[o][t] \in Cells /\ t \in StudyTasks
          /\ Repeats(cells[m][t]) > 0 /\ Repeats(cells[o][t]) > 0
      BY <1>1, <2>1 DEF Observed
    <3>3. ShareOf(cells[o][t]) <= ShareOf(cells[m][t])
      BY <1>3, <3>2, SharesCompare
    <3>. QED
      BY <3>2, <3>3 DEF Shares
  <2>5. SumOf(Shares(cells, o), tasks) <= SumOf(Shares(cells, m), tasks)
    <3>1. tasks \in SUBSET tasks
      OBVIOUS
    <3>. QED
      BY <2>2, <2>3, <2>4, <3>1, SumGrows
  <2>6. SumOf(Shares(cells, o), tasks) \in Nat /\ SumOf(Shares(cells, m), tasks) \in Nat
    BY <2>2, <2>3, SumIsNat
  <2>. DEFINE n == 12 * Cardinality(tasks)
  <2>7. n \in Nat
    BY <2>3
  <2>. HIDE DEF n
  <2>8. SumOf(Shares(cells, o), tasks) * n <= SumOf(Shares(cells, m), tasks) * n
    BY <2>5, <2>6, <2>7, ProductsGrow
  <2>. QED
    BY <2>2, <2>3, <2>6, <2>7, <2>8 DEF AtLeast, n
<1>. QED
  BY <1>2, <1>3 DEF BetterArmLeads, cells, tasks

-----------------------------------------------------------------------------
(* The first of each key                                                   *)

\* A path, and as many of them.
APath == Seq(STRING)

\* h[k]: what the first k of s leave, when a key seen before adds nothing.
ReadSteps(h, s, keys) ==
    /\ h[0] = <<>> /\ FirstSeen(s, keys) = h[Len(s)]
    /\ \A k \in 1..Len(s) :
          h[k] = IF \E j \in 1..(k - 1) : keys[j] = keys[k] THEN h[k - 1]
                 ELSE Append(h[k - 1], s[k])

(* What the first of each key are is built up one by one. *)
LEMMA FirstSeenSteps ==
    ASSUME NEW X, NEW s \in Seq(X), NEW keys
    PROVE  \E h \in [0..Len(s) -> Seq(X)] : ReadSteps(h, s, keys)
<1>. DEFINE n == Len(s)
            self == [i \in DOMAIN s |-> i]
            Seen(i) == \E j \in 1..(i - 1) : keys[j] = keys[i]
            Taken(a, i) == IF Seen(i) THEN a ELSE Append(a, s[i])
            Tbl(it) == it = [t \in SUBSET DOMAIN self |->
                               IF t = {} THEN <<>> ELSE Taken(it[t \ {Max(t)}], self[Max(t)])]
            It == CHOOSE it : Tbl(it)
            g == [i \in 1..n |-> [a \in Seq(X) |-> Taken(a, i)]]
<1>1. n \in Nat /\ DOMAIN s = 1..n /\ DOMAIN self = 1..n /\ \A i \in 1..n : s[i] \in X
  OBVIOUS
<1>2. FirstSeen(s, keys) = It[DOMAIN self]
  BY DEF FirstSeen, FoldLeft, MapThenFoldSet
<1>. HIDE DEF n, Seen
<1>3. g \in [1..n -> [Seq(X) -> Seq(X)]]
  <2>1. \A i \in 1..n, a \in Seq(X) : Taken(a, i) \in Seq(X)
    BY <1>1
  <2>. QED
    BY <2>1
<1>. HIDE DEF Taken
<1>4. PICK it \in [SUBSET (1..n) -> Seq(X)] : FoldTable(it, <<>>, g, n)
  <2>1. <<>> \in Seq(X)
    OBVIOUS
  <2>. HIDE DEF g
  <2>. QED
    BY <1>1, <1>3, <2>1, FoldTableExists
<1>5. Tbl(it)
  <2>1. ASSUME NEW t \in SUBSET (1..n), t # {}
        PROVE  g[Max(t)][it[t \ {Max(t)}]] = Taken(it[t \ {Max(t)}], self[Max(t)])
    <3>1. Max(t) \in 1..n /\ t \ {Max(t)} \in SUBSET (1..n)
      BY <1>1, <2>1, LastTaken
    <3>2. it[t \ {Max(t)}] \in Seq(X) /\ self[Max(t)] = Max(t)
      BY <1>1, <3>1
    <3>. QED
      BY <3>1, <3>2
  <2>2. it = [t \in SUBSET (1..n) |-> IF t = {} THEN <<>> ELSE g[Max(t)][it[t \ {Max(t)}]]]
    BY <1>4 DEF FoldTable
  <2>. HIDE DEF g, self
  <2>3. \A t \in SUBSET (1..n) : it[t] = IF t = {} THEN <<>>
                                         ELSE Taken(it[t \ {Max(t)}], self[Max(t)])
    BY <2>1, <2>2
  <2>4. it = [t \in SUBSET (1..n) |-> it[t]]
    BY <1>4
  <2>. QED
    BY <1>1, <2>3, <2>4
<1>6. Tbl(It)
  BY <1>5
<1>. HIDE DEF It, Tbl
<1>7. It[{}] = <<>> /\ \A k \in 1..n : It[1..k] = Taken(It[1..(k - 1)], k)
  <2>1. It[{}] = <<>>
    BY <1>6 DEF Tbl
  <2>2. ASSUME NEW k \in 1..n PROVE It[1..k] = Taken(It[1..(k - 1)], k)
    <3>1. /\ 1..k # {} /\ Max(1..k) = k /\ (1..k) \ {k} = 1..(k - 1) /\ 1..k \in SUBSET (1..n)
      BY <1>1, PrefixTaken
    <3>2. It[1..k] = Taken(It[(1..k) \ {Max(1..k)}], self[Max(1..k)])
      BY <1>1, <1>6, <3>1 DEF Tbl
    <3>3. self[k] = k
      BY <1>1
    <3>. QED
      BY <3>1, <3>2, <3>3
  <2>. QED
    BY <2>1, <2>2
<1>. DEFINE h == [k \in 0..n |-> It[1..k]]
<1>8. h[0] = <<>> /\ \A k \in 1..n : h[k] = Taken(h[k - 1], k)
  <2>1. 1..0 = {} /\ 0 \in 0..n
    BY <1>1
  <2>2. h[0] = <<>>
    BY <1>7, <2>1
  <2>3. \A k \in 1..n : k - 1 \in 0..n /\ k \in 0..n
    BY <1>1
  <2>. QED
    BY <1>7, <2>2, <2>3
<1>9. \A k \in 0..n : h[k] \in Seq(X)
  <2>. HIDE DEF h
  <2>. DEFINE Bad == {k \in 0..n : h[k] \notin Seq(X)}
  <2>1. SUFFICES ASSUME Bad # {} PROVE FALSE
    OBVIOUS
  <2>2. PICK k \in Bad : \A j \in Bad : k <= j
    <3>1. Bad \in SUBSET Nat
      BY <1>1
    <3>. QED
      BY <2>1, <3>1, LeastOf
  <2>3. k # 0 /\ k \in 1..n /\ k - 1 \in 0..n
    <3>1. k \in 0..n /\ h[k] \notin Seq(X)
      BY <2>2
    <3>2. <<>> \in Seq(X)
      OBVIOUS
    <3>3. k # 0
      BY <1>8, <3>1, <3>2
    <3>. QED
      BY <1>1, <3>1, <3>3
  <2>4. h[k - 1] \in Seq(X)
    BY <2>2, <2>3
  <2>5. s[k] \in X
    BY <1>1, <2>3
  <2>6. h[k] \in Seq(X)
    <3>1. h[k] = Taken(h[k - 1], k)
      BY <1>8, <2>3
    <3>2. Append(h[k - 1], s[k]) \in Seq(X)
      BY <2>4, <2>5
    <3>. QED
      BY <2>4, <3>1, <3>2 DEF Taken
  <2>. QED
    BY <2>6
<1>10. FirstSeen(s, keys) = h[n]
  BY <1>1, <1>2
<1>11. h \in [0..n -> Seq(X)]
  BY <1>9
<1>. HIDE DEF h
<1>. QED
  BY <1>8, <1>10, <1>11 DEF Taken, Seen, n, ReadSteps

\* For the j-th of s there is in t one of the same key that came no later.
HasFirst(s, keys, t, j) ==
    \E m \in 1..j : keys[m] = keys[j] /\ \E i \in DOMAIN t : t[i] = s[m]

(* Of every key there is the first. *)
LEMMA FirstSeenIs ==
    ASSUME NEW X, NEW s \in Seq(X), NEW keys
    PROVE  /\ FirstSeen(s, keys) \in Seq(X)
           /\ \A j \in 1..Len(s) : HasFirst(s, keys, FirstSeen(s, keys), j)
<1>0. PICK h \in [0..Len(s) -> Seq(X)] : ReadSteps(h, s, keys)
  BY FirstSeenSteps
<1>1. /\ h[0] = <<>> /\ FirstSeen(s, keys) = h[Len(s)]
      /\ \A k \in 1..Len(s) :
            h[k] = IF \E j \in 1..(k - 1) : keys[j] = keys[k] THEN h[k - 1]
                   ELSE Append(h[k - 1], s[k])
  BY <1>0 DEF ReadSteps
<1>. DEFINE n == Len(s)
            Among(x, t) == \E i \in DOMAIN t : t[i] = x
            Found1(k) == \A j \in 1..k : \E m \in 1..j : keys[m] = keys[j] /\ Among(s[m], h[k])
            Bad == {k \in 0..n : ~Found1(k)}
<1>2. n \in Nat /\ \A i \in 1..n : s[i] \in X
  OBVIOUS
<1>3. Found1(n)
  <2>1. SUFFICES ASSUME Bad # {} PROVE FALSE
    BY <1>2
  <2>2. PICK k \in Bad : \A j \in Bad : k <= j
    <3>1. Bad \in SUBSET Nat
      BY <1>2
    <3>. HIDE DEF Bad
    <3>. QED
      BY <2>1, <3>1, LeastOf
  <2>3. k # 0
    BY <1>2
  <2>4. k \in 1..n /\ k - 1 \in 0..n /\ k - 1 \notin Bad
    <3>1. k \in 0..n /\ \A j \in Bad : j \in 0..n
      OBVIOUS
    <3>. HIDE DEF Bad
    <3>2. k \in 1..n /\ k - 1 \in 0..n /\ ~(k <= k - 1)
      BY <1>2, <2>3, <3>1
    <3>. QED
      BY <2>2, <3>2
  <2>5. Found1(k - 1)
    BY <2>4
  <2>6. h[k - 1] \in Seq(X) /\ s[k] \in X
    BY <1>2, <2>4
  <2>7. \A x : Among(x, h[k - 1]) => Among(x, h[k])
    <3>1. \A i \in DOMAIN h[k - 1] : /\ i \in DOMAIN Append(h[k - 1], s[k])
                                     /\ Append(h[k - 1], s[k])[i] = h[k - 1][i]
      BY <2>6
    <3>. QED
      BY <1>1, <2>4, <3>1
  <2>8. ASSUME NEW j \in 1..k
        PROVE  \E m \in 1..j : keys[m] = keys[j] /\ Among(s[m], h[k])
    <3>1. CASE j \in 1..(k - 1)
      <4>1. PICK m \in 1..j : keys[m] = keys[j] /\ Among(s[m], h[k - 1])
        BY <2>5, <3>1
      <4>. QED
        BY <2>7, <4>1
    <3>2. CASE j = k /\ \E l \in 1..(k - 1) : keys[l] = keys[k]
      <4>1. PICK l \in 1..(k - 1) : keys[l] = keys[k]
        BY <3>2
      <4>2. PICK m \in 1..l : keys[m] = keys[l] /\ Among(s[m], h[k - 1])
        BY <2>5
      <4>3. m \in 1..j
        BY <2>4, <3>2
      <4>. QED
        BY <2>7, <3>2, <4>1, <4>2, <4>3
    <3>3. CASE j = k /\ ~\E l \in 1..(k - 1) : keys[l] = keys[k]
      <4>1. h[k] = Append(h[k - 1], s[k])
        BY <1>1, <2>4, <3>3
      <4>2. Len(h[k - 1]) + 1 \in DOMAIN h[k] /\ h[k][Len(h[k - 1]) + 1] = s[k]
        BY <2>6, <4>1
      <4>3. k \in 1..j
        BY <2>4, <3>3
      <4>. QED
        BY <3>3, <4>2, <4>3
    <3>. QED
      BY <2>4, <3>1, <3>2, <3>3
  <2>. QED
    BY <2>8
<1>4. ASSUME NEW j \in 1..n PROVE HasFirst(s, keys, FirstSeen(s, keys), j)
  BY <1>1, <1>3, <1>4 DEF HasFirst
<1>5. n \in 0..n
  BY <1>2
<1>. QED
  BY <1>1, <1>4, <1>5

-----------------------------------------------------------------------------
(* Paths                                                                   *)

(* A path ends in another one component by component. *)
LEMMA EndsInIs ==
    ASSUME NEW p \in APath, NEW q \in APath
    PROVE  EndsIn(p, q) <=> /\ Len(q) <= Len(p)
                            /\ \A i \in 1..Len(q) : p[Len(p) - Len(q) + i] = q[i]
<1>. DEFINE d == Len(p) - Len(q)
<1>1. Len(p) \in Nat /\ Len(q) \in Nat
  BY DEF APath
<1>2. SUFFICES ASSUME Len(q) <= Len(p)
               PROVE  SubSeq(p, d + 1, Len(p)) = q <=> \A i \in 1..Len(q) : p[d + i] = q[i]
  BY DEF EndsIn
<1>3. d \in Nat /\ d + Len(q) = Len(p)
  BY <1>1, <1>2
<1>4. SubSeq(p, d + 1, Len(p)) = [i \in 1..Len(q) |-> p[d + i]]
  <2>1. SubSeq(p, d + 1, Len(p)) = [i \in 1..(Len(p) - (d + 1) + 1) |-> p[i + (d + 1) - 1]]
    BY DEF SubSeq
  <2>2. Len(p) - (d + 1) + 1 = Len(q) /\ \A i \in 1..Len(q) : i + (d + 1) - 1 = d + i
    BY <1>1, <1>3
  <2>. QED
    BY <2>1, <2>2
<1>5. q = [i \in 1..Len(q) |-> q[i]]
  BY DEF APath
<1>. QED
  BY <1>4, <1>5

(* Of two ends of a path the shorter one is an end of the other. *)
LEMMA EndsCompare ==
    ASSUME NEW p \in APath, NEW q \in APath, NEW r \in APath,
           EndsIn(p, q), EndsIn(p, r), Len(q) <= Len(r)
    PROVE  EndsIn(r, q)
<1>1. Len(p) \in Nat /\ Len(q) \in Nat /\ Len(r) \in Nat
  BY DEF APath
<1>2. /\ Len(q) <= Len(p) /\ \A i \in 1..Len(q) : p[Len(p) - Len(q) + i] = q[i]
      /\ Len(r) <= Len(p) /\ \A i \in 1..Len(r) : p[Len(p) - Len(r) + i] = r[i]
  BY EndsInIs
<1>3. ASSUME NEW i \in 1..Len(q) PROVE r[Len(r) - Len(q) + i] = q[i]
  <2>1. Len(r) - Len(q) + i \in 1..Len(r)
        /\ Len(p) - Len(r) + (Len(r) - Len(q) + i) = Len(p) - Len(q) + i
    BY <1>1
  <2>. QED
    BY <1>2, <2>1
<1>. QED
  BY <1>3, EndsInIs

(* An end of an end is an end. *)
LEMMA EndsFurther ==
    ASSUME NEW p \in APath, NEW q \in APath, NEW r \in APath, EndsIn(p, q), EndsIn(q, r)
    PROVE  EndsIn(p, r)
<1>1. Len(p) \in Nat /\ Len(q) \in Nat /\ Len(r) \in Nat
  BY DEF APath
<1>2. /\ Len(q) <= Len(p) /\ \A i \in 1..Len(q) : p[Len(p) - Len(q) + i] = q[i]
      /\ Len(r) <= Len(q) /\ \A i \in 1..Len(r) : q[Len(q) - Len(r) + i] = r[i]
  BY EndsInIs
<1>3. ASSUME NEW i \in 1..Len(r) PROVE p[Len(p) - Len(r) + i] = r[i]
  <2>1. Len(q) - Len(r) + i \in 1..Len(q)
        /\ Len(p) - Len(q) + (Len(q) - Len(r) + i) = Len(p) - Len(r) + i
    BY <1>1, <1>2
  <2>. QED
    BY <1>2, <2>1
<1>4. Len(r) <= Len(p)
  BY <1>1, <1>2
<1>. QED
  BY <1>3, <1>4, EndsInIs

(* An end that is as long is the path. *)
LEMMA WholeEnd ==
    ASSUME NEW p \in APath, NEW q \in APath, EndsIn(p, q), Len(p) <= Len(q)
    PROVE  p = q
<1>1. Len(p) \in Nat /\ Len(q) \in Nat
  BY DEF APath
<1>2. Len(q) <= Len(p) /\ \A i \in 1..Len(q) : p[Len(p) - Len(q) + i] = q[i]
  BY EndsInIs
<1>3. Len(p) = Len(q) /\ Len(p) - Len(q) = 0
  BY <1>1, <1>2
<1>4. \A i \in 1..Len(q) : p[i] = q[i]
  <2>1. ASSUME NEW i \in 1..Len(q) PROVE p[i] = q[i]
    <3>1. Len(p) - Len(q) + i = i
      BY <1>3
    <3>. QED
      BY <1>2, <3>1
  <2>. QED
    BY <2>1
<1>5. p = [i \in 1..Len(q) |-> p[i]] /\ q = [i \in 1..Len(q) |-> q[i]]
  BY <1>3 DEF APath
<1>. QED
  BY <1>4, <1>5

(* A normal form is an end of its path and lacks one component at most. *)
LEMMA NormalIs ==
    ASSUME NEW p \in APath
    PROVE  /\ NormalizePath(p) \in APath /\ EndsIn(p, NormalizePath(p))
           /\ Len(NormalizePath(p)) >= Len(p) - 1
<1>1. Len(p) \in Nat
  BY DEF APath
<1>2. EndsIn(p, p)
  BY <1>1, EndsInIs
<1>3. CASE Len(p) > 2 /\ p[1] \notin CodeDirs
  <2>1. NormalizePath(p) = Tail(p) /\ p # <<>>
    BY <1>3 DEF NormalizePath
  <2>2. Tail(p) \in APath /\ Len(Tail(p)) = Len(p) - 1 /\ \A i \in 1..(Len(p) - 1) : Tail(p)[i] = p[i + 1]
    BY <1>3, <2>1 DEF APath
  <2>3. \A i \in 1..Len(Tail(p)) : p[Len(p) - Len(Tail(p)) + i] = Tail(p)[i]
    <3>1. \A i \in 1..(Len(p) - 1) : Len(p) - (Len(p) - 1) + i = i + 1
      BY <1>1
    <3>. QED
      BY <2>2, <3>1
  <2>4. Len(Tail(p)) <= Len(p) /\ Len(Tail(p)) >= Len(p) - 1
    BY <1>1, <2>2
  <2>. QED
    BY <2>1, <2>2, <2>3, <2>4, EndsInIs
<1>4. CASE ~(Len(p) > 2 /\ p[1] \notin CodeDirs)
  <2>1. NormalizePath(p) = p
    BY <1>4 DEF NormalizePath
  <2>. QED
    BY <1>1, <1>2, <2>1
<1>. QED
  BY <1>3, <1>4

\* What the paths that a task requires are: none of them twice.
IsRequired(required) == required \in Seq(APath) /\ IsInjective(required)

(* A path becomes a required one or stays what it is. *)
LEMMA CanonicalIs ==
    ASSUME NEW p \in APath, NEW required \in Seq(APath)
    PROVE  /\ Canonical(p, required) \in APath
           /\ \/ Canonical(p, required) = p /\ \A i \in DOMAIN required : ~EndsIn(p, required[i])
              \/ \E i \in DOMAIN required : Canonical(p, required) = required[i] /\ EndsIn(p, required[i])
<1>. DEFINE ends == {i \in DOMAIN required : EndsIn(p, required[i])}
<1>1. CASE ends = {}
  BY <1>1 DEF Canonical
<1>2. CASE ends # {}
  <2>1. ends \in SUBSET Nat
    OBVIOUS
  <2>2. Min(ends) \in ends
    <3>. HIDE DEF ends
    <3>. QED
      BY <1>2, <2>1, LeastIs
  <2>3. Canonical(p, required) = required[Min(ends)]
    BY <1>2 DEF Canonical
  <2>4. Min(ends) \in DOMAIN required /\ EndsIn(p, required[Min(ends)])
    BY <2>2
  <2>. HIDE DEF ends
  <2>. QED
    BY <2>3, <2>4
<1>. QED
  BY <1>1, <1>2

(* What is read under a name that ends in a required one counts as that, also if another *)
(* file with the same normal form is taken in its place.                                *)
LEMMA ReadCounts ==
    ASSUME NEW required \in Seq(APath),
           \A i, j \in DOMAIN required : i # j => ~EndsIn(required[i], required[j]),
           NEW i \in DOMAIN required, NEW p \in APath, NEW o \in APath,
           EndsIn(p, required[i]), NormalizePath(o) = NormalizePath(p)
    PROVE  NormalizePath(Canonical(o, required)) = NormalizePath(required[i])
<1>. DEFINE r == required[i]
            n == NormalizePath(p)
            c == Canonical(o, required)
<1>1. r \in APath
  OBVIOUS
<1>2. /\ n \in APath /\ EndsIn(p, n) /\ Len(n) >= Len(p) - 1
      /\ EndsIn(o, n) /\ Len(n) >= Len(o) - 1
  BY NormalIs
<1>3. Len(n) \in Nat /\ Len(p) \in Nat /\ Len(o) \in Nat /\ \A q \in APath : Len(q) \in Nat
  BY <1>2 DEF APath
<1>4. CASE EndsIn(o, r)
  <2>1. PICK k \in DOMAIN required : c = required[k] /\ EndsIn(o, required[k])
    BY <1>4, CanonicalIs
  <2>2. required[k] \in APath
    OBVIOUS
  <2>3. EndsIn(r, required[k]) \/ EndsIn(required[k], r)
    BY <1>1, <1>3, <1>4, <2>1, <2>2, EndsCompare
  <2>4. k = i
    BY <2>3
  <2>. QED
    BY <2>1, <2>4
<1>5. CASE ~EndsIn(o, r)
  <2>1. Len(n) < Len(r)
    <3>1. SUFFICES ASSUME Len(r) <= Len(n) PROVE FALSE
      BY <1>1, <1>3
    <3>2. EndsIn(n, r)
      BY <1>1, <1>2, <3>1, EndsCompare
    <3>3. EndsIn(o, r)
      BY <1>1, <1>2, <3>2, EndsFurther
    <3>. QED
      BY <1>5, <3>3
  <2>2. p = r
    <3>1. Len(p) <= Len(r)
      BY <1>1, <1>2, <1>3, <2>1
    <3>. QED
      BY <1>1, <3>1, WholeEnd
  <2>3. CASE c = o
    BY <2>2, <2>3
  <2>4. ASSUME NEW k \in DOMAIN required, c = required[k], EndsIn(o, required[k])
        PROVE  NormalizePath(c) = NormalizePath(r)
    <3>1. required[k] \in APath
      OBVIOUS
    <3>2. Len(n) < Len(required[k])
      <4>1. SUFFICES ASSUME Len(required[k]) <= Len(n) PROVE FALSE
        BY <1>3, <3>1
      <4>2. EndsIn(n, required[k])
        BY <1>2, <2>4, <3>1, <4>1, EndsCompare
      <4>3. EndsIn(r, required[k])
        BY <1>1, <1>2, <2>2, <3>1, <4>2, EndsFurther
      <4>4. k = i
        BY <4>3
      <4>. QED
        BY <1>5, <2>4, <4>4
    <3>3. o = required[k]
      <4>1. Len(o) <= Len(required[k])
        BY <1>2, <1>3, <3>1, <3>2
      <4>. QED
        BY <2>4, <3>1, <4>1, WholeEnd
    <3>. QED
      BY <2>2, <2>4, <3>3
  <2>. QED
    BY <2>3, <2>4, CanonicalIs
<1>. QED
  BY <1>4, <1>5

(* Nothing required that was read is missed (_align_retrieved_to_required). *)
LEMMA RequiredIsFound ==
    ASSUME NEW required \in Seq(APath), NEW read \in Seq(APath),
           \A i, j \in DOMAIN required : i # j => ~EndsIn(required[i], required[j]),
           NEW i \in DOMAIN required, NEW j \in DOMAIN read, EndsIn(read[j], required[i])
    PROVE  LET list == AlignRetrieved(read, required)
           IN  NormalizePath(required[i]) \in Found(list, Relevant(required), Len(list))
<1>. DEFINE keys == [k \in DOMAIN read |-> NormalizePath(read[k])]
            retrieved == RetrievedFiles(read)
            aligned == [k \in DOMAIN retrieved |-> Canonical(retrieved[k], required)]
            list == AlignRetrieved(read, required)
<1>1. retrieved = FirstSeen(read, keys) /\ list = FirstSeen(aligned, aligned)
  BY DEF RetrievedFiles, AlignRetrieved
<1>2. j \in 1..Len(read) /\ \A k \in 1..Len(read) : read[k] \in APath
  OBVIOUS
<1>. HIDE DEF retrieved, list
<1>3. retrieved \in Seq(APath)
  BY <1>1, FirstSeenIs
<1>4. PICK m \in 1..j : keys[m] = keys[j] /\ \E k \in DOMAIN retrieved : retrieved[k] = read[m]
  <2>1. HasFirst(read, keys, retrieved, j)
    BY <1>1, <1>2, FirstSeenIs
  <2>. QED
    BY <2>1 DEF HasFirst
<1>5. PICK k \in DOMAIN retrieved : retrieved[k] = read[m]
  BY <1>4
<1>6. m \in DOMAIN read /\ read[m] \in APath /\ read[j] \in APath
      /\ NormalizePath(read[m]) = NormalizePath(read[j])
  BY <1>2, <1>4
<1>7. aligned \in Seq(APath) /\ Len(aligned) = Len(retrieved) /\ DOMAIN aligned = DOMAIN retrieved
  <2>1. \A l \in DOMAIN retrieved : Canonical(retrieved[l], required) \in APath
    BY <1>3, CanonicalIs
  <2>. QED
    BY <1>3, <2>1
<1>8. aligned[k] = Canonical(read[m], required)
  BY <1>5
<1>. HIDE DEF aligned, keys
<1>9. k \in 1..Len(aligned)
  BY <1>3, <1>7
<1>10. PICK q \in 1..k : aligned[q] = aligned[k] /\ \E l \in DOMAIN list : list[l] = aligned[q]
  <2>1. HasFirst(aligned, aligned, list, k)
    BY <1>1, <1>7, <1>9, FirstSeenIs
  <2>. QED
    BY <2>1 DEF HasFirst
<1>11. PICK l \in DOMAIN list : list[l] = Canonical(read[m], required)
  BY <1>8, <1>10
<1>12. NormalizePath(list[l]) = NormalizePath(required[i])
  BY <1>6, <1>11, ReadCounts
<1>13. list \in Seq(APath)
  BY <1>1, <1>7, FirstSeenIs
<1>14. l <= Len(list)
  BY <1>13
<1>15. NormalizePath(required[i]) \in Relevant(required)
  BY DEF Relevant
<1>. QED
  BY <1>12, <1>14, <1>15 DEF Found, list

-----------------------------------------------------------------------------
(* Average precision                                                       *)

LEMMA IsWhole ==
    ASSUME NEW i \in Nat \ {0}, NEW h \in 0..i
    PROVE  (60 * h) \div i \in 0..60 /\ ((60 * h) \div i = 60 <=> h = i)
<1>. DEFINE w == 60 * h
            d == w \div i
<1>1. h \in Nat /\ w \in Nat /\ w = h * 60 /\ i \in Nat \ {0}
  OBVIOUS
<1>2. w = i * d + (w % i) /\ d \in Nat /\ w % i \in 0..(i - 1)
  <2>. HIDE DEF w
  <2>. QED
    BY <1>1, DivisionIs
<1>3. h * 60 <= i * 60
  BY ProductsGrow
<1>. HIDE DEF d
<1>4. d <= 60
  <2>1. SUFFICES ASSUME 61 <= d PROVE FALSE
    BY <1>2
  <2>2. i * 61 <= i * d /\ i * 61 = i * 60 + i /\ i * d \in Nat
    BY <1>1, <1>2, <2>1, ProductsGrow
  <2>. QED
    BY <1>1, <1>2, <1>3, <2>2
<1>5. h = i => d = 60
  <2>1. SUFFICES ASSUME h = i PROVE d = 60
    OBVIOUS
  <2>2. SUFFICES ASSUME d <= 59 PROVE FALSE
    BY <1>2, <1>4
  <2>3. i * d <= i * 59 /\ i * 60 = i * 59 + i /\ i * d \in Nat /\ i * 59 \in Nat
    BY <1>1, <1>2, <2>2, ProductsGrow
  <2>. QED
    BY <1>1, <1>2, <2>1, <2>3
<1>6. d = 60 => h = i
  <2>1. SUFFICES ASSUME d = 60, h < i PROVE FALSE
    OBVIOUS
  <2>2. i * 60 <= h * 60
    BY <1>1, <1>2, <2>1
  <2>. QED
    BY <1>1, <2>1, <2>2
<1>. QED
  BY <1>2, <1>4, <1>5, <1>6 DEF d

(* Average precision is at most one, and one exactly if what is relevant came first, all of *)
(* it (mean_average_precision).                                                          *)
LEMMA PrecisionIs ==
    ASSUME NEW list \in Seq(APath), NEW relevant, IsFiniteSet(relevant), relevant # {},
           IsInjective([i \in DOMAIN list |-> NormalizePath(list[i])])
    PROVE  LET n == Cardinality(relevant)
           IN  /\ PrecisionSum(list, relevant) <= 60 * n
               /\ PrecisionSum(list, relevant) = 60 * n <=> Cardinality(HitsAt(list, relevant, n)) = n
<1>. DEFINE n == Cardinality(relevant)
            L == Len(list)
            Placed(k) == HitsAt(list, relevant, k)
            H == Placed(L)
            f == [i \in 1..L |-> (60 * Cardinality(Placed(i))) \div i]
<1>1. L \in Nat /\ DOMAIN list = 1..L /\ IsFiniteSet(1..L) /\ n \in Nat /\ n # 0
  <2>1. L \in Nat /\ DOMAIN list = 1..L
    OBVIOUS
  <2>2. IsFiniteSet(1..L)
    BY <2>1, FS_Interval
  <2>. HIDE DEF L, Placed, H, f
  <2>3. n \in Nat /\ n # 0
    BY FS_CardinalityType, FS_EmptySet
  <2>. QED
    BY <2>1, <2>2, <2>3
<1>2. \A k : Placed(k) = {i \in 1..L : i <= k /\ NormalizePath(list[i]) \in relevant}
  BY <1>1 DEF HitsAt
<1>3. H = {i \in 1..L : NormalizePath(list[i]) \in relevant}
  BY <1>1, <1>2
<1>. HIDE DEF L, H, n, Placed
<1>4. ASSUME NEW k
      PROVE  Placed(k) \in SUBSET H /\ IsFiniteSet(Placed(k)) /\ Cardinality(Placed(k)) \in Nat
             /\ Cardinality(Placed(k)) <= Cardinality(H)
             /\ (Cardinality(Placed(k)) = Cardinality(H) => Placed(k) = H)
             /\ IsFiniteSet(H) /\ Cardinality(H) \in Nat
  <2>1. Placed(k) \in SUBSET H /\ H \in SUBSET (1..L)
    BY <1>2, <1>3
  <2>2. IsFiniteSet(H)
    BY <1>1, <2>1, FS_Subset
  <2>. QED
    BY <2>1, <2>2, FS_Subset, FS_CardinalityType
<1>5. Cardinality(H) <= n
  <2>. DEFINE g == [i \in H |-> NormalizePath(list[i])]
  <2>1. g \in [H -> relevant]
    BY <1>3
  <2>2. \A i, j \in H : g[i] = g[j] => i = j
    BY <1>1, <1>3 DEF IsInjective
  <2>3. g \in Injection(H, relevant)
    <3>. HIDE DEF g
    <3>. QED
      BY <2>1, <2>2 DEF Injection, IsInjective
  <2>. HIDE DEF g
  <2>. QED
    BY <2>3, FS_Injection DEF n
<1>6. ASSUME NEW k \in 0..L
      PROVE  Cardinality(Placed(k)) <= k /\ (Cardinality(Placed(k)) = k => Placed(k) = 1..k)
  <2>1. Placed(k) \in SUBSET (1..k) /\ k \in Nat
    BY <1>1, <1>2
  <2>2. IsFiniteSet(1..k) /\ Cardinality(1..k) = k
    BY <2>1, FS_Interval
  <2>. QED
    BY <2>1, <2>2, FS_Subset
<1>7. \A i \in H : i \in 1..L /\ i \in Nat \ {0} /\ i \in 0..L
  BY <1>1, <1>3
<1>8. \A i \in H : f[i] \in 0..60 /\ (f[i] = 60 <=> Cardinality(Placed(i)) = i)
  <2>1. SUFFICES ASSUME NEW i \in H PROVE f[i] \in 0..60 /\ (f[i] = 60 <=> Cardinality(Placed(i)) = i)
    OBVIOUS
  <2>2. Cardinality(Placed(i)) \in 0..i /\ i \in Nat \ {0}
    BY <1>4, <1>6, <1>7
  <2>3. i \in 1..L
    BY <1>7
  <2>4. f[i] = (60 * Cardinality(Placed(i))) \div i
    BY <2>3
  <2>. HIDE DEF f
  <2>5. PICK a : a = Cardinality(Placed(i))
    OBVIOUS
  <2>6. (60 * a) \div i \in 0..60 /\ ((60 * a) \div i = 60 <=> a = i)
    BY <2>2, <2>5, IsWhole
  <2>7. f[i] = (60 * a) \div i
    BY <2>4, <2>5
  <2>. QED
    BY <2>5, <2>6, <2>7
<1>9. PrecisionSum(list, relevant) = SumOf(f, H)
  <2>. DEFINE Tbl(it) == it = [s \in SUBSET H |->
                                IF s = {} THEN 0
                                ELSE (60 * Cardinality(HitsAt(list, relevant, First(s)))) \div First(s)
                                       + it[s \ {First(s)}]]
              It == CHOOSE it : Tbl(it)
  <2>1. PrecisionSum(list, relevant) = It[H]
    BY DEF PrecisionSum, MapThenSumSet, MapThenFoldSet, First, H, Placed, L
  <2>2. \A s \in SUBSET H : s # {} =>
           f[First(s)] = (60 * Cardinality(HitsAt(list, relevant, First(s)))) \div First(s)
    BY <1>7, FirstIsIn DEF Placed
  <2>. HIDE DEF f
  <2>3. ASSUME NEW it PROVE Tbl(it) <=> Tabulates(it, f, H)
    BY <2>2 DEF Tabulates
  <2>4. ASSUME NEW x \in H PROVE f[x] \in Nat
    <3>. HIDE DEF Tbl, It
    <3>1. \A v \in 0..60 : v \in Nat
      OBVIOUS
    <3>. QED
      BY <1>8, <3>1, Zenon
  <2>5. Tbl(It)
    <3>1. \E it : Tbl(it)
      BY <1>4, <2>3, <2>4, TableExists
    <3>. QED
      BY <3>1
  <2>. HIDE DEF It, Tbl
  <2>6. Tabulates(It, f, H)
    BY <2>3, <2>5
  <2>. QED
    BY <1>4, <2>1, <2>4, <2>6, TabledIsSum
<1>. HIDE DEF f
<1>10. PICK c \in Nat : c = Cardinality(H)
  BY <1>4
<1>11. /\ SumOf(f, H) \in Nat /\ SumOf(f, H) <= 60 * c
       /\ SumOf(f, H) = 60 * c <=> \A i \in H : f[i] = 60
  <2>1. 60 \in Nat /\ IsFiniteSet(H)
    BY <1>4
  <2>2. StayWithin(f, H, 60)
    BY <1>8, Zenon DEF StayWithin
  <2>3. /\ SumOf(f, H) \in Nat /\ SumOf(f, H) <= 60 * Cardinality(H)
        /\ SumOf(f, H) = 60 * Cardinality(H) <=> AllReach(f, H, 60)
    BY <2>1, <2>2, SumIsAtMost
  <2>. QED
    BY <1>10, <2>3 DEF AllReach
<1>12. SumOf(f, H) <= 60 * n
  BY <1>1, <1>5, <1>10, <1>11
<1>13. ASSUME Cardinality(Placed(n)) = n PROVE SumOf(f, H) = 60 * n
  <2>1. c = n /\ Placed(n) = H
    BY <1>1, <1>4, <1>5, <1>10, <1>13
  <2>2. H \in SUBSET (1..n)
    BY <1>1, <1>2, <2>1
  <2>3. H = 1..n
    <3>1. IsFiniteSet(1..n) /\ Cardinality(1..n) = n
      BY <1>1, FS_Interval
    <3>. QED
      BY <1>10, <2>1, <2>2, <3>1, FS_Subset
  <2>4. ASSUME NEW i \in H PROVE Cardinality(Placed(i)) = i
    <3>1. Placed(i) = 1..i /\ i \in Nat
      <4>1. \A j \in 1..i : j \in H
        BY <1>1, <2>3
      <4>2. \A j \in H : j \in 1..L /\ NormalizePath(list[j]) \in relevant
        BY <1>3
      <4>3. i \in 1..L /\ i \in Nat
        BY <1>7
      <4>4. \A j \in 1..i : j \in 1..n
        BY <1>1, <2>3, <4>3
      <4>5. Placed(i) = {j \in 1..L : j <= i /\ NormalizePath(list[j]) \in relevant}
        BY <1>2
      <4>6. \A j \in 1..i : j \in Placed(i)
        BY <4>1, <4>2, <4>5
      <4>7. \A j \in Placed(i) : j \in 1..i
        BY <1>1, <4>5
      <4>. QED
        BY <4>3, <4>6, <4>7
    <3>. QED
      BY <3>1, FS_Interval
  <2>. QED
    BY <1>8, <1>11, <2>1, <2>4
<1>14. ASSUME SumOf(f, H) = 60 * n PROVE Cardinality(Placed(n)) = n
  <2>1. c = n
    BY <1>1, <1>5, <1>10, <1>11, <1>14
  <2>2. \A i \in H : Cardinality(Placed(i)) = i
    BY <1>8, <1>11, <1>14, <2>1
  <2>3. H # {} /\ H \in SUBSET (0..L)
    BY <1>1, <1>7, <1>10, <2>1, FS_EmptySet
  <2>4. Max(H) \in H /\ \A y \in H : y <= Max(H)
    BY <1>1, <2>3, GreatestOf
  <2>5. PICK m \in H : m = Max(H)
    BY <2>4
  <2>6. Placed(m) = H
    <3>1. \A j \in H : j <= m
      BY <2>4, <2>5
    <3>. QED
      BY <1>2, <1>3, <3>1
  <2>7. m = n
    BY <1>10, <2>1, <2>2, <2>6
  <2>. QED
    BY <1>10, <2>1, <2>6, <2>7
<1>. QED
  BY <1>9, <1>12, <1>13, <1>14 DEF Placed, n

(* Rank metrics find what was read, and average precision is full when it should be, for any *)
(* paths (_align_retrieved_to_required, recall_at_k, mean_average_precision).             *)
LEMMA RanksHold ==
    ASSUME inquiry \in Searches
    PROVE  RankScoresHold
<1>. DEFINE required == inquiry.required
            read == inquiry.read
            list == AlignRetrieved(read, required)
            relevant == Relevant(required)
<1>1. read \in Seq(APath) /\ required \in Seq(APath)
  <2>1. Paths \subseteq APath
    BY RetrievalAssumption DEF APath
  <2>2. \A k : SeqOf(Paths, k) \subseteq Seq(APath)
    BY <2>1 DEF SeqOf
  <2>. QED
    BY <2>2 DEF Searches
<1>2. list \in Seq(APath)
  <2>. DEFINE retrieved == RetrievedFiles(read)
              aligned == [k \in DOMAIN retrieved |-> Canonical(retrieved[k], required)]
  <2>1. retrieved \in Seq(APath)
    BY <1>1, FirstSeenIs DEF RetrievedFiles
  <2>2. aligned \in Seq(APath)
    <3>. HIDE DEF retrieved, required, read
    <3>1. \A l \in DOMAIN retrieved : Canonical(retrieved[l], required) \in APath
      BY <1>1, <2>1, CanonicalIs
    <3>. QED
      BY <2>1, <3>1
  <2>3. list = FirstSeen(aligned, aligned)
    BY DEF AlignRetrieved
  <2>. HIDE DEF aligned, list
  <2>. QED
    BY <2>2, <2>3, FirstSeenIs
<1>3. IsFiniteSet(relevant)
  <2>. DEFINE g == [i \in DOMAIN required |-> NormalizePath(required[i])]
  <2>1. relevant = {g[i] : i \in DOMAIN required}
    BY DEF Relevant
  <2>2. IsFiniteSet(DOMAIN required)
    BY <1>1, FS_Interval
  <2>. HIDE DEF g
  <2>. QED
    BY <2>1, <2>2, FiniteImage
<1>4. HasSignal(inquiry) => relevant # {}
  BY <1>1 DEF HasSignal, Relevant
<1>. HIDE DEF list, relevant
<1>5. \A k \in DOMAIN list : Found(list, relevant, k - 1) \subseteq Found(list, relevant, k)
  BY <1>2 DEF Found
<1>6. (\A i, j \in DOMAIN required : i # j => ~EndsIn(required[i], required[j]))
         => \A i \in DOMAIN required, j \in DOMAIN read :
               EndsIn(read[j], required[i])
                 => NormalizePath(required[i]) \in Found(list, relevant, Len(list))
  <2>. HIDE DEF required, read
  <2>. QED
    BY <1>1, RequiredIsFound DEF list, relevant
<1>7. HasSignal(inquiry) /\ IsInjective([i \in DOMAIN list |-> NormalizePath(list[i])])
        => /\ PrecisionSum(list, relevant) <= 60 * Cardinality(relevant)
           /\ PrecisionSum(list, relevant) = 60 * Cardinality(relevant)
                <=> Cardinality(HitsAt(list, relevant, Cardinality(relevant))) = Cardinality(relevant)
  BY <1>2, <1>3, <1>4, PrecisionIs
<1>. QED
  BY <1>5, <1>6, <1>7, Zenon DEF RankScoresHold, list, relevant

-----------------------------------------------------------------------------
(* Sequences one after the other *)

Flattens(h, ss) ==
    /\ h[0] = <<>> /\ h[Len(ss)] = FlattenSeq(ss)
    /\ \A k \in 1..Len(ss) : h[k] = h[k - 1] \o ss[k]

LEMMA FlattenGoes ==
    ASSUME NEW X, NEW ss \in Seq(Seq(X))
    PROVE  \E h \in [0..Len(ss) -> Seq(X)] : Flattens(h, ss)
<1>. DEFINE n == Len(ss)
            g == [k \in 1..n |-> [a \in Seq(X) |-> a \o ss[k]]]
            Fl(f) == f = [i \in 1..Len(ss) |-> IF i = 1 THEN ss[i] ELSE f[i - 1] \o ss[i]]
            F == CHOOSE f : Fl(f)
<1>1. n \in Nat /\ \A k \in 1..n : ss[k] \in Seq(X)
  OBVIOUS
<1>2. <<>> \in Seq(X)
  OBVIOUS
<1>3. g \in [1..n -> [Seq(X) -> Seq(X)]]
  <2>1. \A k \in 1..n, a \in Seq(X) : a \o ss[k] \in Seq(X)
    BY <1>1
  <2>. HIDE DEF n
  <2>. QED
    BY <2>1
<1>4. PICK h \in [0..n -> Seq(X)] : StepsFrom(h, <<>>, g, n)
  <2>. HIDE DEF g, n
  <2>. QED
    BY <1>1, <1>2, <1>3, StepsExist
<1>5. h[0] = <<>> /\ \A k \in 1..n : h[k] = h[k - 1] \o ss[k]
  <2>1. \A k \in 1..n : k - 1 \in 0..n
    BY <1>1
  <2>2. \A k \in 1..n, a \in Seq(X) : g[k][a] = a \o ss[k]
    OBVIOUS
  <2>. HIDE DEF g, n
  <2>. QED
    BY <1>4, <2>1, <2>2 DEF StepsFrom
<1>0. ASSUME n # 0 PROVE 1 \in 1..n /\ h[1] = ss[1]
  <2>1. 1 \in 1..n /\ 1 - 1 = 0
    BY <1>0, <1>1
  <2>2. ss[1] \in Seq(X)
    BY <1>1, <2>1
  <2>3. <<>> \o ss[1] = ss[1]
    BY <2>2
  <2>. HIDE DEF n, g
  <2>4. h[1] = h[0] \o ss[1]
    BY <1>5, <2>1
  <2>. QED
    BY <1>5, <2>1, <2>3, <2>4
<1>6. n # 0 => h[n] = FlattenSeq(ss)
  <2>. DEFINE H == [k \in 1..n |-> h[k]]
  <2>1. \A k \in 1..n : H[k] = IF k = 1 THEN ss[k] ELSE H[k - 1] \o ss[k]
    <3>1. \A k \in 1..n : k # 1 => k - 1 \in 1..n
      BY <1>1
    <3>2. ASSUME NEW k \in 1..n PROVE h[k] = IF k = 1 THEN ss[k] ELSE H[k - 1] \o ss[k]
      <4>1. CASE k = 1
        <5>1. n # 0
          BY <1>1
        <5>. QED
          BY <1>0, <4>1, <5>1
      <4>2. CASE k # 1
        <5>1. H[k - 1] = h[k - 1]
          BY <3>1, <4>2
        <5>. QED
          BY <1>5, <4>2, <5>1
      <4>. QED
        BY <4>1, <4>2
    <3>3. \A k \in 1..n : H[k] = h[k]
      OBVIOUS
    <3>. HIDE DEF H
    <3>. QED
      BY <3>2, <3>3
  <2>2. Fl(H)
    <3>1. H = [k \in 1..n |-> H[k]]
      OBVIOUS
    <3>. HIDE DEF H
    <3>2. H = [k \in 1..n |-> IF k = 1 THEN ss[k] ELSE H[k - 1] \o ss[k]]
      BY <2>1, <3>1
    <3>. QED
      BY <3>2
  <2>3. Fl(F)
    BY <2>2
  <2>4. n # 0 => FlattenSeq(ss) = F[n]
    BY DEF FlattenSeq
  <2>. HIDE DEF F, H
  <2>. DEFINE Bad == {k \in 1..n : F[k] # h[k]}
  <2>5. Bad = {}
    <3>1. SUFFICES ASSUME Bad # {} PROVE FALSE
      OBVIOUS
    <3>2. PICK k \in Bad : \A j \in Bad : k <= j
      <4>1. Bad \in SUBSET Nat
        BY <1>1
      <4>. QED
        BY <3>1, <4>1, LeastOf
    <3>3. k \in 1..n /\ F[k] # h[k]
      OBVIOUS
    <3>4. F[k] = IF k = 1 THEN ss[k] ELSE F[k - 1] \o ss[k]
      BY <2>3, <3>3
    <3>5. k # 1
      <4>1. n # 0
        BY <1>1, <3>3
      <4>2. h[1] = ss[1]
        BY <1>0, <4>1
      <4>. QED
        BY <3>3, <3>4, <4>2
    <3>6. k - 1 \in 1..n /\ k - 1 \notin Bad
      <4>1. k - 1 \in 1..n /\ ~(k <= k - 1)
        BY <1>1, <3>3, <3>5
      <4>. HIDE DEF Bad
      <4>. QED
        BY <3>2, <4>1
    <3>7. F[k - 1] = h[k - 1]
      BY <3>6
    <3>. QED
      BY <1>5, <3>3, <3>4, <3>5, <3>7
  <2>. QED
    BY <1>1, <2>4, <2>5
<1>7. n = 0 => FlattenSeq(ss) = <<>>
  BY DEF FlattenSeq
<1>. QED
  BY <1>1, <1>4, <1>5, <1>6, <1>7 DEF Flattens

-----------------------------------------------------------------------------
(* The words of a command                                                  *)

\* What a command is made of.
Texts == {"assign", "wrapper", "keyword", "grep", "cat", "make", "-l", "-A", "-e", "--",
          "file", "glob", "1", "2", "<<", ">", ">&"}

AToken == [op : BOOLEAN, text : Texts, unit : Nat]

\* What has become of the tokens so far.
WordState == [words : Seq(AToken), skip : BOOLEAN]

NoWords == [words |-> <<>>, skip |-> FALSE]

\* One more token (_command_words).
WordStep(a, t) ==
    IF t.op
    THEN [words |-> IF t.text # "<<" /\ a.words # <<>> /\ Last(a.words).text = "2"
                    THEN Front(a.words) ELSE a.words,
          skip |-> t.text \in {"<<", ">&"}]
    ELSE [words |-> IF a.skip THEN a.words ELSE Append(a.words, t), skip |-> FALSE]

WordsGoBy(h, toks) ==
    /\ h[0] = NoWords /\ h[Len(toks)].words = CommandWords(toks)
    /\ \A k \in 1..Len(toks) : h[k] = WordStep(h[k - 1], toks[k])

(* Words are found token by token. *)
LEMMA WordsGo ==
    ASSUME NEW toks \in Seq(AToken)
    PROVE  \E h \in [0..Len(toks) -> WordState] : WordsGoBy(h, toks)
<1>. DEFINE n == Len(toks)
            Tbl(it) == it = [t \in SUBSET DOMAIN toks |->
                               IF t = {} THEN NoWords
                               ELSE WordStep(it[t \ {Max(t)}], toks[Max(t)])]
            It == CHOOSE it : Tbl(it)
            g == [i \in 1..n |-> [a \in WordState |-> WordStep(a, toks[i])]]
            h == [k \in 0..n |-> It[1..k]]
<1>1. n \in Nat /\ DOMAIN toks = 1..n /\ \A i \in 1..n : toks[i] \in AToken
  OBVIOUS
<1>2. CommandWords(toks) = It[DOMAIN toks].words
  BY DEF CommandWords, FoldLeft, MapThenFoldSet, WordStep, NoWords
<1>. HIDE DEF n
<1>3. g \in [1..n -> [WordState -> WordState]] /\ NoWords \in WordState
  <2>1. ASSUME NEW a \in WordState, NEW t \in AToken PROVE WordStep(a, t) \in WordState
    <3>1. a.words \in Seq(AToken) /\ a.skip \in BOOLEAN
      BY DEF WordState
    <3>2. a.words # <<>> => Front(a.words) \in Seq(AToken)
      BY <3>1 DEF Front
    <3>3. Append(a.words, t) \in Seq(AToken)
      BY <3>1
    <3>. QED
      BY <3>1, <3>2, <3>3 DEF WordStep, WordState
  <2>2. NoWords \in WordState
    BY DEF NoWords, WordState
  <2>. QED
    BY <1>1, <2>1, <2>2
<1>4. PICK it \in [SUBSET (1..n) -> WordState] : FoldTable(it, NoWords, g, n)
  <2>. HIDE DEF g
  <2>. QED
    BY <1>1, <1>3, FoldTableExists
<1>5. Tbl(it)
  <2>1. ASSUME NEW t \in SUBSET (1..n), t # {}
        PROVE  g[Max(t)][it[t \ {Max(t)}]] = WordStep(it[t \ {Max(t)}], toks[Max(t)])
    <3>1. Max(t) \in 1..n /\ t \ {Max(t)} \in SUBSET (1..n)
      BY <1>1, <2>1, LastTaken
    <3>2. it[t \ {Max(t)}] \in WordState
      BY <1>1, <3>1
    <3>. QED
      BY <3>1, <3>2
  <2>2. it = [t \in SUBSET (1..n) |-> IF t = {} THEN NoWords ELSE g[Max(t)][it[t \ {Max(t)}]]]
    BY <1>4 DEF FoldTable
  <2>. HIDE DEF g
  <2>3. \A t \in SUBSET (1..n) : it[t] = IF t = {} THEN NoWords
                                         ELSE WordStep(it[t \ {Max(t)}], toks[Max(t)])
    BY <2>1, <2>2
  <2>4. it = [t \in SUBSET (1..n) |-> it[t]]
    BY <1>4
  <2>. QED
    BY <1>1, <2>3, <2>4
<1>6. Tbl(It)
  BY <1>5
<1>. HIDE DEF It, Tbl
<1>7. It[{}] = NoWords /\ \A k \in 1..n : It[1..k] = WordStep(It[1..(k - 1)], toks[k])
  <2>1. It[{}] = NoWords
    BY <1>6 DEF Tbl
  <2>2. ASSUME NEW k \in 1..n PROVE It[1..k] = WordStep(It[1..(k - 1)], toks[k])
    <3>1. /\ 1..k # {} /\ Max(1..k) = k /\ (1..k) \ {k} = 1..(k - 1) /\ 1..k \in SUBSET (1..n)
      BY <1>1, PrefixTaken
    <3>2. It[1..k] = WordStep(It[(1..k) \ {Max(1..k)}], toks[Max(1..k)])
      BY <1>1, <1>6, <3>1 DEF Tbl
    <3>. QED
      BY <3>1, <3>2
  <2>. QED
    BY <2>1, <2>2
<1>8. \A k \in 1..n, a \in WordState : g[k][a] = WordStep(a, toks[k])
  OBVIOUS
<1>. HIDE DEF g
<1>9. GoesBy(It, WordState, NoWords, g, n)
  BY <1>7, <1>8 DEF GoesBy
<1>10. h \in [0..n -> WordState] /\ StepsFrom(h, NoWords, g, n)
  BY <1>1, <1>3, <1>9, FoldGoes
<1>11. h[n] = It[DOMAIN toks]
  BY <1>1
<1>12. \A k \in 1..n : h[k] = WordStep(h[k - 1], toks[k])
  <2>1. \A k \in 1..n : k - 1 \in 0..n
    BY <1>1
  <2>. HIDE DEF h
  <2>. QED
    BY <1>8, <1>10, <2>1 DEF StepsFrom
<1>. HIDE DEF h
<1>. QED
  BY <1>2, <1>10, <1>11, <1>12 DEF WordsGoBy, StepsFrom, n

\* With which words, and whether the next token is skipped.
After(ws, s) == [words |-> ws, skip |-> s]

(* What a token does to the words. *)
LEMMA WordSteps ==
    ASSUME NEW ws
    PROVE  /\ \A t : ~t.op => /\ WordStep(After(ws, FALSE), t) = After(Append(ws, t), FALSE)
                             /\ WordStep(After(ws, TRUE), t) = After(ws, FALSE)
           /\ WordStep(After(ws, FALSE), Op("<<")) = After(ws, TRUE)
           /\ ws # <<>> /\ Last(ws).text = "2"
                => /\ WordStep(After(ws, FALSE), Op(">&")) = After(Front(ws), TRUE)
                   /\ WordStep(After(ws, FALSE), Op(">")) = After(Front(ws), FALSE)
<1>1. ASSUME NEW s PROVE After(ws, s).words = ws /\ After(ws, s).skip = s
  BY DEF After
<1>2. ASSUME NEW x PROVE Op(x).op = TRUE /\ Op(x).text = x
  BY Zenon DEF Op
<1>3. ASSUME NEW t, ~t.op
      PROVE  /\ WordStep(After(ws, FALSE), t) = After(Append(ws, t), FALSE)
             /\ WordStep(After(ws, TRUE), t) = After(ws, FALSE)
  <2>1. ASSUME NEW a PROVE WordStep(a, t) = After(IF a.skip THEN a.words ELSE Append(a.words, t), FALSE)
    BY <1>3, Zenon DEF WordStep, After
  <2>. QED
    BY <1>1, <2>1, Zenon
<1>4. ASSUME NEW x, NEW a
      PROVE  WordStep(a, Op(x)) = After(IF x # "<<" /\ a.words # <<>> /\ Last(a.words).text = "2"
                                        THEN Front(a.words) ELSE a.words, x \in {"<<", ">&"})
  BY <1>2, Zenon DEF WordStep, After
<1>5. ("<<" \in {"<<", ">&"}) = TRUE /\ (">&" \in {"<<", ">&"}) = TRUE
      /\ (">" \in {"<<", ">&"}) = FALSE /\ ">&" # "<<" /\ ">" # "<<"
  OBVIOUS
<1>6. WordStep(After(ws, FALSE), Op("<<")) = After(ws, TRUE)
  <2>. DEFINE a == After(ws, FALSE)
              left == IF "<<" # "<<" /\ a.words # <<>> /\ Last(a.words).text = "2"
                      THEN Front(a.words) ELSE a.words
              more == "<<" \in {"<<", ">&"}
  <2>1. left = a.words /\ a.words = ws
    BY <1>1
  <2>2. WordStep(a, Op("<<")) = After(left, more)
    BY <1>4, Zenon
  <2>3. more = TRUE
    BY <1>5, Zenon
  <2>. HIDE DEF left, more
  <2>. QED
    BY <2>1, <2>2, <2>3, Zenon
<1>7. ASSUME ws # <<>>, Last(ws).text = "2"
      PROVE  /\ WordStep(After(ws, FALSE), Op(">&")) = After(Front(ws), TRUE)
             /\ WordStep(After(ws, FALSE), Op(">")) = After(Front(ws), FALSE)
  <2>. DEFINE a == After(ws, FALSE)
              left(x) == IF x # "<<" /\ a.words # <<>> /\ Last(a.words).text = "2"
                         THEN Front(a.words) ELSE a.words
              more(x) == x \in {"<<", ">&"}
  <2>1. ASSUME NEW x, x # "<<" PROVE left(x) = Front(ws)
    <3>1. a.words = ws
      BY <1>1
    <3>. HIDE DEF a
    <3>. QED
      BY <1>7, <2>1, <3>1
  <2>2. \A x : WordStep(a, Op(x)) = After(left(x), more(x))
    BY <1>4, Zenon
  <2>3. more(">&") = TRUE /\ more(">") = FALSE
    BY <1>5, Zenon
  <2>4. left(">&") = Front(ws) /\ left(">") = Front(ws)
    BY <1>5, <2>1, Zenon
  <2>. HIDE DEF left, more
  <2>. QED
    BY <2>2, <2>3, <2>4, Zenon
<1>. QED
  BY <1>3, <1>6, <1>7, Zenon

(* Words without an operator among them stay as they are. *)
LEMMA WordsStay ==
    ASSUME NEW toks \in Seq(AToken), NEW h \in [0..Len(toks) -> WordState], WordsGoBy(h, toks),
           NEW m \in 0..Len(toks), \A i \in 1..m : ~toks[i].op
    PROVE  h[m] = After(SubSeq(toks, 1, m), FALSE)
<1>. DEFINE Bad == {k \in 0..m : h[k] # After(SubSeq(toks, 1, k), FALSE)}
<1>1. Len(toks) \in Nat /\ m \in Nat /\ m <= Len(toks)
  OBVIOUS
<1>2. Bad = {}
  <2>1. SUFFICES ASSUME Bad # {} PROVE FALSE
    OBVIOUS
  <2>2. PICK k \in Bad : \A j \in Bad : k <= j
    <3>1. Bad \in SUBSET Nat
      BY <1>1
    <3>. HIDE DEF Bad
    <3>. QED
      BY <2>1, <3>1, LeastOf
  <2>3. k \in 0..m /\ h[k] # After(SubSeq(toks, 1, k), FALSE)
    OBVIOUS
  <2>4. k # 0
    <3>1. SubSeq(toks, 1, 0) = <<>>
      OBVIOUS
    <3>2. h[0] = After(<<>>, FALSE)
      BY DEF WordsGoBy, NoWords, After
    <3>. QED
      BY <2>3, <3>1, <3>2
  <2>5. k \in 1..m /\ k \in 1..Len(toks) /\ k - 1 \in 0..m /\ ~(k <= k - 1)
    BY <1>1, <2>3, <2>4
  <2>6. k - 1 \notin Bad
    <3>. HIDE DEF Bad
    <3>. QED
      BY <2>2, <2>5
  <2>7. h[k - 1] = After(SubSeq(toks, 1, k - 1), FALSE)
    BY <2>5, <2>6
  <2>8. h[k] = After(Append(SubSeq(toks, 1, k - 1), toks[k]), FALSE)
    <3>1. h[k] = WordStep(h[k - 1], toks[k]) /\ ~toks[k].op
      BY <2>5 DEF WordsGoBy
    <3>. QED
      BY <2>7, <3>1, WordSteps, Zenon
  <2>9. Append(SubSeq(toks, 1, k - 1), toks[k]) = SubSeq(toks, 1, k)
    BY <2>5
  <2>. QED
    BY <2>3, <2>8, <2>9
<1>3. m \in 0..m /\ m \notin Bad
  BY <1>1, <1>2
<1>. QED
  BY <1>3

\* The tokens that a line ends in, and the word that is left of them.
LastTokens(kind, n) ==
    CASE kind = "none" -> <<>>
      [] kind = "heredoc" -> <<Op("<<"), Word("file", n)>>
      [] kind = "dup" -> <<Word("2", n), Op(">&"), Word("1", n)>>
      [] kind = "output" -> <<Word("2", n), Op(">"), Word("file", n)>>

Target(kind, n) == IF kind = "output" THEN <<Word("file", n)>> ELSE <<>>

Kinds == {"none", "dup", "heredoc", "output"}

(* Of a redirection the target is left, and nothing of a here-document. *)
LEMMA LastWords ==
    ASSUME NEW plain \in Seq(AToken), \A i \in 1..Len(plain) : ~plain[i].op,
           NEW kind \in Kinds, NEW n \in Nat
    PROVE  /\ plain \o LastTokens(kind, n) \in Seq(AToken)
           /\ CommandWords(plain \o LastTokens(kind, n)) = plain \o Target(kind, n)
<1>. DEFINE toks == plain \o LastTokens(kind, n)
            m == Len(plain)
<1>1. Word("2", n) \in AToken /\ Word("1", n) \in AToken /\ Word("file", n) \in AToken
      /\ Op("<<") \in AToken /\ Op(">") \in AToken /\ Op(">&") \in AToken
  <2>1. \A x \in Texts, b \in BOOLEAN, u \in Nat : [op |-> b, text |-> x, unit |-> u] \in AToken
    BY DEF AToken
  <2>2. 0 \in Nat /\ "2" \in Texts /\ "1" \in Texts /\ "file" \in Texts /\ "<<" \in Texts
        /\ ">" \in Texts /\ ">&" \in Texts
    BY DEF Texts
  <2>3. TRUE \in BOOLEAN /\ FALSE \in BOOLEAN
    OBVIOUS
  <2>. QED
    BY <2>1, <2>2, <2>3, Zenon DEF Word, Op
<1>20. \A x : ~Word(x, n).op /\ Word(x, n).text = x
  BY Zenon DEF Word
<1>2. LastTokens(kind, n) \in Seq(AToken)
  BY <1>1 DEF LastTokens, Kinds
<1>3. toks \in Seq(AToken) /\ Len(toks) = m + Len(LastTokens(kind, n)) /\ m \in Nat
      /\ Len(LastTokens(kind, n)) \in Nat
      /\ (\A i \in 1..m : toks[i] = plain[i])
      /\ SubSeq(toks, 1, m) = plain
  BY <1>2
<1>4. PICK h \in [0..Len(toks) -> WordState] : WordsGoBy(h, toks)
  BY <1>3, WordsGo
<1>5. h[m] = After(plain, FALSE)
  <2>1. m \in 0..Len(toks) /\ \A i \in 1..m : ~toks[i].op
    BY <1>3
  <2>. HIDE DEF toks, m
  <2>. QED
    BY <1>3, <1>4, <2>1, WordsStay
<1>6. \A k \in 1..Len(LastTokens(kind, n)) :
            h[m + k] = WordStep(h[m + (k - 1)], LastTokens(kind, n)[k])
  <2>1. \A k \in 1..Len(LastTokens(kind, n)) : m + k \in 1..Len(toks) /\ toks[m + k] = LastTokens(kind, n)[k]
    BY <1>2, <1>3
  <2>. HIDE DEF toks, m
  <2>2. \A j \in 1..Len(toks) : h[j] = WordStep(h[j - 1], toks[j])
    BY <1>4 DEF WordsGoBy
  <2>3. \A k \in 1..Len(LastTokens(kind, n)) : (m + k) - 1 = m + (k - 1)
    BY <1>3
  <2>. QED
    BY <2>1, <2>2, <2>3, Zenon
<1>7. h[Len(toks)].words = CommandWords(toks)
  BY <1>4 DEF WordsGoBy
<1>8. \A w \in AToken : /\ Append(plain, w) \in Seq(AToken) /\ Append(plain, w) # <<>>
                        /\ Last(Append(plain, w)) = w /\ Front(Append(plain, w)) = plain
                        /\ Append(plain, w) = plain \o <<w>>
  <2>1. SUFFICES ASSUME NEW w \in AToken
                 PROVE  /\ Append(plain, w) \in Seq(AToken) /\ Append(plain, w) # <<>>
                        /\ Last(Append(plain, w)) = w /\ Front(Append(plain, w)) = plain
                        /\ Append(plain, w) = plain \o <<w>>
    OBVIOUS
  <2>2. /\ Append(plain, w) \in Seq(AToken) /\ Append(plain, w) = plain \o <<w>>
        /\ Len(Append(plain, w)) = m + 1 /\ Append(plain, w)[m + 1] = w /\ m \in Nat
    OBVIOUS
  <2>3. Append(plain, w) # <<>> /\ Last(Append(plain, w)) = w
    <3>1. Len(<<>>) = 0
      OBVIOUS
    <3>2. Last(Append(plain, w)) = Append(plain, w)[Len(Append(plain, w))]
      BY DEF Last
    <3>. QED
      BY <2>2, <3>1, <3>2
  <2>4. Front(Append(plain, w)) = plain
    BY DEF Front
  <2>. QED
    BY <2>2, <2>3, <2>4
<1>9. plain \o <<>> = plain
  OBVIOUS
<1>. HIDE DEF toks, m
<1>10. CASE kind = "none"
  <2>1. LastTokens(kind, n) = <<>> /\ Target(kind, n) = <<>>
    BY <1>10 DEF LastTokens, Target
  <2>2. Len(toks) = m
    BY <1>3, <2>1
  <2>. QED
    BY <1>3, <1>5, <1>7, <1>9, <2>1, <2>2 DEF toks, After
<1>11. CASE kind = "heredoc"
  <2>1. LastTokens(kind, n) = <<Op("<<"), Word("file", n)>> /\ Target(kind, n) = <<>>
    BY <1>11 DEF LastTokens, Target
  <2>2. Len(toks) = m + 2 /\ m + 0 = m /\ 1 - 1 = 0 /\ 2 - 1 = 1
    BY <1>3, <2>1
  <2>3. h[m + 1] = WordStep(h[m], Op("<<")) /\ h[m + 2] = WordStep(h[m + 1], Word("file", n))
    <3>. DEFINE l == LastTokens(kind, n)
    <3>1. \A k \in 1..Len(l) : h[m + k] = WordStep(h[m + (k - 1)], l[k])
      BY <1>6
    <3>2. 1 \in 1..Len(l) /\ 2 \in 1..Len(l) /\ l[1] = Op("<<") /\ l[2] = Word("file", n)
      BY <2>1
    <3>. HIDE DEF l
    <3>. QED
      BY <2>2, <3>1, <3>2
  <2>4. h[m + 1] = After(plain, TRUE)
    BY <1>5, <2>3, WordSteps, Zenon
  <2>5. h[m + 2] = After(plain, FALSE)
    BY <2>3, <2>4, <1>20, WordSteps, Zenon
  <2>. QED
    BY <1>3, <1>7, <1>9, <2>1, <2>2, <2>5 DEF toks, After
<1>12. CASE kind = "dup"
  <2>1. LastTokens(kind, n) = <<Word("2", n), Op(">&"), Word("1", n)>> /\ Target(kind, n) = <<>>
    BY <1>12 DEF LastTokens, Target
  <2>2. Len(toks) = m + 3 /\ m + 0 = m /\ 1 - 1 = 0 /\ 2 - 1 = 1 /\ 3 - 1 = 2
    BY <1>3, <2>1
  <2>3. h[m + 1] = WordStep(h[m], Word("2", n)) /\ h[m + 2] = WordStep(h[m + 1], Op(">&"))
        /\ h[m + 3] = WordStep(h[m + 2], Word("1", n))
    <3>. DEFINE l == LastTokens(kind, n)
    <3>1. \A k \in 1..Len(l) : h[m + k] = WordStep(h[m + (k - 1)], l[k])
      BY <1>6
    <3>2. 1 \in 1..Len(l) /\ 2 \in 1..Len(l) /\ 3 \in 1..Len(l)
          /\ l[1] = Word("2", n) /\ l[2] = Op(">&") /\ l[3] = Word("1", n)
      BY <2>1
    <3>. HIDE DEF l
    <3>. QED
      BY <2>2, <3>1, <3>2
  <2>4. h[m + 1] = After(Append(plain, Word("2", n)), FALSE)
    BY <1>5, <2>3, <1>20, WordSteps, Zenon
  <2>5. h[m + 2] = After(plain, TRUE)
    <3>1. Last(Append(plain, Word("2", n))).text = "2"
      BY <1>1, <1>8, <1>20, Zenon
    <3>2. Append(plain, Word("2", n)) # <<>> /\ Front(Append(plain, Word("2", n))) = plain
      BY <1>1, <1>8, Zenon
    <3>. QED
      BY <2>3, <2>4, <3>1, <3>2, WordSteps, Zenon
  <2>6. h[m + 3] = After(plain, FALSE)
    BY <2>3, <2>5, <1>20, WordSteps, Zenon
  <2>. QED
    BY <1>3, <1>7, <1>9, <2>1, <2>2, <2>6 DEF toks, After
<1>13. CASE kind = "output"
  <2>1. /\ LastTokens(kind, n) = <<Word("2", n), Op(">"), Word("file", n)>>
        /\ Target(kind, n) = <<Word("file", n)>>
    BY <1>13 DEF LastTokens, Target
  <2>2. Len(toks) = m + 3 /\ m + 0 = m /\ 1 - 1 = 0 /\ 2 - 1 = 1 /\ 3 - 1 = 2
    BY <1>3, <2>1
  <2>3. h[m + 1] = WordStep(h[m], Word("2", n)) /\ h[m + 2] = WordStep(h[m + 1], Op(">"))
        /\ h[m + 3] = WordStep(h[m + 2], Word("file", n))
    <3>. DEFINE l == LastTokens(kind, n)
    <3>1. \A k \in 1..Len(l) : h[m + k] = WordStep(h[m + (k - 1)], l[k])
      BY <1>6
    <3>2. 1 \in 1..Len(l) /\ 2 \in 1..Len(l) /\ 3 \in 1..Len(l)
          /\ l[1] = Word("2", n) /\ l[2] = Op(">") /\ l[3] = Word("file", n)
      BY <2>1
    <3>. HIDE DEF l
    <3>. QED
      BY <2>2, <3>1, <3>2
  <2>4. h[m + 1] = After(Append(plain, Word("2", n)), FALSE)
    BY <1>5, <2>3, <1>20, WordSteps, Zenon
  <2>5. h[m + 2] = After(plain, FALSE)
    <3>1. Last(Append(plain, Word("2", n))).text = "2"
      BY <1>1, <1>8, <1>20, Zenon
    <3>2. Append(plain, Word("2", n)) # <<>> /\ Front(Append(plain, Word("2", n))) = plain
      BY <1>1, <1>8, Zenon
    <3>. QED
      BY <2>3, <2>4, <3>1, <3>2, WordSteps, Zenon
  <2>6. h[m + 3] = After(Append(plain, Word("file", n)), FALSE)
    BY <2>3, <2>5, <1>20, WordSteps, Zenon
  <2>7. CommandWords(toks) = Append(plain, Word("file", n))
    BY <1>7, <2>2, <2>6 DEF After
  <2>8. Append(plain, Word("file", n)) = plain \o <<Word("file", n)>>
    BY <1>1, <1>8, Zenon
  <2>. QED
    BY <1>3, <2>1, <2>7, <2>8, Zenon DEF toks
<1>. QED
  BY <1>10, <1>11, <1>12, <1>13 DEF Kinds

-----------------------------------------------------------------------------
(* Where the parts of a flattened sequence are *)

Begins(s, t) == Len(s) <= Len(t) /\ \A i \in 1..Len(s) : t[i] = s[i]

LEMMA PartsArePlaced ==
    ASSUME NEW X, NEW ss \in Seq(Seq(X)), NEW fl \in [0..Len(ss) -> Seq(X)], Flattens(fl, ss)
    PROVE  \A k \in 0..Len(ss) : Begins(fl[k], FlattenSeq(ss))
<1>. DEFINE n == Len(ss)
            Good(k) == \A m \in 0..k : Begins(fl[m], fl[k])
            Bad == {k \in 0..n : ~Good(k)}
<1>1. n \in Nat /\ \A k \in 0..n : fl[k] \in Seq(X) /\ Len(fl[k]) \in Nat
  OBVIOUS
<1>2. \A k \in 0..n : Begins(fl[k], fl[k])
  BY <1>1 DEF Begins
<1>3. ASSUME NEW k \in 1..n PROVE Begins(fl[k - 1], fl[k])
  <2>1. fl[k] = fl[k - 1] \o ss[k]
    BY DEF Flattens
  <2>2. ss[k] \in Seq(X) /\ k - 1 \in 0..n
    OBVIOUS
  <2>3. fl[k - 1] \in Seq(X)
    BY <1>1, <2>2
  <2>4. \A s, t \in Seq(X) : Begins(s, s \o t)
    BY DEF Begins
  <2>. QED
    BY <2>1, <2>2, <2>3, <2>4, Zenon
<1>. HIDE DEF n
<1>4. Bad = {}
  <2>1. SUFFICES ASSUME Bad # {} PROVE FALSE
    OBVIOUS
  <2>2. PICK k \in Bad : \A j \in Bad : k <= j
    <3>1. Bad \in SUBSET Nat
      BY <1>1
    <3>. HIDE DEF Bad
    <3>. QED
      BY <2>1, <3>1, LeastOf
  <2>3. k \in 0..n /\ ~Good(k)
    OBVIOUS
  <2>4. k # 0
    <3>1. SUFFICES ASSUME k = 0 PROVE Good(k)
      BY <2>3
    <3>2. \A m \in 0..k : m = k
      BY <3>1
    <3>. QED
      BY <1>2, <2>3, <3>2
  <2>5. k \in 1..n /\ k - 1 \in 0..n /\ ~(k <= k - 1)
    BY <1>1, <2>3, <2>4
  <2>6. k - 1 \notin Bad
    <3>. HIDE DEF Bad
    <3>. QED
      BY <2>2, <2>5
  <2>7. Good(k - 1)
    BY <2>5, <2>6
  <2>8. ASSUME NEW m \in 0..k PROVE Begins(fl[m], fl[k])
    <3>1. CASE m = k
      BY <1>2, <2>5, <3>1
    <3>2. CASE m # k
      <4>1. m \in 0..(k - 1) /\ m \in 0..n
        BY <1>1, <2>5, <3>2
      <4>2. Begins(fl[m], fl[k - 1]) /\ Begins(fl[k - 1], fl[k])
        BY <1>3, <2>5, <2>7, <4>1
      <4>3. Len(fl[m]) \in Nat /\ Len(fl[k - 1]) \in Nat /\ Len(fl[k]) \in Nat
        BY <1>1, <2>5, <4>1
      <4>. QED
        BY <4>2, <4>3 DEF Begins
    <3>. QED
      BY <3>1, <3>2
  <2>. QED
    BY <2>3, <2>8
<1>5. n \in 0..n /\ fl[n] = FlattenSeq(ss)
  BY <1>1 DEF Flattens, n
<1>6. Good(n)
  BY <1>4, <1>5
<1>. QED
  BY <1>5, <1>6 DEF n

-----------------------------------------------------------------------------
(* The program of a command *)

Wraps(ws, i) ==
    \/ ws[i].text \in {"assign", "keyword", "wrapper"}
    \/ IsFlag(ws[i]) /\ i > 1 /\ ws[i - 1].text = "wrapper"

(* What stands before the program goes. *)
LEMMA StripIs ==
    ASSUME NEW X, NEW ws \in Seq(X), NEW p \in 1..Len(ws), ~Wraps(ws, p), \A i \in 1..(p - 1) : Wraps(ws, i)
    PROVE  StripWrappers(ws) = SubSeq(ws, p, Len(ws))
<1>. DEFINE Is(i) == ~Wraps(ws, i) /\ \A j \in 1..(i - 1) : Wraps(ws, j)
<1>1. StripWrappers(ws) = SubSeq(ws, CHOOSE i \in DOMAIN ws : Is(i), Len(ws))
  BY DEF StripWrappers, Wraps
<1>2. p \in DOMAIN ws /\ Is(p)
  OBVIOUS
<1>3. ASSUME NEW i \in DOMAIN ws, Is(i) PROVE i = p
  <2>1. i \in Nat /\ p \in Nat /\ i >= 1 /\ p >= 1
    OBVIOUS
  <2>2. ~(i < p)
    <3>1. SUFFICES ASSUME i < p PROVE FALSE
      OBVIOUS
    <3>2. i \in 1..(p - 1)
      BY <2>1, <3>1
    <3>. QED
      BY <1>3, <3>2
  <2>3. ~(p < i)
    <3>1. SUFFICES ASSUME p < i PROVE FALSE
      OBVIOUS
    <3>2. p \in 1..(i - 1)
      BY <2>1, <3>1
    <3>. QED
      BY <1>3, <3>2
  <2>. QED
    BY <2>1, <2>2, <2>3
<1>. HIDE DEF Is
<1>4. (CHOOSE i \in DOMAIN ws : Is(i)) = p
  BY <1>2, <1>3
<1>. QED
  BY <1>1, <1>4

\* The tokens of the i-th unit.
UnitTokens(u, i) ==
    CASE u[i].as = "value" -> <<Word("-A", 0), Word(u[i].text, 0)>>
      [] u[i].as = "pattern" -> <<Word("-e", 0), Word(u[i].text, 0)>>
      [] OTHER -> <<Word(u[i].text, i)>>

TokensOfUnits(u) == [i \in DOMAIN u |-> UnitTokens(u, i)]

PrefixWords(prefix) == [i \in DOMAIN prefix |-> Word(prefix[i], 0)]

PlainToken == [op : {FALSE}, text : Texts, unit : Nat]

LEMMA WordIs ==
    ASSUME NEW x \in Texts, NEW n \in Nat
    PROVE  /\ Word(x, n) \in PlainToken /\ Word(x, n) \in AToken
           /\ Word(x, n).op = FALSE /\ Word(x, n).text = x /\ Word(x, n).unit = n
<1>1. Word(x, n).op = FALSE /\ Word(x, n).text = x /\ Word(x, n).unit = n
  BY Zenon DEF Word
<1>2. FALSE \in BOOLEAN /\ FALSE \in {FALSE}
  OBVIOUS
<1>. QED
  BY <1>1, <1>2, Zenon DEF Word, PlainToken, AToken

LEMMA LineIs ==
    ASSUME NEW l \in Lines
    PROVE  /\ l.of = "line" /\ l.prefix \in Wrappings /\ l.program \in {"grep", "cat", "make"}
           /\ l.units \in Seq(Units) /\ l.tail \in Kinds
           /\ Tokens(l) = ((PrefixWords(l.prefix) \o <<Word(l.program, 0)>>)
                            \o FlattenSeq(TokensOfUnits(l.units))) \o LastTokens(l.tail, Len(l.units) + 1)
<1>1. l.of = "line" /\ l.prefix \in Wrappings /\ l.program \in {"grep", "cat", "make"}
      /\ l.units \in SeqOf(Units, MaxUnits) /\ l.tail \in Kinds
  BY DEF Lines, Kinds
<1>2. SeqOf(Units, MaxUnits) \subseteq Seq(Units)
  BY DEF SeqOf
<1>3. Tokens(l) = ((PrefixWords(l.prefix) \o <<Word(l.program, 0)>>)
                     \o FlattenSeq(TokensOfUnits(l.units))) \o LastTokens(l.tail, Len(l.units) + 1)
  BY Zenon DEF Tokens, PrefixWords, TokensOfUnits, UnitTokens, LastTokens
<1>. QED
  BY <1>1, <1>2, <1>3

-----------------------------------------------------------------------------
(* Arguments one by one *)

\* What is known of the arguments so far.
ArgState == [files : Seq(Nat), pattern : BOOLEAN, ended : BOOLEAN, value : BOOLEAN]

Known(f, p, e, v) == [files |-> f, pattern |-> p, ended |-> e, value |-> v]

\* One more argument (_read_command_args).
ArgStep(program, a, w) ==
    IF a.value THEN [a EXCEPT !.value = FALSE]
    ELSE IF ~a.ended /\ IsFlag(w)
    THEN [a EXCEPT !.ended = EndsOptions(w, @),
                   !.pattern = @ \/ (program = "grep" /\ w.text = "-e"),
                   !.value = program = "grep" /\ w.text \in {"-e", "-A"}]
    ELSE IF ~a.pattern THEN [a EXCEPT !.pattern = TRUE]
    ELSE IF Concrete(w) THEN [a EXCEPT !.files = Append(@, w.unit)] ELSE a

ArgsGoBy(h, program, args) ==
    /\ h[0].files = <<>> /\ (h[0].pattern <=> program # "grep") /\ ~h[0].ended /\ ~h[0].value
    /\ h[Len(args)].files = ReadCommandArgs(program, args)
    /\ \A k \in 1..Len(args) : h[k] = ArgStep(program, h[k - 1], args[k])

LEMMA KnownIs ==
    ASSUME NEW f, NEW p, NEW e, NEW v
    PROVE  /\ Known(f, p, e, v).files = f /\ Known(f, p, e, v).pattern = p
           /\ Known(f, p, e, v).ended = e /\ Known(f, p, e, v).value = v
  BY Zenon DEF Known

(* Files are found argument by argument. *)
LEMMA ArgsGo ==
    ASSUME NEW args \in Seq(AToken), NEW program
    PROVE  \E h \in [0..Len(args) -> ArgState] : ArgsGoBy(h, program, args)
<1>. DEFINE n == Len(args)
            b == Known(<<>>, program # "grep", FALSE, FALSE)
            Tbl(it) == it = [t \in SUBSET DOMAIN args |->
                               IF t = {} THEN b
                               ELSE ArgStep(program, it[t \ {Max(t)}], args[Max(t)])]
            It == CHOOSE it : Tbl(it)
            g == [i \in 1..n |-> [a \in ArgState |-> ArgStep(program, a, args[i])]]
            h == [k \in 0..n |-> It[1..k]]
<1>1. n \in Nat /\ DOMAIN args = 1..n /\ \A i \in 1..n : args[i] \in AToken
  OBVIOUS
<1>2. ReadCommandArgs(program, args) = It[DOMAIN args].files
  BY DEF ReadCommandArgs, FoldLeft, MapThenFoldSet, ArgStep, Known
<1>. HIDE DEF n
<1>3. g \in [1..n -> [ArgState -> ArgState]] /\ b \in ArgState
  <2>1. ASSUME NEW a \in ArgState, NEW t \in AToken PROVE ArgStep(program, a, t) \in ArgState
    <3>1. a.files \in Seq(Nat) /\ t.unit \in Nat
      BY DEF ArgState, AToken
    <3>2. Append(a.files, t.unit) \in Seq(Nat)
      BY <3>1
    <3>. QED
      BY <3>1, <3>2 DEF ArgStep, ArgState, EndsOptions
  <2>2. b \in ArgState
    <3>1. <<>> \in Seq(Nat) /\ (program # "grep") \in BOOLEAN /\ FALSE \in BOOLEAN
      OBVIOUS
    <3>. QED
      BY <3>1, Zenon DEF Known, ArgState
  <2>. HIDE DEF b
  <2>. QED
    BY <1>1, <2>1, <2>2
<1>. HIDE DEF b
<1>4. PICK it \in [SUBSET (1..n) -> ArgState] : FoldTable(it, b, g, n)
  <2>. HIDE DEF g
  <2>. QED
    BY <1>1, <1>3, FoldTableExists
<1>5. Tbl(it)
  <2>1. ASSUME NEW t \in SUBSET (1..n), t # {}
        PROVE  g[Max(t)][it[t \ {Max(t)}]] = ArgStep(program, it[t \ {Max(t)}], args[Max(t)])
    <3>1. Max(t) \in 1..n /\ t \ {Max(t)} \in SUBSET (1..n)
      BY <1>1, <2>1, LastTaken
    <3>2. it[t \ {Max(t)}] \in ArgState
      BY <1>1, <3>1
    <3>. QED
      BY <3>1, <3>2
  <2>2. it = [t \in SUBSET (1..n) |-> IF t = {} THEN b ELSE g[Max(t)][it[t \ {Max(t)}]]]
    BY <1>4 DEF FoldTable
  <2>. HIDE DEF g
  <2>3. \A t \in SUBSET (1..n) : it[t] = IF t = {} THEN b
                                         ELSE ArgStep(program, it[t \ {Max(t)}], args[Max(t)])
    BY <2>1, <2>2
  <2>4. it = [t \in SUBSET (1..n) |-> it[t]]
    BY <1>4
  <2>. QED
    BY <1>1, <2>3, <2>4
<1>6. Tbl(It)
  BY <1>5
<1>. HIDE DEF It, Tbl
<1>7. It[{}] = b /\ \A k \in 1..n : It[1..k] = ArgStep(program, It[1..(k - 1)], args[k])
  <2>1. It[{}] = b
    BY <1>6 DEF Tbl
  <2>2. ASSUME NEW k \in 1..n PROVE It[1..k] = ArgStep(program, It[1..(k - 1)], args[k])
    <3>1. /\ 1..k # {} /\ Max(1..k) = k /\ (1..k) \ {k} = 1..(k - 1) /\ 1..k \in SUBSET (1..n)
      BY <1>1, PrefixTaken
    <3>2. It[1..k] = ArgStep(program, It[(1..k) \ {Max(1..k)}], args[Max(1..k)])
      BY <1>1, <1>6, <3>1 DEF Tbl
    <3>. QED
      BY <3>1, <3>2
  <2>. QED
    BY <2>1, <2>2
<1>8. \A k \in 1..n, a \in ArgState : g[k][a] = ArgStep(program, a, args[k])
  OBVIOUS
<1>. HIDE DEF g
<1>9. GoesBy(It, ArgState, b, g, n)
  BY <1>7, <1>8 DEF GoesBy
<1>10. h \in [0..n -> ArgState] /\ StepsFrom(h, b, g, n)
  BY <1>1, <1>3, <1>9, FoldGoes
<1>11. h[n] = It[DOMAIN args]
  BY <1>1
<1>12. \A k \in 1..n : h[k] = ArgStep(program, h[k - 1], args[k])
  <2>1. \A k \in 1..n : k - 1 \in 0..n
    BY <1>1
  <2>. HIDE DEF h
  <2>. QED
    BY <1>8, <1>10, <2>1 DEF StepsFrom
<1>. HIDE DEF h
<1>13. h[0].files = <<>> /\ (h[0].pattern <=> program # "grep") /\ ~h[0].ended /\ ~h[0].value
  <2>1. h[0] = b
    BY <1>10 DEF StepsFrom
  <2>2. b.files = <<>> /\ (b.pattern <=> program # "grep") /\ ~b.ended /\ ~b.value
    BY DEF b, Known
  <2>. QED
    BY <2>1, <2>2
<1>. QED
  BY <1>2, <1>10, <1>11, <1>12, <1>13 DEF ArgsGoBy, n

(* What an argument adds to it. *)
LEMMA ArgSteps ==
    ASSUME NEW program, NEW a \in ArgState, NEW w
    PROVE  LET b == ArgStep(program, a, w)
           IN  /\ a.value => /\ b.files = a.files /\ (b.pattern <=> a.pattern)
                             /\ (b.ended <=> a.ended) /\ ~b.value
               /\ ~a.value /\ ~a.ended /\ IsFlag(w)
                    => /\ b.files = a.files /\ (b.ended <=> w.text = "--")
                       /\ (b.pattern <=> a.pattern \/ (program = "grep" /\ w.text = "-e"))
                       /\ (b.value <=> program = "grep" /\ w.text \in {"-e", "-A"})
               /\ ~a.value /\ (a.ended \/ ~IsFlag(w))
                    => /\ b.pattern /\ (b.ended <=> a.ended) /\ ~b.value
                       /\ b.files = IF a.pattern /\ Concrete(w) THEN Append(a.files, w.unit) ELSE a.files
<1>. DEFINE b == ArgStep(program, a, w)
<1>1. ASSUME a.value
      PROVE  /\ b.files = a.files /\ (b.pattern <=> a.pattern) /\ (b.ended <=> a.ended) /\ ~b.value
  BY <1>1 DEF ArgStep, ArgState
<1>2. ASSUME ~a.value, ~a.ended, IsFlag(w)
      PROVE  /\ b.files = a.files /\ (b.ended <=> w.text = "--")
             /\ (b.pattern <=> a.pattern \/ (program = "grep" /\ w.text = "-e"))
             /\ (b.value <=> program = "grep" /\ w.text \in {"-e", "-A"})
  BY <1>2 DEF ArgStep, ArgState, EndsOptions
<1>3. ASSUME ~a.value, a.ended \/ ~IsFlag(w)
      PROVE  /\ b.pattern /\ (b.ended <=> a.ended) /\ ~b.value
             /\ b.files = IF a.pattern /\ Concrete(w) THEN Append(a.files, w.unit) ELSE a.files
  BY <1>3 DEF ArgStep, ArgState
<1>. QED
  BY <1>1, <1>2, <1>3

-----------------------------------------------------------------------------
(* A command unit by unit                                                  *)

Programs == {"grep", "cat", "make"}

\* Whether the options end with the first k units, the pattern is among them, and which of
\* them are files.
EndedBy(u, k) == \E j \in 1..k : u[j].as = "end"
PatternBy(program, u, k) == program # "grep" \/ \E j \in 1..k : u[j].as \in {"pattern", "operand"}
FilesBy(program, u, k) ==
    {j \in 1..k : u[j].as = "operand" /\ u[j].text # "glob" /\ PatternBy(program, u, j - 1)}

\* f has the members of S in their order.
ListsOf(f, S) == f \in Seq(Nat) /\ Range(f) = S /\ \A i, j \in DOMAIN f : i < j => f[i] < f[j]

LEMMA ListsMore ==
    ASSUME NEW f, NEW k \in Nat \ {0}, NEW S \in SUBSET (1..(k - 1)), ListsOf(f, S)
    PROVE  ListsOf(Append(f, k), S \cup {k})
<1>1. f \in Seq(Nat) /\ k \in Nat /\ Append(f, k) \in Seq(Nat)
  BY DEF ListsOf
<1>2. /\ DOMAIN f = 1..Len(f) /\ Len(f) \in Nat /\ DOMAIN Append(f, k) = 1..(Len(f) + 1)
      /\ Append(f, k)[Len(f) + 1] = k /\ \A i \in DOMAIN f : Append(f, k)[i] = f[i]
  BY <1>1
<1>3. \A i \in DOMAIN f : f[i] \in S /\ f[i] \in Nat /\ f[i] < k
  BY <1>1 DEF ListsOf, Range
<1>4. Range(Append(f, k)) = S \cup {k}
  <2>1. Range(f) = S
    BY DEF ListsOf
  <2>2. DOMAIN Append(f, k) = DOMAIN f \cup {Len(f) + 1}
    BY <1>2
  <2>. HIDE DEF ListsOf
  <2>. QED
    BY <1>2, <2>1, <2>2 DEF Range
<1>5. ASSUME NEW i \in DOMAIN Append(f, k), NEW j \in DOMAIN Append(f, k), i < j
      PROVE  Append(f, k)[i] < Append(f, k)[j]
  <2>1. i \in DOMAIN f
    BY <1>2, <1>5
  <2>2. CASE j \in DOMAIN f
    BY <1>2, <1>5, <2>1, <2>2 DEF ListsOf
  <2>3. CASE j = Len(f) + 1
    BY <1>2, <1>3, <2>1, <2>3
  <2>. QED
    BY <1>2, <2>2, <2>3
<1>. QED
  BY <1>1, <1>4, <1>5 DEF ListsOf

LEMMA UnitsBy ==
    ASSUME NEW program \in Programs, NEW u \in Seq(Units), NEW k \in 1..Len(u)
    PROVE  /\ EndedBy(u, k) \in BOOLEAN /\ PatternBy(program, u, k) \in BOOLEAN
           /\ EndedBy(u, k) <=> EndedBy(u, k - 1) \/ u[k].as = "end"
           /\ PatternBy(program, u, k)
                <=> PatternBy(program, u, k - 1) \/ u[k].as \in {"pattern", "operand"}
           /\ FilesBy(program, u, k - 1) \in SUBSET (1..(k - 1))
           /\ FilesBy(program, u, k)
                = FilesBy(program, u, k - 1)
                    \cup IF u[k].as = "operand" /\ u[k].text # "glob" /\ PatternBy(program, u, k - 1)
                         THEN {k} ELSE {}
<1>1. k \in Nat \ {0} /\ 1..k = 1..(k - 1) \cup {k} /\ k \notin 1..(k - 1)
  OBVIOUS
<1>2. EndedBy(u, k) \in BOOLEAN /\ PatternBy(program, u, k) \in BOOLEAN
  BY DEF EndedBy, PatternBy
<1>3. EndedBy(u, k) <=> EndedBy(u, k - 1) \/ u[k].as = "end"
  BY <1>1 DEF EndedBy
<1>4. PatternBy(program, u, k) <=> PatternBy(program, u, k - 1) \/ u[k].as \in {"pattern", "operand"}
  BY <1>1 DEF PatternBy
<1>5. FilesBy(program, u, k - 1) \in SUBSET (1..(k - 1))
  BY DEF FilesBy
<1>6. FilesBy(program, u, k)
        = FilesBy(program, u, k - 1)
            \cup IF u[k].as = "operand" /\ u[k].text # "glob" /\ PatternBy(program, u, k - 1)
                 THEN {k} ELSE {}
  BY <1>1 DEF FilesBy
<1>. QED
  BY <1>2, <1>3, <1>4, <1>5, <1>6

LEMMA UnitIs ==
    ASSUME NEW x \in Units
    PROVE  \/ x.as = "switch" /\ x.text = "-l"
           \/ x.as = "value" /\ x.text \in {"file", "-l", "--"}
           \/ x.as = "pattern" /\ x.text \in {"file", "-l", "--"}
           \/ x.as = "end" /\ x.text = "--"
           \/ x.as = "operand" /\ x.text \in {"file", "glob", "-l"}
  BY DEF Units, UnitOf

LEMMA FlagIs ==
    ASSUME NEW x \in Texts, NEW n \in Nat
    PROVE  /\ IsFlag(Word(x, n)) <=> x \in {"-l", "-A", "-e", "--"}
           /\ Concrete(Word(x, n)) <=> x # "glob"
  BY WordIs DEF IsFlag, Concrete

\* What is known when the first k units of a command have been read as meant.
ReadAs(a, program, u, k) ==
    /\ ListsOf(a.files, FilesBy(program, u, k)) /\ ~a.value
    /\ (a.pattern <=> PatternBy(program, u, k)) /\ (a.ended <=> EndedBy(u, k))

(* A unit is read as it is meant. *)
LEMMA UnitIsRead ==
    ASSUME NEW program \in Programs, NEW u \in Seq(Units), Meant(program, u), NEW k \in 1..Len(u),
           NEW args \in Seq(AToken), NEW h \in [0..Len(args) -> ArgState],
           ArgsGoBy(h, program, args), NEW m \in Nat, m + Len(UnitTokens(u, k)) <= Len(args),
           \A i \in 1..Len(UnitTokens(u, k)) : args[m + i] = UnitTokens(u, k)[i],
           ReadAs(h[m], program, u, k - 1)
    PROVE  ReadAs(h[m + Len(UnitTokens(u, k))], program, u, k)
<1>. DEFINE p == PatternBy(program, u, k - 1)
            e == EndedBy(u, k - 1)
            S == FilesBy(program, u, k - 1)
            toks == UnitTokens(u, k)
            as == u[k].as
            text == u[k].text
            a == h[m]
            c == h[m + Len(toks)]
<1>1. ListsOf(a.files, S) /\ ~a.value /\ (a.pattern <=> p) /\ (a.ended <=> e)
  BY DEF ReadAs
<1>3. /\ EndedBy(u, k) <=> e \/ as = "end"
      /\ PatternBy(program, u, k) <=> p \/ as \in {"pattern", "operand"}
      /\ EndedBy(u, k) \in BOOLEAN /\ PatternBy(program, u, k) \in BOOLEAN
      /\ S \in SUBSET (1..(k - 1))
      /\ FilesBy(program, u, k) = S \cup IF as = "operand" /\ text # "glob" /\ p THEN {k} ELSE {}
  BY UnitsBy
<1>4. /\ e => as = "operand"
      /\ ~e => ~(as = "operand" /\ text = "-l")
      /\ program # "grep" => as \in {"switch", "end", "operand"}
  BY DEF Meant, EndedBy
<1>5. u[k] \in Units
  OBVIOUS
<1>6. \/ as = "switch" /\ text = "-l"
      \/ as = "value" /\ text \in {"file", "-l", "--"}
      \/ as = "pattern" /\ text \in {"file", "-l", "--"}
      \/ as = "end" /\ text = "--"
      \/ as = "operand" /\ text \in {"file", "glob", "-l"}
  BY <1>5, UnitIs
<1>7. k \in Nat \ {0} /\ text \in Texts
  BY <1>6 DEF Texts
<1>8. ASSUME NEW i \in 1..Len(toks), Len(toks) \in Nat
      PROVE  h[m + i] = ArgStep(program, h[m + (i - 1)], toks[i])
  <2>1. m + i \in 1..Len(args) /\ args[m + i] = toks[i] /\ (m + i) - 1 = m + (i - 1)
    BY <1>8
  <2>. HIDE DEF toks
  <2>2. h[m + i] = ArgStep(program, h[(m + i) - 1], args[m + i])
    BY <2>1 DEF ArgsGoBy
  <2>. QED
    BY <2>1, <2>2
<1>9. \A i \in 0..Len(toks) : Len(toks) \in Nat => h[m + i] \in ArgState
  <2>1. \A i \in 0..Len(toks) : Len(toks) \in Nat => m + i \in 0..Len(args)
    OBVIOUS
  <2>. HIDE DEF toks
  <2>. QED
    BY <2>1
<1>10. ASSUME as \notin {"value", "pattern"}
       PROVE  c = ArgStep(program, a, Word(text, k)) /\ a \in ArgState
  <2>2. toks = <<Word(text, k)>>
    BY <1>10 DEF UnitTokens
  <2>. HIDE DEF toks
  <2>3. /\ Len(toks) = 1 /\ toks[1] = Word(text, k) /\ 1 \in 1..Len(toks) /\ m + (1 - 1) = m
        /\ 0 \in 0..Len(toks) /\ m + 0 = m
    BY <2>2
  <2>4. h[m + 1] = ArgStep(program, h[m + (1 - 1)], toks[1])
    BY <1>8, <2>3
  <2>5. h[m + 0] \in ArgState
    BY <1>9, <2>3
  <2>. QED
    BY <2>3, <2>4, <2>5
<1>11. ASSUME NEW x \in Texts, as \in {"value", "pattern"}, x = IF as = "value" THEN "-A" ELSE "-e"
       PROVE  \E q \in ArgState : /\ q = ArgStep(program, a, Word(x, 0))
                                  /\ c = ArgStep(program, q, Word(text, 0)) /\ a \in ArgState
  <2>2. toks = <<Word(x, 0), Word(text, 0)>>
    BY <1>11 DEF UnitTokens
  <2>. HIDE DEF toks
  <2>3. /\ Len(toks) = 2 /\ toks[1] = Word(x, 0) /\ toks[2] = Word(text, 0)
        /\ 1 \in 1..Len(toks) /\ 2 \in 1..Len(toks) /\ m + (1 - 1) = m /\ m + (2 - 1) = m + 1
        /\ 0 \in 0..Len(toks) /\ 1 \in 0..Len(toks) /\ m + 0 = m
    BY <2>2
  <2>4. h[m + 1] = ArgStep(program, h[m + (1 - 1)], toks[1])
    BY <1>8, <2>3
  <2>5. h[m + 2] = ArgStep(program, h[m + (2 - 1)], toks[2])
    BY <1>8, <2>3
  <2>6. h[m + 0] \in ArgState /\ h[m + 1] \in ArgState
    BY <1>9, <2>3
  <2>. QED
    BY <2>3, <2>4, <2>5, <2>6
<1>. HIDE DEF p, e, S, toks, as, text, a, c
<1>12. SUFFICES ReadAs(c, program, u, k)
  BY DEF c, toks
<1>13. CASE as \in {"switch", "end"}
  <2>1. ~e /\ FilesBy(program, u, k) = S /\ a \in ArgState /\ c = ArgStep(program, a, Word(text, k))
    BY <1>3, <1>4, <1>10, <1>13
  <2>2. text = IF as = "switch" THEN "-l" ELSE "--"
    BY <1>6, <1>13
  <2>3. IsFlag(Word(text, k)) /\ Word(text, k).text = text
    BY <1>7, <2>2, FlagIs, WordIs
  <2>4. /\ c.files = a.files /\ (c.ended <=> text = "--") /\ (c.pattern <=> a.pattern) /\ ~c.value
    <3>1. ~a.value /\ ~a.ended
      BY <1>1, <2>1
    <3>2. /\ c.files = a.files /\ (c.ended <=> Word(text, k).text = "--")
          /\ (c.pattern <=> a.pattern \/ (program = "grep" /\ Word(text, k).text = "-e"))
          /\ (c.value <=> program = "grep" /\ Word(text, k).text \in {"-e", "-A"})
      BY <2>1, <2>3, <3>1, ArgSteps
    <3>3. text # "-e" /\ text # "-A"
      BY <2>2
    <3>. QED
      BY <2>3, <3>2, <3>3
  <2>5. EndedBy(u, k) <=> text = "--"
    BY <1>3, <1>13, <2>1, <2>2
  <2>6. PatternBy(program, u, k) <=> p
    BY <1>3, <1>13
  <2>. QED
    BY <1>1, <2>1, <2>4, <2>5, <2>6 DEF ReadAs
<1>14. CASE as \in {"value", "pattern"}
  <2>1. ~e /\ program = "grep" /\ FilesBy(program, u, k) = S
    BY <1>3, <1>4, <1>14
  <2>2. PICK x \in Texts : x = IF as = "value" THEN "-A" ELSE "-e"
    BY DEF Texts
  <2>3. IsFlag(Word(x, 0)) /\ Word(x, 0).text = x
    BY <2>2, FlagIs, WordIs
  <2>4. PICK q \in ArgState : /\ q = ArgStep(program, a, Word(x, 0))
                             /\ c = ArgStep(program, q, Word(text, 0)) /\ a \in ArgState
    BY <1>11, <1>14, <2>2
  <2>5. /\ q.files = a.files /\ ~q.ended /\ (q.pattern <=> a.pattern \/ as = "pattern") /\ q.value
    <3>1. ~a.value /\ ~a.ended
      BY <1>1, <2>1
    <3>2. /\ q.files = a.files /\ (q.ended <=> Word(x, 0).text = "--")
          /\ (q.pattern <=> a.pattern \/ (program = "grep" /\ Word(x, 0).text = "-e"))
          /\ (q.value <=> program = "grep" /\ Word(x, 0).text \in {"-e", "-A"})
      BY <2>3, <2>4, <3>1, ArgSteps
    <3>3. x # "--" /\ x \in {"-e", "-A"} /\ (x = "-e" <=> as = "pattern")
      BY <1>14, <2>2
    <3>. QED
      BY <2>1, <2>3, <3>2, <3>3
  <2>6. c.files = q.files /\ (c.pattern <=> q.pattern) /\ (c.ended <=> q.ended) /\ ~c.value
    BY <2>4, <2>5, ArgSteps
  <2>7. ~EndedBy(u, k) /\ (PatternBy(program, u, k) <=> p \/ as = "pattern")
    BY <1>3, <1>14, <2>1
  <2>. QED
    BY <1>1, <2>1, <2>5, <2>6, <2>7 DEF ReadAs
<1>15. CASE as = "operand"
  <2>1. e \/ ~IsFlag(Word(text, k))
    BY <1>4, <1>6, <1>7, <1>15, FlagIs
  <2>2. a \in ArgState /\ c = ArgStep(program, a, Word(text, k))
    BY <1>10, <1>15
  <2>3. (Concrete(Word(text, k)) <=> text # "glob") /\ Word(text, k).unit = k
    BY <1>7, FlagIs, WordIs
  <2>4. /\ c.pattern /\ (c.ended <=> a.ended) /\ ~c.value
        /\ c.files = IF a.pattern /\ text # "glob" THEN Append(a.files, k) ELSE a.files
    BY <1>1, <2>1, <2>2, <2>3, ArgSteps
  <2>5. ListsOf(c.files, FilesBy(program, u, k))
    <3>1. CASE p /\ text # "glob"
      <4>1. FilesBy(program, u, k) = S \cup {k} /\ c.files = Append(a.files, k)
        BY <1>1, <1>3, <1>15, <2>4, <3>1
      <4>2. ListsOf(Append(a.files, k), S \cup {k})
        BY <1>1, <1>3, <1>7, ListsMore
      <4>. QED
        BY <4>1, <4>2
    <3>2. CASE ~(p /\ text # "glob")
      <4>1. FilesBy(program, u, k) = S /\ c.files = a.files
        BY <1>1, <1>3, <2>4, <3>2
      <4>. QED
        BY <1>1, <4>1
    <3>. QED
      BY <3>1, <3>2
  <2>6. PatternBy(program, u, k) /\ (EndedBy(u, k) <=> e)
    BY <1>3, <1>15
  <2>. QED
    BY <1>1, <2>4, <2>5, <2>6 DEF ReadAs
<1>. QED
  BY <1>6, <1>13, <1>14, <1>15

LEMMA UnitTokensAre ==
    ASSUME NEW u \in Seq(Units)
    PROVE  /\ TokensOfUnits(u) \in Seq(Seq(PlainToken)) /\ Len(TokensOfUnits(u)) = Len(u)
           /\ \A i \in 1..Len(u) : TokensOfUnits(u)[i] = UnitTokens(u, i)
<1>1. ASSUME NEW i \in 1..Len(u) PROVE UnitTokens(u, i) \in Seq(PlainToken)
  <2>1. u[i] \in Units
    OBVIOUS
  <2>2. u[i].text \in Texts /\ "-A" \in Texts /\ "-e" \in Texts /\ i \in Nat /\ 0 \in Nat
    BY <2>1, UnitIs DEF Texts
  <2>3. /\ Word("-A", 0) \in PlainToken /\ Word("-e", 0) \in PlainToken
        /\ Word(u[i].text, 0) \in PlainToken /\ Word(u[i].text, i) \in PlainToken
    BY <2>2, WordIs
  <2>4. \A x, y \in PlainToken : <<x, y>> \in Seq(PlainToken) /\ <<x>> \in Seq(PlainToken)
    OBVIOUS
  <2>. QED
    BY <2>3, <2>4 DEF UnitTokens
<1>2. DOMAIN u = 1..Len(u) /\ Len(u) \in Nat
  OBVIOUS
<1>3. TokensOfUnits(u) \in [1..Len(u) -> Seq(PlainToken)]
  BY <1>1, <1>2 DEF TokensOfUnits
<1>. QED
  BY <1>2, <1>3 DEF TokensOfUnits

LEMMA PlainIs ==
    PlainToken \subseteq AToken /\ \A t \in PlainToken : ~t.op
<1>1. \A t \in PlainToken : ~t.op
  BY DEF PlainToken
<1>2. PlainToken \subseteq AToken
  BY DEF PlainToken, AToken
<1>. QED
  BY <1>1, <1>2

(* The units of a command are read as they are meant, one after the other. *)
LEMMA UnitsAreRead ==
    ASSUME NEW program \in Programs, NEW u \in Seq(Units), Meant(program, u),
           NEW fl \in [0..Len(u) -> Seq(PlainToken)], Flattens(fl, TokensOfUnits(u)),
           NEW args \in Seq(AToken), NEW h \in [0..Len(args) -> ArgState],
           ArgsGoBy(h, program, args), Begins(fl[Len(u)], args)
    PROVE  ReadAs(h[Len(fl[Len(u)])], program, u, Len(u))
<1>. DEFINE n == Len(u)
            Good(k) == ReadAs(h[Len(fl[k])], program, u, k)
            Bad == {k \in 0..n : ~Good(k)}
<1>1. n \in Nat /\ Len(args) \in Nat /\ \A k \in 0..n : fl[k] \in Seq(PlainToken) /\ Len(fl[k]) \in Nat
  <2>1. n \in Nat /\ Len(args) \in Nat
    OBVIOUS
  <2>2. \A k \in 0..n : fl[k] \in Seq(PlainToken)
    OBVIOUS
  <2>3. \A s \in Seq(PlainToken) : Len(s) \in Nat
    OBVIOUS
  <2>. HIDE DEF n
  <2>. QED
    BY <2>1, <2>2, <2>3
<1>2. Good(0)
  <2>1. fl[0] = <<>> /\ Len(fl[0]) = 0
    BY DEF Flattens
  <2>2. FilesBy(program, u, 0) = {} /\ ~EndedBy(u, 0) /\ (PatternBy(program, u, 0) <=> program # "grep")
    BY DEF FilesBy, EndedBy, PatternBy
  <2>3. ListsOf(<<>>, {})
    BY DEF ListsOf, Range
  <2>4. h[0].files = <<>> /\ (h[0].pattern <=> program # "grep") /\ ~h[0].ended /\ ~h[0].value
    BY DEF ArgsGoBy
  <2>. QED
    BY <2>1, <2>2, <2>3, <2>4 DEF ReadAs
<1>3. \A k \in 0..n : Begins(fl[k], args)
  <2>1. TokensOfUnits(u) \in Seq(Seq(PlainToken)) /\ Len(TokensOfUnits(u)) = n
    BY UnitTokensAre
  <2>2. \A k \in 0..n : Begins(fl[k], FlattenSeq(TokensOfUnits(u)))
    BY <2>1, PartsArePlaced
  <2>3. fl[n] = FlattenSeq(TokensOfUnits(u))
    BY <2>1 DEF Flattens
  <2>4. n \in 0..n
    BY <1>1
  <2>. HIDE DEF n
  <2>. QED
    BY <1>1, <2>2, <2>3, <2>4 DEF Begins, n
<1>4. ASSUME NEW k \in 1..n, Good(k - 1) PROVE Good(k)
  <2>. DEFINE toks == UnitTokens(u, k)
              m == Len(fl[k - 1])
  <2>1. fl[k] = fl[k - 1] \o toks /\ toks \in Seq(PlainToken) /\ k - 1 \in 0..n /\ k \in 0..n
    <3>1. TokensOfUnits(u)[k] = toks /\ k \in 1..Len(TokensOfUnits(u))
          /\ TokensOfUnits(u) \in Seq(Seq(PlainToken))
      BY UnitTokensAre
    <3>2. fl[k] = fl[k - 1] \o TokensOfUnits(u)[k]
      BY <3>1 DEF Flattens
    <3>3. TokensOfUnits(u)[k] \in Seq(PlainToken)
      BY <3>1
    <3>4. k - 1 \in 0..n /\ k \in 0..n
      BY <1>1
    <3>. HIDE DEF toks
    <3>. QED
      BY <3>1, <3>2, <3>3, <3>4
  <2>. HIDE DEF toks
  <2>2. fl[k - 1] \in Seq(PlainToken) /\ m \in Nat /\ Len(toks) \in Nat
    BY <1>1, <2>1
  <2>3. Len(fl[k]) = m + Len(toks) /\ \A i \in 1..Len(toks) : fl[k][m + i] = toks[i]
    BY <2>1, <2>2
  <2>4. Len(fl[k]) <= Len(args) /\ \A i \in 1..Len(fl[k]) : args[i] = fl[k][i]
    BY <1>3, <2>1 DEF Begins
  <2>. HIDE DEF m
  <2>5. m + Len(toks) <= Len(args) /\ \A i \in 1..Len(toks) : args[m + i] = toks[i]
    <3>1. \A i \in 1..Len(toks) : m + i \in 1..Len(fl[k])
      BY <2>2, <2>3
    <3>. QED
      BY <2>3, <2>4, <3>1
  <2>6. ReadAs(h[m], program, u, k - 1)
    BY <1>4 DEF m
  <2>7. ReadAs(h[m + Len(toks)], program, u, k)
    <3>. DEFINE mm == m
    <3>. QED
      BY <2>2, <2>5, <2>6, UnitIsRead DEF toks
  <2>. QED
    BY <2>3, <2>7
<1>5. Bad = {}
  <2>. HIDE DEF Good
  <2>1. SUFFICES ASSUME Bad # {} PROVE FALSE
    OBVIOUS
  <2>2. PICK k \in Bad : \A j \in Bad : k <= j
    <3>1. Bad \in SUBSET Nat
      BY <1>1
    <3>. HIDE DEF Bad
    <3>. QED
      BY <2>1, <3>1, LeastOf
  <2>3. k \in 0..n /\ ~Good(k)
    OBVIOUS
  <2>4. k \in 1..n /\ k - 1 \in 0..n /\ ~(k <= k - 1)
    BY <1>1, <1>2, <2>3
  <2>5. k - 1 \notin Bad
    <3>. HIDE DEF Bad
    <3>. QED
      BY <2>2, <2>4
  <2>6. Good(k - 1)
    BY <2>4, <2>5
  <2>. QED
    BY <1>4, <2>3, <2>4, <2>6
<1>6. n \in 0..n /\ n \notin Bad
  BY <1>1, <1>5
<1>. QED
  BY <1>6

(* What is read of a command's arguments are its files, and the target of its output. *)
LEMMA ArgsAreRead ==
    ASSUME NEW program \in Programs, NEW u \in Seq(Units), Meant(program, u), NEW kind \in Kinds
    PROVE  LET flat == FlattenSeq(TokensOfUnits(u))
               read == ReadCommandArgs(program, flat \o Target(kind, Len(u) + 1))
           IN  /\ flat \in Seq(PlainToken)
               /\ ListsOf(read, FilesBy(program, u, Len(u))
                                  \cup IF kind = "output" /\ PatternBy(program, u, Len(u))
                                       THEN {Len(u) + 1} ELSE {})
<1>. DEFINE n == Len(u)
            ss == TokensOfUnits(u)
            flat == FlattenSeq(ss)
            goal == Target(kind, n + 1)
            args == flat \o goal
<1>1. ss \in Seq(Seq(PlainToken)) /\ Len(ss) = n /\ n \in Nat
  BY UnitTokensAre
<1>2. PICK fl \in [0..n -> Seq(PlainToken)] : Flattens(fl, ss)
  <2>. HIDE DEF ss, n
  <2>. QED
    BY <1>1, FlattenGoes
<1>3. flat = fl[n] /\ flat \in Seq(PlainToken)
  <2>1. n \in 0..n /\ fl[n] = FlattenSeq(ss)
    BY <1>1, <1>2 DEF Flattens
  <2>. HIDE DEF n, ss
  <2>. QED
    BY <2>1
<1>4. "file" \in Texts /\ n + 1 \in Nat
  BY <1>1 DEF Texts
<1>. DEFINE w == Word("file", n + 1)
<1>5. w \in AToken /\ ~IsFlag(w) /\ Concrete(w) /\ w.unit = n + 1
  BY <1>4, WordIs, FlagIs
<1>. HIDE DEF flat, n, w
<1>6. flat \in Seq(AToken) /\ Len(flat) \in Nat
  BY <1>3, PlainIs
<1>7. CASE kind # "output"
  <2>1. args = flat /\ Begins(flat, flat)
    BY <1>6, <1>7 DEF Target, Begins
  <2>2. PICK h \in [0..Len(flat) -> ArgState] : ArgsGoBy(h, program, flat)
    BY <1>6, ArgsGo
  <2>3. ReadAs(h[Len(flat)], program, u, n)
    BY <1>2, <1>3, <1>6, <2>1, <2>2, UnitsAreRead DEF n
  <2>4. h[Len(flat)].files = ReadCommandArgs(program, flat)
    BY <2>2 DEF ArgsGoBy
  <2>5. ListsOf(ReadCommandArgs(program, flat), FilesBy(program, u, n))
    BY <2>3, <2>4 DEF ReadAs
  <2>6. flat \o Target(kind, n + 1) = flat
    BY <2>1
  <2>. QED
    BY <1>3, <1>7, <2>5, <2>6 DEF n, flat
<1>8. CASE kind = "output"
  <2>1. goal = <<w>>
    BY <1>8 DEF Target, w
  <2>. DEFINE m == Len(flat)
  <2>2. /\ args \in Seq(AToken) /\ Len(args) = m + 1 /\ args[m + 1] = w /\ Begins(flat, args)
        /\ m + 1 \in 1..Len(args) /\ m \in 0..Len(args) /\ (m + 1) - 1 = m
    <3>. HIDE DEF goal
    <3>. QED
      BY <1>5, <1>6, <2>1 DEF Begins
  <2>. HIDE DEF args
  <2>3. PICK h \in [0..Len(args) -> ArgState] : ArgsGoBy(h, program, args)
    BY <2>2, ArgsGo
  <2>4. ReadAs(h[m], program, u, n)
    BY <1>2, <1>3, <2>2, <2>3, UnitsAreRead DEF n
  <2>5. h[m + 1] = ArgStep(program, h[m], w) /\ h[m + 1].files = ReadCommandArgs(program, args)
        /\ h[m] \in ArgState
    BY <2>2, <2>3 DEF ArgsGoBy
  <2>6. h[m + 1].files = IF PatternBy(program, u, n) THEN Append(h[m].files, n + 1) ELSE h[m].files
    <3>1. ~h[m].value /\ (h[m].pattern <=> PatternBy(program, u, n))
      BY <2>4 DEF ReadAs
    <3>2. ArgStep(program, h[m], w).files
            = IF h[m].pattern /\ Concrete(w) THEN Append(h[m].files, w.unit) ELSE h[m].files
      <4>1. ASSUME NEW a \in ArgState, ~a.value
            PROVE  ArgStep(program, a, w).files
                     = IF a.pattern /\ Concrete(w) THEN Append(a.files, w.unit) ELSE a.files
        BY <1>5, <4>1, ArgSteps
      <4>. QED
        BY <2>5, <3>1, <4>1
    <3>3. CASE h[m].pattern
      BY <1>5, <2>5, <3>1, <3>2, <3>3
    <3>4. CASE ~h[m].pattern
      BY <1>5, <2>5, <3>1, <3>2, <3>4
    <3>. QED
      BY <3>3, <3>4
  <2>7. ListsOf(h[m].files, FilesBy(program, u, n))
    BY <2>4 DEF ReadAs
  <2>8. ListsOf(Append(h[m].files, n + 1), FilesBy(program, u, n) \cup {n + 1})
    <3>1. FilesBy(program, u, n) \in SUBSET (1..((n + 1) - 1)) /\ n + 1 \in Nat \ {0}
      BY <1>1 DEF FilesBy
    <3>. QED
      BY <2>7, <3>1, ListsMore
  <2>9. ListsOf(ReadCommandArgs(program, args),
                FilesBy(program, u, n) \cup IF PatternBy(program, u, n) THEN {n + 1} ELSE {})
    <3>1. CASE PatternBy(program, u, n)
      BY <2>5, <2>6, <2>8, <3>1
    <3>2. CASE ~PatternBy(program, u, n)
      BY <2>5, <2>6, <2>7, <3>2
    <3>. QED
      BY <3>1, <3>2
  <2>. QED
    BY <1>3, <1>8, <2>9 DEF n, flat, args, ss, goal
<1>. QED
  BY <1>7, <1>8

-----------------------------------------------------------------------------
(* A whole line *)

(* Whatever stands before a program goes, and the program stays. *)
LEMMA WrappingIs ==
    ASSUME NEW prefix \in Wrappings
    PROVE  /\ prefix \in Seq(Texts)
           /\ \A i \in 1..Len(prefix) : \/ prefix[i] \in {"assign", "keyword", "wrapper"}
                                        \/ prefix[i] = "-l" /\ i > 1 /\ prefix[i - 1] = "wrapper"
<1>1. /\ "assign" \in Texts /\ "keyword" \in Texts /\ "wrapper" \in Texts /\ "-l" \in Texts
  BY DEF Texts
<1>2. CASE prefix = <<>>
  BY <1>2
<1>3. CASE prefix = <<"assign">>
  BY <1>1, <1>3
<1>4. CASE prefix = <<"wrapper", "-l">>
  BY <1>1, <1>4
<1>5. CASE prefix = <<"keyword", "wrapper">>
  BY <1>1, <1>5
<1>. QED
  BY <1>2, <1>3, <1>4, <1>5 DEF Wrappings

LEMMA ProgramIsFound ==
    ASSUME NEW prefix \in Wrappings, NEW program \in Programs, NEW rest \in Seq(AToken)
    PROVE  /\ PrefixWords(prefix) \o <<Word(program, 0)>> \in Seq(PlainToken)
           /\ StripWrappers((PrefixWords(prefix) \o <<Word(program, 0)>>) \o rest)
                = <<Word(program, 0)>> \o rest
<1>. DEFINE before == PrefixWords(prefix)
            w == Word(program, 0)
            ws == (before \o <<w>>) \o rest
            m == Len(prefix)
<1>1. /\ prefix \in Seq(Texts)
      /\ \A i \in 1..Len(prefix) : \/ prefix[i] \in {"assign", "keyword", "wrapper"}
                                   \/ prefix[i] = "-l" /\ i > 1 /\ prefix[i - 1] = "wrapper"
  BY WrappingIs
<1>2. m \in Nat /\ DOMAIN prefix = 1..m /\ \A i \in 1..m : prefix[i] \in Texts
  BY <1>1
<1>3. program \in Texts /\ 0 \in Nat
  BY DEF Programs, Texts
<1>4. w \in PlainToken /\ w.text = program
  BY <1>3, WordIs
<1>5. \A i \in 1..m : /\ Word(prefix[i], 0) \in PlainToken /\ Word(prefix[i], 0).text = prefix[i]
                      /\ (prefix[i] = "-l" => IsFlag(Word(prefix[i], 0)))
  BY <1>2, <1>3, WordIs, FlagIs
<1>. HIDE DEF m, w
<1>6. before \in Seq(PlainToken) /\ Len(before) = m /\ \A i \in 1..m : before[i] = Word(prefix[i], 0)
  <2>1. before = [i \in 1..m |-> Word(prefix[i], 0)]
    BY <1>2 DEF PrefixWords
  <2>. HIDE DEF before
  <2>. QED
    BY <1>2, <1>5, <2>1
<1>. HIDE DEF before
<1>7. before \o <<w>> \in Seq(PlainToken) /\ Len(before \o <<w>>) = m + 1
      /\ (before \o <<w>>)[m + 1] = w /\ \A i \in 1..m : (before \o <<w>>)[i] = before[i]
  BY <1>2, <1>4, <1>6
<1>8. before \o <<w>> \in Seq(AToken)
  BY <1>7, PlainIs
<1>9. ws \in Seq(AToken) /\ Len(ws) = m + 1 + Len(rest) /\ Len(rest) \in Nat
      /\ ws[m + 1] = w /\ \A i \in 1..m : ws[i] = Word(prefix[i], 0)
  <2>. DEFINE lead == before \o <<w>>
  <2>. HIDE DEF lead
  <2>1. lead \in Seq(AToken) /\ Len(lead) = m + 1 /\ lead[m + 1] = w
        /\ \A i \in 1..m : lead[i] = before[i]
    BY <1>7, <1>8 DEF lead
  <2>2. lead \o rest \in Seq(AToken) /\ Len(lead \o rest) = m + 1 + Len(rest) /\ Len(rest) \in Nat
        /\ \A i \in 1..(m + 1) : (lead \o rest)[i] = lead[i]
    BY <1>2, <2>1
  <2>. QED
    BY <1>2, <1>6, <2>1, <2>2 DEF lead
<1>10. SubSeq(ws, m + 1, Len(ws)) = <<w>> \o rest
  <2>1. before \in Seq(AToken) /\ w \in AToken
    BY <1>4, <1>6, PlainIs
  <2>2. Len(ws) = m + 1 + Len(rest)
    BY <1>9
  <2>3. SubSeq((before \o <<w>>) \o rest, m + 1, m + 1 + Len(rest)) = <<w>> \o rest
    BY <1>2, <1>6, <2>1
  <2>. QED
    BY <2>2, <2>3
<1>. HIDE DEF ws
<1>11. ~Wraps(ws, m + 1)
  <2>1. ws[m + 1].text \in Programs
    BY <1>4, <1>9
  <2>. QED
    BY <2>1 DEF Wraps, IsFlag, Programs
<1>12. ASSUME NEW i \in 1..m PROVE Wraps(ws, i)
  <2>1. ws[i].text = prefix[i]
    BY <1>5, <1>9
  <2>2. CASE prefix[i] \in {"assign", "keyword", "wrapper"}
    BY <2>1, <2>2 DEF Wraps
  <2>3. CASE prefix[i] = "-l" /\ i > 1 /\ prefix[i - 1] = "wrapper"
    <3>1. i - 1 \in 1..m
      BY <1>2, <2>3
    <3>2. ws[i - 1].text = "wrapper" /\ IsFlag(ws[i])
      BY <1>5, <1>9, <2>3, <3>1
    <3>. QED
      BY <2>3, <3>2 DEF Wraps
  <2>. QED
    BY <1>1, <2>2, <2>3 DEF m
<1>13. StripWrappers(ws) = SubSeq(ws, m + 1, Len(ws))
  <2>1. m + 1 \in 1..Len(ws) /\ 1..((m + 1) - 1) = 1..m
    BY <1>2, <1>9
  <2>. QED
    BY <1>9, <1>11, <1>12, <2>1, StripIs
<1>. QED
  BY <1>7, <1>10, <1>13 DEF ws, w, before

(* What is read of a line are its program's files, and the target of its output. *)
LEMMA LineReads ==
    ASSUME NEW l \in Lines, WellFormed(l)
    PROVE  LET n == Len(l.units)
           IN  /\ l.program = "make" => BashReadFiles(l) = <<>>
               /\ l.program # "make"
                    => ListsOf(BashReadFiles(l),
                               FilesBy(l.program, l.units, n)
                                  \cup IF l.tail = "output" /\ PatternBy(l.program, l.units, n)
                                       THEN {n + 1} ELSE {})
<1>. DEFINE n == Len(l.units)
            u == l.units
            w == Word(l.program, 0)
            flat == FlattenSeq(TokensOfUnits(u))
            goal == Target(l.tail, n + 1)
            lead == PrefixWords(l.prefix) \o <<w>>
            plain == lead \o flat
            found == FilesBy(l.program, u, n)
                       \cup IF l.tail = "output" /\ PatternBy(l.program, u, n) THEN {n + 1} ELSE {}
<1>1. /\ l.prefix \in Wrappings /\ l.program \in Programs /\ u \in Seq(Units) /\ l.tail \in Kinds
      /\ Tokens(l) = plain \o LastTokens(l.tail, n + 1)
  BY LineIs DEF Programs
<1>2. Meant(l.program, u) /\ n \in Nat /\ n + 1 \in Nat
  BY <1>1 DEF WellFormed
<1>3. flat \in Seq(PlainToken) /\ ListsOf(ReadCommandArgs(l.program, flat \o goal), found)
  BY <1>1, <1>2, ArgsAreRead
<1>4. goal \in Seq(AToken)
  <2>1. "file" \in Texts
    BY DEF Texts
  <2>2. Word("file", n + 1) \in AToken
    BY <1>2, <2>1, WordIs
  <2>. QED
    BY <2>2 DEF Target
<1>5. lead \in Seq(PlainToken)
  <2>1. <<>> \in Seq(AToken)
    OBVIOUS
  <2>. QED
    BY <1>1, <2>1, ProgramIsFound
<1>. HIDE DEF flat, goal, lead, found, n, u
<1>6. plain \in Seq(PlainToken)
  BY <1>3, <1>5
<1>7. plain \in Seq(AToken) /\ \A i \in 1..Len(plain) : ~plain[i].op
  BY <1>6, PlainIs
<1>8. CommandWords(Tokens(l)) = plain \o goal
  BY <1>1, <1>2, <1>7, LastWords DEF goal
<1>9. flat \in Seq(AToken) /\ lead \in Seq(AToken)
  BY <1>3, <1>5, PlainIs
<1>10. plain \o goal = lead \o (flat \o goal) /\ flat \o goal \in Seq(AToken)
  BY <1>4, <1>9
<1>11. StripWrappers(CommandWords(Tokens(l))) = <<w>> \o (flat \o goal)
  BY <1>1, <1>8, <1>10, ProgramIsFound DEF lead
<1>12. w \in AToken /\ w.text = l.program
  <2>1. l.program \in Texts /\ 0 \in Nat
    BY <1>1 DEF Programs, Texts
  <2>. QED
    BY <2>1, WordIs
<1>13. Head(<<w>> \o (flat \o goal)) = w /\ Tail(<<w>> \o (flat \o goal)) = flat \o goal
  <2>1. \A s \in Seq(AToken) : Head(<<w>> \o s) = w /\ Tail(<<w>> \o s) = s
    BY <1>12
  <2>. QED
    BY <1>10, <2>1
<1>14. BashReadFiles(l) = IF l.program \in {"grep", "cat"}
                          THEN ReadCommandArgs(l.program, flat \o goal) ELSE <<>>
  BY <1>11, <1>12, <1>13 DEF BashReadFiles
<1>15. l.program = "make" => BashReadFiles(l) = <<>>
  BY <1>14
<1>16. l.program # "make" => ListsOf(BashReadFiles(l), found)
  BY <1>1, <1>3, <1>14 DEF Programs
<1>. QED
  BY <1>15, <1>16 DEF found, n, u

(* Of a command every operand is read, and nothing else: what CommandReadsAreOperands says. *)
LEMMA CommandsRead ==
    ASSUME inquiry \in Lines, WellFormed(inquiry)
    PROVE  CommandReadsAreOperands
<1>. DEFINE units    == inquiry.units
            program  == inquiry.program
            n        == Len(units)
            operands == {i \in DOMAIN units : units[i].as = "operand"}
            patterns == {i \in DOMAIN units : units[i].as = "pattern"}
            pattern  == IF program = "grep" /\ operands # {} /\ patterns = {}
                        THEN {Min(operands)} ELSE {}
            goal     == IF inquiry.tail = "output" THEN {n + 1} ELSE {}
            named    == {i \in operands \ pattern : units[i].text # "glob"} \cup goal
            reads    == BashReadFiles(inquiry)
            by       == FilesBy(program, units, n)
            known    == PatternBy(program, units, n)
<1>1. units \in Seq(Units) /\ program \in Programs
  BY LineIs DEF Programs
<1>2. n \in Nat /\ DOMAIN units = 1..n
  BY <1>1
<1>3. /\ program = "make" => reads = <<>>
      /\ program # "make"
           => ListsOf(reads, by \cup IF inquiry.tail = "output" /\ known THEN {n + 1} ELSE {})
  BY LineReads
<1>4. \A j \in DOMAIN units : j \in 1..n
  BY <1>2
<1>5. by = {j \in 1..n : units[j].as = "operand" /\ units[j].text # "glob"
                          /\ PatternBy(program, units, j - 1)}
  BY DEF FilesBy
<1>6. \A j \in 1..n : PatternBy(program, units, j - 1)
        <=> program # "grep" \/ \E k \in 1..n : k < j /\ units[k].as \in {"pattern", "operand"}
  <2>1. \A j \in 1..n : \A k : k \in 1..(j - 1) <=> k \in 1..n /\ k < j
    BY <1>2
  <2>. HIDE DEF n, units
  <2>. QED
    BY <2>1 DEF PatternBy
<1>7. known <=> program # "grep" \/ \E k \in 1..n : units[k].as \in {"pattern", "operand"}
  BY DEF PatternBy
<1>8. operands \in SUBSET Nat /\ patterns \in SUBSET Nat
      /\ operands = {i \in 1..n : units[i].as = "operand"}
      /\ patterns = {i \in 1..n : units[i].as = "pattern"}
  BY <1>2
<1>. HIDE DEF n, units, program, operands, patterns, reads, by, known
<1>9. operands # {} => Min(operands) \in operands /\ \A j \in operands : Min(operands) <= j
  <2>1. SUFFICES ASSUME operands # {}
                 PROVE  Min(operands) \in operands /\ \A j \in operands : Min(operands) <= j
    OBVIOUS
  <2>2. PICK m \in operands : \A j \in operands : m <= j
    BY <1>8, <2>1, LeastOf
  <2>. QED
    BY <1>8, <2>2, LeastIs
<1>10. \A i, j \in DOMAIN reads : i < j => reads[i] < reads[j]
  <2>1. program = "make" => DOMAIN reads = {}
    BY <1>3
  <2>2. program # "make" => \A i, j \in DOMAIN reads : i < j => reads[i] < reads[j]
    BY <1>3 DEF ListsOf
  <2>. QED
    BY <2>1, <2>2
<1>11. ASSUME program # "make", program = "cat" \/ operands # {}
       PROVE  /\ Range(reads) \subseteq named
              /\ (\A p \in patterns, o \in operands : p < o) => Range(reads) = named
  <2>1. known
    BY <1>7, <1>8, <1>11
  <2>2. Range(reads) = by \cup goal
    <3>1. ListsOf(reads, by \cup goal)
      BY <1>3, <1>11, <2>1
    <3>. QED
      BY <3>1 DEF ListsOf
  <2>3. ASSUME NEW j \in by PROVE j \in operands \ pattern /\ units[j].text # "glob"
    <3>1. j \in 1..n /\ units[j].as = "operand" /\ units[j].text # "glob"
          /\ PatternBy(program, units, j - 1)
      BY <1>5
    <3>2. j \in operands
      BY <1>8, <3>1
    <3>3. SUFFICES ASSUME j \in pattern PROVE FALSE
      BY <3>1, <3>2
    <3>4. program = "grep" /\ operands # {} /\ patterns = {} /\ j = Min(operands)
      BY <3>3
    <3>5. PICK k \in 1..n : k < j /\ units[k].as \in {"pattern", "operand"}
      BY <1>6, <3>1, <3>4
    <3>6. k \in operands
      BY <1>8, <3>4, <3>5
    <3>7. j <= k
      BY <1>9, <3>4, <3>6
    <3>. QED
      BY <3>1, <3>5, <3>7
  <2>4. ASSUME \A p \in patterns, o \in operands : p < o,
               NEW j \in operands \ pattern, units[j].text # "glob"
        PROVE  j \in by
    <3>1. j \in 1..n /\ units[j].as = "operand" /\ j \in operands
      BY <1>8
    <3>2. SUFFICES ASSUME program = "grep"
                   PROVE  \E k \in 1..n : k < j /\ units[k].as \in {"pattern", "operand"}
      BY <1>5, <1>6, <2>4, <3>1
    <3>3. CASE patterns = {}
      <4>1. pattern = {Min(operands)} /\ operands # {}
        BY <3>1, <3>2, <3>3
      <4>2. Min(operands) \in operands /\ Min(operands) <= j /\ Min(operands) # j
        BY <1>9, <2>4, <3>1, <4>1
      <4>3. Min(operands) \in 1..n /\ units[Min(operands)].as = "operand"
        BY <1>8, <4>2
      <4>4. Min(operands) < j
        BY <3>1, <4>2, <4>3
      <4>. QED
        BY <4>3, <4>4
    <3>4. CASE patterns # {}
      <4>1. PICK p \in patterns : TRUE
        BY <3>4
      <4>2. p < j /\ p \in 1..n /\ units[p].as = "pattern"
        BY <1>8, <2>4, <3>1, <4>1
      <4>. QED
        BY <4>2
    <3>. QED
      BY <3>3, <3>4
  <2>. QED
    BY <2>2, <2>3, <2>4
<1>. QED
  BY <1>3, <1>10, <1>11 DEF CommandReadsAreOperands, n, units, program, operands, patterns, reads

-----------------------------------------------------------------------------
(* All of an analysis                                                      *)

\* What the retrieval metrics may be asked; without a path there is no score.
AskedRight ==
    /\ inquiry.of = "rollup" => inquiry \in Rollups
    /\ inquiry.of = "line" => inquiry \in Lines /\ WellFormed(inquiry)
    /\ inquiry.of = "search" /\ HasSignal(inquiry) => inquiry \in Searches

(* What confirmatory inference reports is what its method promises: adjusted p-values by    *)
(* closed testing, replicates of the study's own mix of tasks, intervals that nest, and     *)
(* indices without a bias (_holm_adjust_raw, _stratified_resample_indices, _percentile,     *)
(* _Sha256IndexStream).                                                                     *)
LEMMA InferenceHolds ==
    ASSUME question \in Questions
    PROVE  InferenceIsExact
<1>1. HolmIsClosedTesting
  <2>1. question.of = "family" => question.p \in PValues
    BY DEF Questions, PValues
  <2>. QED
    BY <2>1, HolmIsClosed DEF HolmIsClosedTesting
<1>2. StrataKeepTheirSizes
  <2>1. question.of = "strata" => /\ question.types \in [Sample -> TaskTypes]
                                 /\ question.delta \in [Sample -> -Unit..Unit]
    BY DEF Questions
  <2>. QED
    BY <2>1, StrataKeep DEF StrataKeepTheirSizes
<1>3. IndexIsUnbiased
  <2>1. question.of = "index" => question.bound \in 1..Modulus
    BY DEF Questions
  <2>. QED
    BY <2>1, WordsPerIndex DEF IndexIsUnbiased
<1>. QED
  BY <1>1, <1>2, <1>3, IntervalsNested DEF InferenceIsExact

(* The retrieval metrics report what the agents of the arms have read: of a command every   *)
(* operand and nothing else, of a trace the required files wherever they were found, and of *)
(* the arms the tasks of all (_read_command_args, _align_retrieved_to_required,             *)
(* mean_average_precision, aggregate_retrieval).                                            *)
LEMMA RetrievalHolds ==
    ASSUME AskedRight
    PROVE  RetrievalIsExact
<1>1. CommandReadsAreOperands
  <2>1. CASE inquiry.of = "line"
    BY <2>1, CommandsRead DEF AskedRight
  <2>2. CASE inquiry.of # "line"
    BY <2>2 DEF CommandReadsAreOperands
  <2>. QED
    BY <2>1, <2>2
<1>2. RankScoresHold
  <2>1. CASE inquiry.of = "search" /\ HasSignal(inquiry)
    BY <2>1, RanksHold DEF AskedRight
  <2>2. CASE ~(inquiry.of = "search" /\ HasSignal(inquiry))
    BY <2>2 DEF RankScoresHold
  <2>. QED
    BY <2>1, <2>2
<1>3. BetterArmLeads
  <2>1. CASE inquiry.of = "rollup"
    BY <2>1, BetterLeads DEF AskedRight
  <2>2. CASE inquiry.of # "rollup"
    BY <2>2 DEF BetterArmLeads
  <2>. QED
    BY <2>1, <2>2
<1>. QED
  BY <1>1, <1>2, <1>3 DEF RetrievalIsExact
=================================================================================
