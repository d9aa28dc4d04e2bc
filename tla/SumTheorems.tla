----------------------------- MODULE SumTheorems ------------------------------
(***************************************************************************)
(* Sums over finite sets, as MapThenSumSet of FiniteSetsExt computes them, *)
(* for sets of any size: a sum takes its members in any order, grows with  *)
(* its set and its terms, and depends on its terms alone. And folds to the *)
(* left over sequences of any length, as FoldLeft of SequencesExt computes *)
(* them: they go step by step, from the first member to the last. A fold   *)
(* is a table of what is made of all subsets; what is said of it is proved *)
(* from its smallest counterexample, a set of fewest members.              *)
(***************************************************************************)
EXTENDS Sequences, Integers, FiniteSets, FiniteSetsExt, FiniteSetTheorems, WellFoundedInduction, TLAPS

(* There is a least number in every set of numbers that is not empty. *)
LEMMA LeastOf ==
    ASSUME NEW S \in SUBSET Nat, S # {}
    PROVE  \E x \in S : \A y \in S : x <= y
<1>. DEFINE R == OpToRel(<, Nat)
<1>1. PICK x \in S : \A y \in S : ~(<<y, x>> \in R)
  BY WFMin, NatLessThanWellFounded, Zenon
<1>2. \A m, n \in Nat : m < n => <<m, n>> \in R
  BY DEF OpToRel
<1>. HIDE DEF R
<1>3. \A y \in S : ~(y < x)
  BY <1>1, <1>2
<1>. QED
  BY <1>1, <1>3

(* Where there is at most one, two are the same. *)
LEMMA AtMostOne ==
    ASSUME NEW S, IsFiniteSet(S), Cardinality(S) <= 1, NEW a \in S, NEW b \in S
    PROVE  a = b
<1>. SUFFICES ASSUME a # b PROVE FALSE
  OBVIOUS
<1>1. Cardinality({a}) = 1 /\ IsFiniteSet({a})
  BY FS_Singleton
<1>2. Cardinality({a} \cup {b}) = 2
  <2>1. b \notin {a}
    OBVIOUS
  <2>2. Cardinality({a} \cup {b}) = Cardinality({a}) + 1
    BY <1>1, <2>1, FS_AddElement, Zenon
  <2>. QED
    BY <1>1, <2>2
<1>3. {a} \cup {b} \in SUBSET S
  OBVIOUS
<1>4. Cardinality({a} \cup {b}) <= Cardinality(S) /\ Cardinality(S) \in Nat
  BY <1>3, FS_Subset, FS_CardinalityType
<1>. QED
  BY <1>2, <1>4

(* The member a fold takes next, and the table of all partial sums it makes. *)
First(s) == CHOOSE y \in s : TRUE

Tabulates(g, f, S) ==
    g = [s \in SUBSET S |-> IF s = {} THEN 0 ELSE f[First(s)] + g[s \ {First(s)}]]

SumOf(f, S) == MapThenSumSet(LAMBDA x : f[x], S)

(* What is chosen from a set is in it. *)
LEMMA FirstIsIn == ASSUME NEW s, s # {} PROVE First(s) \in s
  BY DEF First

(* A set has members to take away until it is empty. *)
LEMMA OneLess ==
    ASSUME NEW S, IsFiniteSet(S), NEW s \in SUBSET S, NEW x \in s
    PROVE  /\ IsFiniteSet(s) /\ s \ {x} \in SUBSET S
           /\ Cardinality(s) \in Nat /\ Cardinality(s \ {x}) \in Nat
           /\ Cardinality(s \ {x}) = Cardinality(s) - 1
<1>1. IsFiniteSet(s)
  BY FS_Subset
<1>2. IsFiniteSet(s \ {x}) /\ Cardinality(s \ {x}) = Cardinality(s) - 1
  BY <1>1, FS_RemoveElement
<1>3. Cardinality(s) \in Nat /\ Cardinality(s \ {x}) \in Nat
  BY <1>1, <1>2, FS_CardinalityType
<1>. QED
  BY <1>1, <1>2, <1>3

(* The partial sums exist. *)
LEMMA TableExists ==
    ASSUME NEW S, IsFiniteSet(S), NEW f, \A x \in S : f[x] \in Nat
    PROVE  \E g \in [SUBSET S -> Nat] : Tabulates(g, f, S)
<1>. DEFINE Small(n) == {s \in SUBSET S : Cardinality(s) <= n}
            Step(h, s) == IF s = {} THEN 0 ELSE f[First(s)] + h[s \ {First(s)}]
            Upto(n) == \E h \in [Small(n) -> Nat] : \A s \in Small(n) : h[s] = Step(h, s)
<1>0. Cardinality(S) \in Nat /\ \A s \in SUBSET S : Cardinality(s) \in Nat /\ (Cardinality(s) = 0 <=> s = {})
                                                   /\ Cardinality(s) <= Cardinality(S)
  BY FS_Subset, FS_CardinalityType, FS_EmptySet
<1>1. Upto(0)
  <2>1. Small(0) = {{}}
    BY <1>0
  <2>2. [s \in Small(0) |-> 0] \in [Small(0) -> Nat]
    OBVIOUS
  <2>3. \A s \in Small(0) : [u \in Small(0) |-> 0][s] = Step([u \in Small(0) |-> 0], s)
    BY <2>1
  <2>. QED
    BY <2>2, <2>3
<1>2. ASSUME NEW n \in Nat, Upto(n)
      PROVE  Upto(n + 1)
  <2>1. PICK h \in [Small(n) -> Nat] : \A s \in Small(n) : h[s] = Step(h, s)
    BY <1>2
  <2>. DEFINE k == [s \in Small(n + 1) |-> Step(h, s)]
  <2>2. ASSUME NEW s \in Small(n + 1), s # {}
        PROVE  /\ First(s) \in s /\ s \ {First(s)} \in Small(n)
               /\ s \ {First(s)} \in Small(n + 1)
    <3>1. First(s) \in s
      BY <2>2, FirstIsIn
    <3>2. /\ s \ {First(s)} \in SUBSET S /\ Cardinality(s) \in Nat
          /\ Cardinality(s \ {First(s)}) \in Nat
          /\ Cardinality(s \ {First(s)}) = Cardinality(s) - 1
      BY <3>1, OneLess
    <3>3. Cardinality(s) <= n + 1
      OBVIOUS
    <3>. HIDE DEF k
    <3>. QED
      BY <3>1, <3>2, <3>3
  <2>3. ASSUME NEW s \in Small(n + 1) PROVE Step(h, s) \in Nat
    BY <2>2
  <2>4. k \in [Small(n + 1) -> Nat]
    BY <2>3
  <2>5. ASSUME NEW s \in Small(n) PROVE s \in Small(n + 1) /\ k[s] = h[s]
    <3>1. s \in Small(n + 1)
      BY <1>0
    <3>. QED
      BY <2>1, <3>1
  <2>6. ASSUME NEW s \in Small(n + 1) PROVE k[s] = Step(k, s)
    BY <2>2, <2>5
  <2>. HIDE DEF k
  <2>. QED
    BY <2>4, <2>6
<1>3. Upto(Cardinality(S))
  <2>. HIDE DEF Upto
  <2>. DEFINE Bad == {n \in Nat : ~Upto(n)}
  <2>1. SUFFICES ASSUME Bad # {} PROVE FALSE
    BY <1>0
  <2>2. PICK n \in Bad : \A m \in Bad : n <= m
    BY <2>1, LeastOf
  <2>3. n # 0 /\ n \in Nat
    BY <1>1
  <2>4. n - 1 \in Nat /\ n - 1 \notin Bad
    BY <2>2, <2>3
  <2>5. Upto(n - 1)
    BY <2>4
  <2>6. Upto((n - 1) + 1)
    BY <1>2, <2>4, <2>5
  <2>7. (n - 1) + 1 = n
    BY <2>3
  <2>. QED
    BY <2>6, <2>7
<1>4. Small(Cardinality(S)) = SUBSET S
  BY <1>0
<1>5. PICK g \in [SUBSET S -> Nat] : \A s \in SUBSET S : g[s] = Step(g, s)
  BY <1>3, <1>4
<1>6. g = [s \in SUBSET S |-> Step(g, s)]
  BY <1>5
<1>. QED
  BY <1>6 DEF Tabulates

(* Two tables agree wherever both are defined. *)
LEMMA TablesAgree ==
    ASSUME NEW S, IsFiniteSet(S), NEW T \in SUBSET S, NEW f, NEW g, NEW h,
           Tabulates(g, f, S), Tabulates(h, f, T)
    PROVE  \A s \in SUBSET T : g[s] = h[s]
<1>. DEFINE Bad == {s \in SUBSET T : g[s] # h[s]}
            Sizes == {Cardinality(s) : s \in Bad}
<1>1. SUFFICES ASSUME Bad # {} PROVE FALSE
  OBVIOUS
<1>2. \A s \in SUBSET T : Cardinality(s) \in Nat
  BY FS_Subset, FS_CardinalityType
<1>3. PICK n \in Sizes : \A m \in Sizes : n <= m
  <2>1. Sizes \in SUBSET Nat
    BY <1>2
  <2>2. Sizes # {}
    BY <1>1
  <2>. HIDE DEF Sizes
  <2>. QED
    BY <2>1, <2>2, LeastOf
<1>4. PICK s \in Bad : Cardinality(s) = n
  OBVIOUS
<1>5. s \in SUBSET T /\ s \in SUBSET S
  OBVIOUS
<1>6. /\ g[s] = IF s = {} THEN 0 ELSE f[First(s)] + g[s \ {First(s)}]
      /\ h[s] = IF s = {} THEN 0 ELSE f[First(s)] + h[s \ {First(s)}]
  BY <1>5 DEF Tabulates
<1>7. s # {}
  BY <1>6
<1>8. First(s) \in s
  BY <1>7, FirstIsIn
<1>9. s \ {First(s)} \in SUBSET T /\ Cardinality(s \ {First(s)}) < Cardinality(s)
  BY <1>5, <1>8, OneLess
<1>10. s \ {First(s)} \notin Bad
  <2>1. ASSUME s \ {First(s)} \in Bad PROVE FALSE
    <3>1. Cardinality(s \ {First(s)}) \in Sizes
      BY <2>1
    <3>2. n <= Cardinality(s \ {First(s)})
      BY <1>3, <3>1
    <3>. QED
      BY <3>2, <1>4, <1>9, <1>2, <1>5
  <2>. QED
    BY <2>1
<1>. QED
  BY <1>6, <1>7, <1>9, <1>10

(* The order in which a sum is taken does not matter. *)
Tabled(g, f, S) ==
    (\A x \in S : f[x] \in Nat) /\ g \in [SUBSET S -> Nat] /\ Tabulates(g, f, S)

Reorders(g, f, S) == \A s \in SUBSET S : \A x \in s : g[s] = f[x] + g[s \ {x}]

(* In the table any member may be the first. *)
LEMMA AnyFirst ==
    ASSUME NEW S, IsFiniteSet(S), NEW f, NEW g, Tabled(g, f, S)
    PROVE  Reorders(g, f, S)
<1>0. (\A x \in S : f[x] \in Nat) /\ g \in [SUBSET S -> Nat] /\ Tabulates(g, f, S)
  BY DEF Tabled
<1>. DEFINE Bad == {s \in SUBSET S : \E x \in s : g[s] # f[x] + g[s \ {x}]}
            Sizes == {Cardinality(s) : s \in Bad}
<1>1. SUFFICES ASSUME Bad # {} PROVE FALSE
  BY DEF Reorders
<1>2. \A s \in SUBSET S : Cardinality(s) \in Nat
  BY FS_Subset, FS_CardinalityType
<1>3. PICK n \in Sizes : \A m \in Sizes : n <= m
  <2>1. Sizes \in SUBSET Nat
    BY <1>2
  <2>2. Sizes # {}
    BY <1>1
  <2>. HIDE DEF Sizes
  <2>. QED
    BY <2>1, <2>2, LeastOf
<1>4. PICK s \in Bad : Cardinality(s) = n
  OBVIOUS
<1>5. PICK x \in s : g[s] # f[x] + g[s \ {x}]
  OBVIOUS
<1>. DEFINE c == First(s)
<1>6. s \in SUBSET S /\ c \in s
  BY <1>5, FirstIsIn
<1>. HIDE DEF c
<1>7. \A t \in SUBSET S : t # {} => g[t] = f[First(t)] + g[t \ {First(t)}]
  BY <1>0 DEF Tabulates
<1>8. g[s] = f[c] + g[s \ {c}]
  BY <1>6, <1>7 DEF c
<1>9. c # x
  BY <1>5, <1>8
<1>10. ASSUME NEW t \in SUBSET S, Cardinality(t) < Cardinality(s), NEW z \in t
       PROVE  g[t] = f[z] + g[t \ {z}]
  <2>1. SUFFICES ASSUME t \in Bad PROVE FALSE
    OBVIOUS
  <2>2. Cardinality(t) \in Sizes
    BY <2>1
  <2>3. n <= Cardinality(t)
    BY <1>3, <2>2
  <2>. QED
    BY <2>3, <1>4, <1>10, <1>2, <1>6
<1>11. /\ s \ {c} \in SUBSET S /\ Cardinality(s \ {c}) < Cardinality(s)
       /\ s \ {x} \in SUBSET S /\ Cardinality(s \ {x}) < Cardinality(s)
  <2>1. Cardinality(s \ {c}) < Cardinality(s) /\ s \ {c} \in SUBSET S
    BY <1>6, OneLess
  <2>2. Cardinality(s \ {x}) < Cardinality(s) /\ s \ {x} \in SUBSET S
    BY <1>6, <1>5, OneLess
  <2>. QED
    BY <2>1, <2>2
<1>12. g[s \ {c}] = f[x] + g[(s \ {c}) \ {x}]
  BY <1>9, <1>10, <1>11
<1>13. g[s \ {x}] = f[c] + g[(s \ {x}) \ {c}]
  BY <1>6, <1>9, <1>10, <1>11
<1>14. (s \ {c}) \ {x} = (s \ {x}) \ {c} /\ (s \ {x}) \ {c} \in SUBSET S
  BY <1>6
<1>15. f[c] \in Nat /\ f[x] \in Nat /\ g[(s \ {x}) \ {c}] \in Nat
  BY <1>0, <1>6, <1>14
<1>. DEFINE rest == g[(s \ {x}) \ {c}]
<1>16. /\ rest \in Nat /\ g[s \ {c}] = f[x] + rest /\ g[s \ {x}] = f[c] + rest
  BY <1>12, <1>13, <1>14, <1>15
<1>. HIDE DEF rest
<1>17. f[c] + (f[x] + rest) = f[x] + (f[c] + rest)
  BY <1>15, <1>16
<1>. QED
  BY <1>5, <1>8, <1>16, <1>17

(* What a fold computes is the last entry of the table. *)
LEMMA SumIsTabled ==
    ASSUME NEW S, IsFiniteSet(S), NEW f, \A x \in S : f[x] \in Nat
    PROVE  \E g \in [SUBSET S -> Nat] : Tabulates(g, f, S) /\ SumOf(f, S) = g[S]
<1>. DEFINE Iter == CHOOSE g : Tabulates(g, f, S)
<1>1. SumOf(f, S) = Iter[S]
  BY DEF SumOf, MapThenSumSet, MapThenFoldSet, Tabulates, First
<1>2. PICK g \in [SUBSET S -> Nat] : Tabulates(g, f, S)
  BY TableExists
<1>3. Tabulates(Iter, f, S)
  BY <1>2
<1>. HIDE DEF Iter
<1>4. \A s \in SUBSET S : Iter[s] = g[s]
  BY <1>2, <1>3, TablesAgree
<1>5. SumOf(f, S) = g[S]
  BY <1>1, <1>4
<1>. QED
  BY <1>2, <1>5

(* Nothing sums to nothing. *)
LEMMA SumOfNothing == ASSUME NEW f PROVE SumOf(f, {}) = 0
<1>1. IsFiniteSet({})
  BY FS_EmptySet
<1>2. PICK g \in [SUBSET {} -> Nat] : Tabulates(g, f, {}) /\ SumOf(f, {}) = g[{}]
  BY <1>1, SumIsTabled
<1>. QED
  BY <1>2 DEF Tabulates

(* Natural numbers sum to one. *)
LEMMA SumIsNat ==
    ASSUME NEW S, IsFiniteSet(S), NEW f, \A x \in S : f[x] \in Nat
    PROVE  SumOf(f, S) \in Nat
<1>1. PICK g \in [SUBSET S -> Nat] : Tabulates(g, f, S) /\ SumOf(f, S) = g[S]
  BY SumIsTabled
<1>. QED
  BY <1>1

(* Any member may be counted first. *)
LEMMA SumWithout ==
    ASSUME NEW S, IsFiniteSet(S), NEW f, \A x \in S : f[x] \in Nat, NEW e \in S
    PROVE  SumOf(f, S) = f[e] + SumOf(f, S \ {e})
<1>1. PICK g \in [SUBSET S -> Nat] : Tabulates(g, f, S) /\ SumOf(f, S) = g[S]
  BY SumIsTabled
<1>2. g[S] = f[e] + g[S \ {e}]
  <2>1. Tabled(g, f, S)
    BY <1>1 DEF Tabled
  <2>2. Reorders(g, f, S)
    BY <2>1, AnyFirst
  <2>. QED
    BY <2>2 DEF Reorders
<1>. DEFINE T == S \ {e}
<1>3. T \in SUBSET S /\ IsFiniteSet(T)
  BY FS_RemoveElement
<1>4. \A y \in T : f[y] \in Nat
  OBVIOUS
<1>. HIDE DEF T
<1>5. PICK h \in [SUBSET T -> Nat] : Tabulates(h, f, T) /\ SumOf(f, T) = h[T]
  BY <1>3, <1>4, SumIsTabled
<1>6. g[T] = h[T]
  BY <1>1, <1>3, <1>5, TablesAgree
<1>. QED
  BY <1>1, <1>2, <1>5, <1>6 DEF T

(* A sum of numbers is at most that of numbers no less over no fewer. *)
LEMMA SumGrows ==
    ASSUME NEW S, IsFiniteSet(S), NEW T \in SUBSET S, NEW f, NEW g,
           \A x \in S : g[x] \in Nat,
           \A x \in T : f[x] \in Nat /\ f[x] <= g[x]
    PROVE  SumOf(f, T) <= SumOf(g, S)
<1>. DEFINE Bad == {s \in SUBSET S : ~(SumOf(f, s \cap T) <= SumOf(g, s))}
            Sizes == {Cardinality(s) : s \in Bad}
<1>1. SUFFICES ASSUME Bad # {} PROVE FALSE
  <2>1. S \notin Bad
    BY <1>1
  <2>2. S \cap T = T
    OBVIOUS
  <2>. QED
    BY <2>1, <2>2
<1>2. \A s \in SUBSET S : IsFiniteSet(s) /\ Cardinality(s) \in Nat /\ IsFiniteSet(s \cap T)
  <2>1. ASSUME NEW s \in SUBSET S PROVE IsFiniteSet(s) /\ Cardinality(s) \in Nat
    BY FS_Subset, FS_CardinalityType
  <2>2. \A s \in SUBSET S : s \cap T \in SUBSET S
    OBVIOUS
  <2>. QED
    BY <2>1, <2>2
<1>3. PICK n \in Sizes : \A m \in Sizes : n <= m
  <2>1. Sizes \in SUBSET Nat
    BY <1>2
  <2>2. Sizes # {}
    BY <1>1
  <2>. HIDE DEF Sizes
  <2>. QED
    BY <2>1, <2>2, LeastOf
<1>4. PICK s \in Bad : Cardinality(s) = n
  OBVIOUS
<1>5. s # {}
  <2>1. {} \cap T = {}
    OBVIOUS
  <2>2. SumOf(f, {}) = 0 /\ SumOf(g, {}) = 0
    BY SumOfNothing
  <2>. QED
    BY <2>1, <2>2
<1>6. PICK x \in s : TRUE
  BY <1>5
<1>7. s \in SUBSET S /\ s \ {x} \in SUBSET S /\ Cardinality(s \ {x}) < Cardinality(s)
  BY <1>6, OneLess
<1>8. SumOf(f, (s \ {x}) \cap T) <= SumOf(g, s \ {x})
  <2>1. ASSUME s \ {x} \in Bad PROVE FALSE
    <3>1. Cardinality(s \ {x}) \in Sizes
      BY <2>1
    <3>2. n <= Cardinality(s \ {x})
      BY <1>3, <3>1
    <3>3. Cardinality(s) \in Nat /\ Cardinality(s \ {x}) \in Nat
      BY <1>2, <1>7, Zenon
    <3>4. Cardinality(s) = n /\ Cardinality(s \ {x}) < Cardinality(s)
      BY <1>4, <1>7
    <3>. HIDE DEF Bad, Sizes
    <3>. QED
      BY <3>2, <3>3, <3>4
  <2>. QED
    BY <2>1, <1>7
<1>9. SumOf(g, s) = g[x] + SumOf(g, s \ {x})
  BY <1>6, <1>7, <1>2, SumWithout
<1>10. SumOf(g, s \ {x}) \in Nat /\ SumOf(f, (s \ {x}) \cap T) \in Nat
  <2>1. SumOf(g, s \ {x}) \in Nat
    BY <1>7, <1>2, SumIsNat
  <2>2. SumOf(f, (s \ {x}) \cap T) \in Nat
    BY <1>7, <1>2, SumIsNat
  <2>. QED
    BY <2>1, <2>2
<1>11. SumOf(f, s \cap T) <= SumOf(g, s)
  <2>1. CASE x \in T
    <3>1. SumOf(f, s \cap T) = f[x] + SumOf(f, (s \cap T) \ {x})
      BY <1>2, <1>6, <1>7, <2>1, SumWithout
    <3>2. (s \cap T) \ {x} = (s \ {x}) \cap T
      OBVIOUS
    <3>3. f[x] \in Nat /\ g[x] \in Nat /\ f[x] <= g[x]
      BY <1>6, <1>7, <2>1
    <3>. QED
      BY <3>1, <3>2, <3>3, <1>8, <1>9, <1>10
  <2>2. CASE x \notin T
    <3>1. s \cap T = (s \ {x}) \cap T
      BY <2>2
    <3>2. g[x] \in Nat
      BY <1>6, <1>7
    <3>. QED
      BY <3>1, <3>2, <1>8, <1>9, <1>10
  <2>. QED
    BY <2>1, <2>2
<1>. QED
  BY <1>4, <1>11

(* Numbers that are at most two sum to twice their count at most. *)
LEMMA SumAtMostTwice ==
    ASSUME NEW S, IsFiniteSet(S), NEW f, \A x \in S : f[x] \in 0..2
    PROVE  SumOf(f, S) <= 2 * Cardinality(S)
<1>. DEFINE Bad == {s \in SUBSET S : ~(SumOf(f, s) <= 2 * Cardinality(s))}
            Sizes == {Cardinality(s) : s \in Bad}
<1>1. SUFFICES ASSUME Bad # {} PROVE FALSE
  <2>1. S \notin Bad
    BY <1>1
  <2>. QED
    BY <2>1
<1>2. \A s \in SUBSET S : IsFiniteSet(s) /\ Cardinality(s) \in Nat
  BY FS_Subset, FS_CardinalityType
<1>3. PICK n \in Sizes : \A m \in Sizes : n <= m
  <2>1. Sizes \in SUBSET Nat
    BY <1>2
  <2>2. Sizes # {}
    BY <1>1
  <2>. HIDE DEF Sizes
  <2>. QED
    BY <2>1, <2>2, LeastOf
<1>4. PICK s \in Bad : Cardinality(s) = n
  OBVIOUS
<1>5. s # {}
  BY SumOfNothing, FS_EmptySet
<1>6. PICK x \in s : TRUE
  BY <1>5
<1>7. /\ s \in SUBSET S /\ s \ {x} \in SUBSET S /\ Cardinality(s \ {x}) = Cardinality(s) - 1
      /\ Cardinality(s) \in Nat /\ Cardinality(s \ {x}) \in Nat
  BY <1>6, OneLess
<1>8. SumOf(f, s \ {x}) <= 2 * Cardinality(s \ {x})
  <2>1. ASSUME s \ {x} \in Bad PROVE FALSE
    <3>1. Cardinality(s \ {x}) \in Sizes
      BY <2>1
    <3>2. n <= Cardinality(s \ {x})
      BY <1>3, <3>1
    <3>4. Cardinality(s) = n
      BY <1>4
    <3>. HIDE DEF Bad, Sizes
    <3>. QED
      BY <3>2, <3>4, <1>7
  <2>. QED
    BY <2>1, <1>7
<1>9. \A y \in s : f[y] \in Nat
  BY <1>7
<1>10. SumOf(f, s) = f[x] + SumOf(f, s \ {x})
  BY <1>2, <1>6, <1>7, <1>9, SumWithout
<1>11. SumOf(f, s \ {x}) \in Nat
  <2>1. IsFiniteSet(s \ {x}) /\ \A y \in s \ {x} : f[y] \in Nat
    BY <1>2, <1>7, <1>9
  <2>. QED
    BY <2>1, SumIsNat
<1>12. f[x] \in Nat /\ f[x] <= 2
  BY <1>6, <1>7
<1>13. SumOf(f, s) <= 2 * Cardinality(s)
  BY <1>7, <1>8, <1>10, <1>11, <1>12
<1>. QED
  BY <1>4, <1>13

(* Whatever makes the table of a function is its sum. *)
LEMMA TabledIsSum ==
    ASSUME NEW S, IsFiniteSet(S), NEW f, \A x \in S : f[x] \in Nat, NEW it, Tabulates(it, f, S)
    PROVE  it[S] = SumOf(f, S)
<1>1. PICK g \in [SUBSET S -> Nat] : Tabulates(g, f, S) /\ SumOf(f, S) = g[S]
  BY SumIsTabled
<1>2. \A s \in SUBSET S : it[s] = g[s]
  BY <1>1, TablesAgree
<1>. QED
  BY <1>1, <1>2

(* A sum depends on what is summed up only. *)
LEMMA SameSum ==
    ASSUME NEW S, IsFiniteSet(S), NEW f, NEW g,
           \A x \in S : f[x] \in Nat /\ g[x] = f[x]
    PROVE  SumOf(f, S) = SumOf(g, S)
<1>1. S \in SUBSET S
  OBVIOUS
<1>2. SumOf(f, S) <= SumOf(g, S) /\ SumOf(g, S) <= SumOf(f, S)
  <2>1. SumOf(f, S) <= SumOf(g, S)
    BY <1>1, SumGrows
  <2>2. SumOf(g, S) <= SumOf(f, S)
    BY <1>1, SumGrows
  <2>. QED
    BY <2>1, <2>2
<1>3. SumOf(f, S) \in Nat /\ SumOf(g, S) \in Nat
  BY SumIsNat
<1>. QED
  BY <1>2, <1>3

(* There are no more images than there are members. *)
LEMMA FiniteImage ==
    ASSUME NEW S, IsFiniteSet(S), NEW h
    PROVE  IsFiniteSet({h[x] : x \in S})
<1>. DEFINE T == {h[x] : x \in S}
            f == [x \in S |-> h[x]]
<1>1. f \in [S -> T] /\ \A t \in T : \E x \in S : f[x] = t
  OBVIOUS
<1>2. f \in Surjection(S, T)
  <2>. HIDE DEF f, T
  <2>. QED
    BY <1>1 DEF Surjection
<1>. QED
  BY <1>2, FS_Surjection

(* Summing up under other names, no two of which are the same. *)
LEMMA SumRenamed ==
    ASSUME NEW S, IsFiniteSet(S), NEW T, NEW h \in [S -> T], \A x, y \in S : h[x] = h[y] => x = y,
           \A t \in T : \E x \in S : h[x] = t,
           NEW f, \A t \in T : f[t] \in Nat, NEW g, \A x \in S : g[x] = f[h[x]]
    PROVE  SumOf(g, S) = SumOf(f, T)
<1>. DEFINE Named(s) == {h[x] : x \in s}
            it == [s \in SUBSET S |-> SumOf(f, Named(s))]
<1>1. \A x \in S : h[x] \in T /\ g[x] = f[h[x]] /\ g[x] \in Nat
  OBVIOUS
<1>2. ASSUME NEW s \in SUBSET S PROVE IsFiniteSet(Named(s))
  <2>1. IsFiniteSet(s)
    BY FS_Subset
  <2>. QED
    BY <2>1, FiniteImage
<1>3. ASSUME NEW s \in SUBSET S
      PROVE  SumOf(f, Named(s)) = IF s = {} THEN 0 ELSE g[First(s)] + SumOf(f, Named(s \ {First(s)}))
  <2>1. CASE s = {}
    <3>1. Named(s) = {}
      BY <2>1
    <3>. QED
      BY <2>1, <3>1, SumOfNothing
  <2>2. CASE s # {}
    <3>1. PICK e : e = First(s)
      OBVIOUS
    <3>2. e \in s /\ e \in S
      BY <2>2, <3>1, FirstIsIn
    <3>3. h[e] \in Named(s) /\ \A t \in Named(s) : f[t] \in Nat
      BY <1>1, <3>2
    <3>4. Named(s) \ {h[e]} = Named(s \ {e})
      BY <3>2
    <3>. HIDE DEF Named
    <3>5. SumOf(f, Named(s)) = f[h[e]] + SumOf(f, Named(s) \ {h[e]})
      BY <1>2, <3>3, SumWithout
    <3>. QED
      BY <1>1, <2>2, <3>1, <3>2, <3>4, <3>5
  <2>. QED
    BY <2>1, <2>2
<1>4. Tabulates(it, g, S)
  <2>. HIDE DEF Named
  <2>1. it = [s \in SUBSET S |-> IF s = {} THEN 0 ELSE g[First(s)] + it[s \ {First(s)}]]
    BY <1>3
  <2>. QED
    BY <2>1 DEF Tabulates
<1>5. it[S] = SumOf(g, S)
  <2>. HIDE DEF it
  <2>. QED
    BY <1>1, <1>4, TabledIsSum
<1>6. T = {h[x] : x \in S}
  OBVIOUS
<1>. QED
  BY <1>5, <1>6

(* Two sets that have nothing in common are summed up one after the other. *)
LEMMA SumSplit ==
    ASSUME NEW S, IsFiniteSet(S), NEW T, IsFiniteSet(T), S \cap T = {},
           NEW f, \A x \in S \cup T : f[x] \in Nat
    PROVE  SumOf(f, S \cup T) = SumOf(f, S) + SumOf(f, T)
<1>. DEFINE it == [s \in SUBSET T |-> SumOf(f, S \cup s) - SumOf(f, S)]
<1>1. SumOf(f, S) \in Nat /\ SumOf(f, S \cup T) \in Nat
  <2>1. IsFiniteSet(S \cup T)
    BY FS_Union
  <2>2. \A x \in S : f[x] \in Nat
    OBVIOUS
  <2>. QED
    BY <2>1, <2>2, SumIsNat
<1>2. ASSUME NEW s \in SUBSET T, s # {}
      PROVE  SumOf(f, S \cup s) - SumOf(f, S) = f[First(s)] + (SumOf(f, S \cup (s \ {First(s)})) - SumOf(f, S))
  <2>1. PICK e : e = First(s)
    OBVIOUS
  <2>2. e \in s /\ e \notin S
    BY <1>2, <2>1, FirstIsIn
  <2>3. IsFiniteSet(S \cup s)
    <3>1. IsFiniteSet(s)
      BY FS_Subset
    <3>. QED
      BY <3>1, FS_Union
  <2>4. (S \cup s) \ {e} = S \cup (s \ {e})
    BY <2>2
  <2>5. IsFiniteSet(S \cup (s \ {e}))
    <3>1. S \cup (s \ {e}) \in SUBSET (S \cup s)
      OBVIOUS
    <3>. QED
      BY <2>3, <3>1, FS_Subset
  <2>6. SumOf(f, S \cup s) = f[e] + SumOf(f, S \cup (s \ {e}))
    <3>1. \A x \in S \cup s : f[x] \in Nat
      OBVIOUS
    <3>2. SumOf(f, S \cup s) = f[e] + SumOf(f, (S \cup s) \ {e})
      BY <2>2, <2>3, <3>1, SumWithout
    <3>. QED
      BY <2>4, <3>2
  <2>7. SumOf(f, S \cup (s \ {e})) \in Nat /\ f[e] \in Nat
    <3>1. \A x \in S \cup (s \ {e}) : f[x] \in Nat
      OBVIOUS
    <3>. QED
      BY <2>2, <2>5, <3>1, SumIsNat
  <2>. QED
    BY <1>1, <2>1, <2>6, <2>7
<1>3. Tabulates(it, f, T)
  <2>1. SumOf(f, S \cup {}) - SumOf(f, S) = 0
    <3>1. S \cup {} = S
      OBVIOUS
    <3>. QED
      BY <1>1, <3>1
  <2>2. \A s \in SUBSET T : it[s] = IF s = {} THEN 0 ELSE f[First(s)] + it[s \ {First(s)}]
    BY <1>2, <2>1
  <2>3. it = [s \in SUBSET T |-> IF s = {} THEN 0 ELSE f[First(s)] + it[s \ {First(s)}]]
    BY <2>2
  <2>. HIDE DEF it
  <2>. QED
    BY <2>3 DEF Tabulates
<1>4. it[T] = SumOf(f, S \cup T) - SumOf(f, S)
  OBVIOUS
<1>. HIDE DEF it
<1>5. it[T] = SumOf(f, T)
  BY <1>3, TabledIsSum
<1>6. SumOf(f, T) \in Nat
  BY SumIsNat
<1>. QED
  BY <1>1, <1>4, <1>5, <1>6

(* No member is more than the sum. *)
LEMMA MemberOfSum ==
    ASSUME NEW S, IsFiniteSet(S), NEW f, \A x \in S : f[x] \in Nat, NEW e \in S
    PROVE  f[e] <= SumOf(f, S) /\ SumOf(f, S) \in Nat
<1>1. SumOf(f, S) = f[e] + SumOf(f, S \ {e})
  BY SumWithout
<1>2. SumOf(f, S \ {e}) \in Nat
  BY FS_RemoveElement, SumIsNat
<1>. QED
  BY <1>1, <1>2, SumIsNat

(* Nothing adds up to nothing. *)
LEMMA SumOfZeros ==
    ASSUME NEW S, IsFiniteSet(S), NEW f, \A x \in S : f[x] = 0
    PROVE  SumOf(f, S) = 0
<1>. DEFINE it == [s \in SUBSET S |-> 0]
<1>1. Tabulates(it, f, S)
  <2>1. \A s \in SUBSET S : it[s] = IF s = {} THEN 0 ELSE f[First(s)] + it[s \ {First(s)}]
    <3>1. SUFFICES ASSUME NEW s \in SUBSET S, s # {} PROVE 0 = f[First(s)] + it[s \ {First(s)}]
      OBVIOUS
    <3>2. First(s) \in S /\ s \ {First(s)} \in SUBSET S
      BY <3>1, FirstIsIn
    <3>. QED
      BY <3>2
  <2>2. it = [s \in SUBSET S |-> IF s = {} THEN 0 ELSE f[First(s)] + it[s \ {First(s)}]]
    BY <2>1
  <2>. HIDE DEF it
  <2>. QED
    BY <2>2 DEF Tabulates
<1>2. it[S] = 0
  OBVIOUS
<1>. HIDE DEF it
<1>. QED
  BY <1>1, <1>2, TabledIsSum

(* One member sums to itself. *)
LEMMA SumOfOne ==
    ASSUME NEW e, NEW f, f[e] \in Nat
    PROVE  SumOf(f, {e}) = f[e]
<1>1. SumOf(f, {e}) = f[e] + SumOf(f, {e} \ {e})
  BY FS_Singleton, SumWithout
<1>2. {e} \ {e} = {}
  OBVIOUS
<1>. QED
  BY <1>1, <1>2, SumOfNothing

(* Two functions are summed up together or apart. *)
LEMMA SumTogether ==
    ASSUME NEW S, IsFiniteSet(S), NEW f, NEW g, NEW h,
           \A x \in S : f[x] \in Nat /\ g[x] \in Nat /\ h[x] = f[x] + g[x]
    PROVE  SumOf(h, S) = SumOf(f, S) + SumOf(g, S)
<1>. DEFINE it == [s \in SUBSET S |-> SumOf(f, s) + SumOf(g, s)]
<1>1. ASSUME NEW s \in SUBSET S, s # {}
      PROVE  SumOf(f, s) + SumOf(g, s)
               = h[First(s)] + (SumOf(f, s \ {First(s)}) + SumOf(g, s \ {First(s)}))
  <2>1. PICK e : e = First(s)
    OBVIOUS
  <2>2. e \in s /\ IsFiniteSet(s) /\ IsFiniteSet(s \ {e})
    BY <1>1, <2>1, FirstIsIn, FS_Subset, FS_RemoveElement
  <2>3. SumOf(f, s) = f[e] + SumOf(f, s \ {e}) /\ SumOf(g, s) = g[e] + SumOf(g, s \ {e})
    <3>1. \A x \in s : f[x] \in Nat /\ g[x] \in Nat
      OBVIOUS
    <3>. QED
      BY <2>2, <3>1, SumWithout
  <2>4. SumOf(f, s \ {e}) \in Nat /\ SumOf(g, s \ {e}) \in Nat
    <3>1. \A x \in s \ {e} : f[x] \in Nat /\ g[x] \in Nat
      OBVIOUS
    <3>. QED
      BY <2>2, <3>1, SumIsNat
  <2>5. f[e] \in Nat /\ g[e] \in Nat /\ h[e] = f[e] + g[e]
    BY <2>2
  <2>. QED
    BY <2>1, <2>3, <2>4, <2>5
<1>2. Tabulates(it, h, S)
  <2>0. SumOf(f, {}) + SumOf(g, {}) = 0
    BY SumOfNothing
  <2>1. \A s \in SUBSET S : it[s] = IF s = {} THEN 0 ELSE h[First(s)] + it[s \ {First(s)}]
    BY <1>1, <2>0
  <2>2. it = [s \in SUBSET S |-> IF s = {} THEN 0 ELSE h[First(s)] + it[s \ {First(s)}]]
    BY <2>1
  <2>. HIDE DEF it
  <2>. QED
    BY <2>2 DEF Tabulates
<1>3. it[S] = SumOf(f, S) + SumOf(g, S)
  OBVIOUS
<1>. HIDE DEF it
<1>4. \A x \in S : h[x] \in Nat
  OBVIOUS
<1>. QED
  BY <1>2, <1>3, <1>4, TabledIsSum

(* A change of one term changes the sum by as much. *)
LEMMA SumChanged ==
    ASSUME NEW S, IsFiniteSet(S), NEW e \in S, NEW f, NEW g,
           \A x \in S : f[x] \in Nat /\ g[x] \in Nat, \A x \in S \ {e} : g[x] = f[x]
    PROVE  SumOf(g, S) + f[e] = SumOf(f, S) + g[e]
<1>1. SumOf(f, S) = f[e] + SumOf(f, S \ {e}) /\ SumOf(g, S) = g[e] + SumOf(g, S \ {e})
  BY SumWithout
<1>2. IsFiniteSet(S \ {e})
  BY FS_RemoveElement
<1>3. SumOf(f, S \ {e}) = SumOf(g, S \ {e}) /\ SumOf(f, S \ {e}) \in Nat
  BY <1>2, SameSum, SumIsNat
<1>. QED
  BY <1>1, <1>3

\* The members that are mapped into a set.
Over(h, S, T) == {x \in S : h[x] \in T}

(* Members are counted by what they are mapped to. *)
LEMMA SumOfFibres ==
    ASSUME NEW S, IsFiniteSet(S), NEW T, IsFiniteSet(T), NEW h, NEW c,
           \A y \in T : c[y] = Cardinality(Over(h, S, {y}))
    PROVE  SumOf(c, T) = Cardinality(Over(h, S, T))
<1>. DEFINE it == [s \in SUBSET T |-> Cardinality(Over(h, S, s))]
<1>1. \A s : IsFiniteSet(Over(h, S, s)) /\ Cardinality(Over(h, S, s)) \in Nat
  BY FS_Subset, FS_CardinalityType DEF Over
<1>2. ASSUME NEW s \in SUBSET T, s # {}
      PROVE  Cardinality(Over(h, S, s)) = c[First(s)] + Cardinality(Over(h, S, s \ {First(s)}))
  <2>1. PICK e, A, B : e = First(s) /\ A = Over(h, S, {e}) /\ B = Over(h, S, s \ {e})
    OBVIOUS
  <2>2. e \in s
    BY <1>2, <2>1, FirstIsIn
  <2>3. Over(h, S, s) = A \cup B /\ A \cap B = {}
    BY <2>1, <2>2 DEF Over
  <2>4. /\ IsFiniteSet(A) /\ IsFiniteSet(B)
        /\ Cardinality(A) \in Nat /\ Cardinality(B) \in Nat
    BY <1>1, <2>1
  <2>5. Cardinality(A \cup B) = Cardinality(A) + Cardinality(B) - Cardinality(A \cap B)
    BY <2>4, FS_Union
  <2>6. Cardinality(A \cup B) = Cardinality(A) + Cardinality(B)
    BY <2>3, <2>4, <2>5, FS_EmptySet
  <2>. QED
    BY <2>1, <2>2, <2>3, <2>6
<1>3. Tabulates(it, c, T)
  <2>1. Over(h, S, {}) = {}
    BY DEF Over
  <2>2. Cardinality(Over(h, S, {})) = 0
    BY <2>1, FS_EmptySet
  <2>3. \A s \in SUBSET T : it[s] = IF s = {} THEN 0 ELSE c[First(s)] + it[s \ {First(s)}]
    BY <1>2, <2>2
  <2>4. it = [s \in SUBSET T |-> IF s = {} THEN 0 ELSE c[First(s)] + it[s \ {First(s)}]]
    BY <2>3
  <2>. HIDE DEF it
  <2>. QED
    BY <2>4 DEF Tabulates
<1>4. it[T] = Cardinality(Over(h, S, T))
  OBVIOUS
<1>5. \A y \in T : c[y] \in Nat
  BY <1>1
<1>. HIDE DEF it
<1>. QED
  BY <1>3, <1>4, <1>5, TabledIsSum

-----------------------------------------------------------------------------
(* Numbers                                                                 *)

(* Of natural numbers there is a least one. *)
LEMMA LeastIs ==
    ASSUME NEW S \in SUBSET Nat, S # {}
    PROVE  Min(S) \in S /\ \A y \in S : Min(S) <= y
<1>1. \E x \in S : \A y \in S : x <= y
  BY LeastOf
<1>. QED
  BY <1>1 DEF Min

(* Of numbers up to a bound there is a greatest one. *)
LEMMA GreatestOf ==
    ASSUME NEW B \in Nat, NEW S \in SUBSET (0..B), S # {}
    PROVE  Max(S) \in S /\ \A y \in S : y <= Max(S)
<1>. DEFINE T == {B - x : x \in S}
<1>1. T \in SUBSET Nat /\ T # {}
  <2>1. \A x \in S : B - x \in Nat
    <3>1. \A x \in 0..B : B - x \in Nat
      OBVIOUS
    <3>. QED
      BY <3>1
  <2>. QED
    BY <2>1
<1>2. PICK t \in T : \A u \in T : t <= u
  BY <1>1, LeastOf
<1>3. PICK x \in S : t = B - x
  BY <1>2
<1>4. \A y \in S : x >= y
  <2>1. SUFFICES ASSUME NEW y \in S PROVE x >= y
    OBVIOUS
  <2>2. B - y \in T
    OBVIOUS
  <2>3. t <= B - y
    BY <1>2, <2>2
  <2>4. x \in 0..B /\ y \in 0..B
    OBVIOUS
  <2>. QED
    BY <1>3, <2>3, <2>4
<1>5. Max(S) \in S /\ \A y \in S : Max(S) >= y
  BY <1>4 DEF Max
<1>6. S \subseteq Int
  OBVIOUS
<1>. QED
  BY <1>5, <1>6

(* A product grows with its factors. *)
LEMMA ProductsGrow ==
    ASSUME NEW a \in Nat, NEW b \in Nat, NEW c \in Nat, a <= b
    PROVE  a * c <= b * c /\ a * c \in Nat /\ c * a <= c * b
<1>1. PICK k \in Nat : b = a + k
  <2>1. b - a \in Nat /\ b = a + (b - a)
    OBVIOUS
  <2>. QED
    BY <2>1
<1>2. b * c = a * c + k * c /\ k * c \in Nat /\ a * c \in Nat
  BY <1>1
<1>3. c * a = a * c /\ c * b = b * c
  OBVIOUS
<1>. QED
  BY <1>2, <1>3

(* A division leaves a remainder. *)
LEMMA DivisionIs ==
    ASSUME NEW w \in Nat, NEW b \in Nat \ {0}
    PROVE  w = b * (w \div b) + (w % b) /\ w \div b \in Nat /\ w % b \in 0..(b - 1)
  OBVIOUS

(* A remainder is known when it is seen. *)
LEMMA RemainderIs ==
    ASSUME NEW b \in Nat \ {0}, NEW k \in Nat, NEW r \in 0..(b - 1), NEW w \in Int, w = b * k + r
    PROVE  w % b = r
<1>. DEFINE d == w \div b
            s == w % b
<1>1. w = b * d + s /\ d \in Int /\ s \in 0..(b - 1)
  OBVIOUS
<1>. HIDE DEF d, s
<1>2. b * d + s = b * k + r
  BY <1>1
<1>3. CASE d = k
  BY <1>1, <1>2, <1>3 DEF s
<1>4. ASSUME d < k PROVE FALSE
  <2>1. k - d \in Nat /\ 1 <= k - d
    BY <1>1, <1>4
  <2>2. 1 * b <= (k - d) * b
    BY <2>1, ProductsGrow
  <2>3. (k - d) * b = k * b - d * b /\ k * b = b * k /\ d * b = b * d
        /\ b * d \in Int /\ b * k \in Int
    BY <1>1
  <2>. QED
    BY <1>1, <1>2, <2>2, <2>3
<1>5. ASSUME k < d PROVE FALSE
  <2>1. d - k \in Nat /\ 1 <= d - k
    BY <1>1, <1>5
  <2>2. 1 * b <= (d - k) * b
    BY <2>1, ProductsGrow
  <2>3. (d - k) * b = d * b - k * b /\ k * b = b * k /\ d * b = b * d
        /\ b * d \in Int /\ b * k \in Int
    BY <1>1
  <2>. QED
    BY <1>1, <1>2, <2>2, <2>3
<1>. QED
  BY <1>1, <1>3, <1>4, <1>5

-----------------------------------------------------------------------------
(* Numbers up to a bound                                                   *)

(* A number as often as there are members. *)
LEMMA SumOfSame ==
    ASSUME NEW S, IsFiniteSet(S), NEW c \in Nat, NEW f, \A x \in S : f[x] = c
    PROVE  SumOf(f, S) = c * Cardinality(S)
<1>. DEFINE it == [s \in SUBSET S |-> c * Cardinality(s)]
<1>1. ASSUME NEW s \in SUBSET S, s # {}
      PROVE  c * Cardinality(s) = f[First(s)] + c * Cardinality(s \ {First(s)})
  <2>1. PICK e : e = First(s)
    OBVIOUS
  <2>2. e \in s /\ f[e] = c
    BY <1>1, <2>1, FirstIsIn
  <2>3. /\ Cardinality(s) \in Nat /\ Cardinality(s \ {e}) \in Nat
        /\ Cardinality(s \ {e}) = Cardinality(s) - 1
    BY <2>2, OneLess
  <2>4. PICK k \in Nat : k = Cardinality(s \ {e})
    BY <2>3
  <2>5. Cardinality(s) = k + 1 /\ c * (k + 1) = c + c * k
    BY <2>3, <2>4
  <2>. QED
    BY <2>1, <2>2, <2>4, <2>5
<1>2. c * Cardinality({}) = 0
  BY FS_EmptySet
<1>3. Tabulates(it, f, S)
  <2>1. \A s \in SUBSET S : it[s] = IF s = {} THEN 0 ELSE f[First(s)] + it[s \ {First(s)}]
    BY <1>1, <1>2
  <2>2. it = [s \in SUBSET S |-> IF s = {} THEN 0 ELSE f[First(s)] + it[s \ {First(s)}]]
    BY <2>1
  <2>. HIDE DEF it
  <2>. QED
    BY <2>2 DEF Tabulates
<1>4. it[S] = c * Cardinality(S)
  OBVIOUS
<1>. HIDE DEF it
<1>5. \A x \in S : f[x] \in Nat
  OBVIOUS
<1>. QED
  BY <1>3, <1>4, <1>5, TabledIsSum

\* The numbers of S stay within 0..c; all of them are c.
StayWithin(f, S, c) == \A x \in S : f[x] \in 0..c
AllReach(f, S, c) == \A x \in S : f[x] = c

(* Numbers up to a bound sum to the bound times their count at most, and to no less only *)
(* if all of them are at the bound.                                                     *)
LEMMA SumIsAtMost ==
    ASSUME NEW S, IsFiniteSet(S), NEW c \in Nat, NEW f, StayWithin(f, S, c)
    PROVE  /\ SumOf(f, S) \in Nat /\ SumOf(f, S) <= c * Cardinality(S)
           /\ SumOf(f, S) = c * Cardinality(S) <=> AllReach(f, S, c)
<1>. DEFINE top == [x \in S |-> c]
<1>1. \A x \in S : f[x] \in Nat /\ f[x] <= c /\ top[x] = c
  BY DEF StayWithin
<1>2. ASSUME NEW T \in SUBSET S
      PROVE  SumOf(f, T) <= c * Cardinality(T) /\ SumOf(f, T) \in Nat /\ c * Cardinality(T) \in Nat
  <2>1. IsFiniteSet(T) /\ Cardinality(T) \in Nat
    BY FS_Subset, FS_CardinalityType
  <2>2. SumOf(top, T) = c * Cardinality(T)
    BY <1>1, <2>1, SumOfSame
  <2>3. SumOf(f, T) <= SumOf(top, T)
    <3>1. T \in SUBSET T /\ \A x \in T : top[x] \in Nat /\ f[x] \in Nat /\ f[x] <= top[x]
      BY <1>1
    <3>. HIDE DEF top
    <3>. QED
      BY <2>1, <3>1, SumGrows
  <2>4. SumOf(f, T) \in Nat
    BY <1>1, <2>1, SumIsNat
  <2>5. c * Cardinality(T) \in Nat
    BY <2>1
  <2>. QED
    BY <2>2, <2>3, <2>4, <2>5
<1>3. (\A x \in S : f[x] = c) => SumOf(f, S) = c * Cardinality(S)
  BY SumOfSame
<1>4. ASSUME NEW x \in S, f[x] # c PROVE SumOf(f, S) # c * Cardinality(S)
  <2>1. SumOf(f, S) = f[x] + SumOf(f, S \ {x})
    BY <1>1, SumWithout
  <2>2. S \ {x} \in SUBSET S
    OBVIOUS
  <2>3. SumOf(f, S \ {x}) <= c * Cardinality(S \ {x}) /\ SumOf(f, S \ {x}) \in Nat
    BY <1>2, <2>2
  <2>4. PICK k \in Nat : k = Cardinality(S \ {x}) /\ Cardinality(S) = k + 1
    <3>1. S \in SUBSET S
      OBVIOUS
    <3>2. Cardinality(S \ {x}) \in Nat /\ Cardinality(S) \in Nat /\ Cardinality(S \ {x}) = Cardinality(S) - 1
      BY <3>1, OneLess
    <3>. QED
      BY <3>2
  <2>5. c * (k + 1) = c * k + c /\ c * k \in Nat
    OBVIOUS
  <2>6. f[x] < c /\ f[x] \in Nat
    BY <1>1, <1>4
  <2>. QED
    BY <2>1, <2>3, <2>4, <2>5, <2>6
<1>5. S \in SUBSET S
  OBVIOUS
<1>. QED
  BY <1>2, <1>3, <1>4, <1>5 DEF AllReach

-----------------------------------------------------------------------------
(* Folds to the left                                                       *)

\* The table of a fold over n members with the steps g, by what has been taken.
FoldTable(it, b, g, n) ==
    it = [s \in SUBSET (1..n) |-> IF s = {} THEN b ELSE g[Max(s)][it[s \ {Max(s)}]]]

(* The last of what has been taken, and what was taken before it. *)
LEMMA LastTaken ==
    ASSUME NEW n \in Nat, NEW s \in SUBSET (1..n), s # {}
    PROVE  Max(s) \in s /\ Max(s) \in 1..n /\ s \ {Max(s)} \in SUBSET (1..n)
<1>1. s \in SUBSET (0..n)
  OBVIOUS
<1>2. Max(s) \in s
  BY <1>1, GreatestOf
<1>. QED
  BY <1>2

LEMMA PrefixTaken ==
    ASSUME NEW n \in Nat, NEW k \in 1..n
    PROVE  1..k # {} /\ Max(1..k) = k /\ (1..k) \ {k} = 1..(k - 1) /\ 1..k \in SUBSET (1..n)
           /\ 1..(k - 1) \in SUBSET (1..n) /\ k - 1 \in 0..n
<1>1. 1..k # {} /\ 1..k \in SUBSET (0..n) /\ k \in 1..k
  OBVIOUS
<1>2. Max(1..k) \in 1..k /\ \A y \in 1..k : y <= Max(1..k)
  BY <1>1, GreatestOf
<1>3. Max(1..k) = k
  BY <1>1, <1>2
<1>. QED
  BY <1>1, <1>3

(* The table of a fold exists. *)
LEMMA FoldTableExists ==
    ASSUME NEW n \in Nat, NEW A, NEW b \in A, NEW g \in [1..n -> [A -> A]]
    PROVE  \E it \in [SUBSET (1..n) -> A] : FoldTable(it, b, g, n)
<1>. DEFINE S == 1..n
            Small(k) == {s \in SUBSET S : Cardinality(s) <= k}
            Step(h, s) == IF s = {} THEN b ELSE g[Max(s)][h[s \ {Max(s)}]]
            Upto(k) == \E h \in [Small(k) -> A] : \A s \in Small(k) : h[s] = Step(h, s)
<1>0. IsFiniteSet(S) /\ Cardinality(S) = n
      /\ \A s \in SUBSET S : Cardinality(s) \in Nat /\ (Cardinality(s) = 0 <=> s = {})
                             /\ Cardinality(s) <= n
  <2>1. IsFiniteSet(S) /\ Cardinality(S) = n
    BY FS_Interval
  <2>. SUFFICES ASSUME NEW s \in SUBSET S
                PROVE  /\ Cardinality(s) \in Nat /\ (Cardinality(s) = 0 <=> s = {})
                       /\ Cardinality(s) <= n
    BY <2>1
  <2>2. s \subseteq S
    OBVIOUS
  <2>. HIDE DEF S, Small, Step, Upto
  <2>3. IsFiniteSet(s) /\ Cardinality(s) <= n
    BY <2>1, <2>2, FS_Subset
  <2>. QED
    BY <2>3, FS_CardinalityType, FS_EmptySet
<1>1. Upto(0)
  <2>1. Small(0) = {{}}
    BY <1>0
  <2>2. [s \in Small(0) |-> b] \in [Small(0) -> A]
    OBVIOUS
  <2>3. \A s \in Small(0) : [u \in Small(0) |-> b][s] = Step([u \in Small(0) |-> b], s)
    BY <2>1
  <2>. QED
    BY <2>2, <2>3
<1>2. ASSUME NEW k \in Nat, Upto(k)
      PROVE  Upto(k + 1)
  <2>1. PICK h \in [Small(k) -> A] : \A s \in Small(k) : h[s] = Step(h, s)
    BY <1>2
  <2>. DEFINE m == [s \in Small(k + 1) |-> Step(h, s)]
  <2>2. ASSUME NEW s \in Small(k + 1), s # {}
        PROVE  /\ Max(s) \in 1..n /\ s \ {Max(s)} \in Small(k)
               /\ s \ {Max(s)} \in Small(k + 1)
    <3>1. Max(s) \in s /\ Max(s) \in 1..n
      BY <2>2, LastTaken
    <3>2. /\ s \ {Max(s)} \in SUBSET S /\ Cardinality(s) \in Nat
          /\ Cardinality(s \ {Max(s)}) \in Nat
          /\ Cardinality(s \ {Max(s)}) = Cardinality(s) - 1
      BY <1>0, <3>1, OneLess
    <3>3. Cardinality(s) <= k + 1
      OBVIOUS
    <3>. HIDE DEF m
    <3>. QED
      BY <3>1, <3>2, <3>3
  <2>3. ASSUME NEW s \in Small(k + 1) PROVE Step(h, s) \in A
    <3>1. CASE s = {}
      BY <3>1
    <3>2. CASE s # {}
      <4>1. h[s \ {Max(s)}] \in A /\ g[Max(s)] \in [A -> A]
        BY <2>2, <3>2
      <4>. QED
        BY <3>2, <4>1
    <3>. QED
      BY <3>1, <3>2
  <2>4. m \in [Small(k + 1) -> A]
    BY <2>3
  <2>5. ASSUME NEW s \in Small(k) PROVE s \in Small(k + 1) /\ m[s] = h[s]
    <3>1. s \in Small(k + 1)
      BY <1>0
    <3>. QED
      BY <2>1, <3>1
  <2>6. ASSUME NEW s \in Small(k + 1) PROVE m[s] = Step(m, s)
    BY <2>2, <2>5
  <2>. HIDE DEF m
  <2>. QED
    BY <2>4, <2>6
<1>3. Upto(n)
  <2>. HIDE DEF Upto
  <2>. DEFINE Bad == {k \in Nat : ~Upto(k)}
  <2>1. SUFFICES ASSUME Bad # {} PROVE FALSE
    OBVIOUS
  <2>2. PICK k \in Bad : \A j \in Bad : k <= j
    BY <2>1, LeastOf
  <2>3. k # 0 /\ k \in Nat
    BY <1>1
  <2>4. k - 1 \in Nat /\ k - 1 \notin Bad
    BY <2>2, <2>3
  <2>5. Upto(k - 1)
    BY <2>4
  <2>6. Upto((k - 1) + 1)
    BY <1>2, <2>4, <2>5
  <2>7. (k - 1) + 1 = k
    BY <2>3
  <2>. QED
    BY <2>6, <2>7
<1>4. PICK h \in [Small(n) -> A] : \A s \in Small(n) : h[s] = Step(h, s)
  BY <1>3
<1>5. Small(n) = SUBSET S
  BY <1>0
<1>6. h = [s \in SUBSET S |-> Step(h, s)]
  BY <1>4, <1>5
<1>. QED
  BY <1>4, <1>5, <1>6 DEF FoldTable

\* h[k]: what the first k steps make of b.
StepsFrom(h, b, g, n) == h[0] = b /\ \A k \in 1..n : h[k] = g[k][h[k - 1]]

\* Of a fold's table the entries of what is taken first.
GoesBy(it, A, b, g, n) ==
    it[{}] = b /\ \A k \in 1..n : it[1..(k - 1)] \in A => it[1..k] = g[k][it[1..(k - 1)]]

(* A fold goes step by step. *)
LEMMA FoldGoes ==
    ASSUME NEW n \in Nat, NEW A, NEW b \in A, NEW g \in [1..n -> [A -> A]], NEW it,
           GoesBy(it, A, b, g, n)
    PROVE  LET h == [k \in 0..n |-> it[1..k]]
           IN  h \in [0..n -> A] /\ StepsFrom(h, b, g, n)
<1>. DEFINE h == [k \in 0..n |-> it[1..k]]
            Bad == {k \in 0..n : h[k] \notin A}
<1>1. 1..0 = {} /\ 0 \in 0..n
  OBVIOUS
<1>2. h[0] = b
  BY <1>1 DEF GoesBy
<1>3. \A k \in 1..n : k - 1 \in 0..n /\ k \in 0..n /\ h[k] = it[1..k] /\ h[k - 1] = it[1..(k - 1)]
  OBVIOUS
<1>4. \A k \in 1..n : h[k - 1] \in A => h[k] = g[k][h[k - 1]]
  BY <1>3 DEF GoesBy
<1>5. h = [k \in 0..n |-> h[k]]
  OBVIOUS
<1>. HIDE DEF h
<1>6. \A k \in 0..n : h[k] \in A
  <2>1. SUFFICES ASSUME Bad # {} PROVE FALSE
    OBVIOUS
  <2>2. PICK k \in Bad : \A j \in Bad : k <= j
    <3>1. Bad \in SUBSET Nat
      OBVIOUS
    <3>. QED
      BY <2>1, <3>1, LeastOf
  <2>3. k \in 0..n /\ h[k] \notin A
    OBVIOUS
  <2>4. k \in 1..n
    BY <1>2, <2>3
  <2>5. k - 1 \notin Bad
    BY <2>2, <2>4
  <2>6. h[k - 1] \in A /\ h[k] = g[k][h[k - 1]]
    BY <1>3, <1>4, <2>4, <2>5
  <2>. QED
    BY <2>3, <2>4, <2>6
<1>7. h \in [0..n -> A]
  BY <1>5, <1>6
<1>8. StepsFrom(h, b, g, n)
  BY <1>2, <1>3, <1>4, <1>6 DEF StepsFrom
<1>. QED
  BY <1>7, <1>8 DEF h

(* Steps can be gone one by one. *)
LEMMA StepsExist ==
    ASSUME NEW n \in Nat, NEW A, NEW b \in A, NEW g \in [1..n -> [A -> A]]
    PROVE  \E h \in [0..n -> A] : StepsFrom(h, b, g, n)
<1>1. PICK it \in [SUBSET (1..n) -> A] : FoldTable(it, b, g, n)
  BY FoldTableExists
<1>2. GoesBy(it, A, b, g, n)
  <2>1. it[{}] = b
    BY <1>1 DEF FoldTable
  <2>2. ASSUME NEW k \in 1..n PROVE it[1..k] = g[k][it[1..(k - 1)]]
    <3>1. 1..k # {} /\ Max(1..k) = k /\ (1..k) \ {k} = 1..(k - 1) /\ 1..k \in SUBSET (1..n)
      BY PrefixTaken
    <3>2. it[1..k] = g[Max(1..k)][it[(1..k) \ {Max(1..k)}]]
      BY <1>1, <3>1 DEF FoldTable
    <3>. QED
      BY <3>1, <3>2
  <2>. QED
    BY <2>1, <2>2 DEF GoesBy
<1>. QED
  BY <1>2, FoldGoes
===============================================================================
