---------------------------- MODULE StudyInference ----------------------------
(***************************************************************************)
(* study_inference.py: the numbers a complete headline study is judged by.  *)
(* A question is an input to one of its algorithms; the algorithms are      *)
(* operators, and what they give is compared with what they are meant to    *)
(* compute.                                                                 *)
(*                                                                         *)
(* Scores and p-values are whole numbers of a unit, a mean stands as the    *)
(* sum over the tasks it is of, and the digest behind an index is any word  *)
(* of the stream's modulus.                                                 *)
(***************************************************************************)
EXTENDS Integers, Sequences, FiniteSets, FiniteSetsExt, SequencesExt

CONSTANTS
    Unit,          \* what 1.0 is
    FamilySize,    \* p-values in a family
    NSample,       \* tasks of a study
    TaskTypes,     \* strata
    NReplicates,   \* bootstrap_repetitions
    Modulus        \* words that a digest may be: 2^64 in the code

ASSUME InferenceAssumption ==
    /\ Unit \in Nat \ {0} /\ FamilySize \in Nat \ {0} /\ NSample \in Nat \ {0}
    /\ NReplicates \in Nat \ {0} /\ Modulus \in Nat \ {0}

VARIABLE question

inferenceVars == <<question>>

Family == 1..FamilySize
Sample == 1..NSample

\* What the algorithms may be asked: p-values, strata with the paired differences,
\* the means of the replicates, and a bound for the index stream.
Questions ==
    [of : {"family"}, p : [Family -> 0..Unit]]
      \cup [of : {"strata"}, types : [Sample -> TaskTypes], delta : [Sample -> -Unit..Unit]]
      \cup [of : {"means"}, means : [1..NReplicates -> -Unit..Unit]]
      \cup [of : {"index"}, bound : 1..Modulus]

InferenceInit == question \in Questions

-----------------------------------------------------------------------------
(* Holm's adjustment.                                                       *)

RankedBefore(p, m, n) == p[m] < p[n] \/ (p[m] = p[n] /\ m < n)

Rank(p, n) == Cardinality({m \in Family : RankedBefore(p, m, n)})

\* Mutant: each for itself, so that a larger p-value may end below a smaller one.
HolmWithoutRunningMax(p) ==
    [n \in Family |-> Min({Unit, (FamilySize - Rank(p, n)) * p[n]})]

\* _holm_adjust_raw: the running maximum of what was multiplied so far.
HolmAdjust(p) ==
    [n \in Family |->
       LET sofar == {m \in Family : m = n \/ RankedBefore(p, m, n)} IN
       Min({Unit, Max({(FamilySize - Rank(p, m)) * p[m] : m \in sofar})})]

\* What it is a shortcut for: every intersection tested with Bonferroni's correction.
ClosedBonferroni(p) ==
    [n \in Family |->
       Max({Min({Unit, Cardinality(s) * Min({p[m] : m \in s})}) :
              s \in {x \in SUBSET Family : n \in x}})]

-----------------------------------------------------------------------------
(* The paired bootstrap.                                                    *)

\* Mutant: the task population is resampled as a whole.
FlatResamples(types) == [Sample -> Sample]

\* _stratified_resample_indices, up to the order of a replicate: in the place of each
\* task, one of its type.
StratifiedResamples(types) ==
    {r \in [Sample -> Sample] : \A i \in Sample : types[r[i]] = types[i]}

\* The mean of a replicate, times the tasks.
ReplicateSum(delta, r) == FoldLeft(LAMBDA a, i : a + delta[r[i]], 0, [i \in Sample |-> i])

\* _percentile, at q / 200 of the ordered means, in 200ths.
Percentile(ordered, q) ==
    LET position == (Len(ordered) - 1) * q
        lower    == position \div 200
        upper    == (position + 199) \div 200
    IN  200 * ordered[lower + 1]
          + (ordered[upper + 1] - ordered[lower + 1]) * (position % 200)

\* Mutant: the means are taken as they come.
UnorderedInterval(means, level) ==
    [low |-> Percentile(means, 100 - level), high |-> Percentile(means, 100 + level)]

\* sorted: in a place the mean that fewer are below than come before it, and enough not above.
InOrder(means) ==
    [i \in DOMAIN means |->
       CHOOSE v \in Range(means) :
          /\ Cardinality({j \in DOMAIN means : means[j] < v}) < i
          /\ i <= Cardinality({j \in DOMAIN means : means[j] <= v})]

\* The percentile interval of a level in percent, with half of the rest in each tail.
Interval(means, level) ==
    LET ordered == InOrder(means) IN
    [low |-> Percentile(ordered, 100 - level), high |-> Percentile(ordered, 100 + level)]

Within(x, y) == y.low <= x.low /\ x.low <= x.high /\ x.high <= y.high

-----------------------------------------------------------------------------
(* The index stream.                                                        *)

\* Mutant: no word is drawn again.
EveryWord(bound) == 0..(Modulus - 1)

\* Sha256IndexStream: a word beyond the last whole round is drawn again.
AcceptedWords(bound) == 0..(Modulus - (Modulus % bound) - 1)

-----------------------------------------------------------------------------
(* No adjusted p-value is smaller than closed testing allows, and none is   *)
(* larger than needed (holm_adjust).                                        *)
HolmIsClosedTesting ==
    question.of = "family" => HolmAdjust(question.p) = ClosedBonferroni(question.p)

(* Tasks that differ only by their type give every replicate the observed   *)
(* difference: strata keep their sizes.                                     *)
StrataKeepTheirSizes ==
    question.of = "strata"
      /\ (\A i, j \in Sample : question.types[i] = question.types[j]
                                 => question.delta[i] = question.delta[j])
    => \A r \in StratifiedResamples(question.types) :
          ReplicateSum(question.delta, r) = ReplicateSum(question.delta, [i \in Sample |-> i])

(* The interval of the parity test lies in the 95 % interval, and that one  *)
(* between the extremes of the replicates.                                  *)
IntervalsNest ==
    question.of = "means" =>
        LET r == Range(question.means) IN
        /\ Within(Interval(question.means, 90), Interval(question.means, 95))
        /\ Within(Interval(question.means, 95), [low |-> 200 * Min(r), high |-> 200 * Max(r)])

(* Every index is drawn from as many words as any other.                    *)
IndexIsUnbiased ==
    question.of = "index" =>
        \A i, j \in 0..(question.bound - 1) :
            Cardinality({w \in AcceptedWords(question.bound) : w % question.bound = i})
              = Cardinality({w \in AcceptedWords(question.bound) : w % question.bound = j})

(* What confirmatory inference reports is what its method promises:         *)
(* adjusted p-values by closed testing, replicates of the study's own mix   *)
(* of tasks, intervals that nest, and indices without a bias                *)
(* (holm_adjust, build_inference, _Sha256IndexStream).                      *)
InferenceIsExact ==
    HolmIsClosedTesting /\ StrataKeepTheirSizes /\ IntervalsNest /\ IndexIsUnbiased
=============================================================================
