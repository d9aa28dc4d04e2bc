------------------------------- MODULE Grading -------------------------------
(***************************************************************************)
(* How a finished workspace becomes a number.  Two programs do it: the      *)
(* shell runner in the container (scripts/sandbox/test_runner.sh), whose    *)
(* report the host guards (lib/eb_verify/scorer_guard.py) and whose scores  *)
(* it caps with a judge (run_task.py, _apply_llm_judge); and the Python     *)
(* runner (lib/eb_verify/runner.py), which guards and judges checkpoint by  *)
(* checkpoint.  A verifier does anything a process can do: it misses a      *)
(* command, hangs, dies on the import of its harness or on the agent's      *)
(* answer, prints half a verdict.  Scores are counted in halves.            *)
(***************************************************************************)
EXTENDS Naturals, Sequences, FiniteSetsExt

CONSTANTS
    NChecks,    \* checkpoints of the task
    NoScore

Checks == 1..NChecks
HalfPoints == 0..2

ASSUME GradingAssumption == NChecks \in Nat \ {0} /\ NoScore \notin Nat

VARIABLES
    gradePc,    \* next step of the grading
    grader,     \* which of the two programs
    curated,    \* expected_solution.json
    artifact,   \* the agent's answer
    weights,    \* weight of each checkpoint
    judge,      \* the judge: none, up, or failed in this run
    capped,     \* checkpoints the host has had judged
    graded,     \* what came of each checkpoint so far
    mark,       \* what is reported: a weighted sum, or no score
    printed,    \* history: the score each verifier printed by its end
    opinions,   \* history: the judge's score of each checkpoint
    broken      \* history: how the harness of verifiers failed

gradeCase == <<grader, curated, artifact, weights>>
gradeHistory == <<printed, opinions, broken>>
gradingVars == <<gradePc, gradeCase, judge, capped, graded, mark, gradeHistory>>

\* One run of a verifier: whether bash missed a command, how it ended, whether it
\* printed an object with a readable score, and what was seen of the harness.
Fates == {f \in [missing : BOOLEAN, exit : {"zero", "other", "timeout", "127"},
                 object : BOOLEAN, score : HalfPoints \cup {NoScore},
                 import : BOOLEAN, signature : BOOLEAN] :
            (f.score # NoScore \/ f.signature) => f.object}

GradingTypeOK ==
    /\ gradePc \in {"start", "verify", "guard", "judge", "end"}
    /\ grader \in {"shell", "runner"}
    /\ curated \in {"absent", "complete", "incomplete", "unreadable"}
    /\ artifact \in {"absent", "object", "garbage"}
    /\ weights \in [Checks -> 0..1]
    /\ judge \in {"none", "up", "failed"} /\ capped \in 0..NChecks
    /\ graded \in Seq([score : HalfPoints, ran : BOOLEAN, signature : BOOLEAN])
    /\ mark \in 0..2 * NChecks \cup {NoScore}
    /\ printed \in [Checks -> HalfPoints \cup {NoScore}]
    /\ opinions \in [Checks -> HalfPoints \cup {NoScore}]
    /\ broken \in [noticed : BOOLEAN, import : BOOLEAN]

GradingInit ==
    /\ gradePc = "start" /\ grader \in {"shell", "runner"}
    /\ curated \in {"absent", "complete", "incomplete", "unreadable"}
    /\ artifact \in {"absent", "object", "garbage"}
    /\ weights \in [Checks -> 0..1]
    /\ judge = "none" /\ capped = 0 /\ graded = <<>> /\ mark = NoScore
    /\ printed = [i \in Checks |-> NoScore] /\ opinions = [i \in Checks |-> NoScore]
    /\ broken = [noticed |-> FALSE, import |-> FALSE]

Least(a, b) == IF a <= b THEN a ELSE b
TotalWeight == MapThenSumSet(LAMBDA i : weights[i], Checks)
WeightedSum(score(_)) == MapThenSumSet(LAMBDA i : score(i) * weights[i], Checks)

-----------------------------------------------------------------------------
(***************************************************************************)
(* What a runner makes of one verifier.                                    *)
(***************************************************************************)
NotRun     == [score |-> 0, ran |-> FALSE, signature |-> TRUE]
AgentsZero == [score |-> 0, ran |-> TRUE, signature |-> FALSE]
Verdict(f) == [score |-> f.score, ran |-> TRUE, signature |-> f.signature]

(* Mutant: a bad answer explains the failure before the harness is cleared. *)
RunVerifierBlamingFirst(f) ==
    IF f.missing THEN NotRun
    ELSE IF f.exit = "timeout" THEN AgentsZero
    ELSE IF f.exit = "127" THEN NotRun
    ELSE IF f.score # NoScore THEN Verdict(f)
    ELSE IF artifact = "garbage" /\ f.exit # "zero" THEN AgentsZero
    ELSE NotRun

\* The shell: a missing command counts whatever was printed, a hang is scored, and an
\* answer that is no object is to blame only where the harness was loaded; the exit
\* status of a verifier that gave a score says nothing.
RunVerifier(f) ==
    IF f.missing THEN NotRun
    ELSE IF f.exit = "timeout" THEN AgentsZero
    ELSE IF f.exit = "127" THEN NotRun
    ELSE IF f.score # NoScore THEN Verdict(f)
    ELSE IF f.import /\ ~f.object THEN NotRun
    ELSE IF artifact = "garbage" /\ f.exit # "zero" THEN AgentsZero
    ELSE NotRun

\* The Python runner: no failure is the agent's, and a command bash misses is not seen.
GuardCheckpointVerdict(f) ==
    IF f.exit = "timeout" \/ f.import \/ f.score = NoScore \/ f.signature
    THEN NotRun ELSE Verdict(f)

\* A failure of the harness that the runner has to notice, and an import error of it
\* that left the verifier without a score.
Noticed(f) ==
    \/ grader = "shell" /\ (f.missing \/ f.exit = "127")
    \/ grader = "runner" /\ (f.exit = "timeout" \/ f.score = NoScore)
    \/ f.exit # "timeout" /\ f.signature /\ f.score # NoScore
    \/ f.exit # "timeout" /\ f.import /\ ~f.object

ImportDeath(f) == f.import /\ f.score = NoScore /\ f.exit # "timeout"

Remember(f) ==
    /\ printed' = [printed EXCEPT ![Len(graded) + 1] =
                      IF f.exit = "timeout" THEN NoScore ELSE f.score]
    /\ broken' = [noticed |-> broken.noticed \/ Noticed(f),
                  import |-> broken.import \/ ImportDeath(f)]

-----------------------------------------------------------------------------
(***************************************************************************)
(* Both runners take the checkpoints in order.                             *)
(***************************************************************************)
\* A curated solution that cannot be read ends the Python runner; a judge that cannot
\* be built leaves it without one.
StartGrading ==
    /\ gradePc = "start"
    /\ gradePc' = IF grader = "runner" /\ curated = "unreadable" THEN "end" ELSE "verify"
    /\ judge' \in IF grader = "runner" /\ curated # "absent" THEN {"none", "up"}
                  ELSE {"none"}
    /\ UNCHANGED <<gradeCase, capped, graded, mark, gradeHistory>>

RunShellVerifier ==
    /\ grader = "shell" /\ gradePc = "verify" /\ Len(graded) < NChecks
    /\ \E f \in Fates : graded' = Append(graded, RunVerifier(f)) /\ Remember(f)
    /\ UNCHANGED <<gradePc, gradeCase, judge, capped, mark, opinions>>

\* The first failure of the judge is its last call: from then on a verdict stands as
\* a zero whose detail names the failure.
RunCheckpoint ==
    /\ grader = "runner" /\ gradePc = "verify" /\ Len(graded) < NChecks
    /\ \E f \in Fates :
        LET g == GuardCheckpointVerdict(f)
            i == Len(graded) + 1
            Unjudged == graded' = Append(graded, g) /\ UNCHANGED <<judge, opinions>>
            Outage == /\ graded' = Append(graded, [g EXCEPT !.score = 0, !.signature = TRUE])
                      /\ judge' = "failed" /\ UNCHANGED opinions
            Capped == \E j \in HalfPoints :
                      /\ graded' = Append(graded, [g EXCEPT !.score = Least(@, j)])
                      /\ opinions' = [opinions EXCEPT ![i] = j] /\ UNCHANGED judge
        IN  /\ Remember(f)
            /\ IF ~g.ran \/ artifact = "absent" \/ judge = "none" THEN Unjudged
               ELSE IF judge = "failed" THEN Outage
               ELSE Outage \/ Capped \/ (curated = "incomplete" /\ Unjudged)
    /\ UNCHANGED <<gradePc, gradeCase, capped, mark>>

\* A required artifact without grounded citations forces the number down.
RunnerTotals ==
    /\ grader = "runner" /\ gradePc = "verify" /\ Len(graded) = NChecks
    /\ mark' \in IF \E i \in Checks : ~graded[i].ran THEN {NoScore}
                 ELSE {0, WeightedSum(LAMBDA i : graded[i].score)}
    /\ gradePc' = "end"
    /\ UNCHANGED <<gradeCase, judge, capped, graded, gradeHistory>>

-----------------------------------------------------------------------------
(***************************************************************************)
(* The report of the shell runner, on the host.                            *)
(***************************************************************************)
\* An error instead of a report, or none: a repository that cannot be entered, no
\* verifiers, no interpreter for them, or the time limit of the whole.
ReportsError ==
    /\ grader = "shell" /\ gradePc = "verify"
    /\ gradePc' = "end"
    /\ UNCHANGED <<gradeCase, judge, capped, graded, mark, gradeHistory>>

\* Weights that sum to nothing are an error too.
ReportTotals ==
    /\ grader = "shell" /\ gradePc = "verify" /\ Len(graded) = NChecks
    /\ gradePc' = IF TotalWeight = 0 THEN "end" ELSE "guard"
    /\ UNCHANGED <<gradeCase, judge, capped, graded, mark, gradeHistory>>

GuardVerifierOutput ==
    /\ gradePc = "guard"
    /\ LET trusted == \A i \in Checks : graded[i].ran /\ ~graded[i].signature IN
        /\ gradePc' = IF trusted /\ curated # "absent" THEN "judge" ELSE "end"
        /\ mark' = IF trusted /\ curated = "absent"
                   THEN WeightedSum(LAMBDA i : graded[i].score) ELSE NoScore
    /\ UNCHANGED <<gradeCase, judge, capped, graded, gradeHistory>>

\* Without ground truth for every checkpoint, an answer and a judge there is no cap,
\* and without the cap no score.
CannotJudge ==
    /\ gradePc = "judge" /\ judge = "none"
    /\ gradePc' = "end"
    /\ UNCHANGED <<gradeCase, judge, capped, graded, mark, gradeHistory>>

BuildJudge ==
    /\ gradePc = "judge" /\ judge = "none"
    /\ curated = "complete" /\ artifact # "absent"
    /\ judge' = "up"
    /\ UNCHANGED <<gradePc, gradeCase, capped, graded, mark, gradeHistory>>

\* Checkpoint by checkpoint, in place.
ApplyLLMJudge ==
    /\ gradePc = "judge" /\ judge = "up" /\ capped < NChecks
    /\ LET i == capped + 1 IN
        \E j \in HalfPoints :
            /\ graded' = [graded EXCEPT ![i].score = Least(@, j)]
            /\ opinions' = [opinions EXCEPT ![i] = j]
            /\ capped' = i
    /\ UNCHANGED <<gradePc, gradeCase, judge, mark, printed, broken>>

\* Half of the checkpoints capped is no measurement.
JudgeRaises ==
    /\ gradePc = "judge" /\ judge = "up" /\ capped < NChecks
    /\ judge' = "failed" /\ gradePc' = "end"
    /\ UNCHANGED <<gradeCase, capped, graded, mark, gradeHistory>>

JudgeTotals ==
    /\ gradePc = "judge" /\ capped = NChecks
    /\ mark' = WeightedSum(LAMBDA i : graded[i].score)
    /\ gradePc' = "end"
    /\ UNCHANGED <<gradeCase, judge, capped, graded, gradeHistory>>

GradingNext ==
    \/ StartGrading \/ RunShellVerifier \/ RunCheckpoint \/ RunnerTotals
    \/ ReportsError \/ ReportTotals \/ GuardVerifierOutput \/ CannotJudge \/ BuildJudge
    \/ ApplyLLMJudge \/ JudgeRaises \/ JudgeTotals

GradingSpec == GradingInit /\ [][GradingNext]_gradingVars

-----------------------------------------------------------------------------
(* A number stands for all checkpoints and only for what was measured: no   *)
(* harness failed, every checkpoint counts with the lower of what its       *)
(* verifier printed and what the judge said, nothing printed counting as a  *)
(* zero, and on a curated task every checkpoint was judged.  The Python     *)
(* runner may go below that, and is without a judge's opinion only where    *)
(* the outage is declared or where no judge was to be had (run_verifier,    *)
(* guard_verifier_output, _apply_llm_judge, run_all).                       *)
Earned(i) ==
    Least(IF printed[i] = NoScore THEN 0 ELSE printed[i],
          IF opinions[i] = NoScore THEN 2 ELSE opinions[i])

ScoreIsMeasured ==
    mark # NoScore =>
        /\ ~broken.noticed /\ Len(graded) = NChecks
        /\ IF grader = "shell"
           THEN /\ mark = WeightedSum(Earned)
                /\ curated # "absent" => \A i \in Checks : opinions[i] # NoScore
           ELSE /\ mark <= WeightedSum(Earned)
                /\ (curated = "complete" /\ artifact # "absent" /\ judge # "none") =>
                       \A i \in Checks : opinions[i] # NoScore \/ graded[i].signature

(* A verifier that died on the import of its harness is never scored, however *)
(* malformed the agent's answer is (test_runner.sh, run_verifier).          *)
HarnessDeathNeverScored == mark # NoScore => ~broken.import
=============================================================================
