---------------------------- MODULE AttemptReports ----------------------------
(***************************************************************************)
(* The two reports over the tree of finished runs: analyze_scores.py finds  *)
(* attempts by results.json and scores them, cost_tracker.py finds them by  *)
(* agent_trace.jsonl and bills them, and both must take the same attempt of *)
(* a cell, by the rule of lib/attempt_policy.py.  Runs end, or are killed,   *)
(* between two reports.                                                     *)
(***************************************************************************)
EXTENDS Integers, FiniteSetsExt

CONSTANTS
    AnalysedTasks,
    AnalysedModes,     \* VALID_MODES
    Unknown,           \* the mode of a directory whose name has none
    NoLabel,           \* of an ordinary run; an experiment's runs have another
    RunSamples,        \* what runs can leave behind
    Corpora,           \* the trees the reports may start from
    LastRun,           \* bound: when the last run starts
    Unread             \* there is no such report

Places == {"runs",     \* results/runs/<task>/<mode>[--<label>]
           "rep",      \* a repetition, or a study's attempt, below that
           "batch",    \* results/mcp_batch*/<task>_<mode>
           "smoke"}    \* results/smoke_*

\* results.json: absent; torn, or no object; status invalid; without a proof of
\* cache isolation; without a score; with a score under no contract; scored.
Files == {"absent", "torn", "invalid", "confounded", "unscored", "unstamped", "scored"}

NoClock == 0       \* a legacy result lacks started_at
Corrupt == -1      \* it has one that is no time
NoStamp == 0       \* no line of the trace has a time

Attempts == [task : AnalysedTasks, mode : AnalysedModes, place : Places, file : Files,
             label : {NoLabel} \cup {s.label : s \in RunSamples},
             score : {0, 1}, clock : Int, trace : BOOLEAN, stamp : Nat]

\* A tree has finitely many directories, and no result of it was dated later
\* than the next run will be.
ASSUME AttemptAssumption ==
    /\ LastRun \in Nat /\ Unknown \notin AnalysedModes
    /\ RunSamples \subseteq Attempts
    /\ \A c \in Corpora :
         /\ IsFiniteSet(DOMAIN c) /\ DOMAIN c \subseteq Int
         /\ \A d \in DOMAIN c : c[d] \in Attempts /\ c[d].clock <= Cardinality(DOMAIN c)

VARIABLES
    results,        \* the attempts on disk by directory, numbered as their names sort
    hostClock,      \* the time of the next run
    flags,          \* the command line both reports are called with
    scoreReport, costReport

reportVars == <<results, hostClock, flags, scoreReport, costReport>>

ReportTypeOK ==
    /\ \A d \in DOMAIN results : results[d] \in Attempts
    /\ hostClock \in Nat
    /\ flags \in [explicit : BOOLEAN, legacy : BOOLEAN]

ReportsInit ==
    /\ results \in Corpora
    /\ hostClock = 1 + Cardinality(DOMAIN results)
    /\ flags \in [explicit : BOOLEAN, legacy : BOOLEAN]
    /\ scoreReport = Unread /\ costReport = Unread

-----------------------------------------------------------------------------
(* One attempt, as its files tell it (attempt_policy.py).                     *)

Readable(a) == a.file \notin {"absent", "torn"}

HostDated(a) == Readable(a) /\ a.clock \notin {NoClock, Corrupt}

\* The agent's trace dates an attempt only where no started_at was ever written.
TraceDated(a) ==
    /\ a.file = "absent" \/ (Readable(a) /\ a.clock = NoClock)
    /\ a.trace /\ a.stamp # NoStamp

Timestamp(a) ==
    CASE HostDated(a)  -> [source |-> "host", time |-> a.clock]
      [] TraceDated(a) -> [source |-> "legacy_trace", time |-> a.stamp]
      [] OTHER         -> [source |-> "undated", time |-> 0]

\* attempt_sort_key: what cannot be dated is last, a tie falls to the directory.
SortsBefore(d, e) ==
    LET a == Timestamp(results[d])  b == Timestamp(results[e])
        undated(t) == t.source = "undated" IN
    IF undated(a) # undated(b) THEN undated(b)
    ELSE a.time < b.time \/ (a.time = b.time /\ d < e)

\* What parse_result makes a TaskResult of: without a contract only on demand.
Scored(a) == a.file = "scored" \/ (a.file = "unstamped" /\ flags.legacy)

-----------------------------------------------------------------------------
(* Both reports take one attempt of each cell.                               *)

(* Mutant: a cell is shown by its best attempt. *)
SelectBest(ds) ==
    CHOOSE d \in ds : \A e \in ds \ {d} :
        \/ results[d].score > results[e].score
        \/ results[d].score = results[e].score /\ SortsBefore(d, e)

\* The earliest; the score does not enter.
SelectAttempt(ds) == CHOOSE d \in ds : \A e \in ds \ {d} : SortsBefore(d, e)

CellOf(d) == <<results[d].task, results[d].mode>>

\* A report names the attempt of a cell by its directory and its time.
RowsOf(ds) ==
    [cell \in {CellOf(d) : d \in ds} |->
        LET d == SelectAttempt({e \in ds : CellOf(e) = cell})
        IN [dir |-> d, at |-> Timestamp(results[d])]]

ScorePlaces == IF flags.explicit THEN {"runs", "rep"} ELSE Places
CostPlaces  == IF flags.explicit THEN {"runs", "rep"} ELSE Places \ {"smoke"}

-----------------------------------------------------------------------------
(* analyze_scores.py                                                         *)

\* Labelled runs are passed over before anything else of them is read.
OrdinaryResults ==
    {d \in DOMAIN results : /\ results[d].place \in ScorePlaces /\ Readable(results[d])
                            /\ results[d].label = NoLabel}

\* One result under no contract refuses the report.
AnalyzeScores ==
    /\ ~flags.legacy => \A d \in OrdinaryResults : results[d].file # "unstamped"
    /\ scoreReport' = RowsOf({d \in OrdinaryResults : Scored(results[d])})
    /\ UNCHANGED <<results, hostClock, flags, costReport>>

-----------------------------------------------------------------------------
(* cost_tracker.py                                                           *)

TracedAttempts ==
    {d \in DOMAIN results : results[d].place \in CostPlaces /\ results[d].trace}

\* _parse_dir_identity.
PathMode(a)  == IF a.place \in {"runs", "batch"} THEN a.mode ELSE Unknown
PathLabel(a) == IF a.place = "runs" THEN a.label ELSE NoLabel

\* A file that can be read says what the attempt is of.
BilledMode(a) == IF Readable(a) THEN a.mode ELSE PathMode(a)

\* Its label is read with its score, or else from the path.
BilledLabel(a) == IF Scored(a) THEN a.label ELSE PathLabel(a)

\* What belongs to an arm, scored or not.
InScope ==
    {d \in TracedAttempts : /\ BilledMode(results[d]) # Unknown
                            /\ BilledLabel(results[d]) = NoLabel}

(* Mutant: an unscored attempt stands for its cell if it was the first. *)
CellsBilledUnscored == RowsOf({d \in InScope : Readable(results[d])})

CellsBilled == RowsOf({d \in InScope : Scored(results[d])})

ArmsRun == {BilledMode(results[d]) : d \in InScope}

MatchedTasks ==
    {t \in AnalysedTasks : \A m \in ArmsRun : <<t, m>> \in DOMAIN CellsBilled}

\* comparison_attempts: the tasks that every arm has a row of.
TrackCosts ==
    /\ ~flags.legacy => \A d \in TracedAttempts : results[d].file # "unstamped"
    /\ costReport' = [cell \in {c \in DOMAIN CellsBilled : c[1] \in MatchedTasks} |->
                          CellsBilled[cell]]
    /\ UNCHANGED <<results, hostClock, flags, scoreReport>>

-----------------------------------------------------------------------------
(* What happens to the tree.  A report that was made stays on disk; here it   *)
(* goes when the tree changes, but for the scores that were published last.   *)

TreeChanges == costReport' = Unread /\ UNCHANGED <<flags, scoreReport>>

\* run_task writes into the directory of its task, mode and label whether or not
\* a run was there before; every other run has a directory of its own.
SameDir(s) ==
    {d \in DOMAIN results : /\ s.place = "runs" /\ results[d].place = "runs"
                            /\ CellOf(d) = <<s.task, s.mode>> /\ results[d].label = s.label}

\* Its name sorts before or after those that are there.
NewDirs == IF DOMAIN results = {} THEN {0}
           ELSE {Min(DOMAIN results) - 1, Max(DOMAIN results) + 1}

DirsOf(s) == IF SameDir(s) # {} THEN SameDir(s) ELSE NewDirs

\* The trace is copied first, when there is one; results.json is written last.
Overwritten(s, old) ==
    [s EXCEPT !.trace = s.trace \/ old.trace,
              !.stamp = IF s.trace THEN s.stamp ELSE old.stamp,
              !.file  = IF s.file = "absent" THEN old.file ELSE s.file,
              !.score = IF s.file = "absent" THEN old.score ELSE s.score,
              !.clock = IF s.file = "absent" THEN old.clock ELSE hostClock]

NothingThere(s) == [s EXCEPT !.trace = FALSE, !.file = "absent", !.clock = NoClock]

\* hostClock is the time a run starts; runs are told apart by it.
RunEnds ==
    /\ hostClock <= LastRun
    /\ \E s \in RunSamples : \E d \in DirsOf(s) :
          LET old == IF d \in DOMAIN results THEN results[d] ELSE NothingThere(s) IN
          results' = [e \in DOMAIN results \cup {d} |->
                         IF e = d THEN Overwritten(s, old) ELSE results[e]]
    /\ hostClock' = hostClock + 1
    /\ TreeChanges

ReportsNext == AnalyzeScores \/ TrackCosts \/ RunEnds

ReportsSpec == ReportsInit /\ [][ReportsNext]_reportVars
-----------------------------------------------------------------------------
ScoreRows == RowsOf({d \in OrdinaryResults : Scored(results[d])})

(* The reports join: of one tree, called with the same flags, every cell     *)
(* that is billed is scored, and by the same attempt, unless the one that    *)
(* scores it is out of the cost report's sight, for want of a trace or of a  *)
(* directory that it looks into (attempt_sort_key, select_attempt,           *)
(* load_all_results).                                                       *)
ReportsAgree ==
    costReport # Unread =>
        \A cell \in DOMAIN costReport :
            /\ cell \in DOMAIN ScoreRows
            /\ ScoreRows[cell].dir \in TracedAttempts =>
                   costReport[cell] = ScoreRows[cell]

(* Running a cell again does not resample its score: as long as the attempt  *)
(* that was published is there, and the host dated it, no later run takes    *)
(* its place, whatever it scored; only a legacy result, dated by its trace,  *)
(* can still be found to be older (attempt_policy.py).                       *)
RerunsStand ==
    [][scoreReport # Unread =>
         (\A cell \in DOMAIN scoreReport :
            LET row == scoreReport[cell] IN
            (/\ row.at.source = "host" /\ row.dir \in DOMAIN results
             /\ Scored(results[row.dir]) /\ Timestamp(results[row.dir]) = row.at) =>
                /\ cell \in DOMAIN scoreReport'
                /\ \/ scoreReport'[cell] = row
                   \/ scoreReport'[cell].at.source = "legacy_trace")]_scoreReport

(* An attempt is billed to the experiment its results.json names: the path   *)
(* speaks only for an attempt without one that can be read (_attempt_facts). *)
FiledUnderItsLabel ==
    \A d \in InScope : Readable(results[d]) => results[d].label = NoLabel
=============================================================================
