---------------------------- MODULE BenchmarkSweep ----------------------------
(***************************************************************************)
(* scripts/run_benchmark.py: one dispatcher that runs every matched task   *)
(* in every requested mode, in sequence or in a pool of workers, keeps the *)
(* money spent under a budget, reads back what each child left on disk and *)
(* writes a summary.  Sweeps follow one another over the same results      *)
(* tree; a dispatcher or a worker may be killed, and children then live on. *)
(*                                                                         *)
(* A child is run_task, chain_runner or event_replay; what it does to the  *)
(* files the dispatcher reads is all that is modelled of it here.          *)
(***************************************************************************)
EXTENDS Naturals, Sequences, FiniteSets, FiniteSetsExt

CONSTANTS
    Tasks,          \* the ids of the task.toml files found, in order
    SessionType,    \* the session_type each of them declares
    Modes,          \* the tool-access modes used
    SweepConfigs,   \* the command lines considered
    Outcomes,       \* what a run may record: success, a score, its cost
    Legacy,         \* the old-layout results that may lie there at first
    MaxSweeps,      \* bound: how many sweeps follow one another
    Absent,         \* no file, no budget
    Torn            \* a file that does not parse

Names == {Tasks[i] : i \in DOMAIN Tasks}
Segments == Modes \X BOOLEAN            \* <mode> and <mode>--<label>

SweepConfigShape ==
    [mode : Modes,          \* --mode
     modes : Seq(Modes),    \* --modes, or the one of --mode
     skip : BOOLEAN,        \* --skip-completed
     labelled : BOOLEAN,    \* a variant label is in effect
     dry : BOOLEAN, workers : Nat, budget : Nat \cup {Absent}]

\* The results tree knows a task by its id, and ids are unique within a suite
\* only (scripts/validation/curate_rryas_manifest.py:103): sweeps over suites
\* that share one are left out.
ASSUME SweepAssumption ==
    /\ Tasks \in Seq(Names) /\ \A i, j \in DOMAIN Tasks : Tasks[i] = Tasks[j] => i = j
    /\ SessionType \in [Names -> {"single", "chain", "event_replay", "resume"}]
    /\ SweepConfigs \subseteq SweepConfigShape
    /\ \A c \in SweepConfigs : c.modes # <<>>
    /\ Outcomes \subseteq [success : BOOLEAN, scored : BOOLEAN, cost : Nat]
    /\ Legacy \subseteq SUBSET Names /\ MaxSweeps \in Nat /\ Absent \notin Nat /\ Absent # Torn

VARIABLES
    runs,       \* results/runs/<task>/<segment>/results.json
    legacy,     \* results/runs/<task>/results.json, of the single-mode layout
    beside,     \* results.json beside the task.toml
    launches,   \* history: every child that was to be started
    orphans,    \* history: the children whose dispatcher or worker was killed
    sweepPc, config, \* the step and the command line of the current sweep
    todo,       \* its tasks after filtering
    mode,       \* index of the current mode
    started,    \* how many tasks of the current mode were started
    running,    \* tasks with a live child, each with its launch
    before,     \* the candidate files of a task as they were at its launch
    gathered,   \* the results of the current mode
    results,    \* the results of the modes that are over
    cumulative, \* cumulative_cost_usd
    exceeded,   \* budget_exceeded
    givenUp,    \* history: of a child of this sweep that is over nothing was read
    exit,       \* exit status of the last sweep: "clean" is 0, "budget" is 3
    sweeps      \* how many sweeps were started

sweepFiles == <<runs, legacy, beside>>
sweepHistory == <<launches, orphans>>
progress == <<mode, started, running, before, gathered, results, cumulative, exceeded,
              givenUp>>
sweepVars == <<sweepFiles, sweepHistory, sweepPc, config, todo, progress, exit, sweeps>>

Costs == {o.cost : o \in Outcomes}

Records == [by : Nat, success : BOOLEAN, scored : BOOLEAN, cost : Costs \cup {0}]
Files == Records \cup {Absent, Torn}
\* The status of a result is "completed", or one of an error, a timeout, a skip, a dry run.
Results == [task : Names, segment : Segments, completed : BOOLEAN,
            scored : BOOLEAN, by : Nat, cost : Nat]

ASSUME NoFileAssumption ==
    \A nothing \in {Absent, Torn} :
        nothing \notin Records /\ nothing \notin Results /\ nothing \notin SweepConfigs

SweepTypeOK ==
    /\ runs \in [Names \X Segments -> Files]
    /\ legacy \in [Names -> Files] /\ beside \in [Names -> Files]
    /\ \A i \in DOMAIN launches :
          launches[i] \in [task : Names, segment : Segments, sweep : 1..MaxSweeps]
    /\ orphans \subseteq DOMAIN launches
    /\ sweepPc \in {"over", "sweeping", "summary"}
    /\ config \in SweepConfigs \cup {Absent}
    /\ \A i \in DOMAIN todo : todo[i] \in Names
    /\ mode \in Nat /\ started \in 0..Len(todo)
    /\ running \in [Names -> 0..Len(launches)]
    /\ \A t \in Names : \A i \in DOMAIN before[t] : before[t][i] \in Files
    /\ gathered \in [Names -> Results \cup {Absent}]
    /\ \A i \in DOMAIN results : results[i] \in Results
    /\ cumulative \in Nat /\ exceeded \in BOOLEAN /\ givenUp \in BOOLEAN
    /\ exit \in {"none", "clean", "budget", "killed"} /\ sweeps \in 0..MaxSweeps

Recorded(l, o) == [by |-> l, success |-> o.success, scored |-> o.scored, cost |-> o.cost]
OldOutcome     == [success |-> TRUE, scored |-> TRUE, cost |-> 0]
NullOutcome    == [success |-> FALSE, scored |-> FALSE, cost |-> 0]

\* The runs directory may hold a result of the layout before modes existed.
SweepInit ==
    /\ runs = [x \in Names \X Segments |-> Absent]
    /\ \E old \in Legacy :
          legacy = [t \in Names |-> IF t \in old THEN Recorded(0, OldOutcome) ELSE Absent]
    /\ beside = [t \in Names |-> Absent]
    /\ launches = <<>> /\ orphans = {}
    /\ sweepPc = "over" /\ config = Absent /\ todo = <<>>
    /\ mode = 1 /\ started = 0
    /\ running = [t \in Names |-> 0] /\ before = [t \in Names |-> <<>>]
    /\ gathered = [t \in Names |-> Absent] /\ results = <<>>
    /\ cumulative = 0 /\ exceeded = FALSE /\ givenUp = FALSE /\ exit = "none" /\ sweeps = 0

-----------------------------------------------------------------------------
(***************************************************************************)
(* Where results lie.                                                      *)
(***************************************************************************)
MultiMode == Len(config.modes) > 1

Readable(f) == f \notin {Absent, Torn}

Segment(c, m) == <<m, c.labelled>>
CurrentSegment == Segment(config, config.modes[mode])

\* is_task_completed, for the one mode given by --mode.
IsTaskCompleted(c, t) ==
    LET found == {runs[<<t, Segment(c, c.mode)>>]}
                 \cup (IF c.mode = "baseline" /\ ~c.labelled THEN {legacy[t]} ELSE {})
    IN  \E f \in found : Readable(f) /\ f.success

\* filter_completed_tasks, task by task.
FilterCompletedTasks(c) ==
    LET remaining[n \in 0..Len(Tasks)] ==
          IF n = 0 THEN <<>>
          ELSE IF c.skip /\ IsTaskCompleted(c, Tasks[n]) THEN remaining[n - 1]
          ELSE Append(remaining[n - 1], Tasks[n])
    IN  remaining[Len(Tasks)]

\* _result_file_candidates.  A sweep of several modes always forwards an
\* output directory, and a label rules the older layouts out.
Candidates(t) ==
    LET saved == runs[<<t, CurrentSegment>>] IN
    IF MultiMode \/ config.labelled THEN <<saved>>
    ELSE IF config.modes[mode] # "baseline" THEN <<saved, beside[t]>>
    ELSE <<saved, legacy[t], beside[t]>>

(* Mutant: whatever lies at the first readable candidate is taken. *)
LoadWhateverIsThere(t, seen) ==
    LET now == Candidates(t)
        fresh == {i \in DOMAIN now : Readable(now[i])}
    IN  IF fresh = {} THEN [scored |-> FALSE, by |-> 0, cost |-> 0]
        ELSE LET f == now[CHOOSE i \in fresh : \A j \in fresh : i <= j]
             IN  [scored |-> f.scored, by |-> f.by, cost |-> f.cost]

\* _load_task_result: the first candidate that was created or changed since
\* the launch and that parses.
Load(t, seen) ==
    LET now == Candidates(t)
        fresh == {i \in DOMAIN now : now[i] # seen[i] /\ Readable(now[i])}
    IN  IF fresh = {} THEN [scored |-> FALSE, by |-> 0, cost |-> 0]
        ELSE LET f == now[CHOOSE i \in fresh : \A j \in fresh : i <= j]
             IN  [scored |-> f.scored, by |-> f.by, cost |-> f.cost]

\* Nothing was read: the run was never started, or it was given up.
Unread(t) == [task |-> t, segment |-> CurrentSegment, completed |-> FALSE,
              scored |-> FALSE, by |-> 0, cost |-> 0]

(* Mutant: only a run that exited cleanly is read back. *)
ReadBackOnSuccess(t, clean) ==
    LET f == Load(t, before[t])
    IN  IF ~clean THEN Unread(t)
        ELSE [task |-> t, segment |-> CurrentSegment, completed |-> TRUE,
              scored |-> f.scored, by |-> f.by, cost |-> f.cost]

\* A child that failed keeps the score and the cost it recorded.
ReadBack(t, clean) ==
    LET f == Load(t, before[t])
    IN  [task |-> t, segment |-> CurrentSegment, completed |-> clean,
         scored |-> f.scored, by |-> f.by, cost |-> f.cost]

-----------------------------------------------------------------------------
(***************************************************************************)
(* The dispatcher.                                                         *)
(***************************************************************************)
BudgetReached(money) == config.budget # Absent /\ money >= config.budget

Sequential == config.workers <= 1 \/ config.dry

Live == {t \in Names : running[t] # 0}

FreshMode == started' = 0 /\ gathered' = [t \in Names |-> Absent]

\* Parse the command line, find and filter the tasks.  With none left the
\* command ends at once.
StartSweep ==
    /\ sweepPc = "over" /\ sweeps < MaxSweeps
    /\ \E c \in SweepConfigs :
        /\ config' = c
        /\ todo' = FilterCompletedTasks(c)
    /\ IF todo' = <<>> THEN sweepPc' = "over" /\ exit' = "clean"
       ELSE sweepPc' = "sweeping" /\ exit' = "none"
    /\ sweeps' = sweeps + 1
    /\ mode' = 1 /\ FreshMode
    /\ results' = <<>> /\ cumulative' = 0 /\ exceeded' = FALSE /\ givenUp' = FALSE
    /\ running' = [t \in Names |-> 0] /\ before' = [t \in Names |-> <<>>]
    /\ UNCHANGED <<sweepFiles, sweepHistory>>

\* In sequence the budget is looked at before every task; the pool takes the
\* next task whenever a worker is free, whatever was spent.
MayStart ==
    /\ sweepPc = "sweeping" /\ started < Len(todo)
    /\ IF Sequential THEN Live = {} /\ ~BudgetReached(cumulative)
       ELSE Cardinality(Live) < config.workers

\* run_task returns without a child.
PassOver ==
    /\ MayStart
    /\ LET t == todo[started + 1] IN
        /\ SessionType[t] = "resume" \/ config.dry
        /\ gathered' = [gathered EXCEPT ![t] = Unread(t)]
    /\ started' = started + 1
    /\ exceeded' = (exceeded \/ (~Sequential /\ BudgetReached(cumulative)))
    /\ UNCHANGED <<sweepFiles, sweepHistory, sweepPc, config, todo, mode, running, before, results,
                   cumulative, givenUp, exit, sweeps>>

Launch ==
    /\ MayStart
    /\ LET t == todo[started + 1] IN
        /\ SessionType[t] # "resume" /\ ~config.dry
        /\ launches' = Append(launches, [task |-> t, segment |-> CurrentSegment,
                                         sweep |-> sweeps])
        /\ running' = [running EXCEPT ![t] = Len(launches')]
        /\ before' = [before EXCEPT ![t] = Candidates(t)]
    /\ started' = started + 1
    /\ UNCHANGED <<sweepFiles, orphans, sweepPc, config, todo, mode, gathered, results, cumulative,
                   exceeded, givenUp, exit, sweeps>>

\* The mode is over, no task that was started is still on its way: the results
\* follow in the order of the tasks.
InTaskOrder(done) == [i \in 1..started |-> done[todo[i]]]

(* Mutant: the loop is left without a trace. *)
StopAtBudgetSilently ==
    /\ sweepPc = "sweeping" /\ Sequential /\ Live = {}
    /\ started < Len(todo) /\ BudgetReached(cumulative)
    /\ results' = results \o InTaskOrder(gathered)
    /\ sweepPc' = "summary"
    /\ UNCHANGED <<sweepFiles, sweepHistory, config, todo, mode, started, running, before,
                   gathered, cumulative, exceeded, givenUp, exit, sweeps>>

StopAtBudget ==
    /\ sweepPc = "sweeping" /\ Sequential /\ Live = {}
    /\ started < Len(todo) /\ BudgetReached(cumulative)
    /\ exceeded' = TRUE
    /\ results' = results \o InTaskOrder(gathered)
    /\ sweepPc' = "summary"
    /\ UNCHANGED <<sweepFiles, sweepHistory, config, todo, mode, started, running, before,
                   gathered, cumulative, givenUp, exit, sweeps>>

\* A result is taken in: its cost counts, and in a pool it may close the budget.
TakeIn(t, r) ==
    /\ gathered' = [gathered EXCEPT ![t] = r]
    /\ running' = [running EXCEPT ![t] = 0]
    /\ before' = [before EXCEPT ![t] = <<>>]
    /\ cumulative' = cumulative + r.cost
    /\ exceeded' = (exceeded \/ (~Sequential /\ BudgetReached(cumulative + r.cost)))
    /\ UNCHANGED <<sweepFiles, sweepHistory, sweepPc, config, todo, mode, started, results, exit, sweeps>>

ChildExits(t) ==
    /\ sweepPc = "sweeping" /\ running[t] # 0
    /\ \E clean \in BOOLEAN :
        /\ clean => SessionType[t] = "single"
        /\ TakeIn(t, ReadBack(t, clean))
    /\ UNCHANGED givenUp

(* Mutant: the run that was cut off is never taken off the list. *)
GiveUpForgotten(t) ==
    /\ sweepPc = "sweeping" /\ running[t] # 0
    /\ gathered' = [gathered EXCEPT ![t] = Unread(t)]
    /\ UNCHANGED <<sweepFiles, sweepHistory, sweepPc, config, todo, mode, started, running, before,
                   results, cumulative, exceeded, givenUp, exit, sweeps>>

\* Nothing that the child left is read: it is killed when its hour is up, or what it said,
\* or the record it left, is no text, or it could not be started at all.
GiveUp(t) ==
    /\ sweepPc = "sweeping" /\ running[t] # 0
    /\ TakeIn(t, Unread(t))
    /\ givenUp' = TRUE

\* A worker is killed: the pool ends the others, and whatever is still to come is an
\* error.  The children live on.
PoolBreaks ==
    /\ sweepPc = "sweeping" /\ ~Sequential /\ Live # {}
    /\ gathered' = [t \in Names |-> IF gathered[t] = Absent /\ (\E i \in DOMAIN todo : t = todo[i])
                                   THEN Unread(t) ELSE gathered[t]]
    /\ started' = Len(todo)
    /\ orphans' = orphans \cup {running[t] : t \in Live}
    /\ running' = [t \in Names |-> 0] /\ before' = [t \in Names |-> <<>>]
    /\ exceeded' = (exceeded \/ BudgetReached(cumulative))
    /\ UNCHANGED <<sweepFiles, launches, sweepPc, config, todo, mode, results, cumulative, givenUp,
                   exit, sweeps>>

NextMode ==
    /\ sweepPc = "sweeping" /\ started = Len(todo) /\ Live = {}
    /\ results' = results \o InTaskOrder(gathered)
    /\ IF mode < Len(config.modes) /\ ~exceeded
       THEN mode' = mode + 1 /\ FreshMode /\ UNCHANGED sweepPc
       ELSE sweepPc' = "summary" /\ UNCHANGED <<mode, started, gathered>>
    /\ UNCHANGED <<sweepFiles, sweepHistory, config, todo, running, before, cumulative, exceeded,
                   givenUp, exit, sweeps>>

Summarize ==
    /\ sweepPc = "summary"
    /\ exit' = IF exceeded THEN "budget" ELSE "clean"
    /\ sweepPc' = "over"
    /\ UNCHANGED <<sweepFiles, sweepHistory, config, todo, progress, sweeps>>

\* The dispatcher is killed; its children are not.  (The last sweep of the bound
\* is not: nobody would look at what it left.)
KillSweep ==
    /\ sweepPc # "over" /\ sweeps < MaxSweeps
    /\ orphans' = orphans \cup {running[t] : t \in Live}
    /\ sweepPc' = "over" /\ exit' = "killed"
    /\ running' = [t \in Names |-> 0] /\ before' = [t \in Names |-> <<>>]
    /\ UNCHANGED <<sweepFiles, launches, config, todo, mode, started, gathered, results,
                   cumulative, exceeded, givenUp, sweeps>>

-----------------------------------------------------------------------------
(***************************************************************************)
(* The children.                                                           *)
(***************************************************************************)
Writers == orphans \cup {running[t] : t \in Live}

Written(l) == \E f \in {runs[<<launches[l].task, launches[l].segment>>],
                        beside[launches[l].task]} : Readable(f) /\ f.by = l

\* run_task saves its record where it was told to, or where its mode and label
\* lead it: the same place.  A kill may leave half of it.
SingleWrites(l) ==
    LET at == <<launches[l].task, launches[l].segment>> IN
    /\ SessionType[launches[l].task] = "single"
    /\ \E f \in {Recorded(l, o) : o \in Outcomes} \cup {Torn} :
          runs' = [runs EXCEPT ![at] = f]
    /\ UNCHANGED <<legacy, beside>>

\* chain_runner ignores the output directory.  It is given no agent and is not
\* told to simulate: it removes the old score, writes one that is null and fails.
ChainWrites(l) ==
    LET t == launches[l].task IN
    /\ SessionType[t] = "chain"
    /\ \E f \in {Absent, Recorded(l, NullOutcome)} :
          beside' = [beside EXCEPT ![t] = f]
    /\ UNCHANGED <<runs, legacy>>

\* event_replay is handed the task.toml for a directory, fails and writes nothing.
ChildWrites ==
    /\ \E l \in Writers : ~Written(l) /\ (SingleWrites(l) \/ ChainWrites(l))
    /\ UNCHANGED <<sweepHistory, sweepPc, config, todo, progress, exit, sweeps>>

-----------------------------------------------------------------------------
Dispatcher == PassOver \/ Launch \/ StopAtBudget \/ NextMode \/ Summarize

Collect == \E t \in Names : ChildExits(t) \/ GiveUp(t)

SweepNext == StartSweep \/ Dispatcher \/ Collect \/ PoolBreaks \/ KillSweep \/ ChildWrites

SweepSpec == SweepInit /\ [][SweepNext]_sweepVars

\* The dispatcher computes on, and no child outlives subprocess.run's timeout.
FairSweep ==
    SweepSpec /\ WF_sweepVars(Dispatcher) /\ \A t \in Names : WF_sweepVars(GiveUp(t))

-----------------------------------------------------------------------------
(***************************************************************************)
(* Properties.                                                             *)
(***************************************************************************)

(* A score or a cost in the results was recorded by a run of that very task *)
(* in that very mode which this sweep started, never by an earlier run      *)
(* whose file still lay there.  Only a child that outlived a killed         *)
(* dispatcher or worker can get in between.                                *)
ReportedIsOwn ==
    \A i \in DOMAIN results :
        LET r == results[i] IN
        r.by # 0 =>
            /\ launches[r.by].task = r.task
            /\ launches[r.by].segment = r.segment
               \/ SessionType[r.task] = "chain"
            /\ launches[r.by].sweep = sweeps \/ r.by \in orphans

(* Exit status 0 means that every task was taken in every mode, and the    *)
(* summary lists them mode by mode in the order of the tasks, whichever    *)
(* worker finished first.                                                  *)
CleanExitIsComplete ==
    sweepPc = "over" /\ exit = "clean" /\ todo # <<>> =>
        LET n == Len(todo) IN
        /\ Len(results) = n * Len(config.modes)
        /\ \A i \in DOMAIN results :
              /\ results[i].task = todo[((i - 1) % n) + 1]
              /\ results[i].segment = Segment(config, config.modes[((i - 1) \div n) + 1])

Billed ==
    MapThenSumSet(LAMBDA l : LET f == runs[<<launches[l].task, launches[l].segment>>]
                             IN  IF Readable(f) /\ f.by = l THEN f.cost ELSE 0,
                  {l \in DOMAIN launches : launches[l].sweep = sweeps})

(* In sequence a sweep overruns its budget by less than one run, failed     *)
(* runs included: what they recorded counts.  The watchdog knows nothing of *)
(* a run that was given up unread, at the time limit or because what it     *)
(* left is no text, nor of one that an earlier dispatcher left behind.      *)
BudgetBoundsBilled ==
    (/\ config # Absent /\ config.budget # Absent /\ Sequential
     /\ ~givenUp /\ orphans = {})
    => Billed = 0 \/ \E c \in Costs : Billed < config.budget + c

(* A sweep that is not killed ends: every child ends or is ended, and the   *)
(* loop over tasks and modes comes to its summary.                         *)
SweepSettles == sweepPc # "over" ~> sweepPc = "over"
=============================================================================
