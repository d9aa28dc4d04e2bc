----------------------------- MODULE StudyCapsule -----------------------------
(***************************************************************************)
(* lib/eb_study (receipt.py, spec.py, capsule.py) with its two ends: the    *)
(* receipts that study_receipt.py builds of finished runs and appends to    *)
(* receipts.jsonl, several processes at a time, and the readers that build  *)
(* a capsule of the log: study_report.py, which reads under the shared      *)
(* lock, and promotion_capsule.py, which reads without one.  A writer may   *)
(* be killed, or its disk fill up, in the middle of a line, and then write  *)
(* the rest of it behind the lock; the spec may be edited between two uses. *)
(***************************************************************************)
EXTENDS Naturals, Sequences, FiniteSets

CONSTANTS
    CapsuleTasks, CapsuleArms, CapsuleReps, MaxAttempts,
    CapsulePolicies,   \* attempt_policy of the specs in use, one spec for each
    Emitters,          \* processes with a finished run to record
    RunsOf,            \* the trials whose runs a process may be given
    MaxReceipts,       \* bound: lines of the log
    MaxLate,           \* bound: lines that are, or may be, written behind the lock
    Nobody, NoReport

TrialSlots == CapsuleTasks \X CapsuleArms \X (1..CapsuleReps)
Trials == [slot : TrialSlots, attempt : 1..MaxAttempts]
Receipts == [trial : Trials, spec : CapsulePolicies,
             status : {"valid", "invalid"}]   \* infra_invalid or ineligible

ASSUME CapsuleAssumption ==
    /\ CapsuleReps \in Nat \ {0} /\ MaxAttempts \in Nat \ {0} /\ MaxReceipts \in Nat
    /\ MaxLate \in Nat /\ RunsOf \in [Emitters -> SUBSET Trials]
    /\ CapsulePolicies \subseteq {"all_valid_repetitions", "first_valid_attempt"}
    /\ Nobody \notin Emitters

VARIABLES
    studySpec,    \* the spec file: it is named by its policy, its hash by both
    receiptLog,   \* the lines of receipts.jsonl before one that does not parse
    logTail,      \* what follows them: "whole" is nothing, "unended" only that the
                  \* newline is missing, "torn" a line that is no JSON
    logOwner,     \* who holds the exclusive lock
    emitterPc, receiptOf,
    late,         \* history: trials of lines that were written whole behind the lock
    shown         \* the last report that was made: the spec it names, the trials it admits

capsuleVars == <<studySpec, receiptLog, logTail, logOwner, emitterPc, receiptOf, late, shown>>

\* An emitter waits for the lock, has it, or closes its file behind it with a line, the
\* rest of one or a newline in its buffer.
EmitterPlaces == {"none", "running", "open", "locked", "checked", "writing", "written",
                  "lateLine", "latePart", "lateEnd"}

CapsuleTypeOK ==
    /\ studySpec \in CapsulePolicies
    /\ \A i \in DOMAIN receiptLog : receiptLog[i] \in Receipts
    /\ logTail \in {"whole", "unended", "torn"}
    /\ logOwner \in Emitters \cup {Nobody}
    /\ emitterPc \in [Emitters -> EmitterPlaces]
    /\ receiptOf \in [Emitters -> Receipts \cup {Nobody}]
    /\ late \subseteq Trials

CapsuleInit ==
    /\ studySpec \in CapsulePolicies
    /\ receiptLog = <<>> /\ logTail = "whole" /\ logOwner = Nobody
    /\ emitterPc = [e \in Emitters |-> "none"]
    /\ receiptOf = [e \in Emitters |-> Nobody]
    /\ late = {} /\ shown = NoReport

-----------------------------------------------------------------------------
(* Reading: the receipts of a log must all be of this study.                 *)

\* Another spec, even one that was edited since, has another hash.  A trial is
\* of the study by its coordinates, which every Receipts member has.
Belongs(r) == r.spec = studySpec

\* What the log holds can be read and makes a capsule.
CapsuleBuilds ==
    /\ logTail # "torn" /\ receiptLog # <<>>
    /\ \A i \in DOMAIN receiptLog : Belongs(receiptLog[i])
    /\ \A i, j \in DOMAIN receiptLog : receiptLog[i].trial = receiptLog[j].trial => i = j

ValidAttempts(slot) ==
    {receiptLog[i].trial.attempt : i \in {j \in DOMAIN receiptLog :
        receiptLog[j].status = "valid" /\ receiptLog[j].trial.slot = slot}}

\* Two valid attempts are one too many, unless the first is to count.
SlotsAdmissible ==
    studySpec = "all_valid_repetitions" =>
        \A slot \in TrialSlots : Cardinality(ValidAttempts(slot)) <= 1

Filled == {slot \in TrialSlots : ValidAttempts(slot) # {}}

(* Mutant: the latest attempt counts. *)
AdmitLast == [slot \in Filled |-> CHOOSE a \in ValidAttempts(slot) :
                                      \A b \in ValidAttempts(slot) : b <= a]

Admit == [slot \in Filled |-> CHOOSE a \in ValidAttempts(slot) :
                                  \A b \in ValidAttempts(slot) : a <= b]

CompleteTasks ==
    {task \in CapsuleTasks : \A arm \in CapsuleArms, rep \in 1..CapsuleReps :
                                 <<task, arm, rep>> \in Filled}

\* Strictly, every declared arm has a trial and some task is complete.
Comparable ==
    /\ \A arm \in CapsuleArms : \E slot \in Filled : slot[2] = arm
    /\ CompleteTasks # {}

PairedValid == [slot \in {x \in Filled : x[1] \in CompleteTasks} |-> Admit[slot]]

Shows == shown' = [spec |-> studySpec, trials |-> PairedValid]

ReadingFrame == UNCHANGED <<studySpec, receiptLog, logTail, logOwner, emitterPc, receiptOf, late>>

\* study_report.py; with an analysis contract a study may be incomplete.
ReportStudy ==
    /\ logOwner = Nobody
    /\ CapsuleBuilds /\ SlotsAdmissible
    /\ \E contract \in BOOLEAN : contract \/ Comparable
    /\ Shows
    /\ ReadingFrame

\* The promotion reads the bytes as they are, and wants every task.
ReportPromotion ==
    /\ CapsuleBuilds /\ SlotsAdmissible
    /\ Comparable /\ CompleteTasks = CapsuleTasks
    /\ Shows
    /\ ReadingFrame

-----------------------------------------------------------------------------
(* Writing: a run is classified and its receipt appended under the lock.     *)

WritingFrame == UNCHANGED <<studySpec, receiptLog, logTail, late, shown>>

\* validate_study_config: the log, if there are receipts in it, is of this study.
\* That it lacks this trial is not asked.
CheckStudyConfig(e) ==
    /\ emitterPc[e] = "none"
    /\ logOwner = Nobody
    /\ \/ receiptLog = <<>> /\ logTail # "torn"
       \/ CapsuleBuilds
    /\ emitterPc' = [emitterPc EXCEPT ![e] = "running"]
    /\ UNCHANGED <<receiptOf, logOwner>> /\ WritingFrame

\* What results.json and the agent's log tell of a finished run.
RunEvidence == [eligible : BOOLEAN, completed : BOOLEAN, checkpoints : BOOLEAN, billed : BOOLEAN]

Measured(r) == r.eligible /\ r.completed /\ r.checkpoints /\ r.billed

\* The receipt names the spec as it is now.
BuildReceipt(e) ==
    /\ emitterPc[e] = "running"
    /\ \E t \in RunsOf[e], s \in {IF Measured(r) THEN "valid" ELSE "invalid" : r \in RunEvidence} :
          receiptOf' = [receiptOf EXCEPT ![e] = [trial |-> t, spec |-> studySpec, status |-> s]]
    /\ emitterPc' = [emitterPc EXCEPT ![e] = "open"]
    /\ UNCHANGED logOwner /\ WritingFrame

LockReceipts(e) ==
    /\ emitterPc[e] = "open" /\ logOwner = Nobody
    /\ logOwner' = e
    /\ emitterPc' = [emitterPc EXCEPT ![e] = "locked"]
    /\ UNCHANGED receiptOf /\ WritingFrame

\* The emitter is done, or dead: the lock goes with the file.
LeaveLog(e) ==
    /\ emitterPc' = [emitterPc EXCEPT ![e] = "none"]
    /\ receiptOf' = [receiptOf EXCEPT ![e] = Nobody]
    /\ logOwner' = IF logOwner = e THEN Nobody ELSE logOwner

OnRecord(trial) == \E i \in DOMAIN receiptLog : receiptLog[i].trial = trial

CheckLines(e) ==
    IF logTail = "torn" \/ OnRecord(receiptOf[e].trial)
    THEN LeaveLog(e)
    ELSE /\ emitterPc' = [emitterPc EXCEPT ![e] = "checked"]
         /\ UNCHANGED <<receiptOf, logOwner>>

(* Mutant: the lines are checked before the lock is held. *)
RefuseDuplicatesUnlocked(e) == emitterPc[e] = "open" /\ CheckLines(e) /\ WritingFrame

\* A line that does not parse, or one of this trial, refuses the receipt.
RefuseDuplicates(e) == emitterPc[e] = "locked" /\ CheckLines(e) /\ WritingFrame

\* A line put after one that lacks its newline makes one line of the two, and that
\* one stays no JSON.
JoinLines ==
    /\ receiptLog' = SubSeq(receiptLog, 1, Len(receiptLog) - 1)
    /\ logTail' = "torn"

\* A line is no JSON before it is whole, and nobody gets to one behind a torn one.
WriteReceipt(e) ==
    /\ emitterPc[e] = "checked" /\ Len(receiptLog) < MaxReceipts
    /\ \/ /\ logTail = "whole"
          /\ logTail' = "torn" /\ UNCHANGED receiptLog
          /\ emitterPc' = [emitterPc EXCEPT ![e] = "writing"]
       \/ /\ logTail = "unended"
          /\ JoinLines
          /\ emitterPc' = [emitterPc EXCEPT ![e] = "written"]
       \/ /\ logTail = "torn"
          /\ UNCHANGED <<receiptLog, logTail>>
          /\ emitterPc' = [emitterPc EXCEPT ![e] = "written"]
    /\ UNCHANGED <<studySpec, logOwner, receiptOf, late, shown>>

LineIsWhole(e, tail) ==
    /\ receiptLog' = Append(receiptLog, receiptOf[e])
    /\ logTail' = tail

FlushReceipt(e) ==
    /\ emitterPc[e] = "writing"
    /\ LineIsWhole(e, "whole")
    /\ emitterPc' = [emitterPc EXCEPT ![e] = "written"]
    /\ UNCHANGED <<studySpec, logOwner, receiptOf, late, shown>>

Closers == {e \in Emitters : emitterPc[e] \in {"lateLine", "latePart", "lateEnd"}}

\* The disk is full before the line, in it or before its newline: append_receipt gives the
\* lock back with the rest still in the buffer of the file.
FlushFails(e) ==
    /\ Cardinality(late) + Cardinality(Closers) < MaxLate
    /\ \/ /\ emitterPc[e] = "checked"
          /\ emitterPc' = [emitterPc EXCEPT ![e] = "lateLine"]
          /\ UNCHANGED <<receiptLog, logTail>>
       \/ /\ emitterPc[e] = "writing"
          /\ emitterPc' = [emitterPc EXCEPT ![e] = "latePart"]
          /\ UNCHANGED <<receiptLog, logTail>>
       \/ /\ emitterPc[e] = "writing" /\ LineIsWhole(e, "unended")
          /\ emitterPc' = [emitterPc EXCEPT ![e] = "lateEnd"]
    /\ logOwner' = Nobody
    /\ UNCHANGED <<studySpec, receiptOf, late, shown>>

\* Closing the file writes the rest, now that there is room again: a whole line goes behind
\* whatever is there by now, and into a line that somebody has begun.
CloseWritesLine(e) ==
    /\ emitterPc[e] = "lateLine"
    /\ \/ /\ logTail = "whole" /\ Len(receiptLog) < MaxReceipts
          /\ LineIsWhole(e, "whole") /\ late' = late \cup {receiptOf[e].trial}
       \/ logTail = "unended" /\ JoinLines /\ UNCHANGED late
       \/ logTail = "torn" /\ UNCHANGED <<receiptLog, logTail, late>>
    /\ emitterPc' = [f \in Emitters |-> CASE f = e -> "none"
                                          [] emitterPc[f] = "writing" -> "written"
                                          [] emitterPc[f] = "latePart" -> "lateEnd"
                                          [] OTHER -> emitterPc[f]]
    /\ receiptOf' = [receiptOf EXCEPT ![e] = Nobody]
    /\ UNCHANGED <<studySpec, logOwner, shown>>

\* The end of a line makes it whole if nobody has written behind it.
CloseEndsLine(e) ==
    /\ \/ emitterPc[e] = "latePart" /\ LineIsWhole(e, "whole")
       \/ /\ emitterPc[e] = "lateEnd" /\ UNCHANGED receiptLog
          /\ logTail' = IF logTail = "unended" THEN "whole" ELSE logTail
    /\ LeaveLog(e)
    /\ UNCHANGED <<studySpec, late, shown>>

\* fsync may fail, and the caller hear of an error; the line is there.
CloseReceipts(e) ==
    /\ emitterPc[e] = "written"
    /\ LeaveLog(e)
    /\ WritingFrame

\* The process is killed, or closing fails as well: the rest is lost.
EmitterDies(e) ==
    /\ emitterPc[e] \notin {"none", "written"}
    /\ LeaveLog(e)
    /\ \/ UNCHANGED <<receiptLog, logTail>>
       \/ emitterPc[e] \in {"writing", "latePart"} /\ LineIsWhole(e, "unended")
    /\ UNCHANGED <<studySpec, late, shown>>

EditSpec ==
    /\ studySpec' \in CapsulePolicies \ {studySpec}
    /\ UNCHANGED <<receiptLog, logTail, logOwner, emitterPc, receiptOf, late, shown>>

CapsuleNext ==
    \/ ReportStudy \/ ReportPromotion \/ EditSpec
    \/ \E e \in Emitters :
          \/ CheckStudyConfig(e) \/ BuildReceipt(e) \/ LockReceipts(e)
          \/ RefuseDuplicates(e) \/ WriteReceipt(e) \/ FlushReceipt(e)
          \/ CloseReceipts(e) \/ EmitterDies(e)
          \/ FlushFails(e) \/ CloseWritesLine(e) \/ CloseEndsLine(e)

CapsuleSpec == CapsuleInit /\ [][CapsuleNext]_capsuleVars

-----------------------------------------------------------------------------
(* However many processes append, no trial has two receipts: an outcome that *)
(* is on record is never joined by another, wherever a writer is killed or   *)
(* its disk is full (append_receipt).  Only a receipt none of which could be *)
(* written under the lock, and all of which was when its file was closed,    *)
(* has been checked against another log than it was put into.                *)
TrialRecordedOnce ==
    \A i, j \in DOMAIN receiptLog :
        receiptLog[i].trial = receiptLog[j].trial => i = j \/ receiptLog[i].trial \in late

ReportExtends(later, earlier) ==
    /\ later.spec = earlier.spec
    /\ DOMAIN earlier.trials \subseteq DOMAIN later.trials
    /\ \A slot \in DOMAIN earlier.trials :
          \/ later.trials[slot] = earlier.trials[slot]
          \/ /\ later.spec = "first_valid_attempt"
             /\ later.trials[slot] < earlier.trials[slot]

(* What a report admitted stands in every later report of the log: it is of *)
(* the same spec, keeps each task, and has another attempt only where the   *)
(* policy lets an earlier one that was recorded late go first (_admit,      *)
(* _check_belongs, append_receipt).                                         *)
ReportsStand ==
    [][shown # NoReport => ReportExtends(shown', shown)]_shown
=============================================================================
