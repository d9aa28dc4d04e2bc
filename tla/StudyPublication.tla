--------------------------- MODULE StudyPublication ---------------------------
(***************************************************************************)
(* From the trials of a study to what is published of them: what each       *)
(* receipt says its trial was given, the contract that spec, manifest and   *)
(* analysis plan make by their hashes, the report (study_report.py) and the *)
(* promotion that builds it from one snapshot (promotion_capsule.py).       *)
(*                                                                         *)
(* One task stands for them all.  A hash is the version it is of.  Every    *)
(* trial costs one unit, which its receipt may not know; one runs at a      *)
(* time.  The receipt log and its lock are StudyCapsule, renaming and       *)
(* sealing are Promotion.                                                   *)
(***************************************************************************)
EXTENDS Naturals, Sequences, FiniteSets

CONSTANTS
    StudyShapes,     \* the studies: their arms, and their attempts in each
    MaxChanges,      \* bound: edits of the inputs and of the plan
    Withheld,        \* a number that is not shown; a hash that was not taken
    Resting

ASSUME PublicationAssumption ==
    /\ \A s \in StudyShapes : s.tries \in Nat \ {0}
    /\ MaxChanges \in Nat

VARIABLES
    shape,           \* which of the studies this is
    given,           \* version of the task, the verifier and the harness in the tree
    locked,          \* the study's three files
    changes,         \* edits so far
    running,         \* the trial that is under way and what it captured
    attempts,        \* receipts.jsonl
    promotion,       \* the promotion and what it has read
    released         \* what is published

publicationVars == <<shape, given, locked, changes, running, attempts, promotion, released>>

TreatmentParts == {"task", "verifier", "harness"}

ManifestFor(plan, inputs) == [plan |-> plan, inputs |-> inputs]
SpecFor(manifest, harness) == [manifest |-> manifest, harness |-> harness]

StudyArms == shape.arms
MaxTries == shape.tries

PublicationInit ==
    /\ shape \in StudyShapes
    /\ given = [p \in TreatmentParts |-> 1]
    /\ locked = [plan |-> 1, manifest |-> ManifestFor(1, given),
                 spec |-> SpecFor(ManifestFor(1, given), 1)]
    /\ changes = 0
    /\ running = Resting
    /\ attempts = <<>>
    /\ promotion = Resting /\ released = Withheld

EditGiven(p) ==
    /\ changes < MaxChanges /\ changes' = changes + 1
    /\ given' = [given EXCEPT ![p] = @ + 1]
    /\ UNCHANGED <<shape, locked, running, attempts, promotion, released>>

\* A file of the study is written anew, from the tree and the file it binds.
RewritePlan ==
    /\ changes < MaxChanges /\ changes' = changes + 1
    /\ locked' = [locked EXCEPT !.plan = @ + 1]
    /\ UNCHANGED <<shape, given, running, attempts, promotion, released>>

Relock(f) ==
    /\ locked' = [locked EXCEPT ![f] = IF f = "manifest" THEN ManifestFor(locked.plan, given)
                                       ELSE SpecFor(locked.manifest, given["harness"])]
    /\ UNCHANGED <<shape, given, changes, running, attempts, promotion, released>>

-----------------------------------------------------------------------------
(* A trial.                                                                 *)

\* capture_input_provenance, before the agent is started.
StartRun(a) ==
    /\ running = Resting
    /\ running' = [arm |-> a, inputs |-> given]
    /\ UNCHANGED <<shape, given, locked, changes, attempts, promotion, released>>

Tries(a) == Cardinality({i \in DOMAIN attempts : attempts[i].arm = a})

AppendTrial(a, valid, inputs, cost) ==
    /\ Tries(a) < MaxTries
    /\ attempts' = Append(attempts, [arm |-> a, attempt |-> Tries(a) + 1, valid |-> valid,
                                     spec |-> locked.spec, inputs |-> inputs, cost |-> cost])

\* emit_study_receipt reads the spec as it is by then.
FinishTrial ==
    /\ running # Resting
    /\ \E valid \in BOOLEAN, cost \in {1, Withheld} :
          AppendTrial(running.arm, valid, running.inputs, cost)
    /\ running' = Resting
    /\ UNCHANGED <<shape, given, locked, changes, promotion, released>>

\* A run that fails before anything is captured has nothing to say of it.
FailUncaptured(a) ==
    /\ running = Resting
    /\ AppendTrial(a, FALSE, [p \in TreatmentParts |-> Withheld], 1)
    /\ UNCHANGED <<shape, given, locked, changes, running, promotion, released>>

-----------------------------------------------------------------------------
(* The capsule and its contract.                                            *)

\* _check_belongs, for every receipt
BelongsToSpec(spec, log) ==
    /\ log # <<>>
    /\ \A i \in DOMAIN log :
          log[i].spec = spec /\ (log[i].valid => log[i].inputs["harness"] = spec.harness)

\* parse_analysis_contract: spec, manifest and plan are a chain.
AnalysisContractHolds(spec, manifest, plan) ==
    /\ spec.manifest = manifest /\ manifest.plan = plan
    /\ manifest.inputs["harness"] = spec.harness

Admitted(log) ==
    [a \in {log[i].arm : i \in {j \in DOMAIN log : log[j].valid}} |->
       CHOOSE i \in DOMAIN log :
          /\ log[i].valid /\ log[i].arm = a
          /\ \A j \in DOMAIN log : log[j].valid /\ log[j].arm = a
                                     => log[i].attempt <= log[j].attempt]

PairedComplete(log) == DOMAIN Admitted(log) = StudyArms

AgreesWith(manifest, receipt, p) ==
    receipt.valid \/ receipt.inputs[p] # Withheld
      => receipt.inputs[p] = manifest.inputs[p]

\* Mutant: only the task is compared.
ReceiptTaskProvenance(manifest, log) ==
    \A i \in DOMAIN log : AgreesWith(manifest, log[i], "task")

\* _validate_receipt_provenance
ReceiptProvenance(manifest, log) ==
    \A i \in DOMAIN log : \A p \in {"task", "verifier"} : AgreesWith(manifest, log[i], p)

\* _validate_declared_task_files: task.toml as it is now.
DeclaredTaskFiles(manifest) == given["task"] = manifest.inputs["task"]

-----------------------------------------------------------------------------
(* The report.                                                              *)

\* Mutant: a slot may have been tried before.
HeadlineAfterRetries(log) == PairedComplete(log)

\* completeness: every slot has one receipt, and that one is valid.
HeadlineEligible(log) ==
    \A a \in StudyArms :
        Cardinality({i \in DOMAIN log : log[i].arm = a}) = 1 /\ a \in DOMAIN Admitted(log)

\* Mutant: what is not known costs nothing.
KnownCost(log, trials) == Cardinality({i \in trials : log[i].cost # Withheld})

\* _cost_cell, AllAttempts.cost_usd
SumOfCosts(log, trials) ==
    IF \E i \in trials : log[i].cost = Withheld THEN Withheld ELSE Cardinality(trials)

PairedTrials(log) ==
    IF PairedComplete(log) THEN {Admitted(log)[a] : a \in StudyArms} ELSE {}

Economics(log) ==
    [paired |-> SumOfCosts(log, PairedTrials(log)),
     all |-> SumOfCosts(log, DOMAIN log),
     arms |-> [a \in StudyArms |-> SumOfCosts(log, {i \in DOMAIN log : log[i].arm = a})]]

BuildReport(log, sources) ==
    [sources |-> sources, log |-> log, complete |-> HeadlineEligible(log),
     economics |-> Economics(log)]

\* study_report.py, which needs the contract only for an incomplete study.
Reportable ==
    /\ BelongsToSpec(locked.spec, attempts)
    /\ AnalysisContractHolds(locked.spec, locked.manifest, locked.plan) \/ PairedComplete(attempts)

-----------------------------------------------------------------------------
(* The promotion.                                                           *)

\* capsule_snapshot reads one file after the other; a log that will not do is refused.
SnapshotReceipts ==
    /\ promotion = Resting /\ released = Withheld
    /\ BelongsToSpec(locked.spec, attempts) /\ PairedComplete(attempts)
    /\ promotion' = [at |-> "read", spec |-> locked.spec, log |-> attempts]
    /\ UNCHANGED <<shape, given, locked, changes, running, attempts, released>>

\* The rest of capsule_snapshot, and validate_inputs.
ValidateInputs ==
    /\ promotion # Resting /\ promotion.at = "read"
    /\ AnalysisContractHolds(promotion.spec, locked.manifest, locked.plan)
    /\ ReceiptProvenance(locked.manifest, promotion.log) /\ DeclaredTaskFiles(locked.manifest)
    /\ promotion' = [at |-> "validated", spec |-> promotion.spec, log |-> promotion.log,
                     manifest |-> locked.manifest, plan |-> locked.plan]
    /\ UNCHANGED <<shape, given, locked, changes, running, attempts, released>>

\* assert_capsule_source_unchanged
SourceUnchanged ==
    /\ locked = [plan |-> promotion.plan, manifest |-> promotion.manifest, spec |-> promotion.spec]
    /\ attempts = promotion.log

\* stage_metrics: inference that is withheld is not staged.
StageMetrics ==
    /\ promotion # Resting /\ promotion.at = "validated"
    /\ SourceUnchanged
    /\ ReceiptProvenance(promotion.manifest, promotion.log) /\ DeclaredTaskFiles(promotion.manifest)
    /\ HeadlineEligible(promotion.log)
    /\ promotion' = [at |-> "staged", spec |-> promotion.spec, log |-> promotion.log,
                     manifest |-> promotion.manifest, plan |-> promotion.plan,
                     report |-> BuildReport(promotion.log, [spec |-> promotion.spec,
                                                            log |-> promotion.log])]
    /\ UNCHANGED <<shape, given, locked, changes, running, attempts, released>>

\* render_markdown: of the one analysis, and only of a complete one.
Renders(report) == report.complete

\* stage_markdown_report, the seal and the rename: of the staged bytes alone.
Release ==
    /\ promotion # Resting /\ promotion.at = "staged" /\ Renders(promotion.report)
    /\ released' = promotion
    /\ promotion' = Resting
    /\ UNCHANGED <<shape, given, locked, changes, running, attempts>>

\* A check that does not hold, a crash, an interrupt.
AbandonPromotion ==
    /\ promotion # Resting
    /\ promotion' = Resting
    /\ UNCHANGED <<shape, given, locked, changes, running, attempts, released>>

PublicationNext ==
    \/ \E p \in TreatmentParts : EditGiven(p)
    \/ RewritePlan \/ Relock("manifest") \/ Relock("spec")
    \/ \E a \in StudyArms : StartRun(a) \/ FailUncaptured(a)
    \/ FinishTrial
    \/ SnapshotReceipts \/ ValidateInputs \/ StageMetrics \/ Release \/ AbandonPromotion

StudyPublicationSpec == PublicationInit /\ [][PublicationNext]_publicationVars

-----------------------------------------------------------------------------
PublicationTypeOK ==
    /\ changes \in 0..MaxChanges
    /\ \A i \in DOMAIN attempts : attempts[i].attempt \in 1..MaxTries

(* A published study compares one treatment with another and nothing else: *)
(* each arm has been tried exactly once, and every trial was given the      *)
(* task, verifier and harness that the published manifest hashes, which is  *)
(* the one the published spec names (validate_inputs, stage_metrics).       *)
PublishedIsOneTreatment ==
    released # Withheld =>
        /\ released.spec.manifest = released.manifest /\ released.manifest.plan = released.plan
        /\ released.report.sources = [spec |-> released.spec, log |-> released.log]
        /\ \A a \in StudyArms :
              Cardinality({i \in DOMAIN released.log : released.log[i].arm = a}) = 1
        /\ \A i \in DOMAIN released.log :
              released.log[i].valid /\ released.log[i].inputs = released.manifest.inputs

(* A spend that a report shows is all that was spent: with one receipt that *)
(* does not know its cost, the sums it would be in are withheld             *)
(* (_cost_cell, AllAttempts.cost_usd).                                      *)
SpendIsWhole ==
    Reportable =>
        LET e == BuildReport(attempts, locked.spec).economics IN
        /\ e.all \in {Withheld, Len(attempts)}
        /\ e.paired \in {Withheld, Cardinality(PairedTrials(attempts))}
        /\ \A a \in StudyArms :
              e.arms[a] \in {Withheld,
                             Cardinality({i \in DOMAIN attempts : attempts[i].arm = a})}
=============================================================================
