------------------------------- MODULE Promotion -------------------------------
(***************************************************************************)
(* Promoting validated runs to results/official_runs: the nine-step        *)
(* pipeline, its rollback in reverse order, and the directories and        *)
(* registry it works on.  Nothing locks them, so promotions interleave at  *)
(* every file-system call; any of them can be killed or fail at any step,  *)
(* and the raw run may be rewritten under it.                              *)
(*                                                                         *)
(* Sources: scripts/orchestration/run_promotion_orchestrator.py,           *)
(* promotion_capsule.py and publication_fs.py.                             *)
(***************************************************************************)
EXTENDS Naturals, FiniteSets

CONSTANTS
    Promotions,     \* invocations of the orchestrator
    Runs,           \* runs being promoted
    RunOf,          \* the --run-id of each invocation
    None,           \* no directory under that name
    MaxVersion,     \* bound: how often a raw run is rewritten
    Overlap,        \* TRUE: a run may be promoted twice at the same time
    Faulty          \* TRUE: rollback steps may fail, and replacing the registry
                    \* may take effect and still raise

ASSUME PromotionAssumption ==
    /\ RunOf \in [Promotions -> Runs] /\ None \notin Promotions
    /\ MaxVersion \in Nat /\ Overlap \in BOOLEAN /\ Faulty \in BOOLEAN

Versions == 0 .. MaxVersion

(* A seal lists the digests of the staged inputs, or of those and the      *)
(* report, and names the version of the run it was made for.               *)
Seals == [covers: {"inputs", "report"}, version: Versions] \cup {None}

(* A directory is an inode, named here by the promotion whose mkdir made   *)
(* it.  `inputs` are the five files copied or computed from the snapshot   *)
(* of `writer`, `residue` a temporary file an interrupted write left.      *)
Directory == [inputs: {"none", "part", "all"}, writer: Promotions \cup {None},
              version: Versions, report: BOOLEAN, progress: BOOLEAN,
              residue: BOOLEAN, seal: Seals, frozen: BOOLEAN]

EmptyDirectory == [inputs |-> "none", writer |-> None, version |-> 0,
                   report |-> FALSE, progress |-> FALSE, residue |-> FALSE,
                   seal |-> None, frozen |-> FALSE]

Ended == {"done", "failed", "dead"}
Pipeline == {"validate", "stage", "inputs", "seal", "progress", "charts", "report",
             "publish", "freeze", "check", "rename", "renamed", "confirm", "registry",
             "append"}
RollingBack == {"undo", "undoing", "discard", "thaw", "quarantine"}
Pcs == {"new"} \cup Pipeline \cup RollingBack \cup Ended

VARIABLES
    raw,            \* version of each raw run on disk
    dir,            \* the directory each promotion may have made
    staging,        \* which directory .<run>.staging names
    final,          \* which directory <run> names: the official publication
    gone,           \* directories no longer linked anywhere
    registry,       \* runs with an entry in _registry.json
    pc,
    snap,           \* the version bound at validate_inputs
    held,           \* directory open by descriptor, or the frozen identity
    listed,         \* the registry as _step_update_registry read it
    target,         \* where the rollback is about to rename the publication
    completed       \* last step that has to be rolled back: 4 none, 5, 7 or 8

vars == <<raw, dir, staging, final, gone, registry, pc, snap, held, listed, target,
          completed>>
files == <<raw, dir, staging, final, gone, registry>>

TypeOK ==
    /\ raw \in [Runs -> Versions]
    /\ dir \in [Promotions -> Directory]
    /\ staging \in [Runs -> Promotions \cup {None}]
    /\ final \in [Runs -> Promotions \cup {None}]
    /\ gone \subseteq Promotions
    /\ registry \subseteq Runs
    /\ pc \in [Promotions -> Pcs]
    /\ snap \in [Promotions -> Versions]
    /\ held \in [Promotions -> Promotions \cup {None}]
    /\ listed \in [Promotions -> SUBSET Runs]
    /\ target \in [Promotions -> {"staging", "failed"}]
    /\ completed \in [Promotions -> {4, 5, 7, 8}]

Init ==
    /\ raw = [r \in Runs |-> 0]
    /\ dir = [p \in Promotions |-> EmptyDirectory]
    /\ staging = [r \in Runs |-> None]
    /\ final = [r \in Runs |-> None]
    /\ gone = {}
    /\ registry = {}
    /\ pc = [p \in Promotions |-> "new"]
    /\ snap = [p \in Promotions |-> 0]
    /\ held = [p \in Promotions |-> None]
    /\ listed = [p \in Promotions |-> {}]
    /\ target = [p \in Promotions |-> "staging"]
    /\ completed = [p \in Promotions |-> 4]
-----------------------------------------------------------------------------
(* What the checks of a staged or final tree see. *)
SealOf(covers, v) == [covers |-> covers, version |-> v]

(* Mutant: the missing files are looked for, unexpected ones are not. *)
InventoryWithoutGaps(t) ==
    t.inputs = "all" /\ t.report /\ t.seal # None

(* PUBLICATION_FILES and nothing else. *)
ExactInventory(t) ==
    /\ t.inputs = "all" /\ t.report /\ t.seal # None
    /\ ~t.progress /\ ~t.residue

(* And all of it of one version, as its seal says. *)
SealedTree(t, v) ==
    ExactInventory(t) /\ t.version = v /\ t.seal = SealOf("report", v)

Goto(p, step) == pc' = [pc EXCEPT ![p] = step]
Staged(p) == staging[RunOf[p]]
Published(p) == final[RunOf[p]]
Writable(d) == ~dir[d].frozen

(* The descriptor that write_new_staged_artifacts works through still      *)
(* names a directory entries can be made in.                               *)
Held(p) == held[p] # None /\ held[p] \notin gone /\ Writable(held[p])

(* The staging directory can be opened by name and an entry made in it. *)
StagingWritable(p) == Staged(p) # None /\ Writable(Staged(p))
-----------------------------------------------------------------------------
(* The raw run is appended to or replaced while it is being promoted. *)
SourceRewritten(r) ==
    /\ raw[r] < MaxVersion
    /\ raw' = [raw EXCEPT ![r] = @ + 1]
    /\ UNCHANGED <<dir, staging, final, gone, registry, pc, snap, held, listed,
                   target, completed>>

(* validate_inputs binds the snapshot every later step compares with. *)
BindCapsule(p) ==
    /\ pc[p] = "new"
    /\ Overlap \/ \A q \in Promotions \ {p} :
                    RunOf[q] = RunOf[p] => pc[q] \in Ended \cup {"new"}
    /\ snap' = [snap EXCEPT ![p] = raw[RunOf[p]]]
    /\ Goto(p, "validate")
    /\ UNCHANGED <<files, held, listed, target, completed>>

ValidatorsPass(p) ==
    /\ pc[p] = "validate"
    /\ Goto(p, "stage")
    /\ UNCHANGED <<files, snap, held, listed, target, completed>>

(* Open the staging directory, making it if it is missing; refuse it if an *)
(* artifact is already there.                                              *)
OpenStaging(p) ==
    /\ pc[p] = "stage"
    /\ raw[RunOf[p]] = snap[p]
    /\ LET d == IF Staged(p) = None THEN p ELSE Staged(p) IN
        /\ dir[d].inputs = "none"
        /\ held' = [held EXCEPT ![p] = d]
        /\ staging' = [staging EXCEPT ![RunOf[p]] = d]
    /\ Goto(p, "inputs")
    /\ UNCHANGED <<raw, dir, final, gone, registry, snap, listed, target, completed>>

(* The five files, each linked under its name only if the name is free. *)
WriteInputs(p) ==
    /\ pc[p] = "inputs"
    /\ Held(p) /\ dir[held[p]].inputs = "none"
    /\ dir' = [dir EXCEPT ![held[p]].inputs = "all", ![held[p]].writer = p,
                          ![held[p]].version = snap[p]]
    /\ Goto(p, "seal")
    /\ UNCHANGED <<raw, staging, final, gone, registry, snap, held, listed, target,
                   completed>>

(* A write that fails or is killed part way: some files, maybe a temporary *)
(* one.  stage_metrics is not completed, so no rollback visits them.       *)
WriteInputsInterrupted(p, left, step) ==
    /\ pc[p] = "inputs"
    /\ Held(p) /\ dir[held[p]].inputs = "none"
    /\ dir' = [dir EXCEPT ![held[p]].inputs = left, ![held[p]].writer = p,
                          ![held[p]].version = snap[p], ![held[p]].residue = TRUE]
    /\ Goto(p, step)
    /\ UNCHANGED <<raw, staging, final, gone, registry, snap, held, listed, target,
                   completed>>

(* validate_staged_study_analysis and write_promotion_seal, by name. *)
SealMetrics(p) ==
    /\ pc[p] = "seal"
    /\ StagingWritable(p) /\ dir[Staged(p)].inputs = "all"
    /\ dir' = [dir EXCEPT ![Staged(p)].seal =
                    SealOf(IF dir[Staged(p)].report THEN "report" ELSE "inputs", snap[p])]
    /\ completed' = [completed EXCEPT ![p] = 5]
    /\ Goto(p, "progress")
    /\ UNCHANGED <<raw, staging, final, gone, registry, snap, held, listed, target>>

(* _progress.json, replaced after every step while there is a staging tree. *)
WriteProgress(p) ==
    /\ pc[p] = "progress"
    /\ \/ Staged(p) = None /\ UNCHANGED dir
       \/ /\ StagingWritable(p)
          /\ dir' = [dir EXCEPT ![Staged(p)].progress = TRUE]
    /\ Goto(p, IF completed[p] = 5 THEN "charts" ELSE "publish")
    /\ UNCHANGED <<raw, staging, final, gone, registry, snap, held, listed, target,
                   completed>>

(* Only reads the staged analysis, then records its progress. *)
StageCharts(p) ==
    /\ pc[p] = "charts"
    /\ StagingWritable(p) /\ dir[Staged(p)].inputs = "all"
    /\ dir' = [dir EXCEPT ![Staged(p)].progress = TRUE]
    /\ Goto(p, "report")
    /\ UNCHANGED <<raw, staging, final, gone, registry, snap, held, listed, target,
                   completed>>

StageReport(p) ==
    /\ pc[p] = "report"
    /\ StagingWritable(p)
    /\ dir[Staged(p)].inputs = "all" /\ ~dir[Staged(p)].report
    /\ dir' = [dir EXCEPT ![Staged(p)].report = TRUE,
                          ![Staged(p)].seal = SealOf("report", snap[p])]
    /\ completed' = [completed EXCEPT ![p] = 7]
    /\ Goto(p, "progress")
    /\ UNCHANGED <<raw, staging, final, gone, registry, snap, held, listed, target>>

(* No publication yet, the run unchanged, and with _progress.json removed  *)
(* the staging tree is exactly the sealed one.                             *)
ValidateStaging(p) ==
    /\ pc[p] = "publish"
    /\ Published(p) = None
    /\ raw[RunOf[p]] = snap[p]
    /\ StagingWritable(p)
    /\ SealedTree([dir[Staged(p)] EXCEPT !.progress = FALSE], snap[p])
    /\ dir' = [dir EXCEPT ![Staged(p)].progress = FALSE]
    /\ Goto(p, "freeze")
    /\ UNCHANGED <<raw, staging, final, gone, registry, snap, held, listed, target,
                   completed>>

(* Mutant: frozen only once it is official. *)
FreezeLater(p) ==
    /\ pc[p] = "freeze"
    /\ Staged(p) # None
    /\ ExactInventory(dir[Staged(p)])
    /\ held' = [held EXCEPT ![p] = Staged(p)]
    /\ Goto(p, "check")
    /\ UNCHANGED <<files, snap, listed, target, completed>>

Freeze(p) ==
    /\ pc[p] = "freeze"
    /\ Staged(p) # None
    /\ ExactInventory(dir[Staged(p)])
    /\ dir' = [dir EXCEPT ![Staged(p)].frozen = TRUE]
    /\ held' = [held EXCEPT ![p] = Staged(p)]
    /\ Goto(p, "check")
    /\ UNCHANGED <<raw, staging, final, gone, registry, snap, listed, target, completed>>

(* rename_staging_to_final checks both names, then renames. *)
CheckNames(p) ==
    /\ pc[p] = "check"
    /\ Staged(p) = held[p] /\ Published(p) = None
    /\ Goto(p, "rename")
    /\ UNCHANGED <<files, snap, held, listed, target, completed>>

Rename(p) ==
    /\ pc[p] = "rename"
    /\ Staged(p) # None /\ Published(p) = None
    /\ final' = [final EXCEPT ![RunOf[p]] = Staged(p)]
    /\ staging' = [staging EXCEPT ![RunOf[p]] = None]
    /\ Goto(p, "renamed")
    /\ UNCHANGED <<raw, dir, gone, registry, snap, held, listed, target, completed>>

(* The names may have changed hands between the check and the rename: what *)
(* got renamed is looked at, and moved aside as .rejected if it is not the *)
(* frozen tree.                                                            *)
RenamedIsFrozenTree(p) ==
    /\ pc[p] = "renamed"
    /\ Published(p) # None /\ Published(p) = held[p]
    /\ Goto(p, "confirm")
    /\ UNCHANGED <<files, snap, held, listed, target, completed>>

RejectRenamed(p) ==
    /\ pc[p] = "renamed"
    /\ Published(p) \notin {None, held[p]}
    /\ final' = [final EXCEPT ![RunOf[p]] = None]
    /\ Goto(p, "discard")
    /\ UNCHANGED <<raw, dir, staging, gone, registry, snap, held, listed, target,
                   completed>>

(* The official name must be the frozen inode, still frozen, still sealed. *)
ConfirmFinal(p) ==
    /\ pc[p] = "confirm"
    /\ Published(p) # None /\ Published(p) = held[p]
    /\ dir[held[p]].frozen /\ SealedTree(dir[held[p]], snap[p])
    /\ completed' = [completed EXCEPT ![p] = 8]
    /\ Goto(p, "registry")
    /\ UNCHANGED <<files, snap, held, listed, target>>

(* _step_update_registry reads the whole file, adds the entry, and writes  *)
(* the whole file back.                                                    *)
ReadRegistry(p) ==
    /\ pc[p] = "registry"
    /\ listed' = [listed EXCEPT ![p] = registry]
    /\ Goto(p, "append")
    /\ UNCHANGED <<files, snap, held, target, completed>>

(* Mutant: an error after the replacement is possible on any disk. *)
ReplaceRegistryRaisingLate(p) ==
    /\ pc[p] = "append"
    /\ registry' = listed[p] \cup {RunOf[p]}
    /\ Goto(p, "done") \/ Goto(p, "undo")
    /\ UNCHANGED <<raw, dir, staging, final, gone, snap, held, listed, target, completed>>

ReplaceRegistry(p) ==
    /\ pc[p] = "append"
    /\ registry' = listed[p] \cup {RunOf[p]}
    /\ \/ Goto(p, "done")
       \/ Faulty /\ Goto(p, "undo")
    /\ UNCHANGED <<raw, dir, staging, final, gone, snap, held, listed, target, completed>>
-----------------------------------------------------------------------------
(* Mutant: the publishing step leaves its rename to the rollback, which    *)
(* does not list it yet.                                                   *)
StepFailsKeepingFinal(p) ==
    /\ pc[p] \in Pipeline
    /\ pc[p] = "renamed" => Faulty \/ Published(p) = None
    /\ Goto(p, IF pc[p] \in {"registry", "append"} THEN "undo"
               ELSE IF completed[p] = 4 THEN "failed" ELSE "discard")
    /\ UNCHANGED <<files, snap, held, listed, target, completed>>

(* Mutant: a failed publishing step is rolled back like a completed one. *)
StepFailsUndoingAnyFinal(p) ==
    /\ pc[p] \in Pipeline
    /\ pc[p] = "renamed" => Faulty \/ Published(p) = None
    /\ Goto(p, CASE completed[p] > 5 -> "undo"
                 [] completed[p] = 4 -> "failed"
                 [] OTHER -> "discard")
    /\ UNCHANGED <<files, snap, held, listed, target, completed>>

(* A check of the step fails, or the file system refuses: what `completed` *)
(* lists is rolled back, latest first.  The publishing step undoes its own *)
(* rename when the renamed tree does not hold up, but not when looking at  *)
(* what got renamed raises.                                                *)
StepFails(p) ==
    /\ pc[p] \in Pipeline
    /\ pc[p] = "renamed" => Faulty \/ Published(p) = None
    /\ Goto(p, IF pc[p] \in {"confirm", "registry", "append"} THEN "undo"
               ELSE IF completed[p] = 4 THEN "failed" ELSE "discard")
    /\ UNCHANGED <<files, snap, held, listed, target, completed>>

(* rename_final_to_staging: move the publication back, aside if there is a *)
(* staging tree again, then thaw it.                                       *)
UndoPublish(p) ==
    /\ pc[p] = "undo"
    /\ IF Published(p) = None
       THEN Goto(p, "discard") /\ UNCHANGED target
       ELSE /\ Goto(p, "undoing")
            /\ target' = [target EXCEPT ![p] =
                            IF Staged(p) = None THEN "staging" ELSE "failed"]
    /\ UNCHANGED <<files, snap, held, listed, completed>>

IsEmpty(d) == dir[d].inputs = "none" /\ ~dir[d].residue

(* Renaming a directory onto an empty one replaces it, onto any other      *)
(* fails; aside, the name is fresh.                                        *)
CanMoveBack(p, aside) ==
    /\ Published(p) # None
    /\ ~aside /\ Staged(p) # None => IsEmpty(Staged(p))

MoveBack(p, aside) ==
    /\ CanMoveBack(p, aside)
    /\ final' = [final EXCEPT ![RunOf[p]] = None]
    /\ \/ aside /\ UNCHANGED <<staging, gone, dir>>
       \/ /\ ~aside
          /\ staging' = [staging EXCEPT ![RunOf[p]] = Published(p)]
          /\ gone' = gone \cup ({Staged(p)} \ {None})
          /\ dir' = [dir EXCEPT ![Published(p)].frozen = FALSE]

RenameBack(p) ==
    /\ pc[p] = "undoing"
    /\ MoveBack(p, target[p] = "failed")
    /\ Goto(p, "discard")
    /\ UNCHANGED <<raw, registry, snap, held, listed, target, completed>>

RenameBackFails(p) ==
    /\ pc[p] = "undoing"
    /\ Faulty \/ ~CanMoveBack(p, target[p] = "failed")
    /\ Goto(p, "discard")
    /\ UNCHANGED <<files, snap, held, listed, target, completed>>

(* Steps 7 and 5 have the same rollback; charts is never rolled back. *)
RolledBack(p) ==
    IF completed[p] = 5
    THEN /\ completed' = [completed EXCEPT ![p] = 4]
         /\ Goto(p, "failed")
    ELSE /\ completed' = [completed EXCEPT ![p] = 5]
         /\ Goto(p, "discard")

DiscardStaging(p) ==
    /\ pc[p] = "discard"
    /\ IF Staged(p) = None
       THEN RolledBack(p) /\ UNCHANGED held
       ELSE /\ held' = [held EXCEPT ![p] = Staged(p)]
            /\ Goto(p, "thaw")
            /\ UNCHANGED completed
    /\ UNCHANGED <<files, snap, listed, target>>

(* By the descriptor opened just before, whatever its name is now. *)
Thaw(p) ==
    /\ pc[p] = "thaw"
    /\ dir' = [dir EXCEPT ![held[p]].frozen = FALSE]
    /\ Goto(p, "quarantine")
    /\ UNCHANGED <<raw, staging, final, gone, registry, snap, held, listed, target,
                   completed>>

(* By name: whatever is the staging tree now moves aside as .discarded. *)
Quarantine(p) ==
    /\ pc[p] = "quarantine"
    /\ staging' = [staging EXCEPT ![RunOf[p]] = None]
    /\ RolledBack(p)
    /\ UNCHANGED <<raw, dir, final, gone, registry, snap, held, listed, target>>

(* A rollback that raises is logged, and the next one runs. *)
RollbackFails(p) ==
    /\ Faulty
    /\ pc[p] \in {"discard", "thaw", "quarantine"}
    /\ RolledBack(p)
    /\ UNCHANGED <<files, snap, held, listed, target>>

Killed(p) ==
    /\ pc[p] \in Pipeline \cup RollingBack
    /\ Goto(p, "dead")
    /\ UNCHANGED <<files, snap, held, listed, target, completed>>

(* Control-C while publishing: the step's own BaseException handlers run,  *)
(* the orchestrator's do not.                                              *)
InterruptedRenaming(p) ==
    /\ pc[p] \in {"check", "rename"}
    /\ Staged(p) # None
    /\ dir' = [dir EXCEPT ![Staged(p)].frozen = FALSE]
    /\ Goto(p, "dead")
    /\ UNCHANGED <<raw, staging, final, gone, registry, snap, held, listed, target,
                   completed>>

InterruptedConfirming(p) ==
    /\ pc[p] = "confirm"
    /\ MoveBack(p, Staged(p) # None)
    /\ Goto(p, "dead")
    /\ UNCHANGED <<raw, registry, snap, held, listed, target, completed>>
-----------------------------------------------------------------------------
Advance(p) ==
    \/ ValidatorsPass(p) \/ OpenStaging(p) \/ WriteInputs(p) \/ SealMetrics(p)
    \/ WriteProgress(p) \/ StageCharts(p) \/ StageReport(p) \/ ValidateStaging(p)
    \/ Freeze(p) \/ CheckNames(p) \/ Rename(p) \/ RenamedIsFrozenTree(p)
    \/ RejectRenamed(p) \/ ConfirmFinal(p)
    \/ ReadRegistry(p) \/ ReplaceRegistry(p) \/ StepFails(p)

RollBack(p) ==
    \/ UndoPublish(p) \/ RenameBack(p) \/ RenameBackFails(p) \/ DiscardStaging(p)
    \/ Thaw(p) \/ Quarantine(p) \/ RollbackFails(p)

Interruption(p) ==
    \/ \E left \in {"none", "part"}, step \in {"failed", "dead"} :
            WriteInputsInterrupted(p, left, step)
    \/ Killed(p) \/ InterruptedRenaming(p) \/ InterruptedConfirming(p)

Next ==
    \/ \E r \in Runs : SourceRewritten(r)
    \/ \E p \in Promotions : BindCapsule(p) \/ Advance(p) \/ RollBack(p) \/ Interruption(p)

Spec == Init /\ [][Next]_vars

(* The operating system keeps running a process that is not killed, and    *)
(* none of its steps waits for anything.                                   *)
FairSpec == Spec /\ \A p \in Promotions : WF_vars(Advance(p) \/ RollBack(p))
-----------------------------------------------------------------------------
ContentOf(d) ==
    [f \in DOMAIN EmptyDirectory \ {"frozen", "writer"} |-> dir[d][f]]

SealedContents ==
    {[inputs |-> "all", version |-> v, report |-> TRUE, progress |-> FALSE,
      residue |-> FALSE, seal |-> SealOf("report", v)] : v \in Versions}

(* A name that leads nowhere is told from any publication.                 *)
ASSUME NoneIsNoPublication == None \notin [by : Promotions, content : SealedContents]

(* The registry lists no run that is not published: a run is entered after *)
(* it is official, and no rollback takes back what has been entered.       *)
RegisteredIsPublished == \A r \in registry : final[r] # None

(* Whatever is under an official name is a complete publication of one     *)
(* version of the run, as its seal says, with nothing else in it, whatever *)
(* earlier promotions of the run left behind when they failed or died      *)
(* (_validate_staging_for_publish, rename).  And nobody can change it: it  *)
(* was frozen before the rename and no rollback thaws it while official.   *)
(* Nothing else is in the registry.                                        *)
OfficialIsSealed ==
    /\ \A r \in Runs : final[r] # None =>
          ContentOf(final[r]) \in SealedContents /\ dir[final[r]].frozen
    /\ RegisteredIsPublished

(* What a promotion reported as published is complete, of the version it   *)
(* validated, and stays published, whatever other promotions of the same   *)
(* run do at the same time, fail at, or roll back by name                  *)
(* (rename_staging_to_final, _validate_final_publication,                  *)
(* _rollback_atomic_publish).                                              *)
SuccessStands ==
    \A p \in Promotions :
        pc[p] = "done" =>
            /\ Published(p) # None
            /\ SealedTree(dir[Published(p)], snap[p])

(* No entry can be added to or removed from a publication any more, as     *)
(* lock_final_publication_directory says, once it is reported.             *)
ReportedStaysFrozen ==
    \A p \in Promotions : pc[p] = "done" => dir[Published(p)].frozen

(* Appending an entry keeps the entries of other runs. *)
RegistryKeepsEntries == [][registry \subseteq registry']_registry

(* A publication does not stay half done: it is entered in the registry or *)
(* withdrawn, unless a promotion of that run was killed.                   *)
PublicationSettles ==
    \A r \in Runs :
        final[r] # None ~>
            \/ final[r] = None
            \/ \E p \in Promotions : RunOf[p] = r /\ pc[p] \in {"done", "dead"}

(* Promotion implements Publication when runs are not promoted twice at a  *)
(* time and rollbacks do not fail: all or nothing, complete at once, never *)
(* changed, and a failed promotion leaves nothing of its own official.     *)
OfficialOf(r) ==
    IF final[r] = None THEN None
    ELSE [by |-> dir[final[r]].writer, content |-> ContentOf(final[r])]

OutcomeOf(p) ==
    CASE pc[p] = "done" -> "succeeded" [] pc[p] = "failed" -> "failed" [] OTHER -> "running"

Abstract == INSTANCE Publication WITH
                Sealed <- SealedContents,
                official <- [r \in Runs |-> OfficialOf(r)],
                outcome <- [p \in Promotions |-> OutcomeOf(p)]

PublicationSpec == Abstract!Spec
=============================================================================
