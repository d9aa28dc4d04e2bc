----------------------------- MODULE StudyPilots -----------------------------
(***************************************************************************)
(* The small studies before the headline: the cheap pilot, the interface    *)
(* pilot and its supplements, the generated-harness parity capsule and the  *)
(* one-shot CLI canary.  Each has files that bind one another by hash and a *)
(* revision, locked file by file while people go on working, and a          *)
(* preflight that spends nothing.  The canary has a dispatcher, too.        *)
(*                                                                         *)
(* A preflight that refuses changes nothing.  What a human decides (gates,  *)
(* selections, contracts, credentials, mirrors) is in that refusal.         *)
(***************************************************************************)
EXTENDS Naturals, Sequences, FiniteSets

CONSTANTS
    PilotKinds,    \* the capsules in use
    Dispatchers,   \* processes that dispatch the canary
    MaxEdits,      \* bound, for each capsule: edits of the inputs and revisions
    Absent

ASSUME PilotAssumption ==
    /\ PilotKinds \subseteq {"cheap", "interface", "supplement", "parity", "canary"}
    /\ MaxEdits \in [PilotKinds -> Nat]

VARIABLES
    pilot,         \* which of the capsules this is
    worktree,      \* version of each input in the working tree
    revisions,       \* what each revision has
    bound,         \* the files of the capsule
    locking,       \* who writes them: the files not written yet, and what of
    admitted,      \* history: the capsule a preflight let pass last
    outputs,       \* bundles whose output root holds something
    canary,        \* state of each dispatcher
    canaryLog      \* receipts.jsonl of the canary

pilotVars == <<pilot, worktree, revisions, bound, locking, admitted, outputs, canary, canaryLog>>

\* The harness is partly outside what the Claude pilots compare with the revision
\* (the adapters of the other agents); a task is its whole directory.
Inputs == {"core", "adapters", "task"}

HarnessInputs  == {"core", "adapters"}
VerifierInputs == {"core", "task"}

\* capture_input_provenance: one hash for each.
HashOf(inputs, t) == [i \in inputs |-> t[i]]
Provenance(t) == [task |-> t["task"], harness |-> HashOf(HarnessInputs, t),
                  verifier |-> HashOf(VerifierInputs, t)]

\* What the diff with the revision looks at.
CriticalPaths ==
    [cheap |-> Inputs \ {"adapters"}, interface |-> Inputs \ {"adapters"},
     supplement |-> Inputs \ {"adapters"}, parity |-> Inputs, canary |-> Inputs][pilot]

SpecFiles == [cheap |-> <<"spec">>, interface |-> <<"spec">>, supplement |-> <<"spec">>,
              parity |-> <<"codex", "opencode">>, canary |-> <<"spec">>][pilot]

CapsuleFiles == <<"manifest">> \o SpecFiles \o
         [cheap |-> <<>>, interface |-> <<>>, supplement |-> <<>>,
          parity |-> <<"evidence">>, canary |-> <<"plan">>][pilot]

Specs == {SpecFiles[i] : i \in DOMAIN SpecFiles}

\* build_core_payloads: the manifest's bytes are told by the inputs it hashes, and
\* the canary's by the revision, too; every other file names the manifest's hash.
ManifestOf(core) ==
    [inputs |-> core.inputs, revision |-> IF pilot = "canary" THEN core.revision ELSE 0]

SpecOf(core) ==
    [manifest |-> ManifestOf(core), harness |-> core.inputs.harness, revision |-> core.revision]

PayloadOf(f, core) ==
    IF f = "manifest" THEN ManifestOf(core)
    ELSE IF f \in Specs THEN SpecOf(core)
    ELSE [manifest |-> ManifestOf(core), spec |-> SpecOf(core)]

-----------------------------------------------------------------------------
PilotInit ==
    /\ pilot \in PilotKinds
    /\ worktree = [i \in Inputs |-> 1]
    /\ revisions = <<worktree>>
    /\ bound = [i \in {CapsuleFiles[n] : n \in DOMAIN CapsuleFiles} |-> Absent]
    /\ locking = Absent /\ admitted = Absent
    /\ outputs = {}
    /\ canary = [d \in Dispatchers |-> [at |-> "idle"]]
    /\ canaryLog = <<>>

Edits == worktree["core"] + worktree["adapters"] + worktree["task"] + Len(revisions) - 4

EditInput(i) ==
    /\ Edits < MaxEdits[pilot]
    /\ worktree' = [worktree EXCEPT ![i] = @ + 1]
    /\ UNCHANGED <<pilot, revisions, bound, locking, admitted, outputs, canary, canaryLog>>

\* A commit may be of something else altogether.
CommitInputs ==
    /\ Edits < MaxEdits[pilot]
    /\ \E committed \in {worktree, revisions[Len(revisions)]} :
          revisions' = Append(revisions, committed)
    /\ UNCHANGED <<pilot, worktree, bound, locking, admitted, outputs, canary, canaryLog>>

\* Everything is derived from the working tree and HEAD before a file is written.
StartLocking ==
    /\ locking = Absent
    /\ locking' = [next |-> 1,
                   core |-> [inputs |-> Provenance(worktree), revision |-> Len(revisions)]]
    /\ UNCHANGED <<pilot, worktree, revisions, bound, admitted, outputs, canary, canaryLog>>

\* A temporary file that is renamed: there is no half of one.
WriteRegularArtifact ==
    /\ locking # Absent
    /\ LET f == CapsuleFiles[locking.next] IN
       bound' = [bound EXCEPT ![f] = PayloadOf(f, locking.core)]
    /\ locking' = IF locking.next = Len(CapsuleFiles) THEN Absent
                  ELSE [locking EXCEPT !.next = @ + 1]
    /\ UNCHANGED <<pilot, worktree, revisions, admitted, outputs, canary, canaryLog>>

LockingStops ==
    /\ locking # Absent
    /\ locking' = Absent
    /\ UNCHANGED <<pilot, worktree, revisions, bound, admitted, outputs, canary, canaryLog>>

-----------------------------------------------------------------------------
FilesPresent == \A f \in DOMAIN bound : bound[f] # Absent

SpecsNameManifest == \A s \in Specs : bound[s].manifest = bound["manifest"]

HashesAreCurrent ==
    /\ \A s \in Specs : bound[s].harness = Provenance(worktree).harness
    /\ bound["manifest"].inputs.harness = Provenance(worktree).harness
    /\ pilot # "canary" => bound["manifest"].inputs = Provenance(worktree)

\* Mutant: ancestry is all that is asked.
RevisionIsAncestor(s) == bound[s].revision \in DOMAIN revisions

\* git diff --quiet revision -- paths; that it is an ancestor is so here.
RevisionIsCurrent(s) ==
    \A i \in CriticalPaths : revisions[bound[s].revision][i] = worktree[i]

\* Mutant: each bundle has its own.
AnyRevision == bound[SpecFiles[1]].revision \in DOMAIN revisions

\* Both specs freeze one revision, so that the first is compared for both.
SameRevision == \A s, u \in Specs : bound[s].revision = bound[u].revision

\* The parity bundles and the canary have not been run.
OutputRootsClean == pilot \in {"parity", "canary"} => outputs = {}

\* The plan of the canary holds the hashes of the manifest and of the spec.
PlanBindsCapsule ==
    pilot = "canary" =>
        /\ bound["plan"].manifest = bound["manifest"] /\ bound["plan"].spec = bound["spec"]
        /\ bound["spec"].revision = bound["manifest"].revision

CapsuleHolds ==
    /\ FilesPresent /\ SpecsNameManifest /\ HashesAreCurrent
    /\ RevisionIsCurrent(SpecFiles[1]) /\ SameRevision
    /\ OutputRootsClean /\ PlanBindsCapsule

Capsule == [specs |-> {bound[s] : s \in Specs}, manifest |-> bound["manifest"]]

\* validate_pilot, validate_interface_pilot, validate_interface_supplement,
\* validate_generated_harness_parity
Preflight ==
    /\ pilot # "canary" /\ CapsuleHolds
    /\ admitted' = Capsule
    /\ UNCHANGED <<pilot, worktree, revisions, bound, locking, outputs, canary, canaryLog>>

\* run_task is started by hand, for a trial of a bundle.
RunTrial(s) ==
    /\ pilot # "canary" /\ bound[s] # Absent
    /\ outputs' = outputs \cup {s}
    /\ UNCHANGED <<pilot, worktree, revisions, bound, locking, admitted, canary, canaryLog>>

-----------------------------------------------------------------------------
(* The dispatcher of the canary.  Nothing keeps two of them apart.          *)

LoadCanaryDispatchPlan(d) ==
    /\ pilot = "canary" /\ canary[d].at = "idle" /\ CapsuleHolds
    /\ admitted' = Capsule
    /\ canary' = [canary EXCEPT ![d] = [at |-> "loaded", spec |-> bound["spec"]]]
    /\ UNCHANGED <<pilot, worktree, revisions, bound, locking, outputs, canaryLog>>

\* run_task reads the spec for itself.
StartCanary(d) ==
    /\ canary[d].at = "loaded" /\ bound["spec"] # Absent
    /\ canary' = [canary EXCEPT ![d] = [@ EXCEPT !.at = "running"]]
    /\ outputs' = outputs \cup {"spec"}
    /\ UNCHANGED <<pilot, worktree, revisions, bound, locking, admitted, canaryLog>>

\* The trial is one and the same for both: append_receipt refuses the second.
RecordCanary(d) ==
    /\ canary[d].at = "running" /\ canaryLog = <<>>
    /\ \E complies \in BOOLEAN :
         canaryLog' = <<[by |-> d, spec |-> bound["spec"], complies |-> complies]>>
    /\ canary' = [canary EXCEPT ![d] = [at |-> "recorded", spec |-> canary[d].spec]]
    /\ UNCHANGED <<pilot, worktree, revisions, bound, locking, admitted, outputs>>

\* Mutant: the one receipt decides.
OneReceipt(success) == Len(canaryLog) = 1

SucceededOnce(success) == success /\ Len(canaryLog) = 1

\* _validate_receipt: valid, of this spec, compliant, within the ceiling.
ReceiptComplies(d) == canaryLog[1].complies /\ canaryLog[1].spec = canary[d].spec

\* The subprocess ends, a success only if it has recorded its trial, and is judged.
EndCanary(d) ==
    /\ canary[d].at \in {"running", "recorded"}
    /\ \E success \in {FALSE, canary[d].at = "recorded"} :
         canary' = [canary EXCEPT ![d] =
                      IF SucceededOnce(success) /\ ReceiptComplies(d)
                        THEN [at |-> "accepted", spec |-> canary[d].spec] ELSE [at |-> "blocked"]]
    /\ UNCHANGED <<pilot, worktree, revisions, bound, locking, admitted, outputs, canaryLog>>

PilotNext ==
    \/ \E i \in Inputs : EditInput(i)
    \/ CommitInputs \/ StartLocking \/ WriteRegularArtifact \/ LockingStops \/ Preflight
    \/ \E s \in Specs : RunTrial(s)
    \/ \E d \in Dispatchers :
          \/ LoadCanaryDispatchPlan(d) \/ StartCanary(d) \/ RecordCanary(d) \/ EndCanary(d)

PilotSpec == PilotInit /\ [][PilotNext]_pilotVars

-----------------------------------------------------------------------------
PilotTypeOK ==
    /\ worktree \in [Inputs -> 1..(MaxEdits[pilot] + 1)]
    /\ canaryLog = <<>> \/ canaryLog[1].by \in Dispatchers

(* What a preflight admits can be had again: all its studies name one        *)
(* revision, which has the very inputs the manifest hashes, as far as the    *)
(* preflight compares them, whatever was edited, committed or left half      *)
(* written meanwhile (validate_* and load_canary_dispatch_plan).             *)
AdmittedIsReproducible ==
    admitted # Absent =>
        \E r \in DOMAIN revisions :
            /\ \A s \in admitted.specs : s.revision = r /\ s.manifest = admitted.manifest
            /\ \A i \in CriticalPaths \cap HarnessInputs :
                  revisions[r][i] = admitted.manifest.inputs.harness[i]
            /\ pilot # "canary" =>
                  revisions[r]["task"] = admitted.manifest.inputs.task

(* A dispatcher that reports a compliant canary reports its own run: one of  *)
(* the same spec that it loaded, never a receipt that another left in the    *)
(* log (dispatch_cli_compliance_canary).                                     *)
CanaryVerdictIsItsOwn ==
    \A d \in Dispatchers : canary[d].at = "accepted" =>
        canaryLog[1].by = d /\ canaryLog[1].spec = canary[d].spec

(* A pilot that a preflight admits can be reproduced from a revision, and  *)
(* of two canary dispatchers the one whose trial is on record passes.      *)
PilotVerdictsHold == AdmittedIsReproducible /\ CanaryVerdictIsItsOwn
=============================================================================
