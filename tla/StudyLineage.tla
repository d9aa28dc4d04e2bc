---------------------------- MODULE StudyLineage ----------------------------
(***************************************************************************)
(* The headline studies v1, v2, ...: each is a capsule of five committed    *)
(* files that a builder derives from the protocol table, the sources and    *)
(* the receipts of the studies before it, and that preflight and dispatcher *)
(* check before an agent is paid for.  A study that stops is succeeded by   *)
(* one that leaves out every task an agent has already worked on.           *)
(*                                                                         *)
(* One slot stands for the arms of a task, a version number for the hash of *)
(* the sources that have it.  What happens to locks, batches and money      *)
(* inside one dispatch is HeadlineDispatch.                                 *)
(***************************************************************************)
EXTENDS Naturals, Sequences, FiniteSets

CONSTANTS
    NTasks,       \* size of the candidate lock
    Lineages,     \* which builders the studies have, in order
    MaxSources,   \* bound on versions of the harness sources
    Unwritten     \* a capsule file that is not there; nobody at work

ASSUME LineageAssumption ==
    /\ NTasks \in Nat \ {0} /\ MaxSources \in Nat \ {0}
    /\ \A l \in Lineages :
          l \in Seq({"v1", "v2", "v3", "v4", "v5", "v6", "v7"}) /\ l # <<>> /\ l[1] = "v1"

VARIABLES
    lineage,      \* the builder of each study
    sources,      \* version of the harness, in the working tree and at HEAD
    protocols,    \* studies that headline_protocol.py defines
    excluded,     \* post-lock exposures of each protocol
    evidence,     \* what each protocol's amendment and forecast cite
    capsule,      \* the five files of each study
    building,     \* a build_headline_*_capsule.py that writes
    trials,       \* receipts.jsonl of each study
    exposed,      \* history: tasks each study put before an agent
    closed,       \* whether the study's output root has a terminal record
    dispatching   \* the dispatcher of each study

lineageVars == <<lineage, sources, protocols, excluded, evidence, capsule, building,
                 trials, exposed, closed, dispatching>>

LockedCandidates == 1..NTasks
Studies == 1..Len(lineage)

----------------------------------------------------------------------------
(* The builders: which costs a predecessor's receipt may have to be counted *)
(* in the forecast, what happens to the files of a study that is over, and  *)
(* which evidence of the predecessor the protocol binds by its hash.        *)

V2Builder == [costs |-> {"isolated"}, whenClosed |-> "keep", binds |-> "nothing"]
V3Builder == [costs |-> {"isolated", "pre_agent"}, whenClosed |-> "keep", binds |-> "nothing"]
V4Builder == [costs |-> {"isolated", "pre_agent"}, whenClosed |-> "rewrite", binds |-> "nothing"]
V5Builder == [V4Builder EXCEPT !.whenClosed = "refuse", !.binds = "terminal"]
V6Builder == [V4Builder EXCEPT !.binds = "receipts"]
V7Builder == [V4Builder EXCEPT !.binds = "receipts"]

\* v1's files are the ones every study starts from; nothing rebuilds them here.
BuilderOf(k) == [v1 |-> V4Builder, v2 |-> V2Builder, v3 |-> V3Builder, v4 |-> V4Builder,
                 v5 |-> V5Builder, v6 |-> V6Builder, v7 |-> V7Builder][lineage[k]]

\* What each file says, directly or through the hashes it holds.
Content == [analysis_plan |-> {"tasks"},
            final_manifest |-> {"tasks", "harness"},
            study_spec |-> {"tasks", "harness", "revision"},
            preflight_evidence |-> {"tasks", "harness", "revision"},
            dispatch_plan |-> {"tasks", "harness", "revision", "samples", "authorized"}]

WriteOrder == <<"analysis_plan", "final_manifest", "study_spec", "preflight_evidence",
                "dispatch_plan">>

\* The hash of the other file that this one holds is that file's.
Binds(file, other) == \A x \in DOMAIN other : file[x] = other[x]

SelectedTasks(k) == LockedCandidates \ excluded[k]

\* The i-th row of the execution order.
Slot(tasks, i) == CHOOSE t \in tasks : Cardinality({u \in tasks : u <= t}) = i

\* validate_protocol_amendment_evidence: what the amendment names is unchanged.
AmendmentEvidence(k) ==
    CASE BuilderOf(k).binds = "nothing"  -> TRUE
      [] BuilderOf(k).binds = "terminal" -> closed[k - 1]
      [] BuilderOf(k).binds = "receipts" -> closed[k - 1] /\ trials[k - 1] = evidence[k].receipts

\* _sample_costs, cache_isolated_receipt_costs
CostSamples(k) ==
    /\ evidence[k].sampled # {}
    /\ \A j \in evidence[k].sampled :
          /\ trials[j] # <<>>
          /\ \A i \in DOMAIN trials[j] : trials[j][i].cost \in BuilderOf(k).costs

BuildCorePayloads(k) ==
    [tasks |-> SelectedTasks(k), harness |-> sources, revision |-> sources,
     samples |-> [j \in evidence[k].sampled |-> trials[j]], authorized |-> FALSE]

----------------------------------------------------------------------------
LineageInit ==
    /\ lineage \in Lineages
    /\ sources = 1 /\ protocols = 1
    /\ excluded = [k \in Studies |-> {}]
    /\ evidence = [k \in Studies |-> [sampled |-> {}, receipts |-> <<>>]]
    /\ capsule = [k \in Studies |-> [f \in DOMAIN Content |->
                    IF k = 1 THEN [x \in Content[f] |-> BuildCorePayloads(1)[x]] ELSE Unwritten]]
    /\ building = Unwritten
    /\ trials = [k \in Studies |-> <<>>] /\ exposed = [k \in Studies |-> {}]
    /\ closed = [k \in Studies |-> FALSE]
    /\ dispatching = [k \in Studies |-> Unwritten]

\* Someone works on the harness and commits it.
EditSources ==
    /\ sources < MaxSources
    /\ sources' = sources + 1
    /\ UNCHANGED <<lineage, protocols, excluded, evidence, capsule, building,
                   trials, exposed, closed, dispatching>>

\* A study that has stopped gets its study_status.json or batch-001-terminal.json.
CloseStudy(k) ==
    /\ ~closed[k] /\ dispatching[k] = Unwritten
    /\ exposed[k] # {} \/ trials[k] # <<>> \/ capsule[k].dispatch_plan # Unwritten
    /\ closed' = [closed EXCEPT ![k] = TRUE]
    /\ UNCHANGED <<lineage, sources, protocols, excluded, evidence, capsule,
                   building, trials, exposed, dispatching>>

\* The mutated form: only what the last study has shown is left out.
OwnExposures(k) == exposed[k]

\* V2_POST_LOCK_EXPOSURES and its like: those of the predecessor and what it added.
PostLockExposures(k) == excluded[k] \cup exposed[k]

\* The successor of a closed study is entered in headline_protocol.py, which is one of
\* the harness inputs: the tasks its agents have seen are added to those left out.
AmendProtocol ==
    /\ protocols < Len(lineage) /\ sources < MaxSources
    /\ closed[protocols] /\ dispatching[protocols] = Unwritten
    /\ protocols' = protocols + 1
    /\ excluded' = [excluded EXCEPT ![protocols + 1] = PostLockExposures(protocols)]
    /\ evidence' = [evidence EXCEPT ![protocols + 1] =
                      [sampled |-> {j \in 1..protocols : trials[j] # <<>>},
                       receipts |-> trials[protocols]]]
    /\ sources' = sources + 1
    /\ UNCHANGED <<lineage, capsule, building, trials, exposed, closed, dispatching>>

----------------------------------------------------------------------------
(* The builder: it derives everything first, then writes file after file.  *)

StartBuild(k) ==
    /\ building = Unwritten /\ k \in 2..protocols
    /\ AmendmentEvidence(k) /\ CostSamples(k)
    /\ closed[k] => BuilderOf(k).whenClosed = "rewrite"
    /\ building' = [study |-> k, next |-> 1, payloads |-> BuildCorePayloads(k)]
    /\ UNCHANGED <<lineage, sources, protocols, excluded, evidence, capsule, trials,
                   exposed, closed, dispatching>>

WriteArtifact ==
    /\ building # Unwritten
    /\ LET f == WriteOrder[building.next] IN
         capsule' = [capsule EXCEPT ![building.study][f] =
                       [x \in Content[f] |-> building.payloads[x]]]
    /\ building' = IF building.next = Len(WriteOrder) THEN Unwritten
                   ELSE [building EXCEPT !.next = @ + 1]
    /\ UNCHANGED <<lineage, sources, protocols, excluded, evidence, trials, exposed,
                   closed, dispatching>>

KillBuilder ==
    /\ building # Unwritten
    /\ building' = Unwritten
    /\ UNCHANGED <<lineage, sources, protocols, excluded, evidence, capsule, trials,
                   exposed, closed, dispatching>>

\* The operator authorizes a plan.
Authorize(k) ==
    /\ capsule[k].dispatch_plan # Unwritten /\ ~capsule[k].dispatch_plan.authorized
    /\ capsule' = [capsule EXCEPT ![k].dispatch_plan.authorized = TRUE]
    /\ UNCHANGED <<lineage, sources, protocols, excluded, evidence, building, trials,
                   exposed, closed, dispatching>>

----------------------------------------------------------------------------
(* A dispatch: the plan and what it binds, the preflight, then the slots.  *)

ExistingReceipts(k, spec) ==
    \A i \in DOMAIN trials[k] :
        /\ i <= Cardinality(spec.tasks)
        /\ trials[k][i] = [task |-> Slot(spec.tasks, i), harness |-> spec.harness,
                           cost |-> "isolated"]

ForecastHolds(plan) ==
    \A j \in DOMAIN plan.samples : plan.samples[j] = trials[j]

\* load_dispatch_plan and _existing_receipts
LoadsPlan(k) ==
    LET c == capsule[k] IN
    /\ c.dispatch_plan.authorized
    /\ Binds(c.dispatch_plan, c.study_spec) /\ Binds(c.dispatch_plan, c.final_manifest)
    /\ Binds(c.dispatch_plan, c.preflight_evidence) /\ Binds(c.study_spec, c.final_manifest)
    /\ ForecastHolds(c.dispatch_plan) /\ ExistingReceipts(k, c.study_spec)

\* A study nobody has a receipt of must not have left anything else either.
OutputRootIsClean(k) == trials[k] = <<>> /\ exposed[k] = {} /\ ~closed[k]

\* _git_revision_matches: the tree is what it was at the revision.
RevisionMatches(spec) == spec.revision = sources

\* _validate_selection
LockedSelection(k, manifest) == manifest.tasks = SelectedTasks(k)

\* The mutated form: the sources are not compared with those the capsule was built of.
ValidateStaleStudy(k, clean) ==
    LET c == capsule[k] IN
    /\ Binds(c.study_spec, c.final_manifest) /\ Binds(c.final_manifest, c.analysis_plan)
    /\ AmendmentEvidence(k) /\ LockedSelection(k, c.final_manifest)
    /\ clean => OutputRootIsClean(k)

\* validate_headline_study
ValidateHeadlineStudy(k, clean) ==
    LET c == capsule[k] IN
    /\ Binds(c.study_spec, c.final_manifest) /\ Binds(c.final_manifest, c.analysis_plan)
    /\ AmendmentEvidence(k) /\ LockedSelection(k, c.final_manifest)
    /\ clean => OutputRootIsClean(k)
    /\ c.final_manifest.harness = sources /\ c.study_spec.harness = sources
    /\ RevisionMatches(c.study_spec)

\* Both read the files, here at one moment.
StartDispatch(k) ==
    /\ dispatching[k] = Unwritten
    /\ \A f \in DOMAIN Content : capsule[k][f] # Unwritten
    /\ LoadsPlan(k) /\ ValidateHeadlineStudy(k, trials[k] = <<>>)
    /\ dispatching' = [dispatching EXCEPT ![k] =
                         [at |-> "ready", spec |-> capsule[k].study_spec,
                          known |-> Len(trials[k]), harness |-> 0]]
    /\ UNCHANGED <<lineage, sources, protocols, excluded, evidence, capsule, building, trials,
                   exposed, closed>>

\* A budget or the operator stops it; there may be no slot left.
LeaveDispatch(k) ==
    /\ dispatching[k] # Unwritten /\ dispatching[k].at = "ready"
    /\ dispatching' = [dispatching EXCEPT ![k] = Unwritten]
    /\ UNCHANGED <<lineage, sources, protocols, excluded, evidence, capsule, building,
                   trials, exposed, closed>>

Remaining(k) ==
    /\ dispatching[k] # Unwritten /\ dispatching[k].at = "ready"
    /\ dispatching[k].known < Cardinality(dispatching[k].spec.tasks)

NextSlot(k) == Slot(dispatching[k].spec.tasks, dispatching[k].known + 1)

\* run_task notes the hash of the harness when it starts.
StartTrial(k) ==
    /\ Remaining(k)
    /\ exposed' = [exposed EXCEPT ![k] = @ \cup {NextSlot(k)}]
    /\ dispatching' = [dispatching EXCEPT ![k].at = "agent", ![k].harness = sources]
    /\ UNCHANGED <<lineage, sources, protocols, excluded, evidence, capsule, building,
                   trials, closed>>

\* The receipt is appended; only a valid one under the harness of the spec goes on.
AppendReceipt(k) ==
    /\ dispatching[k] # Unwritten /\ dispatching[k].at = "agent"
    /\ \E cost \in {"isolated", "missing"} :
         /\ trials' = [trials EXCEPT ![k] = Append(@, [task |-> NextSlot(k), cost |-> cost,
                                                       harness |-> dispatching[k].harness])]
         /\ dispatching' = [dispatching EXCEPT ![k] =
              IF cost = "isolated" /\ @.harness = @.spec.harness
                THEN [@ EXCEPT !.at = "ready", !.known = dispatching[k].known + 1, !.harness = 0]
                ELSE Unwritten]
    /\ UNCHANGED <<lineage, sources, protocols, excluded, evidence, capsule, building,
                   exposed, closed>>

\* The run fails before its agent starts, as on an MCP server that does not authenticate.
FailBeforeAgent(k) ==
    /\ Remaining(k)
    /\ trials' = [trials EXCEPT ![k] = Append(@, [task |-> NextSlot(k), cost |-> "pre_agent",
                                                  harness |-> sources])]
    /\ dispatching' = [dispatching EXCEPT ![k] = Unwritten]
    /\ UNCHANGED <<lineage, sources, protocols, excluded, evidence, capsule, building,
                   exposed, closed>>

\* Run and dispatcher die without a receipt.
LoseRun(k) ==
    /\ dispatching[k] # Unwritten /\ dispatching[k].at = "agent"
    /\ dispatching' = [dispatching EXCEPT ![k] = Unwritten]
    /\ UNCHANGED <<lineage, sources, protocols, excluded, evidence, capsule, building,
                   trials, exposed, closed>>

LineageNext ==
    \/ EditSources \/ AmendProtocol \/ WriteArtifact \/ KillBuilder
    \/ \E k \in Studies :
          \/ CloseStudy(k) \/ StartBuild(k) \/ Authorize(k) \/ StartDispatch(k)
          \/ LeaveDispatch(k) \/ StartTrial(k) \/ AppendReceipt(k) \/ FailBeforeAgent(k)
          \/ LoseRun(k)

LineageSpec == LineageInit /\ [][LineageNext]_lineageVars

----------------------------------------------------------------------------
LineageTypeOK ==
    /\ protocols \in Studies /\ sources \in 1..MaxSources
    /\ \A k \in Studies : Len(trials[k]) <= NTasks /\ exposed[k] \subseteq LockedCandidates

(* No candidate is put before an agent by two headline studies: a study     *)
(* that goes on, or is rebuilt, after its successor exists is refused, and  *)
(* the successor's population leaves out whatever its predecessors showed   *)
(* (build_core_payloads, load_dispatch_plan, validate_headline_study).      *)
ConfirmatoryIsUnexposed ==
    \A j, k \in Studies : j # k => exposed[j] \cap exposed[k] = {}
=============================================================================
