# Verification of EnterpriseBench's run control

EnterpriseBench measures coding agents on enterprise-scale tasks. Most of the
repository is data, graders and statistics. The part that is hard to get right
is the part that *spends money and publishes numbers*: dispatchers that pay for
the runs of a frozen study, `run_task`, which turns one paid run into a record
that is either a measurement or flagged as none, the harness around it that says
what was spent, found and scored, and the reports and promotions that make
finished runs public. This project models these in TLA+, checks them with TLC on
small instances and proves the invariants that matter most with TLAPS for every
value of the constants.

All paths below are relative to the repository; line numbers are in the `map`
of `PROJECT.json`, definition by definition. Hazards, each at its line and with
the properties that watch it, are listed there too.

## 1. Inventory

| component | source | state it keeps | modules |
|---|---|---|---|
| paid headline dispatcher | `scripts/orchestration/headline_study_dispatch.py`, `headline_dispatch_policy.py`, `headline_provider_capacity.py` | `receipts.jsonl`, the committed authorization, `capacity_rechecks/*`, `flock`s on the plan and on each provider account, slot output directories | `HeadlineDispatch`, abstract `StudyLedger` |
| batch authorization | `scripts/studies/authorize_headline_v3_batch.py` | authorization artifacts | `HeadlineDispatch` (`Operator`) |
| run promotion | `run_promotion_orchestrator.py`, `promotion_capsule.py`, `publication_fs.py` | `.<run>.staging`, `<run>`, `_registry.json`, `_progress.json` | `Promotion`, abstract `Publication` |
| one task run | `run_task.py`, `study_run.py`, `study_receipt.py` | `TaskRunResult`, `results.json`, the container, copied credentials, the trial's receipt | `RunTask` |
| task container | `run_task.py` (sealing, gating, reaping) | owners and modes under `/workspace`, processes of three identities | `TaskContainer` |
| benchmark runner | `scripts/run_benchmark.py` | pool of worker processes, running cost, result files | `BenchmarkSweep` |
| session chain | `chain_runner.py`, `session.py`, `branch_manager.py`, `milestone.py` | branches and commits of each repository, verdicts, the score file | `SessionChain` |
| MCP telemetry proxy | `agents/harnesses/mcp_telemetry_proxy.py` | its trace, requests under way | `FinderEvidence` |
| cache isolation, tool usage | `agents/harnesses/cache_isolation.py`, `run_task.py` | the agent's log | `AgentTelemetry` (partly) |
| verification library, test runner | `lib/eb_verify/*`, `scripts/sandbox/test_runner.sh` | none across calls | `Grading` (partly) |
| trial receipt log | `lib/eb_study/receipt.py` | `receipts.jsonl` under a lock | `StudyCapsule`, and atomically in `HeadlineDispatch` and `RunTask` |
| study specification and capsule | `lib/eb_study/{spec,capsule,...}.py` | none; reads receipts | `StudyCapsule` (partly) |
| attempt policy, corpus reports | `scripts/lib/attempt_policy.py`, `analyze_scores.py`, `cost_tracker.py` | none; read the results tree | `AttemptReports`, `TraceBilling` |
| headline lineage | `headline_protocol*.py`, `headline_study_preflight.py`, `scripts/studies/build_headline_*` | protocols, capsule files, receipts of a succession of studies | `StudyLineage` |
| pilot preflights, canaries | `study_pilot_preflight.py`, `generated_harness_parity_preflight.py`, `code_finder_interface_*`, `cli_compliance_canary_dispatch.py` | capsule files, output roots, the canary's log | `StudyPilots` (partly) |
| study analysis and publication | `scripts/analysis/study_report.py`, `study_analysis_contract.py`, `study_inference.py` | spec, manifest, plan, receipts | `StudyPublication`, `StudyInference` |
| mirrors and repository pins | `create_sg_mirrors.py`, `verify_sg_indexing.py`, `audit_mirror_contamination.py` | repositories at GitHub, the index report, a run's trace | `Mirrors`, `PinAudit` (partly) |
| account and capacity tools | `scripts/infra/account_health.py`, `capacity.py`, `fetch_usage.py` | one state file without a lock, the usage cache | `AccountHealth`, `UsageCapacity` (partly) |
| retrieval metrics | `lib/eb_metrics/*` | none | `Retrieval` (partly) |
| shared loaders, event replay, pilot and sweep drivers, verifier plug-ins, analysis and reports, authoring, mining, triage and validation, data | see `components` in `PROJECT.json` | none across calls | not modelled: pure functions, thin loops, batch statistics or I/O |

### How the components interact, and what is hard

**Dispatcher.** An operator reads the receipts, writes an authorization that
names the pending batch, commits it and has it on `origin/main`; then somebody
runs `--execute`. The dispatcher takes a non-blocking exclusive `flock` on the
plan, in the capacity-gated studies (v4 and later) one on each provider account
in sorted order, re-reads receipts and authorization, runs the preflight, marks
the capacity re-check as *started* with an exclusively created file, probes, and
then starts one `run_task` child per slot, waiting for each and re-reading the
log after it. What makes it hard:

- the child is not killed with the dispatcher; it shares the account locks'
  open file descriptions (gated) or takes the locks itself (v3), and it appends
  to the same log as a later dispatcher's children;
- dispatcher and child can be killed at any point, also half way through a line;
- what was read from the log (`n`, `spend`, `target`) is a snapshot used over
  hours; the authorization was drawn from an even earlier one;
- other programs use the same accounts and take the same locks.

It is correct when the log is a prefix of the frozen execution order with
nothing behind a failure, no account is ever used by two agents, one approval
pays for one attempt, the log never describes artifacts another run overwrote,
and no lock is held for good.

**One task run.** `run_task` prepares a container through about seventeen stages
that may each refuse the run, runs the agent, passes its telemetry through
routes that may flag it, checks the seal over the grading files, runs the
verifiers and the judge, saves `results.json`, appends the study receipt, and
cleans up; an exception handler can take over at any point and saves again. It
is correct when a record or a receipt that is not flagged stands for a run in
which everything the arm demands was seen to hold, when the verdict is the same
however often it is saved, and when neither container nor copied login survives.
Inside the container, root, the agent and the scorer share one tree while the
agent's leftover processes may still run; around it, a proxy counts the calls
that an arm must have made, and the log is read for what the run has cost.

**Sweep, chain, grading.** The benchmark runner starts children in a pool, adds
up what they cost, and reads result files that earlier sweeps, or children of a
killed one, may have left. The chain runner commits session after session on a
workspace that it may find already used. Two programs grade, with guards and a
judge between a verifier's words and the number that is published.

**Studies.** Writers append to one log under a lock and may die in the middle of
a line; readers admit attempts from it, one of them without the lock. Protocols
succeed one another: each must leave out what an earlier one has shown to an
agent, while its capsule is written file by file and the sources go on changing.
A report and its promotion rest on hashes that are taken at different times.

**Promotion.** Nine steps stage a run's artifacts under a hidden name, seal,
freeze and rename them, check what was renamed and enter the run in the
registry; a failing step rolls back the completed ones in reverse order. No lock
is taken, every name can change hands between two system calls, the raw run may
be rewritten meanwhile and any process may die. It is correct when what becomes
official is complete and of one version, all at once, and a reported publication
is never taken back.

The dispatcher starts `run_task` and sees nothing of it but its exit status and
the log; `HeadlineDispatch` therefore contains the part of `run_task` that
touches locks, log and output directory as the child's actions, and `RunTask`
models the inside of one run in full with the log reduced to the trial's own
receipts. The container, the proxy, the grading and the reading of the log are
what `RunTask` takes as choices of `agent` and `scoring`; each has a module that
asks when the choice is justified. Sweeps and reports meet the runs only in the
files these leave.

## 2. Modules

| module | what it is |
|---|---|
| `StudyLedger`, `HeadlineDispatch` | abstract: what a study's log promises; the dispatcher, its children, the operator, other account users, kills |
| `Publication`, `Promotion` | abstract: what promoting a run promises; the nine steps, rollback, failures, kills |
| `RunTask` | one run of `run_task` |
| `TaskContainer`, `FinderEvidence`, `AgentTelemetry`, `Grading` | the parts of a run that `RunTask` takes as choices |
| `BenchmarkSweep`, `SessionChain` | what starts runs besides the dispatcher |
| `StudyCapsule`, `StudyLineage`, `StudyPilots`, `StudyPublication`, `StudyInference` | a study from its receipts to its publication, and the succession of studies |
| `AttemptReports`, `TraceBilling` | the two reports over the results tree, and what a run is billed |
| `Mirrors`, `PinAudit`, `AccountHealth`, `UsageCapacity`, `Retrieval` | tools the runs depend on |
| `Toolchain` | all components that stand alone, side by side, and what is said of several of them |
| `MCHeadlineDispatch`, `MCRunTask`, `MCPromotion`, `MCResults`, `MCReports`, `MCToolchain` | instances for TLC; `MCResults` has sweeps and promotions, `MCToolchain` is for `Toolchain` |
| `DispatchProofs` | TLAPS proofs about what starts runs: `HeadlineDispatch`, `BenchmarkSweep` |
| `RunTaskProofs` | about one run: `RunTask` |
| `HarnessProofs` | about what surrounds a run: `TaskContainer`, `FinderEvidence`, `Grading`, `SessionChain`, `PinAudit`, `Mirrors`, `AccountHealth`, `UsageCapacity` |
| `ReportProofs` | about logs, bills and reports: `StudyCapsule`, `AttemptReports`, `TraceBilling`, `AgentTelemetry` |
| `PublicationProofs` | about what becomes public: `StudyLineage`, `StudyPilots`, `StudyPublication`, `Promotion` |
| `AnalysisProofs` | about algorithms: `StudyInference`, `Retrieval` |
| `ToolchainProofs` | the theorems of the last four, for the components together |
| `SumTheorems` | lemmas about finite sets, sums and folds that the proofs share |

### HeadlineDispatch

`log`, `total`, `torn` are `receipts.jsonl` (lines, the cost they add up to, and
whether it ends in half a line); `auths` the authorization artifacts with their
`origin/main` and capacity-recheck status; `draft` the authorizer between its
read and its write; `out` who last wrote a slot's output directory;
`dispatchLock` and `accLock` the owners of the descriptors. Per invocation, `pc`
is the place in `_dispatch_headline_study`, `plan`, `held`, `n`, `spend`,
`target` its locals; `kid` and `ok` its child. `runBy` and `charged` are history:
who started an agent under an authorization, and what the provider charged,
recorded or not.

Actions are one per step of the code: `ExclusiveDispatchLock`,
`LoadDispatchPlan`, `LockProviderAccount` (one `flock` each),
`ReadExistingReceipts`, `RunPreflight`, `StartCapacityRecheck`,
`CapacityAccepted`/`CapacityRefused`, `StartRunTask`, `AcceptRun`/`RefuseRun`;
every one has its refusal, which leaves the `with` blocks (`Leave`). The child
validates its configuration (and refuses a torn log), locks accounts if it did
not inherit them, begins, and ends with or without a receipt. `Crash` and
`KidKilled` are SIGKILLs; a Ctrl-C is `KidKilled` followed by `RefuseRun`, as
`subprocess.run` kills the child and the exception leaves the `with` blocks.

Abstractions. A receipt keeps slot, status, cost, whether it is within every
budget, and its author. Hashes that tie a plan to a batch are the comparison of
start, end and ceiling. The preflight is a choice, except for the one check
that reads modelled state (an empty output root for a first batch). The
capacity probe's verdict is a choice; the artifact's age is `fresh`, which only
expires. `Gated` says which kind of protocol a study follows.

`LedgerSpec` is the refinement: `log` and `total` behave like `StudyLedger`,
which records slots in order, nothing behind a failure, and only with a full
slot's cap left under the study ceiling.

### RunTask and the parts of a run

`pc` walks through `Stages` (the refusing stages in the order of the code), then
telemetry, routes, seal, reap, verifiers, judge, conclude, save, emit, cleanup
and release. `result` is the `TaskRunResult` as far as anything is decided by
it; `disk` is `results.json`, possibly torn; `receipts` the trial's own. `agent`
and `scoring` hold what the outside did, chosen once. Each route
(`RoutedAgentExit`, `RoutedCacheIsolation`, `RoutedConfigError`, `RoutedZeroMCP`,
`RoutedCodeFinder`, `RoutedZeroSgx`, `RoutedIntegrityViolation`) is an operator
of the name of the thing it judges, composed in the code's order. `Raise` is an
exception at any point that is not `Contained`; the handler saves again, which
is how one run is saved twice. `EffectiveStatus` is what the record says when
the raw status was left open. The phases of early refusals are one
(`"refused"`), because only the class and the status are read later. The agent
is one step. The rare failures are named in `Faults` so that runs can say which
they consider.

- `TaskContainer` has an owner, a group and bits for each tree under
  `/workspace`; agent processes fork, outlive `docker exec`, and read or write
  what the modes let them, until the reaper has passed.
- `FinderEvidence` serves concurrent POSTs in threads, the trace being a bag of
  what was appended; `run_task` then judges it and compares it with the log.
- `AgentTelemetry` has a provider that bills steps, three forms of log that are
  cut off or leave fields out, and the two readers of it (usage, cache proof).
- `Grading` has both grading programs, verifiers that do anything a process can
  do, the guard, the host's cap by a judge, and the weighted sum, in halves.

### Runners, studies, reports, tools

- `BenchmarkSweep`: a sweep's pairs of task and mode, each child reduced to the
  files it writes, the stale-result check over the candidate paths, runs that are
  given up unread, a pool that breaks, the budget, the summary and the exit status; sweeps follow one another over one tree.
- `SessionChain`: branches, heads and commits per repository and session,
  milestones and checkpoints with where they looked, the score file.
- `StudyCapsule`: `append_receipt` step by step under its lock, torn and unended
  lines, what a full disk leaves for closing the file to write, both readers. `StudyLineage`: protocols, five capsule files, builders,
  preflight, slots and the terminal record of a succession of studies.
  `StudyPilots`: a pilot's capsule locked file by file beside edits and commits,
  its preflight, two dispatchers of the canary. `StudyPublication`: what every
  trial was given, against what spec, manifest and plan hash, and the promotion
  of one snapshot. `StudyInference`: the algorithms of the analysis as operators.
- `AttemptReports`: the tree that runs and killed runs leave, and which attempt
  of a cell each report takes. `TraceBilling`: requests, errors and vendor totals
  cut off anywhere.
- `Mirrors`: GitHub's calls, the rate limit, kills, the report of an instance
  that changes, by a list of all mirrors, of some or of none. `PinAudit`: what an agent gets, what its trace tells, what the
  audit concludes. `AccountHealth`: load, change, replace through one temporary
  file, by commands that overlap or die. `UsageCapacity` and `Retrieval`:
  readings into slots, commands into files read, files into means.

### Promotion

A directory is an inode, named by the promotion whose `mkdir` made it, so that
"whatever is at this name now" and "the tree I hold by descriptor" are different
things, as in `publication_fs.py`. Its contents are the staged inputs (none,
part, all), report, progress file, leftover temporary file, seal and mode bits.
`staging`, `final` and `gone` are the names. Each file-system operation that
others can get between is an action. A capsule's digests are the `version` of
the raw run they were computed from.

`PublicationSpec` is the refinement: the official directory appears complete and
at once, does not change while it is there, is only taken back while no
promotion of the run has reported success, and a promotion that reports failure
leaves nothing of its own.


## 3. Runs

| run | instance | what it shows |
|---|---|---|
| `dispatch_protocols` | v3 and v4 protocols: 2 invocations, 2 accounts, 4 slots in tasks of 2 arms, batch 2, cap 2, ceiling 8, 1 authorization; fair | log in order, accounts owned by whoever spends, refinement of `StudyLedger`, both kinds of lock come back |
| `dispatch_retry` | v4: 3 invocations (symmetric), 1 account, 3 slots, batch 2, ceiling 6, 2 authorizations | an approval starts agents for one invocation only, what is charged under it is bounded, no recorded output is overwritten, nothing runs behind a failure |
| `dispatch_replay` | v3: 2 invocations (symmetric), 2 accounts, 4 slots, 2 authorizations; *violation* | one authorization pays twice (finding 1) |
| `promotion_lost_entry` | 2 promotions of 2 runs; *violation* | a registry entry is lost (finding 2) |
| `promotion_thawed` | 2 promotions of one run at once; *violation* | a reported publication is thawed (finding 3) |
| `task_record` | claude, all seven modes, with and without study and account | what record and receipt say, whatever fails on the way |
| `task_faulty` | codex in a study, `baseline` and `mcp_assisted`, all rare faults; fair | login and container go and the verdict stands when staging, clean-up, removal and fsync fail too |
| `task_login_retained` | codex, partial staging; *violation* | a login file survives in a kept container (finding 4) |
| `results` | two sweeps over a single task and a chain, in sequence over one and two modes, in a pool, dry, resumed after a kill (price 2, budget 2); or 3 promotions of one run one after the other, the run rewritten once; fair | what a sweep reports is its own, a clean exit is complete, also of a pool that breaks or of children given up unread, a budget is overrun by less than one run; what is official is sealed, refinement of `Publication`; both settle |
| `toolchain` | the eighteen components that share no state, each from its own initial states; their bounds are in the run's `about` | one property or more for each, see section 2 |
| `harness_death` | two checkpoints, either grader; *violation* | a dead harness is scored as a zero of the agent (finding 5) |
| `label_leak` | two runs over older trees; *violation* | a labelled repetition is billed to the ordinary arm (finding 6) |

**Why the bounds are enough.** The dispatcher's rules compare a log with a
snapshot of it. Two invocations give a dead one whose child lives on and one
that overtakes it; the third in `dispatch_retry` allows finish, die, retry.
Four slots in two task groups, batch 2, have a slot inside, at the end of and
behind a batch; three slots end in a batch that is not full. A cap of 2 with
charges 1 and 3 has a run inside and one over its cap, and `StudyCeiling` is the
cap times the slots, as the policy requires of a protocol. Two authorizations
give an old and a new one over the same prefix. Two accounts make a partly
locked set possible. Which kind of protocol a study follows is chosen by
`MCHeadlineDispatch` at the start of a behaviour.
`task_record` has an exhaustive choice of agent behaviour for every mode; the
harness decides which stages apply and where a login lies, so it is a second run
rather than a factor. Two sweeps are a killed one and the one that resumes over
its files. Promotions need three to have one roll back over what a second left
while a third publishes. Elsewhere the pattern is the same: two of whatever
races (emitters, threads, agent processes, commands on one state file), two of
whatever succeeds (studies, chain runs, mirrors created, attempts of a slot),
two repositories that a forced arm has to ask about, each in a post of its own,
two writers of receipts, of which one has runs of the first attempt and the
other of either (`RunsOf`), and one line that is written late (`MaxLate`),
and one edit, kill or fault more than the code looks at twice. The proofs of
section 4 remove these bounds for most properties.

`Toolchain` runs its components side by side, not in product: a behaviour
chooses one of them and the others stay where they start. Nothing is lost, as
they share no state; it is one run because each alone is small.

Deadlock checking is off wherever a process that has ended has nothing left to
do, which is everywhere but in the dispatcher. There it shows nothing, as other
consumers of the accounts can always move; that nobody waits for good is the
business of `LocksReturned`.

**Symmetry** is used in `dispatch_retry` and `dispatch_replay`, both without
liveness, over invocations, which the specification treats alike.

**Fairness.** `HeadlineDispatch` has weak fairness of each dispatcher and of
each child: every external call they make has a timeout and all lock requests
are non-blocking, so a live process keeps taking steps. Operator, other
consumers and kills have none. `RunTask!FairSpec` is weak fairness of the one
process: each command it waits for has a timeout. `MCResults` has weak fairness
of the sweep's dispatching loop, of giving a child up (`subprocess.run` has a
`timeout`, whatever else may go wrong with it) and of each promotion's own steps, which wait for nothing. No
fairness is used for safety, and the proofs use none.

Each property of a passing run is paired, in `PROJECT.json`, with a mutant: a
plausible bug in a mapped definition that makes TLC refute it. The mutated forms
stand before the definition they would replace, marked `Mutant`.

## 4. Proofs

Each theorem holds for every value of the constants: any number of invocations,
accounts, slots, promotions, runs, processes, emitters, studies, attempts. Where
a property has a run, the run shows it on a small instance and exercises the
conditions the theorem could hold vacuously under.

| module | theorem | statement | beyond the constants' own assumption |
|---|---|---|---|
| `DispatchProofs` | `TypeCorrect` | `Spec => []TypeOK` | |
| | `AccountsOwned` | `Spec => []AccountsOwnedWhileRunning` | |
| | `LogIsExecutionPrefix` | `Spec => []ExecutionPrefix` | |
| | `ImplementsStudyLedger` | `Spec => LedgerSpec` | |
| | `OutputIsTheReceipts` | `Spec => []ReceiptDescribesOutput` | `Gated` |
| | `FailsClosed` | `Spec => NoAgentBehindFailure` | `Gated` |
| | `ApprovalUsedOnce` | `Spec => []AuthorizationSingleUse` | `Gated` |
| | `ReserveIsKept` | `Spec => []ChargedWithinApproval` | `Gated` |
| | `ResultsAreOwn` | `SweepSpec => []ReportedIsOwn` | |
| | `CleanExitsAreComplete` | `[]CleanExitIsComplete` | |
| | `BudgetIsKept` | `[]BudgetBoundsBilled` | |
| `RunTaskProofs` | `TypeCorrect` | `Spec => []TypeOK` | |
| | `UnflaggedMeansMeasured` | `Spec => []UnflaggedIsMeasured` | |
| | `TamperingIsRecorded` | `Spec => []TamperedStaysInvalid` | |
| | `ReceiptIsFinal` | `Spec => []ReceiptFreezesRecord` | no late `fsync` error |
| | `LoginIsGone` | `Spec => []UsedLoginGone` | |
| | `SavedVerdictStands` | `Spec => VerdictStands` | |
| | `CausesAreKept` | `Spec => RoutesKeepCause` | |
| `ReportProofs` | `CapsuleTypes`, `ReportTypes` | types | |
| | `NoTrialTwice` | `[]TrialRecordedOnce` | |
| | `EarlierReportsStand` | `ReportsStand` | |
| | `ReportsJoin` | `[]ReportsAgree` | |
| | `RerunsDoNotResample` | `RerunsStand` | |
| | `RunsAreBilledOnce` | `BillingSpec => []BilledOnce` | |
| | `TelemetryIsTyped` | types | |
| | `UsageWasBilled` | `TelemetrySpec => []UsageIsBilled` | |
| | `IsolationIsProved` | `TelemetrySpec => []CacheProofHolds` | |
| `PublicationProofs` | `OfficialTreesAreSealed` | `Spec => []OfficialIsSealed` | `Orderly` |
| | `ImplementsPublication` | `Spec => PublicationSpec` | `Orderly` |
| | `ReportedSuccessStands` | `Spec => []SuccessStands` | |
| | `LineageIsTyped`, `PublicationIsTyped`, `PilotIsTyped`, `PromotionIsTyped` | types | |
| | `NoTaskShownTwice` | `[]ConfirmatoryIsUnexposed` | |
| | `OneTreatmentIsPublished` | `[]PublishedIsOneTreatment` | |
| | `SpendsAreWhole` | `[]SpendIsWhole` | |
| | `PilotVerdictsAreSo` | `[]PilotVerdictsHold` | |
| `HarnessProofs` | `ContainerTypes`, `EvidenceIsTyped`, `GradingIsTyped`, `ChainIsTyped`, `AuditIsTyped`, `MirrorsAreTyped`, `HealthIsTyped` | types | |
| | `ArmIsAllAgentSees` | `[]AgentSeesItsArm` | |
| | `SealIsFoundIntact` | a seal that was set is found intact | |
| | `WhatIsGradedStands` | `GradedStands` | |
| | `NumbersAreMeasured` | `GradingSpec => []ScoreIsMeasured` | |
| | `ScoreIsEarned` | `[]PublishedScoreIsEarned` | |
| | `CleanMeansPinned` | `[]CleanAuditIsSound` | |
| | `MirrorClaimsAreSo` | `[]MirrorClaimsHold` | |
| | `HoldsAndSlotsAreKept` | `[]HoldsAndSlotsStand` | |
| | `CallsAreServed` | `FinderSpec => []CountedCallsAreServed` | |
| | `PlannedSlotsAreSafe` | `CapacitySpec => []SlotsAreSafe` | |
| `AnalysisProofs` | `OrderedIntervalsNest` | percentile intervals of ordered means nest | |
| `ToolchainProofs` | `ToolchainIsTyped` | `ToolchainSpec => []ToolchainTypeOK` | |
| | `GradesAndReportsStand` | `ToolchainSpec => ReportedStands` | |
| | `BillsAreWhole` | `ToolchainSpec => []BillingHolds` | |
| | `AnalysisIsExact` | `ToolchainSpec => []AlgorithmsAreExact` | |

Three of these assume something about the constants that is more than their
shape, each because the property is false without it:

- `Gated`. Only the capacity-gated protocols consume an approval; for the others
  `dispatch_replay` refutes `AuthorizationSingleUse`.
- No late `fsync` error in `ReceiptIsFinal`. With it, a receipt is in the log,
  the handler runs, and `results.json` is saved again behind its hash.
- `Orderly`: promotions of *one* run do not overlap and rollbacks do not raise.
  With overlaps, a foreign tree can be at the official name between a rename and
  the check that rejects it. `ReportedSuccessStands` needs none of this.

The `toolchain` run checks some things of several components as one property.
`ToolchainProofs` puts these together: beside the others a component takes its own
steps or rests, so that `ToolchainSpec` implies the specification of each
(`ChainAlone` and its like), and its theorems hold there. `ReportedStands` is
`WhatIsGradedStands`, `EarlierReportsStand` and `RerunsDoNotResample`;
`BillingHolds` is `RunsAreBilledOnce`, `UsageWasBilled` and `SpendsAreWhole`;
`ToolchainTypeOK` is every theorem above that says types; `AlgorithmsAreExact` is
what the lemmas of `AnalysisProofs` say of every input, and `PlannedSlotsAreSafe`.

### The dispatcher

- **Types.** `TypeOK` is not inductive: `auths[plan[d]]` must exist where it is
  read, and `n[d] + 1` must be a slot where a child runs it. `TypeInv` adds
  `Control`: whoever is past `LoadDispatchPlan` has named an existing
  authorization, a child has a slot left to run, and a child only exists while
  its dispatcher waits for it or has left.
- **Ownership.** `Owned` says that the accounts `1 .. held[d]` belong to `d`, and
  that a running child has `held[d] = NAccounts`. Locks are taken one at a time
  and only when free, so no step gives `d`'s account to another. Leaving the
  `with` blocks resets `held`, and only a dispatcher without a live child does
  so; a crash keeps accounts and `held` exactly while a child is alive.
- **Order.** `Order` conjoins `ExecutionPrefix` with what makes a snapshot
  usable. A snapshot may be old, because an orphaned child may have appended
  since; but one that still has the length of the log knows the whole spend and
  that every trial completed, and one that is a single receipt short is short by
  that receipt's cost (`Faithful`). The third conjunct is the reserve: behind
  every child there is a spend that left one cap under the study ceiling. An
  append for slot `n[d] + 1` that is not refused as a duplicate meets a log of
  length `n[d]`, hence a faithful snapshot (`FinishRunRecords`). All steps but
  four are `Quiet`: they change neither log nor snapshots, and keep `Order` at once.
- **Refinement.** A step that is not `FinishRun` leaves `log` and `total` alone;
  `FinishRun` is `StudyLedger!Record` by `FinishRunRecords`, whose hypotheses are
  `TypeInv` and `Order`.
- **Gated.** `GatedInv` adds `Exclusive`: under the gate the account locks are
  one lock around reading the receipts, the runs and the appends, because a
  child keeps its dispatcher's descriptors open. Hence a live invocation's
  snapshot is exact, and the directory of every recorded slot is its recorder's.
  `ChargedInv` adds `OneSpends` (a re-check that has started, started once) and
  `Accounted`, which splits what was charged under an approval into what the log
  has of it, the one unrecorded charge, and the run under way.

### One run

`RunInv` has `TypeInv`, `Course` and `Recorded`. `Course` says, for each group
of points of the program, what has been decided there: no cause before the
agent, a cause or a clean agent after the routes, the seal asked before the
verifiers, and so on; `Recorded` says what that makes of a saved record and an
appended receipt. `Logins` follows the copied file through staging, removal and
the container's removal under every fault. `SavedVerdictStands` and
`CausesAreKept` are action properties from the same invariant.

### The container

`ContainerInv`: processes are alive under the identity they were given
(`Alive`); what is staged and sealed stands (`Staged`, `Fastened`); the arm's
source is where its mode wants it (`SourceIs`); and behind the reaper the tree
is closed and nobody is left to write (`Closed`).

### Sums

`Billed`, a weighted score and the other sums of the models are
`MapThenSumSet`, a fold over a set. `SumTheorems` proves what is needed of it
for finite sets of any size. A fold is the last entry of a table of partial sums,
indexed by the subsets that are left over (`TableExists`, `SumIsTabled`); two
such tables agree (`TablesAgree`), and in one of them any member may be counted
first (`AnyFirst`). Each of these is proved without an induction rule: of the
subsets that refute it take one with the fewest members (`LeastOf`), take one
member away, and what is left refutes it as well. What the components cite is that a
sum is a member's term and the rest (`SumWithout`, `MemberOfSum`), grows with its
terms (`SumGrows`), depends on its terms alone (`SameSum`, `SumRenamed`), and can
be split by members, by terms and by fibres (`SumSplit`, `SumTogether`,
`SumOfFibres`).

A fold over a sequence, `FoldLeft`, is such a table as well: it takes the greatest
index away first. `FoldTableExists` and `FoldGoes` turn it into what one wants to
reason with, a function `h` of the number of members read, in which `h[k]` is made
from `h[k - 1]` and the `k`-th member (`StepsExist`). What is said of such steps is
proved from the first step that refutes it.

### Grading

`GradingInv`: there is a verdict for exactly the checkpoints that are done and
nothing ahead of them (`NothingAhead`, `PlaceTells`), each is what its verifier
printed or a zero, lowered by the judge at most (`ShellVerdicts`,
`RunnerVerdicts`), and a failure that must be noticed shows in one of them. When
totals are made, the reported sum is compared with the earned one member by
member (`MarkAgainstEarned`, by `SameSum` and `SumGrows`).

### Finder evidence

Threads of the proxy append to the trace and to what was served in any order, so
`EvidenceInv` counts. For every class of calls, by tool and repository, the
requests in the trace and those that threads have captured and not yet written
are as many as the calls that were served (`EveryCallIsTraced`); telemetry in the
trace, and what threads have yet to write of it, is at most what was served with
it (`TelemetryIsServed`). Both are sums over bags and over threads; a step of a
thread moves one term of one of them (`ThreadMoves`, `GoesFurther`). The verdict
is read when no thread is left, and what it says is said of the counts of that
moment (`Judged`, from `ContractTells` and `TraceBounds`); a forced arm's single
call for each repository comes out of the counts by fibres.

### Bills

`BillingInv` knows for each line of the trace the request it is of: an `owner`
that exists, though nothing in the code keeps it. Lines of one request have one
key, none tells more than its output, and one tells all of it. What
`ScanTrace` bills by keys is then a sum over requests, each at most once
(`SumRenamed`).

`TelemetryInv` knows as much of a harness's log: there are marks that say up to
which billed step each record accounts, so that what was read of the log compares
with a prefix of what was billed (`UsageTells`). It adds what the controls keep
out (`ControlsHold`): a cache proof that is called valid means that each logged
step was seen, and that none had read another run's cache.

### Slots

`SlotsAreSafe` needs no invariant: it is true of any readings. A profile that is
used up leaves its account nothing (`RemainingIsLeast`, from the greatest of
finitely many percentages), an account with nothing has a score of zero, and a
share rounded to a whole is at most what it is a share of (`SharesAreBounded`).

### Algorithms

`AnalysisIsExact` needs no invariant but that an input stays what it is. Holm's
running maximum is at its greatest at some step `m`; all p-values that are not
before `m` are as many as that step multiplies by, so that their intersection
asks for the same (`NotBeforeAre`), and no intersection asks for more than the
step of its first p-value (`IntersectionIs`, `FirstOfSome`): hence
`HolmIsClosed`. Words are accepted in whole rounds (`RoundsAreWhole`), and
exchanging remainders within a round is a bijection (`WordsPerIndex`). The two
sums of `StrataKeep` have the same terms. Rounding a share down keeps the order of
shares (`SharesCompare`), and a mean over the same tasks keeps it by `SumGrows`.

- *Intervals.* `InOrder` says what sorting makes of replicate means: in place `i`
  is the mean that fewer than `i` are below and at least `i` are not above. There
  is one for every place, by the least number whose means not above it are as
  many, hence the result is ordered, from the least mean to the greatest
  (`InOrderIs`). Interpolation between ordered means never goes backwards
  (`PercentilesGrow`), so that intervals nest (`OrderedIntervalsNest`).
- *Rankings.* `FirstSeen` is gone step by step: of every key the first is there,
  and nothing twice (`FirstSeenIs`). Aligning leaves no required path out that was
  read (`RequiredIsFound`), because no required path is a suffix of another. Each
  term of the precision sum is at most one, and all are one exactly if the hits
  come first (`PrecisionIs`).
- *Commands.* The tokens of a line become words: of the redirection at its end the
  target is left and of a here-document nothing (`LastWords`). Behind assignments,
  keywords and wrappers is the program (`StripIs`, `ProgramIsFound`). Its units are
  read one after another, each leaving the reader as it should be found by the
  next: which files are listed, whether the pattern was given, whether options have
  ended (`UnitIsRead`, `ArgsAreRead`). `LineReads` and `CommandsRead` put it together.

### Sweeps

`SweepInv`: what a child that is alive was told and what its places held before
it (`RunningTells`: a file that has changed since is its own, a chain's, or an
orphan's), what is gathered and what is in the results (`ResultsTell`), where
every file came from (`FilesTell`), and which rows there are already (`SoFar`:
the rows of the modes that are over are complete). `BudgetInv` then counts: in
sequence there is one child at a time, the sum of what all others recorded is at
most `cumulative`, and that was below the budget when the child was started; it
says nothing any more once a child was `givenUp` unread or left behind. Its
record changes one term of the sum; a record it replaces is of an earlier sweep
or its own task's, which only lowers the sum.

### Promotions

With `Orderly`, `PromotionInv` has: at most one live promotion of a run
(`Alone`), names that lead to trees of the run (`Names`), what each step knows
of its tree (`Place`), what is official (`Publications`) and what is registered
(`Entries`). The refinement maps each step to `Publish`, `Withdraw`, an outcome
or a stutter.

Without it almost nothing of that is left: names change hands between any two
calls. `OverlapInv` keeps four facts. Names are apart (a directory is not at two
names). A tree at the official name was renamed there by its own promotion,
which knows it and is the only one that does (`OnePublishes`): a rename needs a
free name, and a rollback that takes the official name away does so after
comparing identities, so only who renamed last can free it. What is confirmed is
sealed over the version it validated (`ConfirmedIsSealed`): the thaw of finding 3
changes mode bits, and nothing writes through them. Each step is then one of
`Stays`, `Makes`, `Publishes`, `Withdraws`.

### Logs, reports and studies

- `LogInv`: the lock's owner is the only emitter past it but for those that close
  their file behind it, what it has checked is `Fresh` until it writes, and at
  most one emitter has a line half in the log that it may still complete
  (`Completing`, `Sole`). Hence one receipt per trial whatever is torn or killed,
  but for trials of which a line came late.
  A report is `Grounded` in a prefix of the log, and under `first_valid_attempt`
  the refusal of out-of-order appends keeps the earlier trial.
- `ReportInv`: the tree is finite and was written before the next run's clock
  (`TreeIs`), the cost report is of the tree as it is, and each published score
  was first of everything the host dated (`ScoresWereFirst`). Lemmas:
  `attempt_sort_key` is a strict total order (`SortKeyOrders`), so every cell has
  exactly one earliest attempt (`EarliestIs`, from `FirstOf`: a finite order has
  a first, by the least number of predecessors); what is billed is what is scored
  and has a trace (`BilledAreScored`); a run dates what it writes or keeps what
  was there (`Written`).
- `LineageInv`: a capsule that is locked has its five files of one build
  (`FilesAreWhole`), a successor excludes what earlier ones dispatched
  (`Superseded`, `LastIsDispatched`), and exposures only accumulate.
- `PublicationInv`: the snapshot a promotion took still hashes to what the
  manifest names (`SnapshotHolds`). `PilotInv` is the same for preflights,
  together with who may write into a canary's output root.
- `ChainInv` ties the score file to the invocation that is running or ran last.
- `AuditInv` (`TraceTellsAll`): a trusted trace names every mirror that was read.
- `MirrorsInv`, `HealthInv`: what was reported against what is there, and the
  state in each command's memory against the state on disk.

### Only model-checked

- Liveness (`LocksReturned`, `ContainerReleased`, `ResultsSettle`): the proof
  system has no rules for fairness here.
- Findings: a property that a run refutes is not a theorem.

No proof module reaches a `RECURSIVE` operator, `Bitwise` or `UndirectedGraphs`.

## 5. Findings

1. **An ungated authorization can be replayed** (`dispatch_replay`).
   `scripts/studies/authorize_headline_v3_batch.py:2` speaks of a
   "non-replayable" artifact; only the gated studies consume it. When the first
   slot of a batch leaves no receipt, the prefix, batch and ceiling all still
   match and a second `--execute` spends under the same approval.
2. **Registry entries are lost** (`promotion_lost_entry`). "Append ...
   atomically" replaces the file atomically, but reads and rewrites it without a
   lock.
3. **A reported publication is thawed** (`promotion_thawed`). Both staging steps
   share one rollback that works by name and then by descriptor; its second
   round can hold another promotion's tree when that becomes official. What is
   in it stays as it was (`ReportedSuccessStands`); its mode bits do not.
4. **A login file is retained** (`task_login_retained`). If securing the copied
   file fails after the copy, nothing remembers that it was staged, and with
   `--keep-container` it stays.
5. **A dead harness is scored** (`harness_death`). `test_runner.sh:384` says that
   a malformed answer can never launder a harness death into a zero; the branch
   at line 407, for an object without a score, does.
6. **A label is read with the score** (`label_leak`). `cost_tracker.py:753` says
   that the path speaks only for an attempt without a readable `results.json`; an
   unscored one is filed by its path too, and a labelled run's `rep1` becomes
   part of the ordinary arm.

Noted while modelling, without a run:

- *Promotion.* A kill between rename and registry leaves a publication no entry
  names, and later promotions of the run refuse
  (`run_promotion_orchestrator.py:404`); so does the partial staging tree of a
  failed `stage_metrics`, which no rollback visits. After a replacement of the
  registry that raises although it took effect, the rollback withdraws a run
  that is registered. Nothing reads `_progress.json`.
- *Dispatcher.* A study whose log stops between the arms of a task cannot be
  resumed (`headline_study_dispatch.py:619`). Spec and plan are loaded before the
  preflight looks at them (592). The per-slot reserve check in the loop (692) can
  never refuse after runs that were accepted: the same amount was reserved.
- *`run_task`.* The exception handler labels every `TimeoutExpired` as
  `infra_timeout`, whatever the run had failed for (`RoutesKeepCause` allows
  exactly this). A save that fails after success leaves phase `error` with an
  open status and `success` true: still unflagged, and still of a measured run.
  Provenance is hashed before the agent runs, while verifier and expected
  solution are read after it. A kill during `docker exec` leaves the agent
  running (2113).
- *Receipts.* When `append_receipt`'s flush fails, the rest of the line stays in
  the buffer of the file, and `with handle` writes it on closing, after
  `LOCK_UN` (`receipt.py:314`-`318`). If there is room again by then, another
  writer may have put the same trial on record in between: two receipts of one
  trial, which the docstring at line 293 excludes and every reader refuses from
  then on. `TrialRecordedOnce` excepts the trials that got a line in this way.
- *Sweeps.* `--skip-completed` looks at the one mode of `--mode`, with the label
  that is in effect, and drops what is completed there from every mode of
  `--modes`; "multi-mode handled per-mode below" (`run_benchmark.py:900`) has
  nothing below it. The model does the same. It leaves out command lines whose
  tasks share a task id.
- *Reports.* A legacy `results.json` is re-dated by a new trace, and an old
  trace may lie beside a new result. `generate_report.py` joins report files that
  need not be of one tree. The hash of a report is taken after it was read.
- *Preflights.* The critical-path check has a gap between what it lists and what
  the runner reads.
- *Mirrors.* Two pins can give one mirror name (`create_sg_mirrors.py:234`);
  the model takes such pins for one mirror.
- *Accounts.* `check_infra.py:80` ignores a failed write after a token was
  rotated. An assignment begun without `--pid` is dropped at the next load, and
  overlapping commands lose entries (`HoldsAndSlotsStand` says what is left).
  `capacity.py`'s `distribute_slots` can exceed `--slots`, and a reading's age is
  not looked at.
- *Retrieval.* Two paths with one normal form make AP and nDCG exceed 1;
  normalisation does not see repositories; a pattern given by a flag behind the
  operand is not counted.

## 6. Not modelled, and why

Inside the modelled components: the wording and hashes of artifacts, the bodies
of validators (choices), a container that a timed-out `docker create` may have
made without a name, and the workspace that a failed `close_workspace` leaves
closed. `ContainerReleased` therefore excuses a killed process and one whose
docker commands failed. Token kinds and prices are one unit per block. Outside:
see the inventory; each component has its reason in `PROJECT.json`. They are pure
functions over files, batch statistics, thin loops around what is modelled, or
authoring and mining tools whose output a human reviews.

## 7. Plan

Every invariant of a passing run is a theorem, and every action property. What is
left, in order:

1. Refinements. Dispatcher and promotion implement an abstract specification;
   `append_receipt` could be shown to implement an append that is atomic, and the
   state file of `account_health.py` does so for commands that do not overlap.
2. The event replay runner, which shares its shape with `SessionChain`, and the
   age of readings in `scripts/infra/capacity.py`.
