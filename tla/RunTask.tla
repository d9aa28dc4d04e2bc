------------------------------ MODULE RunTask ------------------------------
(***************************************************************************)
(* One run of scripts/orchestration/run_task.py: the preparation stages    *)
(* that may refuse the run, the agent, the routes that classify what it    *)
(* did, the scoring, the saving of the record and of the study receipt,    *)
(* the exception handler and the clean-up.                                 *)
(*                                                                         *)
(* Whatever happens outside the process is a choice: which stage refuses,  *)
(* what the agent did, whether the seal over the grading files held, which *)
(* command times out, which write fails, when the process is killed.       *)
(***************************************************************************)
EXTENDS Naturals, Sequences

CONSTANTS
    Configs,  \* the configurations considered, each a record of ConfigShape
    Faults,   \* the rare failures considered, a subset of FaultKinds
    None,     \* no value
    Torn      \* a file that was cut off while it was written

FaultKinds == {"partial staging", "cleanup timeout", "removal fails", "late fsync"}

MCPFinderModes == {"mcp_code_finder", "mcp_assisted"}
CLIFinderModes == {"cli_code_finder"}
FinderModes    == MCPFinderModes \cup CLIFinderModes
MCPModes       == {"mcp_only", "hybrid"} \cup MCPFinderModes
CLIModes       == {"cli"} \cup CLIFinderModes
Modes          == {"baseline"} \cup MCPModes \cup CLIModes
GatedModes     == {"mcp_only"} \cup FinderModes

ConfigShape == [mode : Modes, harness : {"claude", "codex", "opencode"},
                account : BOOLEAN, command : BOOLEAN, study : BOOLEAN,
                keep : BOOLEAN, dry : BOOLEAN, curator : BOOLEAN]

ASSUME ConfigsAssumption == Configs \subseteq ConfigShape
ASSUME FaultsAssumption  == Faults \subseteq FaultKinds

VARIABLES
    config,     \* the configuration, fixed at the start
    pc,         \* the next piece of run_task to execute
    handling,   \* whether the exception handler has been entered
    result,     \* the TaskRunResult
    agent,      \* what the agent did, None before it ran
    denied,     \* whether the gate took the source away from the agent
    scoring,    \* what the seal, the verifiers and the judge said
    container,  \* "none", "up" or "removed"
    login,      \* whether a copied login file lies in the container
    staged,     \* whether run_task knows that it staged one
    disk,       \* results.json: None, Torn or a record
    receipts    \* the trial's receipts in the study log

vars == <<config, pc, handling, result, agent, denied, scoring, container,
          login, staged, disk, receipts>>

(***************************************************************************)
(* The stages before the agent, in order, and the failure classes with     *)
(* which each refuses the run.                                             *)
(***************************************************************************)
Stages == <<"parse", "plan", "provenance", "eligible", "disk", "build", "image",
            "setup", "health", "tools", "isolation", "dry", "credentials",
            "account", "readable", "gate", "proof", "agent">>

StageIndex(s) == CHOOSE i \in 1..Len(Stages) : Stages[i] = s
Following(s)  == Stages[StageIndex(s) + 1]

HasAgent == config.harness # "claude" \/ config.command \/ config.account
Gated    == config.mode \in GatedModes

Applies(s) ==
    CASE s \in {"provenance", "image"} -> config.study
      [] s = "eligible"    -> Gated
      [] s = "tools"       -> config.mode \in MCPModes \cup CLIModes
      [] s = "credentials" -> config.harness # "claude"
      [] s = "account"     -> config.account
      [] s = "readable"    -> HasAgent
      [] s = "gate"        -> HasAgent /\ Gated
      [] s = "proof"       -> HasAgent /\ config.study
      [] OTHER             -> TRUE

\* The generated harnesses bring their own command and login.
PlanFits ==
    config.harness # "claude" =>
        ~config.account /\ ~config.command /\ config.mode # "hybrid"

ToolClasses ==
    IF config.mode \in MCPModes
    THEN {"infra_mcp_preflight"}
         \cup (IF config.harness # "claude" THEN {"infra_harness_install"} ELSE {})
    ELSE IF config.mode \in CLIFinderModes
    THEN {"infra_cli_finder_preflight", "infra_sgx_install"}
    ELSE {"infra_sgx_install", "infra_sgx_auth"}

RefusalClasses(s) ==
    CASE s = "plan"        -> {"infra_harness_config"}
      [] s \in {"provenance", "image"} -> {"integrity_provenance"}
      [] s = "eligible"    -> {"task_ineligible"}
      [] s = "disk"        -> {"infra_disk"}
      [] s = "build"       -> {"infra_build"}
      [] s = "setup"       -> {"infra_clone"}
      [] s = "health"      -> {"infra_repository_health"}
      [] s = "tools"       -> ToolClasses
      [] s = "isolation"   -> {"infra_cache_isolation"}
      [] s = "credentials" -> {"infra_auth"}
                              \cup (IF config.mode \in MCPModes THEN {}
                                    ELSE {"infra_harness_install"})
      [] s = "account"     -> {"infra_auth", "infra_clone"}
      [] s \in {"readable", "gate", "proof"} -> {"infra_perms"}
      [] OTHER             -> {}

\* The refusals that leave the status to be derived when the record is saved.
StatusLeftOpen == {"infra_disk", "infra_build", "infra_clone",
                   "infra_harness_install", "infra_auth"}

\* Stages whose failures all become a refusal: nothing escapes from them.
Contained == {"provenance", "build", "image", "setup", "dry"}

\* Points that run commands under a timeout which nothing there catches.
Timed == {"health", "tools", "isolation", "credentials", "account", "readable",
          "gate", "proof", "telemetry", "routes", "seal", "reap",
          "verifiers", "judge"}

Points == ({Stages[i] : i \in 1..Len(Stages)}
           \cup {"telemetry", "routes", "seal", "reap", "verifiers", "judge",
                 "conclude"}) \ Contained

\* "abandoned": the process ended, and docker did not do what the clean-up asked.
Ended == {"done", "abandoned", "killed"}

-----------------------------------------------------------------------------
Statuses == {"", "invalid"}
Causes == {"infra_harness_config", "integrity_provenance",
           "task_ineligible", "infra_repository_health", "infra_mcp_preflight",
           "infra_cli_finder_preflight", "infra_sgx_install", "infra_sgx_auth",
           "infra_cache_isolation", "infra_perms", "infra_timeout", "infra_oom",
           "infra_rate_limit", "agent_error", "infra_mcp_config",
           "infra_mcp_unused", "infra_sgx_unused", "invalid_arm_contamination",
           "infra_code_finder_contract", "verifier_infra_error",
           "integrity_violation"} \cup StatusLeftOpen

Classes == {None} \cup Causes

UntrustedScorePhases == {"verifier_infra_error", "integrity_violation"}
NonCompletePhases    == UntrustedScorePhases \cup {"agent_infra_error"}

Phases == {"", "refused", "dry_run_complete", "complete", "error"} \cup NonCompletePhases
Scores == {"none", "number", "withheld", "zero"}

Results == [phase : Phases, status : Statuses, success : BOOLEAN,
            class : Classes, scores : Scores, emitted : BOOLEAN]
Records == [phase : Phases, status : Statuses, success : BOOLEAN,
            class : Classes, scores : Scores]

\* _effective_status: what the record says when the raw status is left open.
EffectiveStatus(r) ==
    IF r.status # "" THEN r.status
    ELSE IF r.success \/ r.phase = "complete" THEN "" ELSE "invalid"

Record(r) == [phase |-> r.phase, success |-> r.success, class |-> r.class,
              scores |-> r.scores, status |-> EffectiveStatus(r)]

Readable(d) == d # None /\ d # Torn

Refused(class) ==
    [result EXCEPT !.phase = "refused", !.class = class,
                   !.status = IF class \in StatusLeftOpen THEN @ ELSE "invalid"]

(* Mutant: the handler also withdraws the success of the run. *)
ErroredAsFailure(timeout) ==
    [result EXCEPT !.phase = "error", !.success = FALSE,
                   !.class = IF timeout THEN "infra_timeout" ELSE @]

Errored(timeout) ==
    [result EXCEPT !.phase = "error",
                   !.class = IF timeout THEN "infra_timeout" ELSE @]

Exits == {"clean", "oom", "timeout", "rate limit", "crash"}

\* What the agent did: how it exited, whether it called MCP and sgx, whether it
\* used an interface its arm forbids, whether the proxy's trace of the finder is
\* sound, whether the provider's telemetry proves an isolated cache, and whether
\* its log shows that it never loaded its MCP configuration.
AgentRuns == [exit : Exits, mcp : BOOLEAN, sgx : BOOLEAN, foreign : BOOLEAN,
              contract : BOOLEAN, isolated : BOOLEAN, misconfigured : BOOLEAN]

ASSUME TokensAssumption ==
    /\ None \notin Causes /\ None \notin AgentRuns /\ None \notin Records
    /\ Torn \notin Records /\ None # Torn

Unasked == [seal |-> "unasked", verifiers |-> "unasked", judge |-> "unasked"]

TypeOK ==
    /\ config \in Configs
    /\ pc \in {Stages[i] : i \in 1..Len(Stages)} \cup Points
              \cup {"save", "emit", "cleanup", "release"} \cup Ended
    /\ handling \in BOOLEAN
    /\ result \in Results
    /\ agent \in AgentRuns \cup {None}
    /\ denied \in BOOLEAN
    /\ scoring \in [seal : {"unasked", "held", "broken"},
                    verifiers : {"unasked", "sound", "infra"},
                    judge : {"unasked", "sound", "infra"}]
    /\ container \in {"none", "up", "removed"}
    /\ login \in BOOLEAN /\ staged \in BOOLEAN
    /\ disk \in {None, Torn} \cup Records
    /\ \A i \in 1..Len(receipts) :
          receipts[i] \in [status : {"valid", "infra_invalid", "ineligible"},
                           of : Records]

Init ==
    /\ config \in Configs
    /\ pc = "parse"
    /\ handling = FALSE
    /\ result = [phase |-> "", status |-> "", success |-> FALSE, class |-> None,
                 scores |-> "none", emitted |-> FALSE]
    /\ agent = None
    /\ denied = FALSE
    /\ scoring = Unasked
    /\ container = "none"
    /\ login = FALSE /\ staged = FALSE
    /\ disk = None
    /\ receipts = <<>>

-----------------------------------------------------------------------------
(***************************************************************************)
(* Preparation.                                                            *)
(***************************************************************************)
Goto(p) == pc' = p

Pass(s) ==
    /\ pc = s
    /\ Goto(Following(s))
    /\ UNCHANGED <<config, handling, result, agent, scoring, disk, receipts>>

Unprovisioned == UNCHANGED <<denied, container, login, staged>>

\* The stages that leave nothing behind, and those that do not apply.
Prepare ==
    \E s \in {"parse", "plan", "provenance", "eligible", "disk", "build", "image",
              "setup", "health", "tools", "isolation", "dry", "credentials",
              "account", "readable", "gate", "proof"} :
        /\ Pass(s)
        /\ s = "plan" => PlanFits
        /\ s = "dry" => ~config.dry
        /\ s \in {"setup", "credentials", "gate"} => ~Applies(s)
        /\ Unprovisioned

SetUp ==
    /\ Pass("setup")
    /\ container' = "up"
    /\ UNCHANGED <<denied, login, staged>>

\* Only codex needs a file; opencode's key travels in the environment.
StageLogin ==
    /\ Pass("credentials") /\ Applies("credentials")
    /\ login' = (config.harness = "codex")
    /\ staged' = (config.harness = "codex")
    /\ UNCHANGED <<denied, container>>

DenySource ==
    /\ Pass("gate") /\ Applies("gate")
    /\ denied' = TRUE
    /\ UNCHANGED <<container, login, staged>>

DryRun ==
    /\ pc = "dry" /\ config.dry
    /\ result' = [result EXCEPT !.phase = "dry_run_complete", !.success = TRUE]
    /\ Goto("cleanup")
    /\ UNCHANGED <<config, handling, agent, scoring, disk, receipts>>
    /\ Unprovisioned

\* What a stage that gives up may already have left: a created container, and
\* with a partial staging a login file that run_task does not know of.
LeftBehind(s) ==
    /\ IF s = "setup" THEN container' \in {"none", "up"} ELSE UNCHANGED container
    /\ IF /\ s = "credentials" /\ config.harness = "codex"
          /\ "partial staging" \in Faults
       THEN login' \in BOOLEAN ELSE UNCHANGED login
    /\ UNCHANGED <<denied, staged>>

Refuse ==
    /\ pc \in {Stages[i] : i \in 1..Len(Stages)} /\ Applies(pc)
    /\ \E class \in RefusalClasses(pc) : result' = Refused(class)
    /\ LeftBehind(pc)
    /\ Goto("save")
    /\ UNCHANGED <<config, handling, agent, scoring, disk, receipts>>

-----------------------------------------------------------------------------
(***************************************************************************)
(* The agent and the routes that classify its run.                         *)
(***************************************************************************)
Flagged(r, class) ==
    [r EXCEPT !.phase = "agent_infra_error", !.status = "invalid",
              !.success = FALSE, !.class = class]

\* Flag the run, keeping the cause it already failed for.
FlaggedAs(r, class) ==
    Flagged(r, IF r.class = None THEN class ELSE r.class)

ExitClass == [oom |-> "infra_oom", timeout |-> "infra_timeout",
              crash |-> "agent_error"]

(* Mutant: an unclean exit is classified but not flagged. *)
RoutedAgentExitClassOnly(r, a) ==
    CASE a.exit = "clean"      -> r
      [] a.exit = "rate limit" -> [r EXCEPT !.class = "infra_rate_limit"]
      [] OTHER                 -> [r EXCEPT !.class = ExitClass[a.exit]]

RoutedAgentExit(r, a) ==
    CASE a.exit = "clean"      -> r
      [] a.exit = "rate limit" -> Flagged(r, "infra_rate_limit")
      [] OTHER                 -> Flagged(r, ExitClass[a.exit])

RoutedCacheIsolation(r, a) ==
    IF r.status # "" \/ a.isolated THEN r ELSE Flagged(r, "infra_cache_isolation")

RoutedConfigError(r, a) ==
    IF a.misconfigured
    THEN [r EXCEPT !.phase = "agent_infra_error", !.status = "invalid",
                   !.class = "infra_mcp_config"]
    ELSE r

(* Mutant: a run without MCP calls is always labelled as such. *)
RoutedZeroMCPRelabelling(r, a) ==
    IF config.mode \in MCPModes \ {"hybrid"} /\ ~a.mcp
    THEN Flagged(r, "infra_mcp_unused") ELSE r

RoutedZeroMCP(r, a) ==
    IF config.mode \in MCPModes \ {"hybrid"} /\ ~a.mcp
    THEN FlaggedAs(r, "infra_mcp_unused") ELSE r

\* Commands of the other interface contaminate an arm; in the MCP finder arms
\* they show only against a trace that is itself sound.
Contaminated(a) ==
    /\ a.foreign
    /\ \/ config.mode \in {"mcp_only", "cli"} \cup CLIFinderModes
       \/ config.mode \in MCPFinderModes /\ a.contract

RoutedCodeFinder(r, a) ==
    IF r.class # None THEN r
    ELSE IF Contaminated(a) THEN Flagged(r, "invalid_arm_contamination")
    ELSE IF config.mode \in FinderModes /\ ~a.contract
    THEN Flagged(r, "infra_code_finder_contract") ELSE r

RoutedZeroSgx(r, a) ==
    IF config.mode = "cli" /\ ~a.sgx THEN FlaggedAs(r, "infra_sgx_unused") ELSE r

AgentFrame == UNCHANGED <<config, denied, scoring, container, disk, receipts>>

(* Mutant: the login is left for the clean-up at the end of the run. *)
RunAgentKeepingLogin ==
    /\ pc = "agent" /\ HasAgent
    /\ agent' \in AgentRuns
    /\ result' = RoutedAgentExit(result, agent')
    /\ Goto("telemetry")
    /\ UNCHANGED <<handling, login, staged>> /\ AgentFrame

\* The agent runs and the staged login is removed, in the finally clause.
RunAgent ==
    /\ pc = "agent" /\ HasAgent
    /\ agent' \in AgentRuns
    /\ login' = FALSE /\ staged' = FALSE
    /\ result' = RoutedAgentExit(result, agent')
    /\ Goto("telemetry")
    /\ UNCHANGED handling /\ AgentFrame

\* The finally clause fails: whatever the agent did, the run is an error now.
CleanupAfterAgentFails ==
    /\ pc = "agent" /\ HasAgent /\ staged
    /\ agent' \in AgentRuns
    /\ \E timeout \in BOOLEAN : result' = Errored(timeout)
    /\ handling' = TRUE
    /\ Goto("save")
    /\ UNCHANGED <<login, staged>> /\ AgentFrame

\* Without an agent an ungated arm is scored as it stands; a gated arm is not.
NoAgent ==
    /\ pc = "agent" /\ ~HasAgent
    /\ IF Gated
       THEN result' = Refused("infra_perms") /\ Goto("save")
       ELSE UNCHANGED result /\ Goto("seal")
    /\ UNCHANGED <<handling, agent, login, staged>> /\ AgentFrame

RouteTelemetry ==
    /\ pc = "telemetry"
    /\ result' = RoutedCacheIsolation(result, agent)
    /\ Goto("routes")
    /\ UNCHANGED <<handling, agent, login, staged>> /\ AgentFrame

RouteArm ==
    /\ pc = "routes"
    /\ result' = RoutedZeroSgx(RoutedCodeFinder(RoutedZeroMCP(
                     RoutedConfigError(result, agent), agent), agent), agent)
    /\ Goto("seal")
    /\ UNCHANGED <<handling, agent, login, staged>> /\ AgentFrame
-----------------------------------------------------------------------------
(***************************************************************************)
(* Scoring.                                                                *)
(***************************************************************************)
ScoringFrame == UNCHANGED <<config, handling, agent, denied, container, login,
                            staged, disk, receipts>>

RoutedVerifierError(r) ==
    [r EXCEPT !.class = IF @ = None THEN "verifier_infra_error" ELSE @,
              !.phase = IF @ \in NonCompletePhases THEN @ ELSE "verifier_infra_error",
              !.status = "invalid", !.success = FALSE]

(* Mutant: an earlier failure keeps its class. *)
RoutedIntegrityViolationLast(r) ==
    [r EXCEPT !.class = IF @ = None THEN "integrity_violation" ELSE @,
              !.phase = "integrity_violation", !.status = "invalid",
              !.success = FALSE]

RoutedIntegrityViolation(r) ==
    [r EXCEPT !.class = "integrity_violation", !.phase = "integrity_violation",
              !.status = "invalid", !.success = FALSE]

Asked(source, answer) == scoring' = [scoring EXCEPT ![source] = answer]

\* The grading files could have been rewritten: nothing is run.
FindSealBroken ==
    /\ pc = "seal"
    /\ Asked("seal", "broken")
    /\ result' = RoutedIntegrityViolation(result)
    /\ Goto("conclude")
    /\ ScoringFrame

FindSealHeld ==
    /\ pc = "seal"
    /\ Asked("seal", "held")
    /\ Goto("reap")
    /\ UNCHANGED result /\ ScoringFrame

\* The agent's processes are killed and the workspace is closed.
Reap ==
    /\ pc = "reap"
    /\ Goto("verifiers")
    /\ UNCHANGED <<result, scoring>> /\ ScoringFrame

Verify ==
    /\ pc = "verifiers"
    /\ \E answer \in {"sound", "infra"} :
          /\ Asked("verifiers", answer)
          /\ result' = IF answer = "infra" THEN RoutedVerifierError(result)
                                          ELSE result
    /\ Goto(IF config.curator /\ result'.phase \notin UntrustedScorePhases
            THEN "judge" ELSE "conclude")
    /\ ScoringFrame

Judge ==
    /\ pc = "judge"
    /\ \E answer \in {"sound", "infra"} :
          /\ Asked("judge", answer)
          /\ result' = IF answer = "infra" \/ scoring.verifiers = "infra"
                       THEN RoutedVerifierError(result) ELSE result
    /\ Goto("conclude")
    /\ ScoringFrame

\* The number the scores carry: 0.0 for a broken seal, none where a scorer failed.
ScoresOf(sc) ==
    IF sc.seal = "broken" THEN "zero"
    ELSE IF "infra" \in {sc.verifiers, sc.judge} THEN "withheld" ELSE "number"

Conclude ==
    /\ pc = "conclude"
    /\ result' =
         IF result.phase \in NonCompletePhases
         THEN [result EXCEPT !.scores = ScoresOf(scoring)]
         ELSE [result EXCEPT !.scores = ScoresOf(scoring),
                             !.phase = "complete", !.success = TRUE]
    /\ Goto("save")
    /\ UNCHANGED scoring /\ ScoringFrame

-----------------------------------------------------------------------------
(***************************************************************************)
(* Saving the record and the receipt, and the exception handler.           *)
(***************************************************************************)
SavingFrame == UNCHANGED <<config, agent, denied, scoring, container, login, staged>>

\* An exception in the body. Before the task is parsed there is nothing to save
\* with, and the handler's own attempt to save fails too.
Raise ==
    /\ pc \in Points
    /\ \E timeout \in BOOLEAN :
          /\ timeout => pc \in Timed \cup {"agent"}
          /\ result' = Errored(timeout)
    /\ pc = "agent" => HasAgent
    /\ IF pc = "agent" THEN login' \in {login, FALSE} /\ staged' = login'
                       ELSE LeftBehind(pc) /\ UNCHANGED <<denied, container, staged>>
    /\ handling' = TRUE
    /\ Goto(IF pc = "parse" THEN "cleanup" ELSE "save")
    /\ UNCHANGED <<config, agent, denied, scoring, container, disk, receipts>>

WriteResults ==
    /\ pc = "save"
    /\ disk' = Record(result)
    /\ Goto(IF config.study /\ ~result.emitted THEN "emit" ELSE "cleanup")
    /\ UNCHANGED <<handling, result, receipts>> /\ SavingFrame

\* A failing save enters the handler once; the handler's own save is not retried.
SaveRaises ==
    IF handling
    THEN Goto("cleanup") /\ UNCHANGED <<handling, result>>
    ELSE Goto("save") /\ handling' = TRUE /\ result' = Errored(FALSE)

\* results.json was not touched, or is cut off, or is whole and a later file failed.
SaveFails ==
    /\ pc = "save"
    /\ disk' \in {disk, Torn, Record(result)}
    /\ SaveRaises
    /\ UNCHANGED receipts /\ SavingFrame

(* Mutant: the receipt repeats the status of the record. *)
ReceiptStatusRepeated(d) == {d.status}

\* _invalidity, asked of results.json as it lies on disk. The vendor's usage may
\* be missing, or the scorer may have produced no checkpoints.
ReceiptStatuses(d) ==
    IF d.class = "task_ineligible" THEN {"ineligible"}
    ELSE IF d.status # "" \/ ~(d.success \/ d.phase = "complete")
    THEN {"infra_invalid"} ELSE {"valid", "infra_invalid"}

\* A valid receipt needs the proof of the arm, which only an agent's run has,
\* a score, and no failure class.
Appendable(status) ==
    status = "valid" => HasAgent /\ disk.scores = "number" /\ disk.class = None

\* The log refuses a second receipt for the same trial.
AppendReceipt(status) ==
    /\ receipts = <<>> /\ Appendable(status)
    /\ receipts' = <<[status |-> status, of |-> disk]>>

Emit ==
    /\ pc = "emit"
    /\ \E status \in ReceiptStatuses(disk) : AppendReceipt(status)
    /\ result' = [result EXCEPT !.emitted = TRUE]
    /\ Goto("cleanup")
    /\ UNCHANGED <<handling, disk>> /\ SavingFrame

(* Mutant: the receipt is in the log when emitting it raises. *)
EmitFailsAppended ==
    /\ pc = "emit"
    /\ \E status \in ReceiptStatuses(disk) : AppendReceipt(status)
    /\ SaveRaises
    /\ UNCHANGED disk /\ SavingFrame

EmitFails ==
    /\ pc = "emit"
    /\ UNCHANGED receipts
    /\ SaveRaises
    /\ UNCHANGED disk /\ SavingFrame

\* The line is in the log, and fsync reports an error.
EmitFailsLate ==
    /\ pc = "emit" /\ "late fsync" \in Faults
    /\ \E status \in ReceiptStatuses(disk) : AppendReceipt(status)
    /\ SaveRaises
    /\ UNCHANGED disk /\ SavingFrame

-----------------------------------------------------------------------------
(***************************************************************************)
(* The finally clause.                                                     *)
(***************************************************************************)
CleanupFrame == UNCHANGED <<config, handling, result, agent, denied, scoring,
                            disk, receipts>>

CleanUp ==
    /\ pc = "cleanup"
    /\ login' = IF container = "up" /\ staged THEN FALSE ELSE login
    /\ staged' = FALSE
    /\ Goto("release")
    /\ UNCHANGED container /\ CleanupFrame

(* Mutant: a failed removal of the login file is only logged. *)
CleanUpFailsLogged ==
    /\ pc = "cleanup" /\ container = "up" /\ staged
    /\ Goto("release")
    /\ UNCHANGED <<container, login, staged>> /\ CleanupFrame

\* docker stop and docker rm. A failure of theirs is logged at most.
StopAndRemove ==
    \/ container' = "removed" /\ login' = FALSE /\ Goto("done")
    \/ /\ "removal fails" \in Faults
       /\ UNCHANGED <<container, login>> /\ Goto("abandoned")

\* A container that may still hold the login file is removed although it was to
\* be kept.
CleanUpFails ==
    /\ pc = "cleanup" /\ container = "up" /\ staged
    /\ IF config.keep THEN StopAndRemove
       ELSE Goto("release") /\ UNCHANGED <<container, login>>
    /\ UNCHANGED staged /\ CleanupFrame

\* The removal of the login file times out, which the clause does not catch: the
\* exception leaves run_task with the container as it is.
CleanUpTimesOut ==
    /\ pc = "cleanup" /\ container = "up" /\ staged
    /\ "cleanup timeout" \in Faults
    /\ Goto("abandoned")
    /\ UNCHANGED <<container, login, staged>> /\ CleanupFrame

(* Mutant: the container of a failed run stays for its triage. *)
ReleaseSucceeded ==
    /\ pc = "release"
    /\ IF container = "up" /\ ~config.keep /\ result.success
       THEN container' = "removed" /\ login' = FALSE
       ELSE UNCHANGED <<container, login>>
    /\ Goto("done")
    /\ UNCHANGED staged /\ CleanupFrame

Release ==
    /\ pc = "release"
    /\ IF container = "up" /\ ~config.keep THEN StopAndRemove
       ELSE Goto("done") /\ UNCHANGED <<container, login>>
    /\ UNCHANGED staged /\ CleanupFrame

\* Ctrl-C is not an Exception: nothing is saved, the finally clause runs.
Interrupt ==
    /\ pc \notin Ended \cup {"cleanup", "release"}
    /\ Goto("cleanup")
    /\ UNCHANGED <<container, login, staged>> /\ CleanupFrame

Kill ==
    /\ pc \notin Ended
    /\ Goto("killed")
    /\ UNCHANGED <<container, login, staged>> /\ CleanupFrame

Next ==
    \/ Prepare \/ SetUp \/ StageLogin \/ DenySource \/ DryRun \/ Refuse
    \/ RunAgent \/ CleanupAfterAgentFails \/ NoAgent \/ RouteTelemetry \/ RouteArm
    \/ FindSealBroken \/ FindSealHeld \/ Reap \/ Verify \/ Judge \/ Conclude
    \/ Raise \/ WriteResults \/ SaveFails \/ Emit \/ EmitFails \/ EmitFailsLate
    \/ CleanUp \/ CleanUpFails \/ CleanUpTimesOut \/ Release \/ Interrupt \/ Kill

Spec == Init /\ [][Next]_vars

\* Every command the process waits for has a timeout and it takes no lock.
FairSpec == Spec /\ WF_vars(Next)
-----------------------------------------------------------------------------
(***************************************************************************)
(* Properties.                                                             *)
(***************************************************************************)

\* What makes a run a measurement of its arm: the agent ran cleanly under the
\* gate, with its own cache, over the arm's interface and no other, and a scorer
\* whose files nobody touched reached a verdict.
Measured ==
    /\ Gated => HasAgent
    /\ HasAgent =>
         /\ agent # None
         /\ agent.exit = "clean" /\ agent.isolated /\ ~agent.misconfigured
         /\ Gated => denied
         /\ config.mode \in MCPModes \ {"hybrid"} => agent.mcp
         /\ config.mode = "cli" => agent.sgx
         /\ config.mode \in FinderModes => agent.contract
         /\ ~Contaminated(agent)
    /\ scoring.seal = "held" /\ scoring.verifiers = "sound"
    /\ config.curator => scoring.judge = "sound"

ValidReceipt == receipts # <<>> /\ receipts[1].status = "valid"

\* A record that is not flagged invalid, and a receipt that says valid, stand for
\* a measured run, on whatever path through the routes, the handler and the
\* repeated save they were written.
UnflaggedIsMeasured ==
    (Readable(disk) /\ disk.status = "") \/ ValidReceipt => Measured

\* A run whose grading files could have been touched is recorded as an integrity
\* violation if at all, never under a class that earns it another attempt.
TamperedStaysInvalid ==
    scoring.seal = "broken" =>
        /\ Readable(disk) => disk.class = "integrity_violation"
                            /\ disk.status = "invalid"
        /\ ~ValidReceipt

\* Once the study log has the receipt, the record it describes is not rewritten:
\* run_task emits last and once, and the handler does not come after it.
ReceiptFreezesRecord == receipts # <<>> => disk = receipts[1].of

\* The copied login file is gone before any code of the agent's can run again in
\* the scoring of the run; and a container that outlives its agent holds none,
\* whatever failed while the file was removed: what is kept for debugging was
\* cleaned, or is not kept (finally clause of run_task).
UsedLoginGone ==
    /\ pc \in {"seal", "reap", "verifiers", "judge", "conclude"} => ~login
    /\ pc = "done" /\ container = "up" /\ agent # None => ~login

\* The same of every container that is kept, also of a run that was refused.
NoLoginRetained == pc = "done" /\ container = "up" => ~login

\* A later save never turns an invalid record into an unflagged one or back.
VerdictStands ==
    [][Readable(disk) /\ Readable(disk') => disk'.status = disk.status]_vars

\* A failure that was classified is not relabelled by one of its symptoms. Only a
\* broken seal and an agent that never loaded its configuration say more, and a
\* command that times out sends the run to the handler, which relabels it.
RoutesKeepCause ==
    [][result.class # None /\ result'.class # result.class
         => \/ result'.class \in {"integrity_violation", "infra_mcp_config"}
            \/ handling' /\ ~handling /\ result'.class = "infra_timeout"]_vars

\* A container is given back when its run ends, unless it is to be kept, the
\* process was killed or docker failed the clean-up.
ContainerReleased ==
    container = "up" /\ ~config.keep
        ~> container = "removed" \/ pc \in {"killed", "abandoned"}
=============================================================================
