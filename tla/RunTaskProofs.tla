----------------------------- MODULE RunTaskProofs -----------------------------
(***************************************************************************)
(* RunTask for every set of configurations and of faults: an unflagged     *)
(* record stands for a measured run, a broken seal is never recorded as    *)
(* anything else, no login file outlives its use, a record's verdict and a *)
(* failure's cause stand, and without a late fsync error the receipt       *)
(* freezes the record.                                                     *)
(***************************************************************************)
EXTENDS RunTask, TLAPS

-----------------------------------------------------------------------------
(* The stages, tabulated                                                   *)

Preparing == {"parse", "plan", "provenance", "eligible", "disk", "build", "image",
              "setup", "health", "tools", "isolation", "dry", "credentials",
              "account", "readable", "gate", "proof"}

StageSet == Preparing \cup {"agent"}

(* Eighteen stages, all different. *)
LEMMA StagesAre ==
    /\ Len(Stages) = 18
    /\ Stages[1] = "parse" /\ Stages[2] = "plan" /\ Stages[3] = "provenance"
    /\ Stages[4] = "eligible" /\ Stages[5] = "disk" /\ Stages[6] = "build"
    /\ Stages[7] = "image" /\ Stages[8] = "setup" /\ Stages[9] = "health"
    /\ Stages[10] = "tools" /\ Stages[11] = "isolation" /\ Stages[12] = "dry"
    /\ Stages[13] = "credentials" /\ Stages[14] = "account" /\ Stages[15] = "readable"
    /\ Stages[16] = "gate" /\ Stages[17] = "proof" /\ Stages[18] = "agent"
BY DEF Stages

LEMMA StageNames == {Stages[i] : i \in 1 .. Len(Stages)} = StageSet
BY StagesAre DEF StageSet, Preparing

LEMMA IndexOf ==
    ASSUME NEW i \in 1 .. 18
    PROVE  StageIndex(Stages[i]) = i
<1>1. \A j \in 1 .. 18 : Stages[j] = Stages[i] => j = i
  BY StagesAre
<1>. HIDE DEF Stages
<1>. QED
  BY <1>1, StagesAre DEF StageIndex

(* The stages follow one another in order; only what comes behind the gate *)
(* has passed it.                                                          *)
LEMMA FollowingIs ==
    ASSUME NEW s \in Preparing
    PROVE  /\ Following(s) \in StageSet
           /\ Following(s) = "proof" => s = "gate"
           /\ Following(s) = "agent" => s = "proof"
<1>1. PICK i \in 1 .. 17 : s = Stages[i]
  BY StagesAre DEF Preparing
<1>2. Following(s) = Stages[i + 1]
  BY <1>1, IndexOf DEF Following
<1>. QED
  BY <1>1, <1>2, StagesAre DEF StageSet, Preparing

-----------------------------------------------------------------------------
(* Types                                                                   *)

Working == {"telemetry", "routes", "seal", "reap", "verifiers", "judge", "conclude"}

(* The log has one receipt of the trial, or none. *)
OneReceipt ==
    \/ receipts = <<>>
    \/ \E x \in [status : {"valid", "infra_invalid", "ineligible"}, of : Records] :
          receipts = <<x>>

TypeInv ==
    /\ config \in Configs
    /\ pc \in StageSet \cup Working \cup {"save", "emit", "cleanup", "release"} \cup Ended
    /\ handling \in BOOLEAN /\ denied \in BOOLEAN /\ login \in BOOLEAN /\ staged \in BOOLEAN
    /\ result \in Results /\ agent \in AgentRuns \cup {None}
    /\ scoring \in [seal : {"unasked", "held", "broken"},
                    verifiers : {"unasked", "sound", "infra"},
                    judge : {"unasked", "sound", "infra"}]
    /\ container \in {"none", "up", "removed"}
    /\ disk \in {None, Torn} \cup Records
    /\ OneReceipt

LEMMA Places ==
    /\ {Stages[i] : i \in 1 .. Len(Stages)} = StageSet
    /\ Points = (StageSet \cup Working) \ Contained
BY StageNames DEF Points, StageSet, Preparing, Working, Contained

LEMMA TypeInvImplies == TypeInv => TypeOK
<1>1. OneReceipt => \A i \in 1 .. Len(receipts) :
          receipts[i] \in [status : {"valid", "infra_invalid", "ineligible"}, of : Records]
  BY DEF OneReceipt
<1>2. {Stages[i] : i \in 1 .. Len(Stages)} \cup Points
         \cup {"save", "emit", "cleanup", "release"} \cup Ended
         = StageSet \cup Working \cup {"save", "emit", "cleanup", "release"} \cup Ended
  BY Places DEF StageSet, Preparing, Working, Contained
<1>. QED
  BY <1>1, <1>2 DEF TypeInv, TypeOK

(* The routes, the handler and the refusals give results. *)
LEMMA FlaggedType ==
    ASSUME NEW r \in Results, NEW class \in Classes
    PROVE  Flagged(r, class) \in Results /\ FlaggedAs(r, class) \in Results
BY DEF Flagged, FlaggedAs, Results, Phases, Statuses, NonCompletePhases

LEMMA RoutedTypes ==
    ASSUME NEW r \in Results, NEW a \in AgentRuns
    PROVE  /\ RoutedAgentExit(r, a) \in Results
           /\ RoutedCacheIsolation(r, a) \in Results
           /\ RoutedConfigError(r, a) \in Results
           /\ RoutedZeroMCP(r, a) \in Results
           /\ RoutedCodeFinder(r, a) \in Results
           /\ RoutedZeroSgx(r, a) \in Results
<1>1. RoutedConfigError(r, a) \in Results
  BY DEF RoutedConfigError, Results, Phases, Statuses, Classes, Causes, NonCompletePhases
<1>2. RoutedAgentExit(r, a) \in Results
  <2>1. a.exit \in Exits
    BY DEF AgentRuns
  <2>2. "infra_rate_limit" \in Classes
    BY DEF Classes, Causes
  <2>3. a.exit \notin {"clean", "rate limit"} => ExitClass[a.exit] \in Classes
    <3>1. /\ ExitClass["oom"] = "infra_oom" /\ ExitClass["timeout"] = "infra_timeout"
          /\ ExitClass["crash"] = "agent_error"
      BY DEF ExitClass
    <3>. QED
      BY <2>1, <3>1 DEF Exits, Classes, Causes
  <2>. QED
    BY <2>2, <2>3, FlaggedType DEF RoutedAgentExit
<1>3. /\ RoutedCacheIsolation(r, a) \in Results /\ RoutedZeroMCP(r, a) \in Results
      /\ RoutedCodeFinder(r, a) \in Results /\ RoutedZeroSgx(r, a) \in Results
  <2>1. {"infra_cache_isolation", "infra_mcp_unused", "invalid_arm_contamination",
         "infra_code_finder_contract", "infra_sgx_unused"} \subseteq Classes
    BY DEF Classes, Causes
  <2>. QED
    BY <2>1, FlaggedType DEF RoutedCacheIsolation, RoutedZeroMCP, RoutedCodeFinder, RoutedZeroSgx
<1>. QED
  BY <1>1, <1>2, <1>3

LEMMA ScoringTypes ==
    ASSUME NEW r \in Results
    PROVE  RoutedVerifierError(r) \in Results /\ RoutedIntegrityViolation(r) \in Results
<1>. USE DEF Results, Phases, Statuses, Classes, Causes, NonCompletePhases, UntrustedScorePhases
<1>1. RoutedIntegrityViolation(r) \in Results
  BY DEF RoutedIntegrityViolation
<1>2. RoutedVerifierError(r) \in Results
  BY DEF RoutedVerifierError
<1>. QED
  BY <1>1, <1>2

LEMMA RefusalTypes ==
    ASSUME result \in Results
    PROVE  /\ \A timeout \in BOOLEAN : Errored(timeout) \in Results
           /\ \A class \in Classes : Refused(class) \in Results
           /\ \A s \in StageSet : RefusalClasses(s) \subseteq Classes
           /\ Record(result) \in Records
<1>1. \A s \in StageSet : RefusalClasses(s) \subseteq Classes
  BY DEF RefusalClasses, ToolClasses, Classes, Causes, StatusLeftOpen
<1>2. \A timeout \in BOOLEAN : Errored(timeout) \in Results
  BY DEF Errored, Results, Phases, Classes, Causes
<1>3. \A class \in Classes : Refused(class) \in Results
  BY DEF Refused, Results, Phases, Statuses
<1>4. Record(result) \in Records
  BY DEF Record, EffectiveStatus, Results, Records, Statuses
<1>. QED
  BY <1>1, <1>2, <1>3, <1>4

LEMMA InitTypeInv == Init => TypeInv
<1>. SUFFICES ASSUME Init PROVE TypeInv
  OBVIOUS
<1>. USE DEF Init
<1>1. result \in Results
  BY DEF Results, Phases, Statuses, Classes, Causes, Scores
<1>2. pc \in StageSet
  BY DEF StageSet, Preparing
<1>3. scoring \in [seal : {"unasked", "held", "broken"},
                  verifiers : {"unasked", "sound", "infra"},
                  judge : {"unasked", "sound", "infra"}]
  BY DEF Unasked
<1>4. OneReceipt
  BY DEF OneReceipt
<1>. QED
  BY <1>1, <1>2, <1>3, <1>4 DEF TypeInv

LEMMA LeftBehindTypes ==
    ASSUME TypeInv, NEW s, LeftBehind(s)
    PROVE  /\ container' \in {"none", "up", "removed"} /\ login' \in BOOLEAN
           /\ UNCHANGED <<denied, staged>>
<1>1. container' \in {"none", "up", "removed"}
  BY DEF LeftBehind, TypeInv
<1>2. login' \in BOOLEAN
  BY DEF LeftBehind, TypeInv
<1>. QED
  BY <1>1, <1>2 DEF LeftBehind

(* The stages before the agent, and the refusals. *)
LEMMA PreparingKeepsTypes ==
    ASSUME TypeInv,
           Prepare \/ SetUp \/ StageLogin \/ DenySource \/ DryRun \/ Refuse
    PROVE  TypeInv'
<1>. USE DEF TypeInv, Goto, OneReceipt
<1>1. CASE Prepare \/ SetUp \/ StageLogin \/ DenySource
  <2>1. PICK s \in Preparing : Pass(s)
    BY <1>1 DEF Prepare, SetUp, StageLogin, DenySource, Preparing
  <2>2. Following(s) \in StageSet
    BY FollowingIs
  <2>3. login' \in BOOLEAN /\ staged' \in BOOLEAN /\ denied' \in BOOLEAN
    BY <1>1 DEF Prepare, SetUp, StageLogin, DenySource, Unprovisioned
  <2>4. container' \in {"none", "up", "removed"}
    BY <1>1 DEF Prepare, SetUp, StageLogin, DenySource, Unprovisioned
  <2>. QED
    BY <2>1, <2>2, <2>3, <2>4 DEF Pass
<1>2. CASE DryRun
  <2>1. result' \in Results
    BY <1>2 DEF DryRun, Results, Phases
  <2>. QED
    BY <1>2, <2>1 DEF DryRun, Unprovisioned
<1>3. CASE Refuse
  <2>1. result' \in Results
    BY <1>3, Places, RefusalTypes DEF Refuse
  <2>. QED
    BY <1>3, <2>1, LeftBehindTypes DEF Refuse
<1>. QED
  BY <1>1, <1>2, <1>3

(* The agent and the routes. *)
LEMMA RoutingKeepsTypes ==
    ASSUME TypeInv,
           agent \in AgentRuns \/ pc \notin {"telemetry", "routes"},
           \/ RunAgent \/ CleanupAfterAgentFails \/ NoAgent \/ RouteTelemetry \/ RouteArm
    PROVE  TypeInv'
<1>. USE DEF TypeInv, Goto, OneReceipt, AgentFrame, Working
<1>1. CASE RunAgent
  BY <1>1, RoutedTypes DEF RunAgent
<1>2. CASE CleanupAfterAgentFails
  BY <1>2, RefusalTypes DEF CleanupAfterAgentFails
<1>3. CASE NoAgent
  <2>1. result' \in Results
    BY <1>3, RefusalTypes DEF NoAgent, Classes, Causes
  <2>. QED
    BY <1>3, <2>1 DEF NoAgent
<1>4. CASE RouteTelemetry
  BY <1>4, RoutedTypes DEF RouteTelemetry
<1>5. CASE RouteArm
  BY <1>5, RoutedTypes DEF RouteArm
<1>. QED
  BY <1>1, <1>2, <1>3, <1>4, <1>5

LEMMA ScoringKeepsTypes ==
    ASSUME TypeInv,
           FindSealBroken \/ FindSealHeld \/ Reap \/ Verify \/ Judge \/ Conclude
    PROVE  TypeInv'
<1>. USE DEF TypeInv, Goto, OneReceipt, ScoringFrame, Working
<1>0. RoutedVerifierError(result) \in Results /\ RoutedIntegrityViolation(result) \in Results
  BY ScoringTypes
<1>1. CASE FindSealBroken \/ FindSealHeld
  BY <1>0, <1>1 DEF FindSealBroken, FindSealHeld, Asked
<1>2. CASE Reap
  BY <1>2 DEF Reap
<1>3. CASE Verify
  BY <1>0, <1>3 DEF Verify, Asked
<1>4. CASE Judge
  BY <1>0, <1>4 DEF Judge, Asked
<1>5. CASE Conclude
  <2>1. ScoresOf(scoring) \in Scores
    BY DEF ScoresOf, Scores
  <2>2. result' \in Results
    BY <1>5, <2>1 DEF Conclude, Results, Phases
  <2>. QED
    BY <1>5, <2>2 DEF Conclude
<1>. QED
  BY <1>1, <1>2, <1>3, <1>4, <1>5

LEMMA SavingKeepsTypes ==
    ASSUME TypeInv, disk \in Records \/ pc # "emit",
           Raise \/ WriteResults \/ SaveFails \/ Emit \/ EmitFails \/ EmitFailsLate
    PROVE  TypeInv'
<1>. USE DEF TypeInv, Goto, SavingFrame
<1>1. CASE Raise
  <2>1. login' \in BOOLEAN /\ staged' \in BOOLEAN
    BY <1>1, LeftBehindTypes DEF Raise
  <2>2. result' \in Results
    BY <1>1, RefusalTypes DEF Raise
  <2>. QED
    BY <1>1, <2>1, <2>2 DEF Raise, OneReceipt
<1>2. CASE WriteResults
  BY <1>2, RefusalTypes DEF WriteResults, OneReceipt
<1>3. SaveRaises =>
        /\ result' \in Results /\ handling' \in BOOLEAN
        /\ pc' \in {"cleanup", "save"}
  BY RefusalTypes DEF SaveRaises
<1>4. CASE SaveFails
  BY <1>3, <1>4, RefusalTypes DEF SaveFails, OneReceipt
<1>5. ASSUME disk \in Records, NEW status \in ReceiptStatuses(disk), AppendReceipt(status)
      PROVE  OneReceipt'
  <2>1. status \in {"valid", "infra_invalid", "ineligible"}
    BY <1>5 DEF ReceiptStatuses
  <2>. QED
    BY <1>5, <2>1 DEF AppendReceipt, OneReceipt
<1>6. CASE Emit
  <2>1. result' \in Results
    BY <1>6 DEF Emit, Results
  <2>2. OneReceipt' /\ UNCHANGED disk
    BY <1>5, <1>6 DEF Emit
  <2>. QED
    BY <1>6, <2>1, <2>2 DEF Emit
<1>7. CASE EmitFails
  BY <1>3, <1>7 DEF EmitFails, OneReceipt
<1>8. CASE EmitFailsLate
  <2>1. OneReceipt' /\ UNCHANGED disk
    BY <1>5, <1>8 DEF EmitFailsLate
  <2>. QED
    BY <1>3, <1>8, <2>1 DEF EmitFailsLate
<1>. QED
  BY <1>1, <1>2, <1>4, <1>6, <1>7, <1>8

LEMMA ClosingKeepsTypes ==
    ASSUME TypeInv,
           \/ CleanUp \/ CleanUpFails \/ CleanUpTimesOut \/ Release \/ Interrupt \/ Kill
           \/ UNCHANGED vars
    PROVE  TypeInv'
<1>. USE DEF TypeInv, OneReceipt, Goto, CleanupFrame, StopAndRemove, Ended
<1>1. CASE CleanUp \/ CleanUpFails \/ CleanUpTimesOut
  BY <1>1 DEF CleanUp, CleanUpFails, CleanUpTimesOut
<1>2. CASE Release \/ Interrupt \/ Kill \/ UNCHANGED vars
  BY <1>2 DEF Release, Interrupt, Kill, vars
<1>. QED
  BY <1>1, <1>2

-----------------------------------------------------------------------------
(* What is known at each point of a run                                    *)

(* The part of Measured that is about the agent. *)
ArmMeasured ==
    /\ Gated => HasAgent
    /\ HasAgent =>
         /\ agent # None
         /\ agent.exit = "clean" /\ agent.isolated /\ ~agent.misconfigured
         /\ Gated => denied
         /\ config.mode \in MCPModes \ {"hybrid"} => agent.mcp
         /\ config.mode = "cli" => agent.sgx
         /\ config.mode \in FinderModes => agent.contract
         /\ ~Contaminated(agent)

LEMMA MeasuredIs ==
    Measured <=> /\ ArmMeasured
                 /\ scoring.seal = "held" /\ scoring.verifiers = "sound"
                 /\ config.curator => scoring.judge = "sound"
BY DEF Measured, ArmMeasured

(* Before the agent nothing is known of the run, and what comes behind the *)
(* gate has no source to read.                                             *)
Fresh ==
    pc \in StageSet =>
        /\ result.status = "" /\ result.class = None /\ result.phase = ""
        /\ ~result.success
        /\ agent = None /\ scoring = Unasked
        /\ pc \in {"proof", "agent"} /\ HasAgent /\ Gated => denied

(* Until it is saved a run has no record, and it is classified exactly     *)
(* when it is flagged.                                                     *)
Unsaved ==
    /\ pc \in StageSet \cup Working => ~handling /\ disk = None /\ receipts = <<>>
    /\ pc \in Working =>
         /\ ~result.success /\ result.phase \in {""} \cup NonCompletePhases
         /\ result.status = "" <=> result.class = None
         /\ result.status = "" <=> result.phase = ""

(* What the routes and the scorers have established of an unflagged run.   *)
Established ==
    /\ pc \in {"telemetry", "routes"} =>
         /\ HasAgent /\ agent \in AgentRuns /\ (Gated => denied)
         /\ result.status = "" => agent.exit = "clean"
         /\ pc = "routes" /\ result.status = "" => agent.isolated
    /\ pc \in Working \ {"telemetry", "routes"} /\ result.status = "" => ArmMeasured
    /\ pc \in {"telemetry", "routes", "seal"} => scoring = Unasked
    /\ pc \in {"reap", "verifiers"} => scoring.seal = "held"
    /\ pc = "judge" =>
         scoring.seal = "held" /\ (result.status = "" => scoring.verifiers = "sound")
    /\ pc = "conclude" /\ result.status = "" =>
         /\ scoring.seal = "held" /\ scoring.verifiers = "sound"
         /\ config.curator => scoring.judge = "sound"

Course == Fresh /\ Unsaved /\ Established

LEMMA PreparingKeepsCourse ==
    ASSUME TypeInv, Course,
           Prepare \/ SetUp \/ StageLogin \/ DenySource
    PROVE  Course'
<1>1. PICK s \in Preparing : Pass(s) /\ (s = "gate" => DenySource \/ ~Applies("gate"))
  BY DEF Prepare, SetUp, StageLogin, DenySource, Preparing
<1>2. /\ pc = s /\ pc' = Following(s)
      /\ UNCHANGED <<config, handling, result, agent, scoring, disk, receipts>>
  BY <1>1 DEF Pass, Goto
<1>3. /\ pc' \in StageSet /\ pc \in StageSet /\ pc' \notin Working
      /\ pc' = "proof" => pc = "gate" /\ (DenySource \/ ~Applies("gate"))
      /\ pc' = "agent" => pc = "proof"
  BY <1>1, <1>2, FollowingIs DEF StageSet, Preparing, Working
<1>4. denied => denied'
  BY DEF Prepare, SetUp, StageLogin, DenySource, Unprovisioned
<1>5. pc' \in {"proof", "agent"} /\ HasAgent /\ Gated => denied'
  BY <1>3, <1>4 DEF Course, Fresh, DenySource, Applies
<1>. QED
  BY <1>2, <1>3, <1>5 DEF Course, Fresh, Unsaved, Established, HasAgent, Gated, Working

(* A run that a route leaves unflagged is left as it was; the others are   *)
(* invalid, with a class.                                                  *)
FlaggedResult(r) ==
    r.status = "invalid" /\ r.class # None /\ r.phase \in NonCompletePhases /\ ~r.success

LEMMA FlaggedFacts ==
    ASSUME NEW r \in Results, NEW class \in Causes
    PROVE  /\ FlaggedResult(Flagged(r, class)) /\ Flagged(r, class).class = class
           /\ FlaggedResult(FlaggedAs(r, class))
           /\ FlaggedAs(r, class).class = IF r.class = None THEN class ELSE r.class
<1>1. \A c : /\ Flagged(r, c).status = "invalid" /\ Flagged(r, c).class = c
             /\ Flagged(r, c).phase = "agent_infra_error" /\ ~Flagged(r, c).success
  BY DEF Flagged, Results
<1>. QED
  BY <1>1, TokensAssumption DEF FlaggedAs, FlaggedResult, NonCompletePhases

LEMMA RouteFacts ==
    ASSUME NEW r \in Results, NEW a \in AgentRuns
    PROVE  /\ \/ FlaggedResult(RoutedAgentExit(r, a))
              \/ RoutedAgentExit(r, a) = r /\ a.exit = "clean"
           /\ \/ FlaggedResult(RoutedCacheIsolation(r, a)) /\ r.status = ""
              \/ RoutedCacheIsolation(r, a) = r /\ (r.status # "" \/ a.isolated)
           /\ \/ FlaggedResult(RoutedZeroMCP(r, a))
              \/ /\ RoutedZeroMCP(r, a) = r
                 /\ config.mode \in MCPModes \ {"hybrid"} => a.mcp
           /\ \/ FlaggedResult(RoutedCodeFinder(r, a)) /\ r.class = None
              \/ /\ RoutedCodeFinder(r, a) = r
                 /\ r.class = None =>
                      ~Contaminated(a) /\ (config.mode \in FinderModes => a.contract)
           /\ \/ FlaggedResult(RoutedZeroSgx(r, a))
              \/ RoutedZeroSgx(r, a) = r /\ (config.mode = "cli" => a.sgx)
<1>. USE FlaggedFacts
<1>1. \/ FlaggedResult(RoutedAgentExit(r, a))
      \/ RoutedAgentExit(r, a) = r /\ a.exit = "clean"
  <2>1. a.exit \in Exits
    BY DEF AgentRuns
  <2>2. /\ ExitClass["oom"] = "infra_oom" /\ ExitClass["timeout"] = "infra_timeout"
        /\ ExitClass["crash"] = "agent_error"
    BY DEF ExitClass
  <2>3. a.exit \notin {"clean", "rate limit"} => ExitClass[a.exit] \in Causes
    BY <2>1, <2>2 DEF Exits, Causes
  <2>4. "infra_rate_limit" \in Causes
    BY DEF Causes
  <2>. QED
    BY <2>3, <2>4 DEF RoutedAgentExit
<1>2. \/ FlaggedResult(RoutedCacheIsolation(r, a)) /\ r.status = ""
      \/ RoutedCacheIsolation(r, a) = r /\ (r.status # "" \/ a.isolated)
  BY DEF RoutedCacheIsolation, Causes
<1>3. \/ FlaggedResult(RoutedZeroMCP(r, a))
      \/ RoutedZeroMCP(r, a) = r /\ (config.mode \in MCPModes \ {"hybrid"} => a.mcp)
  BY DEF RoutedZeroMCP, Causes
<1>4. \/ FlaggedResult(RoutedCodeFinder(r, a)) /\ r.class = None
      \/ /\ RoutedCodeFinder(r, a) = r
         /\ r.class = None =>
              ~Contaminated(a) /\ (config.mode \in FinderModes => a.contract)
  BY DEF RoutedCodeFinder, Causes
<1>5. \/ FlaggedResult(RoutedZeroSgx(r, a))
      \/ RoutedZeroSgx(r, a) = r /\ (config.mode = "cli" => a.sgx)
  BY DEF RoutedZeroSgx, Causes
<1>. QED
  BY <1>1, <1>2, <1>3, <1>4, <1>5

(* The routes after the agent, taken together. *)
ArmRoutes(r, a) ==
    RoutedZeroSgx(RoutedCodeFinder(RoutedZeroMCP(RoutedConfigError(r, a), a), a), a)

LEMMA ArmRoutesFacts ==
    ASSUME NEW r \in Results, NEW a \in AgentRuns,
           FlaggedResult(r) \/ (r.status = "" /\ r.class = None /\ r.phase = "" /\ ~r.success)
    PROVE  \/ FlaggedResult(ArmRoutes(r, a))
           \/ /\ ArmRoutes(r, a) = r /\ r.status = "" /\ ~a.misconfigured
              /\ config.mode \in MCPModes \ {"hybrid"} => a.mcp
              /\ config.mode = "cli" => a.sgx
              /\ config.mode \in FinderModes => a.contract
              /\ ~Contaminated(a)
<1>. DEFINE r1 == RoutedConfigError(r, a)
            r2 == RoutedZeroMCP(r1, a)
            r3 == RoutedCodeFinder(r2, a)
            r4 == RoutedZeroSgx(r3, a)
<1>1. r1 \in Results /\ (FlaggedResult(r1) \/ (r1 = r /\ ~a.misconfigured))
  <2>1. a.misconfigured => FlaggedResult(r1)
    BY TokensAssumption DEF RoutedConfigError, FlaggedResult, Results, NonCompletePhases, Causes
  <2>2. ~a.misconfigured => r1 = r
    BY DEF RoutedConfigError
  <2>. QED
    BY <2>1, <2>2, RoutedTypes
<1>2. r2 \in Results /\ r3 \in Results
  BY <1>1, RoutedTypes
<1>. HIDE DEF r1, r2, r3, r4
<1>3. \/ FlaggedResult(r2)
      \/ r2 = r1 /\ (config.mode \in MCPModes \ {"hybrid"} => a.mcp)
  BY <1>1, RouteFacts DEF r2
<1>4. \/ FlaggedResult(r3)
      \/ /\ r3 = r2
         /\ r2.class = None =>
              ~Contaminated(a) /\ (config.mode \in FinderModes => a.contract)
  BY <1>2, RouteFacts DEF r3
<1>5. \/ FlaggedResult(r4)
      \/ r4 = r3 /\ (config.mode = "cli" => a.sgx)
  BY <1>2, RouteFacts DEF r4
<1>6. r4 = ArmRoutes(r, a)
  BY DEF ArmRoutes, r1, r2, r3, r4
<1>. QED
  BY <1>1, <1>3, <1>4, <1>5, <1>6 DEF FlaggedResult

LEMMA RoutingKeepsCourse ==
    ASSUME TypeInv, Course,
           \/ RunAgent \/ CleanupAfterAgentFails \/ NoAgent \/ RouteTelemetry \/ RouteArm
    PROVE  Course'
<1>. USE DEF Course, Goto, AgentFrame, Working, StageSet, Preparing
<1>1. CASE RunAgent
  <2>1. /\ pc = "agent" /\ pc' = "telemetry" /\ HasAgent /\ agent' \in AgentRuns
        /\ result' = RoutedAgentExit(result, agent')
        /\ UNCHANGED <<handling, config, denied, scoring, container, disk, receipts>>
    BY <1>1 DEF RunAgent
  <2>2. \/ FlaggedResult(result')
        \/ result' = result /\ agent'.exit = "clean"
    BY <2>1, RouteFacts DEF TypeInv
  <2>3. Fresh' /\ Unsaved'
    BY <2>1, <2>2, TokensAssumption
       DEF Fresh, Unsaved, FlaggedResult, NonCompletePhases, UntrustedScorePhases
  <2>4. Established'
    BY <2>1, <2>2 DEF Fresh, Unsaved, Established, FlaggedResult, HasAgent, Gated
  <2>. QED
    BY <2>3, <2>4
<1>2. CASE CleanupAfterAgentFails
  <2>1. pc' = "save"
    BY <1>2 DEF CleanupAfterAgentFails
  <2>. QED
    BY <2>1 DEF Fresh, Unsaved, Established
<1>3. CASE NoAgent
  <2>1. CASE Gated
    <3>1. pc' = "save"
      BY <1>3, <2>1 DEF NoAgent
    <3>. QED
      BY <3>1 DEF Fresh, Unsaved, Established
  <2>2. CASE ~Gated
    <3>1. /\ pc = "agent" /\ pc' = "seal" /\ ~HasAgent
          /\ UNCHANGED <<result, handling, agent, config, denied, scoring, disk, receipts>>
      BY <1>3, <2>2 DEF NoAgent
    <3>2. ArmMeasured'
      BY <2>2, <3>1 DEF ArmMeasured, HasAgent, Gated
    <3>. QED
      BY <3>1, <3>2 DEF Fresh, Unsaved, Established
  <2>. QED
    BY <2>1, <2>2
<1>4. CASE RouteTelemetry
  <2>1. /\ pc = "telemetry" /\ pc' = "routes"
        /\ result' = RoutedCacheIsolation(result, agent)
        /\ UNCHANGED <<handling, agent, config, denied, scoring, disk, receipts>>
    BY <1>4 DEF RouteTelemetry
  <2>2. \/ FlaggedResult(result')
        \/ result' = result /\ (result.status # "" \/ agent.isolated)
    BY <2>1, RouteFacts DEF TypeInv, Established
  <2>3. Fresh' /\ Unsaved'
    BY <2>1, <2>2, TokensAssumption
       DEF Fresh, Unsaved, FlaggedResult, NonCompletePhases, UntrustedScorePhases
  <2>4. Established'
    BY <2>1, <2>2 DEF Unsaved, Established, FlaggedResult, HasAgent, Gated
  <2>. QED
    BY <2>3, <2>4
<1>5. CASE RouteArm
  <2>1. /\ pc = "routes" /\ pc' = "seal" /\ result' = ArmRoutes(result, agent)
        /\ UNCHANGED <<handling, agent, config, denied, scoring, disk, receipts>>
    BY <1>5 DEF RouteArm, ArmRoutes
  <2>2. /\ HasAgent /\ agent \in AgentRuns /\ (Gated => denied) /\ scoring = Unasked
        /\ result.status = "" => agent.exit = "clean" /\ agent.isolated
    BY <2>1 DEF Established
  <2>3. FlaggedResult(result)
          \/ (result.status = "" /\ result.class = None /\ result.phase = "" /\ ~result.success)
    <3>1. result.status \in {"", "invalid"}
      BY DEF TypeInv, Results, Statuses
    <3>. QED
      BY <2>1, <3>1 DEF Unsaved, FlaggedResult, TypeInv, Results
  <2>4. \/ FlaggedResult(result')
        \/ /\ result' = result /\ result.status = "" /\ ~agent.misconfigured
           /\ config.mode \in MCPModes \ {"hybrid"} => agent.mcp
           /\ config.mode = "cli" => agent.sgx
           /\ config.mode \in FinderModes => agent.contract
           /\ ~Contaminated(agent)
    BY <2>1, <2>2, <2>3, ArmRoutesFacts DEF TypeInv
  <2>5. result'.status = "" => ArmMeasured'
    <3>1. agent # None
      BY <2>2, TokensAssumption
    <3>. QED
      BY <2>1, <2>2, <2>4, <3>1
         DEF ArmMeasured, FlaggedResult, HasAgent, Gated, Contaminated
  <2>6. Fresh' /\ Unsaved'
    BY <2>1, <2>3, <2>4, TokensAssumption
       DEF Fresh, Unsaved, FlaggedResult, NonCompletePhases, UntrustedScorePhases
  <2>. QED
    BY <2>1, <2>2, <2>5, <2>6 DEF Established
<1>. QED
  BY <1>1, <1>2, <1>3, <1>4, <1>5

(* The scorers. *)
LEMMA ScorerFacts ==
    ASSUME NEW r \in Results
    PROVE  /\ RoutedVerifierError(r).status = "invalid"
           /\ RoutedVerifierError(r).class # None
           /\ RoutedVerifierError(r).phase \in NonCompletePhases
           /\ ~RoutedVerifierError(r).success
           /\ RoutedIntegrityViolation(r).status = "invalid"
           /\ RoutedIntegrityViolation(r).class = "integrity_violation"
           /\ RoutedIntegrityViolation(r).phase = "integrity_violation"
           /\ ~RoutedIntegrityViolation(r).success
BY TokensAssumption
   DEF RoutedVerifierError, RoutedIntegrityViolation, Results, NonCompletePhases,
       UntrustedScorePhases, Causes

LEMMA ScoringKeepsCourse ==
    ASSUME TypeInv, Course,
           FindSealBroken \/ FindSealHeld \/ Reap \/ Verify \/ Judge \/ Conclude
    PROVE  Course'
<1>. USE DEF Course, Goto, ScoringFrame
<1>1. UNCHANGED <<config, handling, agent, denied, disk, receipts>>
  BY DEF FindSealBroken, FindSealHeld, Reap, Verify, Judge, Conclude
<1>2. UNCHANGED ArmMeasured
  BY <1>1 DEF ArmMeasured, HasAgent, Gated, Contaminated
<1>3. pc' \notin StageSet
  BY DEF FindSealBroken, FindSealHeld, Reap, Verify, Judge, Conclude, StageSet, Preparing
<1>4. \/ result' = result
      \/ FlaggedResult(result')
      \/ pc' = "save"
  <2>1. FlaggedResult(RoutedVerifierError(result)) /\ FlaggedResult(RoutedIntegrityViolation(result))
    BY ScorerFacts, TokensAssumption
       DEF TypeInv, FlaggedResult, NonCompletePhases, UntrustedScorePhases, Causes
  <2>. QED
    BY <2>1 DEF FindSealBroken, FindSealHeld, Reap, Verify, Judge, Conclude
<1>5. pc \in Working
  BY DEF FindSealBroken, FindSealHeld, Reap, Verify, Judge, Conclude, Working
<1>6. Fresh' /\ Unsaved'
  BY <1>1, <1>3, <1>4, <1>5
     DEF Fresh, Unsaved, FlaggedResult, NonCompletePhases, UntrustedScorePhases, Working
<1>7. pc' \in Working => ArmMeasured' \/ result'.status # ""
  BY <1>2, <1>4, <1>5
     DEF Established, FlaggedResult, FindSealBroken, FindSealHeld, Reap, Verify, Judge,
         Conclude, Working
<1>8. CASE FindSealBroken
  <2>1. result'.status = "invalid" /\ pc' = "conclude"
    BY <1>8, ScorerFacts DEF FindSealBroken, TypeInv
  <2>. QED
    BY <1>6, <2>1 DEF Established
<1>9. CASE FindSealHeld \/ Reap
  <2>1. /\ pc' \in {"reap", "verifiers"} /\ scoring'.seal = "held"
    BY <1>9 DEF FindSealHeld, Reap, Asked, TypeInv, Established
  <2>. QED
    BY <1>6, <1>7, <2>1 DEF Established, Working
<1>10. CASE Verify
  <2>1. PICK answer \in {"sound", "infra"} :
           /\ scoring' = [scoring EXCEPT !["verifiers"] = answer]
           /\ result' = IF answer = "infra" THEN RoutedVerifierError(result) ELSE result
    BY <1>10 DEF Verify, Asked
  <2>2. /\ scoring'.seal = "held" /\ scoring'.verifiers = answer
        /\ result'.status = "" => answer = "sound"
    BY <1>10, <2>1, ScorerFacts DEF Verify, TypeInv, Established
  <2>3. /\ pc' \in {"judge", "conclude"}
        /\ pc' = "conclude" /\ config.curator => result'.phase \in UntrustedScorePhases
    BY <1>10 DEF Verify
  <2>4. pc' = "conclude" /\ result'.status = "" => ~config.curator
    BY <1>6, <2>3 DEF Unsaved, Working, UntrustedScorePhases
  <2>. QED
    BY <1>1, <1>6, <1>7, <2>2, <2>3, <2>4 DEF Established, Working
<1>11. CASE Judge
  <2>1. PICK answer \in {"sound", "infra"} :
           /\ scoring' = [scoring EXCEPT !["judge"] = answer]
           /\ result' = IF answer = "infra" \/ scoring.verifiers = "infra"
                          THEN RoutedVerifierError(result) ELSE result
    BY <1>11 DEF Judge, Asked
  <2>2. /\ scoring'.seal = "held" /\ scoring'.verifiers = scoring.verifiers
        /\ scoring'.judge = answer /\ pc = "judge" /\ pc' = "conclude"
    BY <1>11, <2>1 DEF Judge, TypeInv, Established
  <2>3. result'.status = "" => /\ answer = "sound" /\ scoring.verifiers = "sound"
    BY <2>1, <2>2, ScorerFacts DEF TypeInv, Established
  <2>. QED
    BY <1>6, <1>7, <2>2, <2>3 DEF Established, Working
<1>12. CASE Conclude
  <2>1. pc' = "save"
    BY <1>12 DEF Conclude
  <2>. QED
    BY <1>6, <2>1 DEF Established, Working
<1>. QED
  BY <1>8, <1>9, <1>10, <1>11, <1>12

(* Nothing returns from the saving, the handler and the finally clause.    *)
LEMMA OthersKeepCourse ==
    ASSUME TypeInv, Course,
           \/ DryRun \/ Refuse \/ Raise \/ WriteResults \/ SaveFails \/ Emit \/ EmitFails
           \/ EmitFailsLate \/ CleanUp \/ CleanUpFails \/ CleanUpTimesOut \/ Release
           \/ Interrupt \/ Kill
    PROVE  Course'
<1>1. pc' \in {"save", "emit", "cleanup", "release"} \cup Ended
  BY DEF DryRun, Refuse, Raise, WriteResults, SaveFails, SaveRaises, Emit, EmitFails,
     EmitFailsLate, CleanUp, CleanUpFails, CleanUpTimesOut, Release, StopAndRemove, Interrupt,
     Kill, Goto, Ended
<1>2. pc' \notin StageSet \cup Working
  BY <1>1 DEF StageSet, Preparing, Working, Ended
<1>3. pc' \notin {"telemetry", "routes", "seal", "reap", "verifiers", "judge", "conclude"}
  BY <1>2 DEF Working
<1>. QED
  BY <1>2, <1>3 DEF Course, Fresh, Unsaved, Established

LEMMA NextKeepsTypes == TypeInv /\ Course /\ (disk \in Records \/ pc # "emit") /\ [Next]_vars => TypeInv'
<1>. SUFFICES ASSUME TypeInv, Course, disk \in Records \/ pc # "emit", [Next]_vars
              PROVE  TypeInv'
  OBVIOUS
<1>1. agent \in AgentRuns \/ pc \notin {"telemetry", "routes"}
  BY DEF Course, Established
<1>. QED
  BY <1>1, PreparingKeepsTypes, RoutingKeepsTypes, ScoringKeepsTypes, SavingKeepsTypes,
     ClosingKeepsTypes DEF Next

LEMMA NextKeepsCourse == TypeInv /\ Course /\ [Next]_vars => Course'
<1>. SUFFICES ASSUME TypeInv, Course, [Next]_vars PROVE Course'
  OBVIOUS
<1>1. CASE UNCHANGED vars
  <2>1. UNCHANGED <<HasAgent, Gated, ArmMeasured>>
    BY <1>1 DEF vars, HasAgent, Gated, ArmMeasured, Contaminated
  <2>. QED
    BY <1>1, <2>1 DEF vars, Course, Fresh, Unsaved, Established
<1>. QED
  BY <1>1, PreparingKeepsCourse, RoutingKeepsCourse, ScoringKeepsCourse, OthersKeepCourse
     DEF Next

-----------------------------------------------------------------------------
(* The record                                                              *)

(* What is about to be saved, what was saved before and what the log says  *)
(* agree on whether the run counts, and it counts only when it is measured.*)
Recorded ==
    /\ result.phase = "complete" => result.success
    /\ scoring.seal = "broken" =>
         result.class = "integrity_violation" /\ result.status = "invalid"
    /\ pc = "emit" => disk = Record(result)
    /\ pc \in {"save", "emit"} =>
         /\ EffectiveStatus(result) = "" => Measured
         /\ Readable(disk) => disk.status = EffectiveStatus(result)
    /\ Readable(disk) =>
         /\ disk.status = "" => Measured
         /\ scoring.seal = "broken" =>
              disk.class = "integrity_violation" /\ disk.status = "invalid"
    /\ ValidReceipt => Measured

(* The seal is asked once, after the agent, and only a run whose seal is   *)
(* broken goes on with the answer.                                         *)
LEMMA SealAsked ==
    ASSUME Course
    PROVE  pc \in StageSet \cup Working /\ scoring.seal = "broken" => pc = "conclude"
<1>1. Unasked.seal = "unasked"
  BY DEF Unasked
<1>. QED
  BY <1>1 DEF Course, Fresh, Established, Working

LEMMA RecordFacts ==
    ASSUME result \in Results
    PROVE  /\ Record(result).status = EffectiveStatus(result)
           /\ Record(result).class = result.class
           /\ \A timeout \in BOOLEAN :
                /\ Errored(timeout).status = result.status
                /\ Errored(timeout).success = result.success
                /\ Errored(timeout).phase = "error"
                /\ Errored(FALSE).class = result.class
BY DEF Record, Errored, Results

(* An error in the saving changes neither the verdict nor the class.       *)
LEMMA SaveRaisesFacts ==
    ASSUME TypeInv, Recorded, SaveRaises
    PROVE  /\ EffectiveStatus(result') = EffectiveStatus(result)
           /\ result'.class = result.class /\ result'.status = result.status
           /\ result'.phase = "complete" => result'.success
           /\ pc' \in {"save", "cleanup"}
<1>1. result' = result \/ result' = Errored(FALSE)
  BY DEF SaveRaises
<1>2. result \in Results
  BY DEF TypeInv
<1>. QED
  BY <1>1, <1>2, RecordFacts DEF SaveRaises, Goto, Recorded, EffectiveStatus

(* A run that has no record yet keeps the rest as long as what it goes to  *)
(* save is flagged, or is measured.                                        *)
LEMMA UnsavedKeepsRecorded ==
    ASSUME Course, pc \in StageSet \cup Working, UNCHANGED <<disk, receipts>>,
           result'.phase = "complete" => result'.success,
           scoring'.seal = "broken" =>
             result'.class = "integrity_violation" /\ result'.status = "invalid",
           pc' # "emit",
           pc' = "save" /\ EffectiveStatus(result') = "" => Measured'
    PROVE  Recorded'
<1>1. disk' = None /\ receipts' = <<>>
  BY DEF Course, Unsaved
<1>. QED
  BY <1>1 DEF Recorded, Readable, ValidReceipt

LEMMA BodyKeepsRecorded ==
    ASSUME TypeInv, Course, Recorded,
           \/ Prepare \/ SetUp \/ StageLogin \/ DenySource \/ DryRun \/ Refuse
           \/ RunAgent \/ CleanupAfterAgentFails \/ NoAgent \/ RouteTelemetry \/ RouteArm
    PROVE  Recorded'
<1>. USE DEF Goto
<1>1. CASE Prepare \/ SetUp \/ StageLogin \/ DenySource
  <2>1. PICK s \in Preparing : Pass(s)
    BY <1>1 DEF Prepare, SetUp, StageLogin, DenySource, Preparing
  <2>2. pc \in StageSet /\ pc' \in StageSet
    BY <2>1, FollowingIs DEF Pass, StageSet
  <2>3. pc' \notin {"emit", "save"}
    BY <2>2 DEF StageSet, Preparing
  <2>. QED
    BY <2>1, <2>2, <2>3, UnsavedKeepsRecorded DEF Pass, Recorded
<1>2. CASE DryRun
  <2>1. result'.phase = "dry_run_complete" /\ pc \in StageSet /\ scoring = Unasked
    BY <1>2 DEF DryRun, TypeInv, Results, Course, Fresh, StageSet, Preparing
  <2>2. scoring'.seal # "broken"
    BY <1>2, <2>1 DEF DryRun, Unasked
  <2>. QED
    BY <1>2, <2>1, <2>2, UnsavedKeepsRecorded DEF DryRun
<1>3. CASE Refuse \/ (NoAgent /\ Gated)
  <2>1. pc \in StageSet /\ pc' = "save" /\ UNCHANGED <<disk, receipts, scoring>>
    BY <1>3, Places DEF Refuse, NoAgent, AgentFrame, StageSet
  <2>2. \E class : result' = Refused(class)
    BY <1>3 DEF Refuse, NoAgent
  <2>3. result'.phase = "refused" /\ ~result'.success
    BY <2>1, <2>2 DEF Refused, TypeInv, Results, Course, Fresh
  <2>4. scoring'.seal # "broken"
    <3>1. Unasked.seal = "unasked"
      BY DEF Unasked
    <3>. QED
      BY <2>1, <3>1 DEF Course, Fresh
  <2>5. EffectiveStatus(result') # ""
    BY <2>3 DEF EffectiveStatus
  <2>. QED
    BY <2>1, <2>3, <2>4, <2>5, UnsavedKeepsRecorded
<1>4. CASE CleanupAfterAgentFails
  <2>1. pc \in StageSet /\ pc' = "save" /\ UNCHANGED <<disk, receipts, scoring>>
    BY <1>4 DEF CleanupAfterAgentFails, AgentFrame, StageSet
  <2>2. result'.phase = "error" /\ ~result'.success
    BY <1>4, <2>1, RecordFacts DEF CleanupAfterAgentFails, TypeInv, Course, Fresh
  <2>3. scoring'.seal # "broken"
    <3>1. Unasked.seal = "unasked"
      BY DEF Unasked
    <3>. QED
      BY <2>1, <3>1 DEF Course, Fresh
  <2>4. EffectiveStatus(result') # ""
    BY <2>2 DEF EffectiveStatus
  <2>. QED
    BY <2>1, <2>2, <2>3, <2>4, UnsavedKeepsRecorded
<1>5. CASE RunAgent \/ (NoAgent /\ ~Gated) \/ RouteTelemetry \/ RouteArm
  <2>1. /\ pc \in StageSet \cup Working /\ pc' \in Working
        /\ UNCHANGED <<disk, receipts, scoring>> /\ scoring = Unasked
    BY <1>5 DEF RunAgent, NoAgent, RouteTelemetry, RouteArm, AgentFrame, StageSet, Working,
       Course, Fresh, Established
  <2>2. Unsaved'
    BY <1>5, RoutingKeepsCourse DEF Course
  <2>3. result'.phase # "complete" /\ pc' \notin {"save", "emit"}
    BY <2>1, <2>2 DEF Unsaved, Working, NonCompletePhases, UntrustedScorePhases
  <2>4. scoring'.seal # "broken"
    BY <2>1 DEF Unasked
  <2>. QED
    BY <2>1, <2>3, <2>4, UnsavedKeepsRecorded
<1>. QED
  BY <1>1, <1>2, <1>3, <1>4, <1>5

LEMMA ScoringKeepsRecorded ==
    ASSUME TypeInv, Course, Recorded,
           FindSealBroken \/ FindSealHeld \/ Reap \/ Verify \/ Judge \/ Conclude
    PROVE  Recorded'
<1>. USE DEF Goto, ScoringFrame
<1>1. pc \in StageSet \cup Working /\ UNCHANGED <<disk, receipts, config, agent, denied>>
  BY DEF FindSealBroken, FindSealHeld, Reap, Verify, Judge, Conclude, Working
<1>2. CASE FindSealBroken
  <2>1. /\ result'.class = "integrity_violation" /\ result'.status = "invalid"
        /\ result'.phase = "integrity_violation" /\ pc' = "conclude"
    BY <1>2, ScorerFacts DEF FindSealBroken, TypeInv
  <2>. QED
    BY <1>1, <2>1, UnsavedKeepsRecorded
<1>3. CASE FindSealHeld \/ Reap \/ Verify \/ Judge
  <2>1. pc' \in Working /\ pc' # "save" /\ pc' # "emit"
    BY <1>3 DEF FindSealHeld, Reap, Verify, Judge, Working
  <2>2. Unsaved' /\ Established'
    BY <1>3, ScoringKeepsCourse DEF Course
  <2>3. result'.phase # "complete"
    BY <2>1, <2>2 DEF Unsaved, NonCompletePhases, UntrustedScorePhases
  <2>4. scoring'.seal = "held"
    BY <1>3 DEF FindSealHeld, Reap, Verify, Judge, Asked, TypeInv, Course, Established
  <2>. QED
    BY <1>1, <2>1, <2>3, <2>4, UnsavedKeepsRecorded
<1>4. CASE Conclude
  <2>1. /\ pc = "conclude" /\ pc' = "save" /\ UNCHANGED scoring
        /\ result'.status = result.status /\ result'.class = result.class
        /\ result'.phase = "complete" => result'.success
        /\ result'.success => result'.phase = "complete"
    BY <1>4 DEF Conclude, TypeInv, Results, NonCompletePhases, UntrustedScorePhases, Course,
       Unsaved, Working
  <2>2. EffectiveStatus(result') = "" => result.status = ""
    BY <2>1 DEF EffectiveStatus
  <2>3. result.status = "" => Measured
    BY <2>1, MeasuredIs DEF Course, Established, Working
  <2>4. Measured <=> Measured'
    BY <1>1, <2>1 DEF Measured, Gated, HasAgent, Contaminated
  <2>. QED
    BY <1>1, <2>1, <2>2, <2>3, <2>4, UnsavedKeepsRecorded DEF Recorded
<1>. QED
  BY <1>2, <1>3, <1>4

LEMMA RaiseKeepsRecorded ==
    ASSUME TypeInv, Course, Recorded, Raise
    PROVE  Recorded'
<1>1. /\ pc \in StageSet \cup Working /\ pc' \in {"cleanup", "save"}
      /\ UNCHANGED <<disk, receipts, scoring>>
  BY Places DEF Raise, Goto
<1>2. PICK timeout \in BOOLEAN :
         result' = Errored(timeout) /\ (timeout => pc \in Timed \cup {"agent"})
  BY DEF Raise
<1>3. ~result.success
  BY <1>1 DEF Course, Fresh, Unsaved
<1>4. result'.phase = "error" /\ ~result'.success /\ result'.status = result.status
  BY <1>2, <1>3, RecordFacts DEF TypeInv
<1>5. EffectiveStatus(result') # ""
  BY <1>4 DEF EffectiveStatus
<1>6. scoring'.seal = "broken" =>
        result'.class = "integrity_violation" /\ result'.status = "invalid"
  <2>1. scoring.seal = "broken" => ~timeout
    BY <1>1, <1>2, SealAsked DEF Timed
  <2>. QED
    BY <1>1, <1>2, <1>4, <2>1, RecordFacts DEF Recorded, TypeInv
<1>. QED
  BY <1>1, <1>4, <1>5, <1>6, UnsavedKeepsRecorded

LEMMA SavingKeepsRecorded ==
    ASSUME TypeInv, Recorded,
           WriteResults \/ SaveFails \/ Emit \/ EmitFails \/ EmitFailsLate
    PROVE  Recorded'
<1>. USE DEF Goto, SavingFrame
<1>1. UNCHANGED <<config, agent, denied, scoring>> /\ UNCHANGED Measured
  <2>1. UNCHANGED <<config, agent, denied, scoring>>
    BY DEF WriteResults, SaveFails, Emit, EmitFails, EmitFailsLate
  <2>2. UNCHANGED Measured
    BY <2>1 DEF Measured, Gated, HasAgent, Contaminated
  <2>. QED
    BY <2>1, <2>2
<1>2. /\ Record(result) \in Records /\ Record(result).status = EffectiveStatus(result)
      /\ Record(result).class = result.class
      /\ EffectiveStatus(result) = "" => Measured
      /\ result.status = "invalid" => EffectiveStatus(result) = "invalid"
      /\ Readable(Record(result))
  BY RecordFacts, RefusalTypes, TokensAssumption
     DEF TypeInv, Recorded, WriteResults, SaveFails, Emit, EmitFails, EmitFailsLate,
         EffectiveStatus, Readable
<1>3. CASE WriteResults
  <2>1. disk' = Record(result) /\ pc' \in {"emit", "cleanup"} /\ UNCHANGED <<result, receipts>>
    BY <1>3 DEF WriteResults
  <2>. QED
    BY <1>1, <1>2, <2>1 DEF Recorded, ValidReceipt
<1>4. CASE SaveFails
  <2>1. disk' \in {disk, Torn, Record(result)} /\ UNCHANGED receipts /\ SaveRaises /\ pc = "save"
    BY <1>4 DEF SaveFails
  <2>. QED
    BY <1>1, <1>2, <2>1, SaveRaisesFacts DEF Recorded, ValidReceipt, Readable
<1>5. ASSUME pc = "emit", NEW status \in ReceiptStatuses(disk), AppendReceipt(status)
      PROVE  ValidReceipt' => Measured
  <2>1. disk = Record(result) /\ receipts' = <<[status |-> status, of |-> disk]>>
    BY <1>5 DEF Recorded, AppendReceipt
  <2>2. ValidReceipt' => status = "valid"
    BY <2>1 DEF ValidReceipt
  <2>3. status = "valid" => disk.status = ""
    BY <1>5 DEF ReceiptStatuses
  <2>. QED
    BY <1>2, <2>1, <2>2, <2>3
<1>6. CASE Emit
  <2>1. pc = "emit" /\ pc' = "cleanup" /\ UNCHANGED disk /\ (ValidReceipt' => Measured)
    BY <1>5, <1>6 DEF Emit
  <2>2. /\ result'.phase = result.phase /\ result'.success = result.success
        /\ result'.class = result.class /\ result'.status = result.status
    BY <1>6 DEF Emit, TypeInv, Results
  <2>. QED
    BY <1>1, <2>1, <2>2 DEF Recorded
<1>7. CASE EmitFails \/ EmitFailsLate
  <2>1. pc = "emit" /\ SaveRaises /\ UNCHANGED disk
    BY <1>7 DEF EmitFails, EmitFailsLate
  <2>2. ValidReceipt' => Measured
    BY <1>5, <1>7 DEF EmitFails, EmitFailsLate, Recorded, ValidReceipt
  <2>. QED
    BY <1>1, <2>1, <2>2, SaveRaisesFacts DEF Recorded
<1>. QED
  BY <1>3, <1>4, <1>6, <1>7

LEMMA ClosingKeepsRecorded ==
    ASSUME Recorded,
           \/ CleanUp \/ CleanUpFails \/ CleanUpTimesOut \/ Release \/ Interrupt \/ Kill
           \/ UNCHANGED vars
    PROVE  Recorded'
<1>1. UNCHANGED <<config, result, agent, denied, scoring, disk, receipts>>
  BY DEF CleanUp, CleanUpFails, CleanUpTimesOut, Release, Interrupt, Kill, CleanupFrame, vars
<1>2. pc' = pc \/ pc' \notin {"save", "emit"}
  BY DEF CleanUp, CleanUpFails, CleanUpTimesOut, Release, Interrupt, Kill, StopAndRemove, Goto,
     vars
<1>3. UNCHANGED Measured
  BY <1>1 DEF Measured, Gated, HasAgent, Contaminated
<1>. QED
  BY <1>1, <1>2, <1>3 DEF Recorded, ValidReceipt

RunInv == TypeInv /\ Course /\ Recorded

LEMMA SpecRunInv == Spec => []RunInv
<1>1. Init => RunInv
  <2>1. Init => Course
    <3>. SUFFICES ASSUME Init PROVE Course
      OBVIOUS
    <3>1. pc = "parse" /\ pc \notin Working
      BY DEF Init, Working
    <3>2. Fresh
      BY <3>1 DEF Init, Fresh
    <3>3. Unsaved
      BY <3>1 DEF Init, Unsaved
    <3>. QED
      BY <3>1, <3>2, <3>3 DEF Course, Established, Working
  <2>2. Init => Recorded
    <3>. SUFFICES ASSUME Init PROVE Recorded
      OBVIOUS
    <3>1. scoring.seal = "unasked"
      BY DEF Init, Unasked
    <3>2. ~Readable(disk) /\ ~ValidReceipt
      BY DEF Init, Readable, ValidReceipt
    <3>3. result.phase = "" /\ pc = "parse"
      BY DEF Init
    <3>. QED
      BY <3>1, <3>2, <3>3 DEF Recorded
  <2>. QED
    BY <2>1, <2>2, InitTypeInv DEF RunInv
<1>2. RunInv /\ [Next]_vars => RunInv'
  <2>. SUFFICES ASSUME RunInv, [Next]_vars PROVE RunInv'
    OBVIOUS
  <2>1. disk \in Records \/ pc # "emit"
    BY RefusalTypes DEF RunInv, TypeInv, Recorded
  <2>2. TypeInv' /\ Course'
    BY <2>1, NextKeepsTypes, NextKeepsCourse DEF RunInv
  <2>3. Recorded'
    BY BodyKeepsRecorded, ScoringKeepsRecorded, RaiseKeepsRecorded, SavingKeepsRecorded,
       ClosingKeepsRecorded DEF RunInv, Next
  <2>. QED
    BY <2>2, <2>3 DEF RunInv
<1>. QED
  BY <1>1, <1>2, PTL DEF Spec

(* Every variable of a run keeps its type.                                 *)
THEOREM TypeCorrect == Spec => []TypeOK
<1>1. RunInv => TypeOK
  BY TypeInvImplies DEF RunInv
<1>. QED
  BY <1>1, SpecRunInv, PTL

(* A record that is not flagged and a receipt that says valid stand for a  *)
(* measured run, whatever refused, failed or was saved twice (the routes   *)
(* of run_task, _effective_status, _invalidity).                           *)
THEOREM UnflaggedMeansMeasured == Spec => []UnflaggedIsMeasured
<1>1. RunInv => UnflaggedIsMeasured
  BY DEF RunInv, Recorded, UnflaggedIsMeasured
<1>. QED
  BY <1>1, SpecRunInv, PTL

(* A broken seal is recorded as an integrity violation, if at all          *)
(* (_route_integrity_violation).                                           *)
THEOREM TamperingIsRecorded == Spec => []TamperedStaysInvalid
<1>1. RunInv => TamperedStaysInvalid
  BY MeasuredIs DEF RunInv, Recorded, TamperedStaysInvalid
<1>. QED
  BY <1>1, SpecRunInv, PTL

-----------------------------------------------------------------------------
(* The receipt                                                             *)

(* Behind the receipt there is only the finally clause.                    *)
ReceiptLast ==
    receipts # <<>> =>
        pc \in {"cleanup", "release"} \cup Ended /\ disk = receipts[1].of

LEMMA ReceiptStaysLast ==
    ASSUME "late fsync" \notin Faults, ReceiptLast, [Next]_vars
    PROVE  ReceiptLast'
<1>. USE DEF Goto
<1>1. CASE Emit
  <2>1. PICK status \in ReceiptStatuses(disk) : AppendReceipt(status)
    BY <1>1 DEF Emit
  <2>. QED
    BY <1>1, <2>1 DEF Emit, AppendReceipt, ReceiptLast
<1>2. CASE /\ UNCHANGED <<disk, receipts>>
           /\ \/ pc \notin {"cleanup", "release"} \cup Ended
              \/ pc' \in {"cleanup", "release"} \cup Ended
  BY <1>2 DEF ReceiptLast
<1>3. CASE WriteResults \/ SaveFails
  <2>1. pc = "save" /\ UNCHANGED receipts
    BY <1>3 DEF WriteResults, SaveFails
  <2>. QED
    BY <2>1 DEF ReceiptLast, Ended
<1>4. CASE UNCHANGED vars
  BY <1>4 DEF vars, ReceiptLast
<1>5. CASE \/ CleanUp \/ CleanUpFails \/ CleanUpTimesOut \/ Release \/ Interrupt \/ Kill
  <2>1. UNCHANGED <<disk, receipts>> /\ pc' \in {"cleanup", "release"} \cup Ended
    BY <1>5 DEF CleanUp, CleanUpFails, CleanUpTimesOut, Release, Interrupt, Kill,
       StopAndRemove, CleanupFrame, Ended
  <2>. QED
    BY <1>2, <2>1
<1>6. CASE \/ Prepare \/ SetUp \/ StageLogin \/ DenySource \/ DryRun \/ Refuse
           \/ RunAgent \/ CleanupAfterAgentFails \/ NoAgent \/ RouteTelemetry \/ RouteArm
  <2>1. UNCHANGED <<disk, receipts>>
    BY <1>6 DEF Prepare, SetUp, StageLogin, DenySource, Pass, DryRun, Refuse, RunAgent,
       CleanupAfterAgentFails, NoAgent, RouteTelemetry, RouteArm, AgentFrame
  <2>2. pc \in StageSet \cup {"telemetry", "routes"}
    BY <1>6, Places DEF Prepare, SetUp, StageLogin, DenySource, Pass, DryRun, Refuse, RunAgent,
       CleanupAfterAgentFails, NoAgent, RouteTelemetry, RouteArm, StageSet, Preparing
  <2>3. pc \notin {"cleanup", "release"} \cup Ended
    BY <2>2 DEF StageSet, Preparing, Ended
  <2>. QED
    BY <1>2, <2>1, <2>3
<1>7. CASE \/ FindSealBroken \/ FindSealHeld \/ Reap \/ Verify \/ Judge \/ Conclude
           \/ Raise \/ EmitFails
  <2>1. UNCHANGED <<disk, receipts>>
    BY <1>7 DEF FindSealBroken, FindSealHeld, Reap, Verify, Judge, Conclude, ScoringFrame,
       Raise, EmitFails
  <2>2. pc \in StageSet \cup Working \cup {"emit"}
    BY <1>7, Places DEF FindSealBroken, FindSealHeld, Reap, Verify, Judge, Conclude, Raise,
       EmitFails, Working
  <2>3. pc \notin {"cleanup", "release"} \cup Ended
    BY <2>2 DEF StageSet, Preparing, Working, Ended
  <2>. QED
    BY <1>2, <2>1, <2>3
<1>. QED
  BY <1>1, <1>3, <1>4, <1>5, <1>6, <1>7 DEF Next, EmitFailsLate

(* As long as the log never reports an error for a line it holds, the      *)
(* record stays as its receipt describes it (emit_headline_receipt at the  *)
(* end of save_results). With such an error the handler saves once more    *)
(* behind the receipt.                                                     *)
THEOREM ReceiptIsFinal ==
    ASSUME "late fsync" \notin Faults
    PROVE  Spec => []ReceiptFreezesRecord
<1>1. Init => ReceiptLast
  BY DEF Init, ReceiptLast
<1>2. ReceiptLast => ReceiptFreezesRecord
  BY DEF ReceiptLast, ReceiptFreezesRecord
<1>. QED
  BY <1>1, <1>2, ReceiptStaysLast, PTL DEF Spec

-----------------------------------------------------------------------------
(* The login file                                                          *)

(* A login file lies in the container with the knowledge of run_task,      *)
(* unless its staging was refused; none is there once the agent has ended. *)
Logins ==
    /\ pc \in StageSet => (login => staged) /\ (staged => HasAgent)
    /\ pc \in Working => ~login
    /\ pc \notin {"release"} \cup Ended => (login => staged \/ agent = None)
    /\ pc = "release" /\ config.keep /\ container = "up" /\ agent # None => ~login
    /\ pc = "done" /\ container = "up" /\ agent # None => ~login

LEMMA LoginsKept ==
    ASSUME TypeInv, Course, Logins, [Next]_vars
    PROVE  Logins'
<1>. USE DEF Goto
<1>0. /\ \A p \in StageSet \cup Working :
           p \notin {"save", "emit", "cleanup", "release"} \cup Ended
      /\ StageSet \cap Working = {}
  BY DEF StageSet, Preparing, Working, Ended
<1>1. CASE Prepare \/ SetUp \/ StageLogin \/ DenySource
  <2>1. PICK s \in Preparing : Pass(s)
    BY <1>1 DEF Prepare, SetUp, StageLogin, DenySource, Preparing
  <2>2. pc \in StageSet /\ pc' \in StageSet /\ UNCHANGED <<config, agent>>
    BY <2>1, FollowingIs DEF Pass, StageSet
  <2>3. (login' => staged') /\ (staged' => HasAgent)
    <3>1. CASE StageLogin
      BY <3>1 DEF StageLogin, Applies, HasAgent
    <3>2. CASE Prepare \/ SetUp \/ DenySource
      BY <2>2, <3>2 DEF Prepare, SetUp, DenySource, Unprovisioned, Logins
    <3>. QED
      BY <1>1, <3>1, <3>2
  <2>4. HasAgent' <=> HasAgent
    BY <2>2 DEF HasAgent
  <2>5. pc' \notin Working \cup {"release", "done"}
    BY <2>2 DEF StageSet, Preparing, Working
  <2>. QED
    BY <2>3, <2>4, <2>5 DEF Logins
<1>2. CASE DryRun \/ Refuse \/ (NoAgent /\ Gated)
  <2>1. pc \in StageSet /\ pc' \in {"save", "cleanup"} /\ UNCHANGED agent
    BY <1>2, Places DEF DryRun, Refuse, NoAgent, StageSet, Preparing
  <2>. QED
    BY <1>0, <2>1 DEF Logins, Course, Fresh, Ended
<1>3. CASE RunAgent
  BY <1>0, <1>3 DEF RunAgent, Logins, StageSet, Preparing, Working, Ended
<1>4. CASE CleanupAfterAgentFails
  <2>1. pc' = "save" /\ staged'
    BY <1>4 DEF CleanupAfterAgentFails
  <2>. QED
    BY <1>0, <2>1 DEF Logins, Ended
<1>5. CASE \/ NoAgent /\ ~Gated
           \/ RouteTelemetry \/ RouteArm
           \/ FindSealBroken \/ FindSealHeld \/ Reap \/ Verify \/ Judge \/ Conclude
  <2>1. /\ UNCHANGED <<login, staged>>
        /\ pc' \in Working \cup {"save"}
        /\ pc \in Working \/ (pc = "agent" /\ ~HasAgent)
    BY <1>5 DEF NoAgent, RouteTelemetry, RouteArm, AgentFrame, FindSealBroken, FindSealHeld,
       Reap, Verify, Judge, Conclude, ScoringFrame, Working
  <2>2. ~login
    BY <2>1 DEF Logins, StageSet
  <2>. QED
    BY <1>0, <2>1, <2>2 DEF Logins
<1>6. CASE Raise
  <2>1. pc \in StageSet \cup Working /\ pc' \in {"save", "cleanup"} /\ UNCHANGED agent
    BY <1>6, Places DEF Raise
  <2>2. pc \in StageSet => agent' = None
    BY <2>1 DEF Course, Fresh
  <2>3. pc \in Working => ~login'
    <3>1. pc \in Working => LeftBehind(pc) /\ pc # "credentials"
      BY <1>6 DEF Raise, Working
    <3>. QED
      BY <3>1 DEF LeftBehind, Logins
  <2>. QED
    BY <1>0, <2>1, <2>2, <2>3 DEF Logins, Ended
<1>7. CASE WriteResults \/ SaveFails \/ Emit \/ EmitFails \/ EmitFailsLate
  <2>1. /\ pc \in {"save", "emit"} /\ pc' \in {"save", "emit", "cleanup"}
        /\ UNCHANGED <<login, staged, agent, config, container>>
    BY <1>7 DEF WriteResults, SaveFails, Emit, EmitFails, EmitFailsLate, SaveRaises, SavingFrame
  <2>. QED
    BY <1>0, <2>1 DEF Logins, Ended
<1>8. CASE CleanUp
  BY <1>0, <1>8 DEF CleanUp, CleanupFrame, Logins, Ended
<1>9. CASE CleanUpFails
  BY <1>0, <1>9 DEF CleanUpFails, CleanupFrame, StopAndRemove, Logins, Ended
<1>10. CASE CleanUpTimesOut \/ Interrupt \/ Kill
  <2>1. /\ UNCHANGED <<login, staged, agent>>
        /\ pc' \in {"abandoned", "killed"} \/ (pc' = "cleanup" /\ pc \notin {"release"} \cup Ended)
    BY <1>10 DEF CleanUpTimesOut, Interrupt, Kill, CleanupFrame
  <2>. QED
    BY <1>0, <2>1 DEF Logins, Ended
<1>11. CASE Release
  BY <1>0, <1>11 DEF Release, CleanupFrame, StopAndRemove, Logins, Ended
<1>12. CASE UNCHANGED vars
  BY <1>12 DEF vars, Logins, HasAgent
<1>. QED
  BY <1>1, <1>2, <1>3, <1>4, <1>5, <1>6, <1>7, <1>8, <1>9, <1>10, <1>11, <1>12 DEF Next

(* With every fault: no copied login is within reach of the scorers, and a *)
(* container that outlives its agent holds none (the finally clause of     *)
(* run_task).                                                              *)
THEOREM LoginIsGone == Spec => []UsedLoginGone
<1>1. Init => Logins
  BY DEF Init, Logins, StageSet, Preparing, Working, Ended
<1>2. Logins => UsedLoginGone
  BY DEF Logins, UsedLoginGone, Working
<1>3. RunInv => TypeInv /\ Course
  BY DEF RunInv
<1>. QED
  BY <1>1, <1>2, <1>3, SpecRunInv, LoginsKept, PTL DEF Spec

-----------------------------------------------------------------------------
(* What a step may not do                                                  *)

LEMMA StatusKept ==
    ASSUME RunInv, [Next]_vars, Readable(disk), Readable(disk')
    PROVE  disk'.status = disk.status
<1>1. disk' # disk => WriteResults \/ SaveFails
  BY DEF Next, vars, Prepare, SetUp, StageLogin, DenySource, Pass, DryRun, Refuse, RunAgent,
     CleanupAfterAgentFails, NoAgent, RouteTelemetry, RouteArm, AgentFrame, FindSealBroken,
     FindSealHeld, Reap, Verify, Judge, Conclude, ScoringFrame, Raise, Emit, EmitFails,
     EmitFailsLate, CleanUp, CleanUpFails, CleanUpTimesOut, Release, Interrupt, Kill,
     CleanupFrame
<1>2. WriteResults \/ SaveFails => pc = "save" /\ disk' \in {disk, Torn, Record(result)}
  BY DEF WriteResults, SaveFails
<1>3. disk' # disk => pc = "save" /\ disk' = Record(result)
  BY <1>1, <1>2 DEF Readable
<1>. QED
  BY <1>3, RecordFacts DEF RunInv, TypeInv, Recorded

(* A record that is saved twice keeps its verdict (_effective_status and   *)
(* the exception handler of run_task).                                     *)
THEOREM SavedVerdictStands == Spec => VerdictStands
<1>1. RunInv /\ [Next]_vars =>
        [Readable(disk) /\ Readable(disk') => disk'.status = disk.status]_vars
  BY StatusKept
<1>. QED
  BY <1>1, SpecRunInv, PTL DEF Spec, VerdictStands

(* The routes keep the class of a flagged run; a configuration that was    *)
(* never loaded says more than what it caused.                             *)
LEMMA ArmRoutesKeepCause ==
    ASSUME NEW r \in Results, NEW a \in AgentRuns, r.class # None
    PROVE  ArmRoutes(r, a).class \in {r.class, "infra_mcp_config"}
<1>. DEFINE r1 == RoutedConfigError(r, a)
            r2 == RoutedZeroMCP(r1, a)
            r3 == RoutedCodeFinder(r2, a)
<1>1. r1 \in Results /\ r1.class \in {r.class, "infra_mcp_config"}
  BY RoutedTypes DEF RoutedConfigError, Results
<1>2. r2 \in Results /\ r3 \in Results
  BY <1>1, RoutedTypes
<1>3. \A x \in Results : \A c \in Causes : x.class # None => FlaggedAs(x, c).class = x.class
  BY FlaggedFacts
<1>4. r1.class # None
  BY <1>1, TokensAssumption DEF Causes
<1>. HIDE DEF r1, r2, r3
<1>5. r2.class = r1.class
  BY <1>1, <1>3, <1>4 DEF r2, RoutedZeroMCP, Causes
<1>6. r3 = r2
  BY <1>4, <1>5 DEF r3, RoutedCodeFinder
<1>7. RoutedZeroSgx(r3, a).class = r3.class
  BY <1>2, <1>3, <1>4, <1>5, <1>6 DEF RoutedZeroSgx, Causes
<1>. QED
  BY <1>1, <1>5, <1>6, <1>7 DEF ArmRoutes, r1, r2, r3

LEMMA CauseKept ==
    ASSUME RunInv, [Next]_vars, result.class # None, result'.class # result.class
    PROVE  \/ result'.class \in {"integrity_violation", "infra_mcp_config"}
           \/ handling' /\ ~handling /\ result'.class = "infra_timeout"
<1>. USE DEF RunInv, Goto
<1>0. result \in Results /\ pc \notin StageSet
  BY DEF TypeInv, Course, Fresh
<1>1. CASE RouteTelemetry
  <2>1. pc \in Working /\ agent \in AgentRuns
    BY <1>1 DEF RouteTelemetry, Working, Course, Established
  <2>2. result.status # ""
    BY <2>1 DEF Course, Unsaved
  <2>. QED
    BY <1>0, <1>1, <2>2, RouteFacts DEF RouteTelemetry, RoutedCacheIsolation
<1>2. CASE RouteArm
  <2>1. agent \in AgentRuns /\ result' = ArmRoutes(result, agent)
    BY <1>2 DEF RouteArm, ArmRoutes, Course, Established
  <2>. QED
    BY <1>0, <2>1, ArmRoutesKeepCause
<1>3. CASE FindSealBroken
  BY <1>0, <1>3, ScorerFacts DEF FindSealBroken
<1>4. CASE Verify \/ Judge \/ Conclude
  <2>1. RoutedVerifierError(result).class = result.class
    BY <1>0 DEF RoutedVerifierError, Results
  <2>2. Conclude => result'.class = result.class
    BY <1>0 DEF Conclude, Results
  <2>. QED
    BY <1>4, <2>1, <2>2 DEF Verify, Judge
<1>5. CASE Raise
  <2>1. pc \in Working /\ handling'
    BY <1>0, <1>5, Places DEF Raise
  <2>2. \E timeout \in BOOLEAN : result' = Errored(timeout)
    BY <1>5 DEF Raise
  <2>3. result'.class \in {result.class, "infra_timeout"}
    BY <1>0, <2>2 DEF Errored, Results
  <2>. QED
    BY <2>1, <2>3 DEF Course, Unsaved
<1>6. CASE WriteResults \/ SaveFails \/ Emit \/ EmitFails \/ EmitFailsLate
  <2>1. SaveRaises => result'.class = result.class
    BY <1>0, RecordFacts DEF SaveRaises
  <2>2. Emit => result'.class = result.class
    BY <1>0 DEF Emit, Results
  <2>. QED
    BY <1>6, <2>1, <2>2 DEF WriteResults, SaveFails, EmitFails, EmitFailsLate
<1>7. CASE \/ FindSealHeld \/ Reap \/ CleanUp \/ CleanUpFails \/ CleanUpTimesOut \/ Release
           \/ Interrupt \/ Kill \/ UNCHANGED vars
  BY <1>7 DEF FindSealHeld, Reap, CleanUp, CleanUpFails, CleanUpTimesOut, Release, Interrupt,
     Kill, CleanupFrame, vars
<1>8. CASE \/ Prepare \/ SetUp \/ StageLogin \/ DenySource \/ DryRun \/ Refuse
           \/ RunAgent \/ CleanupAfterAgentFails \/ NoAgent
  BY <1>0, <1>8, Places DEF Prepare, SetUp, StageLogin, DenySource, Pass, DryRun, Refuse,
     RunAgent, CleanupAfterAgentFails, NoAgent, StageSet, Preparing
<1>. QED
  BY <1>1, <1>2, <1>3, <1>4, <1>5, <1>6, <1>7, <1>8 DEF Next

(* A classified failure is not relabelled by one of its symptoms (the      *)
(* routes of run_task and its exception handler).                          *)
THEOREM CausesAreKept == Spec => RoutesKeepCause
<1>1. RunInv /\ [Next]_vars =>
        [result.class # None /\ result'.class # result.class
           => \/ result'.class \in {"integrity_violation", "infra_mcp_config"}
              \/ handling' /\ ~handling /\ result'.class = "infra_timeout"]_vars
  BY CauseKept
<1>. QED
  BY <1>1, SpecRunInv, PTL DEF Spec, RoutesKeepCause
=============================================================================
