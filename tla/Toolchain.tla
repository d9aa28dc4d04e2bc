------------------------------- MODULE Toolchain -------------------------------
(***************************************************************************)
(* Components that share no state, side by side: a behaviour is of one      *)
(* component, while the others rest in one initial state.                   *)
(***************************************************************************)
EXTENDS SessionChain, TaskContainer, FinderEvidence, Grading, AgentTelemetry,
        StudyCapsule, AttemptReports, TraceBilling, StudyLineage, StudyPilots,
        StudyPublication, StudyInference, Retrieval, Mirrors, PinAudit, AccountHealth,
        UsageCapacity, Promotion

VARIABLE part

Parts == {"chain", "container", "finder", "grading", "telemetry", "capsule", "promotion",
          "reports", "billing", "lineage", "pilots", "publication", "inference",
          "retrieval", "mirrors", "audit", "accounts", "usage"}

\* The inputs that a component starts with are chosen for it alone.
ToolchainInit ==
    /\ part \in Parts
    /\ ChainInit /\ ContainerInit /\ FinderInit /\ Init
    /\ GradingInit
    /\ part # "grading" =>
          /\ grader = "shell" /\ curated = "absent" /\ artifact = "absent"
          /\ weights = [i \in Checks |-> 0]
    /\ TelemetryInit
    /\ part # "telemetry" => cliHarness = "claude" /\ hooks = {}
    /\ ReportsInit
    /\ part # "reports" =>
          /\ results = CHOOSE c \in Corpora : TRUE
          /\ flags = [explicit |-> FALSE, legacy |-> FALSE]
    /\ BillingInit
    /\ part # "billing" => writer = "grouped"
    /\ LineageInit
    /\ part # "lineage" => lineage = CHOOSE l \in Lineages : TRUE
    /\ CapsuleInit
    /\ part # "capsule" => studySpec = CHOOSE p \in CapsulePolicies : TRUE
    /\ PilotInit
    /\ part # "pilots" => pilot = CHOOSE k \in PilotKinds : TRUE
    /\ PublicationInit
    /\ part # "publication" => shape = CHOOSE s \in StudyShapes : TRUE
    /\ MirrorsInit
    /\ AuditInit
    /\ part # "audit" => mirrorsFile = NoFile /\ taskToml = NoFile
    /\ HealthInit /\ CapacityInit
    /\ IF part = "inference" THEN InferenceInit ELSE question = [of |-> "index", bound |-> 1]
    /\ IF part = "retrieval" THEN RetrievalInit
       ELSE inquiry = [of |-> "search", read |-> <<>>, required |-> <<>>]

\* The components other than p rest.
OthersRest(p) ==
    /\ p # "chain" => UNCHANGED chainVars
    /\ p # "container" => UNCHANGED containerVars
    /\ p # "finder" => UNCHANGED finderVars
    /\ p # "grading" => UNCHANGED gradingVars
    /\ p # "telemetry" => UNCHANGED telemetryVars
    /\ p # "capsule" => UNCHANGED capsuleVars
    /\ p # "promotion" => UNCHANGED vars
    /\ p # "reports" => UNCHANGED reportVars
    /\ p # "billing" => UNCHANGED billingVars
    /\ p # "lineage" => UNCHANGED lineageVars
    /\ p # "pilots" => UNCHANGED pilotVars
    /\ p # "publication" => UNCHANGED publicationVars
    /\ p # "mirrors" => UNCHANGED mirrorVars
    /\ p # "audit" => UNCHANGED auditVars
    /\ p # "accounts" => UNCHANGED healthVars
    /\ p # "usage" => UNCHANGED capacityVars
    /\ UNCHANGED <<inferenceVars, retrievalVars>>

ToolchainNext ==
    /\ UNCHANGED part
    /\ \/ part = "chain" /\ OthersRest("chain") /\ ChainNext
       \/ part = "container" /\ OthersRest("container") /\ ContainerNext
       \/ part = "finder" /\ OthersRest("finder") /\ FinderNext
       \/ part = "grading" /\ OthersRest("grading") /\ GradingNext
       \/ part = "telemetry" /\ OthersRest("telemetry") /\ TelemetryNext
       \/ part = "capsule" /\ OthersRest("capsule") /\ CapsuleNext
       \/ part = "promotion" /\ OthersRest("promotion") /\ Next
       \/ part = "reports" /\ OthersRest("reports") /\ ReportsNext
       \/ part = "billing" /\ OthersRest("billing") /\ BillingNext
       \/ part = "lineage" /\ OthersRest("lineage") /\ LineageNext
       \/ part = "pilots" /\ OthersRest("pilots") /\ PilotNext
       \/ part = "publication" /\ OthersRest("publication") /\ PublicationNext
       \/ part = "mirrors" /\ OthersRest("mirrors") /\ MirrorsNext
       \/ part = "audit" /\ OthersRest("audit") /\ AuditNext
       \/ part = "accounts" /\ OthersRest("accounts") /\ HealthNext
       \/ part = "usage" /\ OthersRest("usage") /\ CapacityNext

toolchainVars == <<part, chainVars, containerVars, finderVars, gradingVars, telemetryVars,
                   capsuleVars, vars, reportVars, billingVars, lineageVars, pilotVars,
                   publicationVars, inferenceVars, retrievalVars, mirrorVars, auditVars,
                   healthVars, capacityVars>>

ToolchainSpec == ToolchainInit /\ [][ToolchainNext]_toolchainVars

-----------------------------------------------------------------------------
(* Every component keeps to the values its code can produce. *)
ToolchainTypeOK ==
    /\ part = "chain" => ChainTypeOK
    /\ part = "container" => ContainerTypeOK
    /\ part = "finder" => FinderTypeOK
    /\ part = "grading" => GradingTypeOK
    /\ part = "telemetry" => TelemetryTypeOK
    /\ part = "capsule" => CapsuleTypeOK
    /\ part = "promotion" => TypeOK
    /\ part = "reports" => ReportTypeOK
    /\ part = "lineage" => LineageTypeOK
    /\ part = "pilots" => PilotTypeOK
    /\ part = "publication" => PublicationTypeOK
    /\ part = "mirrors" => MirrorsTypeOK
    /\ part = "audit" => AuditTypeOK
    /\ part = "accounts" => HealthTypeOK

(* What has been graded or reported stands: the answer between the checks   *)
(* and the judge, the trial of a slot in the later reports of a log, and    *)
(* the score of a cell when it is run again.                                *)
ReportedStands == GradedStands /\ ReportsStand /\ RerunsStand

(* Every request is billed once, and the sums that a harness reports are   *)
(* those that the provider billed, or are called unobserved; and a report   *)
(* that gives a study's spend gives all of it.                              *)
BillingHolds == BilledOnce /\ UsageIsBilled /\ SpendIsWhole

(* The numbers of an analysis are those that its method promises, the       *)
(* retrieval metrics report what the agents of the arms have read, and the  *)
(* slots planned from the usage of the accounts are safe.                   *)
AlgorithmsAreExact ==
    /\ part = "inference" => InferenceIsExact
    /\ part = "retrieval" => RetrievalIsExact
    /\ part = "usage" => SlotsAreSafe
=============================================================================
