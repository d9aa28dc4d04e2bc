---------------------------- MODULE ToolchainProofs ----------------------------
(***************************************************************************)
(* The components of Toolchain side by side: what the theorems of each say *)
(* of it alone, said of them together, for every value of their constants. *)
(***************************************************************************)
EXTENDS Toolchain, HarnessProofs, ReportProofs, PublicationProofs, AnalysisProofs

-----------------------------------------------------------------------------
(* Every component keeps to its own specification: it takes steps of its    *)
(* own, or rests.                                                          *)

LEMMA ChainAlone == ToolchainSpec => ChainSpec
<1>1. ToolchainInit => ChainInit
  BY DEF ToolchainInit
<1>2. [ToolchainNext]_toolchainVars => [ChainNext]_chainVars
  BY DEF ToolchainNext, OthersRest, toolchainVars
<1>. QED
  BY <1>1, <1>2, PTL DEF ToolchainSpec, ChainSpec

LEMMA ContainerAlone == ToolchainSpec => ContainerSpec
<1>1. ToolchainInit => ContainerInit
  BY DEF ToolchainInit
<1>2. [ToolchainNext]_toolchainVars => [ContainerNext]_containerVars
  BY DEF ToolchainNext, OthersRest, toolchainVars
<1>. QED
  BY <1>1, <1>2, PTL DEF ToolchainSpec, ContainerSpec

LEMMA FinderAlone == ToolchainSpec => FinderSpec
<1>1. ToolchainInit => FinderInit
  BY DEF ToolchainInit
<1>2. [ToolchainNext]_toolchainVars => [FinderNext]_finderVars
  BY DEF ToolchainNext, OthersRest, toolchainVars
<1>. QED
  BY <1>1, <1>2, PTL DEF ToolchainSpec, FinderSpec

LEMMA GradingAlone == ToolchainSpec => GradingSpec
<1>1. ToolchainInit => GradingInit
  BY DEF ToolchainInit
<1>2. [ToolchainNext]_toolchainVars => [GradingNext]_gradingVars
  BY DEF ToolchainNext, OthersRest, toolchainVars
<1>. QED
  BY <1>1, <1>2, PTL DEF ToolchainSpec, GradingSpec

LEMMA TelemetryAlone == ToolchainSpec => TelemetrySpec
<1>1. ToolchainInit => TelemetryInit
  BY DEF ToolchainInit
<1>2. [ToolchainNext]_toolchainVars => [TelemetryNext]_telemetryVars
  BY DEF ToolchainNext, OthersRest, toolchainVars
<1>. QED
  BY <1>1, <1>2, PTL DEF ToolchainSpec, TelemetrySpec

LEMMA CapsuleAlone == ToolchainSpec => CapsuleSpec
<1>1. ToolchainInit => CapsuleInit
  BY DEF ToolchainInit
<1>2. [ToolchainNext]_toolchainVars => [CapsuleNext]_capsuleVars
  BY DEF ToolchainNext, OthersRest, toolchainVars
<1>. QED
  BY <1>1, <1>2, PTL DEF ToolchainSpec, CapsuleSpec

LEMMA ReportsAlone == ToolchainSpec => ReportsSpec
<1>1. ToolchainInit => ReportsInit
  BY DEF ToolchainInit
<1>2. [ToolchainNext]_toolchainVars => [ReportsNext]_reportVars
  BY DEF ToolchainNext, OthersRest, toolchainVars
<1>. QED
  BY <1>1, <1>2, PTL DEF ToolchainSpec, ReportsSpec

LEMMA BillingAlone == ToolchainSpec => BillingSpec
<1>1. ToolchainInit => BillingInit
  BY DEF ToolchainInit
<1>2. [ToolchainNext]_toolchainVars => [BillingNext]_billingVars
  BY DEF ToolchainNext, OthersRest, toolchainVars
<1>. QED
  BY <1>1, <1>2, PTL DEF ToolchainSpec, BillingSpec

LEMMA LineageAlone == ToolchainSpec => LineageSpec
<1>1. ToolchainInit => LineageInit
  BY DEF ToolchainInit
<1>2. [ToolchainNext]_toolchainVars => [LineageNext]_lineageVars
  BY DEF ToolchainNext, OthersRest, toolchainVars
<1>. QED
  BY <1>1, <1>2, PTL DEF ToolchainSpec, LineageSpec

LEMMA PilotAlone == ToolchainSpec => PilotSpec
<1>1. ToolchainInit => PilotInit
  BY DEF ToolchainInit
<1>2. [ToolchainNext]_toolchainVars => [PilotNext]_pilotVars
  BY DEF ToolchainNext, OthersRest, toolchainVars
<1>. QED
  BY <1>1, <1>2, PTL DEF ToolchainSpec, PilotSpec

LEMMA PublicationAlone == ToolchainSpec => StudyPublicationSpec
<1>1. ToolchainInit => PublicationInit
  BY DEF ToolchainInit
<1>2. [ToolchainNext]_toolchainVars => [PublicationNext]_publicationVars
  BY DEF ToolchainNext, OthersRest, toolchainVars
<1>. QED
  BY <1>1, <1>2, PTL DEF ToolchainSpec, StudyPublicationSpec

LEMMA MirrorsAlone == ToolchainSpec => MirrorsSpec
<1>1. ToolchainInit => MirrorsInit
  BY DEF ToolchainInit
<1>2. [ToolchainNext]_toolchainVars => [MirrorsNext]_mirrorVars
  BY DEF ToolchainNext, OthersRest, toolchainVars
<1>. QED
  BY <1>1, <1>2, PTL DEF ToolchainSpec, MirrorsSpec

LEMMA AuditAlone == ToolchainSpec => AuditSpec
<1>1. ToolchainInit => AuditInit
  BY DEF ToolchainInit
<1>2. [ToolchainNext]_toolchainVars => [AuditNext]_auditVars
  BY DEF ToolchainNext, OthersRest, toolchainVars
<1>. QED
  BY <1>1, <1>2, PTL DEF ToolchainSpec, AuditSpec

LEMMA AccountAlone == ToolchainSpec => HealthSpec
<1>1. ToolchainInit => HealthInit
  BY DEF ToolchainInit
<1>2. [ToolchainNext]_toolchainVars => [HealthNext]_healthVars
  BY DEF ToolchainNext, OthersRest, toolchainVars
<1>. QED
  BY <1>1, <1>2, PTL DEF ToolchainSpec, HealthSpec

LEMMA PromotionAlone == ToolchainSpec => Spec
<1>1. ToolchainInit => Init
  BY DEF ToolchainInit
<1>2. [ToolchainNext]_toolchainVars => [Next]_vars
  BY DEF ToolchainNext, OthersRest, toolchainVars
<1>. QED
  BY <1>1, <1>2, PTL DEF ToolchainSpec, Spec

LEMMA CapacityAlone == ToolchainSpec => CapacitySpec
<1>1. ToolchainInit => CapacityInit
  BY DEF ToolchainInit
<1>2. [ToolchainNext]_toolchainVars => [CapacityNext]_capacityVars
  BY DEF ToolchainNext, OthersRest, toolchainVars
<1>. QED
  BY <1>1, <1>2, PTL DEF ToolchainSpec, CapacitySpec

-----------------------------------------------------------------------------
(* The components together                                                 *)

(* Every component keeps to the values its code can produce, whatever it is given. *)
THEOREM ToolchainIsTyped == ToolchainSpec => []ToolchainTypeOK
<1>1. ToolchainSpec => /\ []ChainTypeOK /\ []ContainerTypeOK /\ []FinderTypeOK /\ []GradingTypeOK
                       /\ []TelemetryTypeOK /\ []CapsuleTypeOK /\ []ReportTypeOK
  BY ChainAlone, ContainerAlone, FinderAlone, GradingAlone, TelemetryAlone, CapsuleAlone,
     ReportsAlone, ChainIsTyped, ContainerTypes, EvidenceIsTyped, GradingIsTyped,
     TelemetryIsTyped, CapsuleTypes, ReportTypes
<1>2. ToolchainSpec => /\ []LineageTypeOK /\ []PilotTypeOK /\ []PublicationTypeOK
                       /\ []MirrorsTypeOK /\ []AuditTypeOK /\ []HealthTypeOK /\ []TypeOK
  BY LineageAlone, PilotAlone, PublicationAlone, MirrorsAlone, AuditAlone, AccountAlone,
     PromotionAlone, LineageIsTyped, PilotIsTyped, PublicationIsTyped, MirrorsAreTyped,
     AuditIsTyped, HealthIsTyped, PromotionIsTyped
<1>3. /\ ChainTypeOK /\ ContainerTypeOK /\ FinderTypeOK /\ GradingTypeOK
      /\ TelemetryTypeOK /\ CapsuleTypeOK /\ ReportTypeOK
      /\ LineageTypeOK /\ PilotTypeOK /\ PublicationTypeOK
      /\ MirrorsTypeOK /\ AuditTypeOK /\ HealthTypeOK /\ TypeOK
      => ToolchainTypeOK
  BY DEF ToolchainTypeOK
<1>. QED
  BY <1>1, <1>2, <1>3, PTL

(* What has been graded or reported stands: the answer between the checks and the judge   *)
(* (_seal_grading_assets and the scorers), the trial of a slot in the later reports of a   *)
(* log, and the score of a cell when it is run again (select_first_attempts).             *)
THEOREM GradesAndReportsStand == ToolchainSpec => ReportedStands
  BY ContainerAlone, CapsuleAlone, ReportsAlone, WhatIsGradedStands, EarlierReportsStand,
     RerunsDoNotResample DEF ReportedStands

(* No run is billed for more than it spent, no harness reports more than was billed, and a *)
(* study's spend is given whole or not at all (cost_tracker.py, the harnesses' usage,      *)
(* study_report.py).                                                                      *)
THEOREM BillsAreWhole == ToolchainSpec => []BillingHolds
<1>1. ToolchainSpec => []BilledOnce /\ []UsageIsBilled /\ []SpendIsWhole
  BY BillingAlone, TelemetryAlone, PublicationAlone, RunsAreBilledOnce, UsageWasBilled,
     SpendsAreWhole
<1>. QED
  BY <1>1, PTL DEF BillingHolds

(* What an analysis is asked stays what it was. *)
LEMMA AskedIsKept == ToolchainSpec => [](question \in Questions /\ AskedRight)
<1>1. ToolchainInit => question \in Questions /\ AskedRight
  <2>. SUFFICES ASSUME ToolchainInit PROVE question \in Questions /\ AskedRight
    OBVIOUS
  <2>1. question \in Questions
    <3>1. Modulus \in Nat \ {0}
      BY InferenceAssumption
    <3>2. [of |-> "index", bound |-> 1] \in [of : {"index"}, bound : 1..Modulus]
      BY <3>1
    <3>. QED
      BY <3>2 DEF ToolchainInit, InferenceInit, Questions
  <2>2. /\ \A l \in Lines : l.of = "line"
        /\ \A l \in Searches : l.of = "search"
        /\ \A l \in Rollups : l.of = "rollup"
    BY DEF Lines, Searches, Rollups
  <2>3. CASE part = "retrieval"
    <3>1. inquiry \in {l \in Lines : WellFormed(l)} \cup Searches \cup Rollups
      BY <2>3 DEF ToolchainInit, RetrievalInit
    <3>. QED
      BY <2>1, <2>2, <3>1 DEF AskedRight
  <2>4. CASE part # "retrieval"
    <3>1. inquiry = [of |-> "search", read |-> <<>>, required |-> <<>>]
      BY <2>4 DEF ToolchainInit
    <3>2. inquiry.of = "search" /\ ~HasSignal(inquiry)
      BY <3>1 DEF HasSignal
    <3>. QED
      BY <2>1, <3>2 DEF AskedRight
  <2>. QED
    BY <2>3, <2>4
<1>2. question \in Questions /\ AskedRight /\ [ToolchainNext]_toolchainVars
        => (question \in Questions /\ AskedRight)'
  <2>1. [ToolchainNext]_toolchainVars => question' = question /\ inquiry' = inquiry
    BY DEF ToolchainNext, OthersRest, toolchainVars, inferenceVars, retrievalVars
  <2>. QED
    BY <2>1 DEF AskedRight, HasSignal, WellFormed, Meant
<1>. QED
  BY <1>1, <1>2, PTL DEF ToolchainSpec

(* The numbers of an analysis are those that its method promises, the retrieval metrics      *)
(* report what the agents have read, and planned slots are safe: for families, replicates,   *)
(* traces and commands of any size, any tasks, arms and accounts (study_inference.py,        *)
(* eb_metrics, distribute_slots).                                                            *)
THEOREM AnalysisIsExact == ToolchainSpec => []AlgorithmsAreExact
<1>1. ToolchainSpec => []SlotsAreSafe
  BY CapacityAlone, PlannedSlotsAreSafe
<1>2. question \in Questions => InferenceIsExact
  BY InferenceHolds
<1>3. AskedRight => RetrievalIsExact
  BY RetrievalHolds
<1>4. InferenceIsExact /\ RetrievalIsExact /\ SlotsAreSafe => AlgorithmsAreExact
  BY DEF AlgorithmsAreExact
<1>. QED
  BY <1>1, <1>2, <1>3, <1>4, AskedIsKept, PTL
===============================================================================
