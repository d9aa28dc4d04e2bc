----------------------------- MODULE PublicationProofs ---------------------------
(***************************************************************************)
(* What becomes public, of a study and of a run.  StudyLineage for any     *)
(* number of studies, tasks and versions of the sources: no task is put    *)
(* before an agent by two studies.  StudyPublication for any arms and      *)
(* attempts: what is published of a study is one treatment.  StudyPilots   *)
(* for any edits, revisions and dispatchers: what a preflight admits can be *)
(* had again.  Promotion for any runs, promotions, kills and failures:     *)
(* first of promotions one after the other for each run and rollbacks that *)
(* succeed (Orderly), where what is official is sealed and frozen, what is *)
(* registered is official, and Publication is implemented; then of         *)
(* promotions that overlap as they like and of rollbacks that fail, where  *)
(* what was reported as published stands.                                  *)
(***************************************************************************)
EXTENDS StudyLineage, StudyPublication, StudyPilots, Promotion, SumTheorems,
        SequenceTheorems, FiniteSetTheorems, WellFoundedInduction, TLAPS

-----------------------------------------------------------------------------
(* The execution order                                                     *)

(* The next row of the execution order is one of the tasks. *)
LEMMA SlotIsATask ==
    ASSUME NEW T \in SUBSET LockedCandidates, NEW i \in Nat, i < Cardinality(T)
    PROVE  Slot(T, i + 1) \in T
<1>. DEFINE Upto(n) == {u \in T : u <= n}
            Enough == {n \in Nat : Cardinality(Upto(n)) >= i + 1}
<1>1. NTasks \in Nat /\ \A u \in T : u \in Nat /\ 1 <= u /\ u <= NTasks
  BY LineageAssumption DEF LockedCandidates
<1>2. IsFiniteSet(T) /\ Cardinality(T) \in Nat
  <2>1. IsFiniteSet(LockedCandidates)
    BY LineageAssumption, FS_Interval DEF LockedCandidates
  <2>. QED
    BY <2>1, FS_Subset, FS_CardinalityType
<1>3. \A n \in Nat : IsFiniteSet(Upto(n)) /\ Cardinality(Upto(n)) \in Nat
  BY <1>2, FS_Subset, FS_CardinalityType
<1>4. Upto(NTasks) = T /\ Upto(0) = {}
  BY <1>1
<1>5. ASSUME NEW n \in Nat \ {0}, n \in T
      PROVE  Upto(n) = Upto(n - 1) \cup {n} /\ n \notin Upto(n - 1)
  <2>1. \A u \in T : u <= n <=> (u <= n - 1 \/ u = n)
    BY <1>1
  <2>2. ~(n <= n - 1)
    OBVIOUS
  <2>. QED
    BY <2>1, <2>2, <1>5
<1>6. \A n \in Nat \ {0} : n \notin T => Upto(n) = Upto(n - 1)
  BY <1>1
<1>7. \A n \in Nat : Upto(n) = {u \in T : u <= n}
  OBVIOUS
<1>. HIDE DEF Upto
<1>8. PICK n \in Enough : \A m \in Enough : n <= m
  <2>1. NTasks \in Enough
    BY <1>1, <1>2, <1>4
  <2>. QED
    BY <2>1, LeastOf
<1>9. n \in Nat \ {0} /\ Cardinality(Upto(n)) >= i + 1
  <2>1. Cardinality(Upto(0)) = 0
    BY <1>4, FS_EmptySet
  <2>. QED
    BY <2>1, <1>8
<1>10. n - 1 \in Nat /\ Cardinality(Upto(n - 1)) \in Nat /\ Cardinality(Upto(n - 1)) < i + 1
  <2>1. n - 1 \in Nat /\ n - 1 \notin Enough
    BY <1>8, <1>9
  <2>2. Cardinality(Upto(n - 1)) \in Nat
    BY <2>1, <1>3
  <2>. QED
    BY <2>1, <2>2
<1>11. n \in T
  BY <1>6, <1>9, <1>10
<1>12. Cardinality(Upto(n)) = Cardinality(Upto(n - 1)) + 1
  BY <1>3, <1>5, <1>9, <1>10, <1>11, FS_AddElement
<1>13. Cardinality({u \in T : u <= n}) = i + 1
  <2>1. \A c \in Nat : (c + 1 >= i + 1 /\ c < i + 1) => c + 1 = i + 1
    OBVIOUS
  <2>2. Cardinality(Upto(n)) = i + 1
    BY <2>1, <1>9, <1>10, <1>12
  <2>. QED
    BY <2>2, <1>7, <1>9
<1>. QED
  BY <1>11, <1>13 DEF Slot

(* A population has at most as many tasks as there are candidates. *)
LEMMA PopulationSize ==
    ASSUME NEW T \in SUBSET LockedCandidates
    PROVE  Cardinality(T) \in Nat /\ Cardinality(T) <= NTasks
<1>1. IsFiniteSet(1..NTasks) /\ Cardinality(1..NTasks) = NTasks
  BY LineageAssumption, FS_Interval
<1>. QED
  BY <1>1, FS_Subset, FS_CardinalityType, LineageAssumption DEF LockedCandidates

-----------------------------------------------------------------------------
(* The studies                                                             *)

TrialReceipts ==
    [task : LockedCandidates, harness : Nat, cost : {"isolated", "missing", "pre_agent"}]

\* Types, as far as the actions need them.
LineageTypes ==
    /\ Len(lineage) \in Nat /\ protocols \in Studies /\ sources \in 1..MaxSources
    /\ excluded \in [Studies -> SUBSET LockedCandidates]
    /\ exposed \in [Studies -> SUBSET LockedCandidates]
    /\ closed \in [Studies -> BOOLEAN]
    /\ trials \in [Studies -> Seq(TrialReceipts)]
    /\ \A k \in Studies : Len(trials[k]) <= NTasks
    /\ dispatching = [k \in Studies |-> dispatching[k]]
    /\ evidence = [k \in Studies |-> evidence[k]]

\* A file that is there holds what files of its kind hold, and a study that no
\* protocol defines yet has none.
FilesAreWhole ==
    /\ capsule = [k \in Studies |-> [f \in DOMAIN Content |-> capsule[k][f]]]
    /\ \A k \in Studies : \A f \in DOMAIN Content :
          /\ capsule[k][f] = Unwritten \/ DOMAIN capsule[k][f] = Content[f]
          /\ k > protocols => capsule[k][f] = Unwritten
    /\ building # Unwritten =>
          /\ building.study \in 2..protocols
          /\ building = [study |-> building.study, next |-> building.next,
                         payloads |-> building.payloads]

\* No run was of sources that are not written yet.  Those of a study that has a successor
\* are older than the sources are now, and it is closed: neither with receipts nor
\* without can it be dispatched again.
Superseded ==
    /\ \A k \in Studies : \A i \in DOMAIN trials[k] : trials[k][i].harness <= sources
    /\ \A j \in Studies : j < protocols =>
          /\ closed[j] /\ dispatching[j] = Unwritten
          /\ \A i \in DOMAIN trials[j] : trials[j][i].harness < sources

DispatchOf(k) ==
    /\ dispatching[k] = [at |-> dispatching[k].at, spec |-> dispatching[k].spec,
                        known |-> dispatching[k].known, harness |-> dispatching[k].harness]
    /\ dispatching[k].at \in {"ready", "agent"}
    /\ dispatching[k].spec.tasks = SelectedTasks(k)
    /\ dispatching[k].known = Len(trials[k])
    /\ dispatching[k].harness \in 0..sources
    /\ dispatching[k].at = "agent" =>
          dispatching[k].known < Cardinality(dispatching[k].spec.tasks)

\* Only the study that was defined last is dispatched, of the population its protocol
\* selects.
LastIsDispatched ==
    /\ \A k \in Studies : k > protocols => trials[k] = <<>> /\ exposed[k] = {}
    /\ \A k \in Studies : dispatching[k] # Unwritten => k = protocols /\ DispatchOf(k)

\* A protocol leaves out what any earlier study has shown.
ExposuresAccumulate ==
    \A j, k \in Studies : (j < k /\ k <= protocols) => exposed[j] \subseteq excluded[k]

LineageInv ==
    /\ LineageTypes /\ FilesAreWhole /\ Superseded /\ LastIsDispatched
    /\ ExposuresAccumulate /\ ConfirmatoryIsUnexposed

-----------------------------------------------------------------------------
(* The first study has its five files, and nobody has begun. *)
LEMMA LineageStarts == LineageInit => LineageInv
<1>. SUFFICES ASSUME LineageInit PROVE LineageInv
  OBVIOUS
<1>1. Len(lineage) \in Nat /\ Len(lineage) >= 1 /\ Studies = 1..Len(lineage)
  BY LineageAssumption, LenProperties, EmptySeq DEF LineageInit, Studies
<1>2. LineageTypes
  <2>1. <<>> \in Seq(TrialReceipts) /\ Len(<<>>) = 0
    BY EmptySeq
  <2>. QED
    BY <1>1, <2>1, LineageAssumption DEF LineageInit, LineageTypes
<1>3. FilesAreWhole
  <2>1. capsule = [k \in Studies |-> [f \in DOMAIN Content |-> capsule[k][f]]]
    BY DEF LineageInit
  <2>2. \A k \in Studies : \A f \in DOMAIN Content :
          capsule[k][f] = IF k = 1 THEN [x \in Content[f] |-> BuildCorePayloads(1)[x]] ELSE Unwritten
    BY DEF LineageInit
  <2>. QED
    BY <2>1, <2>2, <1>1 DEF LineageInit, FilesAreWhole
<1>4. Superseded /\ LastIsDispatched /\ ExposuresAccumulate /\ ConfirmatoryIsUnexposed
  BY <1>1 DEF LineageInit, Superseded, LastIsDispatched, ExposuresAccumulate, ConfirmatoryIsUnexposed
<1>. QED
  BY <1>2, <1>3, <1>4 DEF LineageInv

(* What leaves everything but the files alone keeps the rest. *)
LEMMA FilesOnly ==
    ASSUME LineageInv, FilesAreWhole',
           UNCHANGED <<lineage, sources, protocols, excluded, evidence, trials, exposed, closed,
                       dispatching>>
    PROVE  LineageInv'
<1>1. LineageTypes'
  BY DEF LineageInv, LineageTypes, Studies
<1>2. Superseded'
  BY DEF LineageInv, Superseded, Studies
<1>3. LastIsDispatched'
  BY DEF LineageInv, LastIsDispatched, DispatchOf, SelectedTasks, Studies
<1>4. ExposuresAccumulate' /\ ConfirmatoryIsUnexposed'
  BY DEF LineageInv, ExposuresAccumulate, ConfirmatoryIsUnexposed, Studies
<1>. QED
  BY <1>1, <1>2, <1>3, <1>4 DEF LineageInv

(* What leaves the files alone keeps them, whatever protocols it adds. *)
LEMMA FilesFrame ==
    ASSUME LineageInv, UNCHANGED <<lineage, capsule, building>>,
           protocols' \in Nat, protocols' >= protocols
    PROVE  FilesAreWhole'
<1>1. protocols \in Nat /\ Studies' = Studies /\ Len(lineage) \in Nat
  BY DEF LineageInv, LineageTypes, Studies
<1>2. \A k \in Studies : k > protocols' => k > protocols
  BY <1>1 DEF Studies
<1>3. 2..protocols \subseteq 2..protocols'
  BY <1>1
<1>. QED
  BY <1>1, <1>2, <1>3 DEF LineageInv, FilesAreWhole

(* A step of the dispatcher of the study that was defined last. *)
LEMMA OwnStep ==
    ASSUME LineageInv, NEW k \in Studies, k = protocols,
           UNCHANGED <<lineage, sources, protocols, excluded, evidence, capsule, building, closed>>,
           trials' = [j \in Studies |-> trials'[j]], exposed' = [j \in Studies |-> exposed'[j]],
           dispatching' = [j \in Studies |-> dispatching'[j]],
           \A j \in Studies : j # k => /\ trials'[j] = trials[j] /\ exposed'[j] = exposed[j]
                                      /\ dispatching'[j] = dispatching[j],
           trials'[k] \in Seq(TrialReceipts), Len(trials'[k]) <= NTasks,
           \A i \in DOMAIN trials'[k] : trials'[k][i].harness <= sources,
           exposed'[k] \subseteq exposed[k] \cup SelectedTasks(k),
           dispatching'[k] # Unwritten => DispatchOf(k)'
    PROVE  LineageInv'
<1>. USE DEF LineageInv
<1>1. Studies' = Studies /\ protocols \in Nat /\ Studies \subseteq Nat
  BY DEF LineageTypes, Studies
<1>2. exposed'[k] \in SUBSET LockedCandidates
  BY <1>1 DEF LineageTypes, SelectedTasks
<1>3. LineageTypes'
  <2>1. trials' \in [Studies -> Seq(TrialReceipts)] /\ \A j \in Studies : Len(trials'[j]) <= NTasks
    BY DEF LineageTypes
  <2>2. exposed' \in [Studies -> SUBSET LockedCandidates]
    BY <1>2 DEF LineageTypes
  <2>3. /\ Len(lineage)' \in Nat /\ protocols' \in Studies /\ sources' \in 1..MaxSources
        /\ excluded' \in [Studies -> SUBSET LockedCandidates]
        /\ closed' \in [Studies -> BOOLEAN]
        /\ evidence' = [j \in Studies |-> evidence'[j]]
    BY DEF LineageTypes
  <2>. QED
    BY <1>1, <2>1, <2>2, <2>3 DEF LineageTypes
<1>4. FilesAreWhole'
  BY <1>1, FilesFrame
<1>5. Superseded'
  BY <1>1 DEF Superseded
<1>6. LastIsDispatched'
  <2>1. \A j \in Studies : j # k /\ dispatching[j] # Unwritten => FALSE
    BY DEF LastIsDispatched
  <2>2. \A j \in Studies : j > protocols => trials'[j] = <<>> /\ exposed'[j] = {}
    BY <1>1 DEF LastIsDispatched
  <2>3. \A j \in Studies : dispatching'[j] # Unwritten => j = k
    BY <2>1
  <2>. QED
    BY <1>1, <2>2, <2>3, Zenon DEF LastIsDispatched
<1>7. ExposuresAccumulate'
  BY <1>1 DEF ExposuresAccumulate
<1>8. ConfirmatoryIsUnexposed'
  <2>1. ASSUME NEW j \in Studies, j # k PROVE exposed'[k] \cap exposed[j] = {}
    <3>1. CASE j < k
      BY <3>1, <2>1, <1>1 DEF ExposuresAccumulate, ConfirmatoryIsUnexposed, SelectedTasks
    <3>2. CASE j > k
      BY <3>2, <2>1 DEF LastIsDispatched
    <3>. QED
      BY <3>1, <3>2, <2>1, <1>1
  <2>. QED
    BY <2>1, <1>1 DEF ConfirmatoryIsUnexposed
<1>. QED
  BY <1>3, <1>4, <1>5, <1>6, <1>7, <1>8

(* What a receipt says is what receipts say. *)
LEMMA ReceiptTyped ==
    ASSUME LineageInv, NEW k \in Studies, NEW i \in DOMAIN trials[k]
    PROVE  trials[k][i].harness \in Nat /\ trials[k][i].harness <= sources
<1>1. trials[k] \in Seq(TrialReceipts)
  BY DEF LineageInv, LineageTypes
<1>2. trials[k][i] \in TrialReceipts
  BY <1>1, ElementOfSeq, LenProperties
<1>3. trials[k][i].harness \in Nat
  BY <1>2 DEF TrialReceipts
<1>. QED
  BY <1>3 DEF LineageInv, Superseded

(* The next task of a dispatch is one of its population. *)
LEMMA NextIsSelected ==
    ASSUME LineageInv, NEW k \in Studies, dispatching[k] # Unwritten,
           dispatching[k].known < Cardinality(dispatching[k].spec.tasks)
    PROVE  /\ NextSlot(k) \in SelectedTasks(k) /\ NextSlot(k) \in LockedCandidates
           /\ Len(trials[k]) + 1 <= NTasks
<1>1. /\ DispatchOf(k) /\ Len(trials[k]) \in Nat
      /\ SelectedTasks(k) \in SUBSET LockedCandidates
  BY LenProperties DEF LineageInv, LastIsDispatched, LineageTypes, SelectedTasks
<1>2. NextSlot(k) \in SelectedTasks(k)
  BY <1>1, SlotIsATask DEF NextSlot, DispatchOf
<1>3. Cardinality(SelectedTasks(k)) \in Nat /\ Cardinality(SelectedTasks(k)) <= NTasks
  BY <1>1, PopulationSize
<1>4. Len(trials[k]) < Cardinality(SelectedTasks(k))
  BY <1>1 DEF DispatchOf
<1>. QED
  BY <1>1, <1>2, <1>3, <1>4, LineageAssumption

(* A receipt that is appended is one of a task and of sources there are. *)
LEMMA ReceiptAppended ==
    ASSUME LineageInv, NEW k \in Studies, NEW receipt \in TrialReceipts,
           receipt.harness <= sources, Len(trials[k]) + 1 <= NTasks
    PROVE  LET log == Append(trials[k], receipt) IN
           /\ log \in Seq(TrialReceipts) /\ Len(log) = Len(trials[k]) + 1 /\ Len(log) <= NTasks
           /\ \A i \in DOMAIN log : log[i].harness <= sources
<1>. DEFINE log == Append(trials[k], receipt)
<1>1. trials[k] \in Seq(TrialReceipts)
  BY DEF LineageInv, LineageTypes
<1>2. /\ log \in Seq(TrialReceipts) /\ Len(log) = Len(trials[k]) + 1
      /\ DOMAIN log = 1..Len(trials[k]) + 1 /\ DOMAIN trials[k] = 1..Len(trials[k])
      /\ \A i \in 1..Len(trials[k]) : log[i] = trials[k][i]
      /\ log[Len(trials[k]) + 1] = receipt /\ Len(trials[k]) \in Nat
  BY <1>1, AppendProperties, LenProperties
<1>3. ASSUME NEW i \in DOMAIN log PROVE log[i].harness <= sources
  <2>1. CASE i \in 1..Len(trials[k])
    BY <2>1, <1>2 DEF LineageInv, Superseded
  <2>2. CASE i = Len(trials[k]) + 1
    BY <2>2, <1>2
  <2>. QED
    BY <2>1, <2>2, <1>2
<1>. QED
  BY <1>2, <1>3

(* Only the study that was defined last passes the checks of a dispatch: an *)
(* earlier one has no receipts and is closed, or has receipts of sources    *)
(* that are no longer those of its spec.                                    *)
LEMMA DispatchIsOfTheLast ==
    ASSUME LineageInv, NEW k \in Studies, StartDispatch(k)
    PROVE  k = protocols /\ capsule[k].study_spec.tasks = SelectedTasks(k)
<1>. USE DEF LineageInv
<1>. DEFINE spec == capsule[k].study_spec
<1>1. /\ \A f \in DOMAIN Content : capsule[k][f] # Unwritten
      /\ LoadsPlan(k) /\ ValidateHeadlineStudy(k, trials[k] = <<>>)
  BY DEF StartDispatch
<1>2. k <= protocols
  <2>1. "study_spec" \in DOMAIN Content /\ k \in Nat /\ protocols \in Nat
    BY DEF Content, LineageTypes, Studies
  <2>. QED
    BY <2>1, <1>1 DEF FilesAreWhole
<1>3. spec.harness = sources
  BY <1>1 DEF ValidateHeadlineStudy
<1>4. trials[k] = <<>> => ~closed[k]
  BY <1>1 DEF ValidateHeadlineStudy, OutputRootIsClean
<1>5. trials[k] # <<>> => 1 \in DOMAIN trials[k] /\ trials[k][1].harness = sources
  <2>1. trials[k] # <<>> => 1 \in DOMAIN trials[k]
    BY EmptySeq, LenProperties DEF LineageTypes
  <2>2. \A i \in DOMAIN trials[k] : trials[k][i].harness = spec.harness
    <3>1. ExistingReceipts(k, spec)
      BY <1>1 DEF LoadsPlan
    <3>2. ASSUME NEW i \in DOMAIN trials[k] PROVE trials[k][i].harness = spec.harness
      <4>1. trials[k][i] = [task |-> Slot(spec.tasks, i), harness |-> spec.harness,
                            cost |-> "isolated"]
        BY <3>1 DEF ExistingReceipts
      <4>. QED
        BY <4>1
    <3>. QED
      BY <3>2
  <2>. QED
    BY <2>1, <2>2, <1>3
<1>6. k = protocols
  <2>1. ~(k < protocols)
    BY <1>4, <1>5 DEF Superseded, LineageTypes, TrialReceipts
  <2>. QED
    BY <2>1, <1>2 DEF LineageTypes, Studies
<1>7. spec.tasks = SelectedTasks(k)
  <2>1. capsule[k].final_manifest.tasks = SelectedTasks(k) /\ Binds(spec, capsule[k].final_manifest)
    BY <1>1 DEF ValidateHeadlineStudy, LockedSelection
  <2>2. "final_manifest" \in DOMAIN Content /\ "tasks" \in Content["final_manifest"]
    BY DEF Content
  <2>3. "tasks" \in DOMAIN capsule[k].final_manifest
    BY <2>2, <1>1 DEF FilesAreWhole
  <2>. QED
    BY <2>1, <2>3 DEF Binds
<1>. QED
  BY <1>6, <1>7

-----------------------------------------------------------------------------
(* The steps                                                               *)

(* A dispatch is of the study that was defined last. *)
LEMMA StartDispatchKeeps ==
    ASSUME LineageInv, NEW k \in Studies, StartDispatch(k)
    PROVE  LineageInv'
<1>. USE DEF LineageInv
<1>1. k = protocols /\ capsule[k].study_spec.tasks = SelectedTasks(k)
  BY DispatchIsOfTheLast
<1>. DEFINE d == [at |-> "ready", spec |-> capsule[k].study_spec, known |-> Len(trials[k]),
                  harness |-> 0]
<1>2. /\ UNCHANGED <<lineage, sources, protocols, excluded, evidence, capsule, building, closed,
                     trials, exposed>>
      /\ dispatching' = [dispatching EXCEPT ![k] = d]
  BY DEF StartDispatch
<1>3. /\ dispatching' = [j \in Studies |-> dispatching'[j]] /\ dispatching'[k] = d
      /\ \A j \in Studies : j # k => dispatching'[j] = dispatching[j]
  BY <1>2 DEF LineageTypes
<1>4. DispatchOf(k)'
  BY <1>1, <1>2, <1>3 DEF DispatchOf, SelectedTasks, LineageTypes
<1>5. /\ trials' = [j \in Studies |-> trials'[j]] /\ exposed' = [j \in Studies |-> exposed'[j]]
      /\ trials'[k] \in Seq(TrialReceipts) /\ Len(trials'[k]) <= NTasks
      /\ \A i \in DOMAIN trials'[k] : trials'[k][i].harness <= sources
  BY <1>2 DEF LineageTypes, Superseded
<1>. QED
  BY <1>1, <1>2, <1>3, <1>4, <1>5, OwnStep

(* Whoever stops leaves its receipts and what it has shown. *)
LEMMA LeaveDispatchKeeps ==
    ASSUME LineageInv, NEW k \in Studies, LeaveDispatch(k) \/ LoseRun(k)
    PROVE  LineageInv'
<1>. USE DEF LineageInv
<1>1. k = protocols
  BY DEF LeaveDispatch, LoseRun, LastIsDispatched
<1>2. /\ UNCHANGED <<lineage, sources, protocols, excluded, evidence, capsule, building, closed,
                     trials, exposed>>
      /\ dispatching' = [dispatching EXCEPT ![k] = Unwritten]
  BY DEF LeaveDispatch, LoseRun
<1>3. /\ dispatching' = [j \in Studies |-> dispatching'[j]] /\ dispatching'[k] = Unwritten
      /\ \A j \in Studies : j # k => dispatching'[j] = dispatching[j]
  BY <1>2 DEF LineageTypes
<1>4. /\ trials' = [j \in Studies |-> trials'[j]] /\ exposed' = [j \in Studies |-> exposed'[j]]
      /\ trials'[k] \in Seq(TrialReceipts) /\ Len(trials'[k]) <= NTasks
      /\ \A i \in DOMAIN trials'[k] : trials'[k][i].harness <= sources
  BY <1>2 DEF LineageTypes, Superseded
<1>. QED
  BY <1>1, <1>2, <1>3, <1>4, OwnStep

(* What is shown next is selected, so nobody has shown it before. *)
LEMMA StartTrialKeeps ==
    ASSUME LineageInv, NEW k \in Studies, StartTrial(k)
    PROVE  LineageInv'
<1>. USE DEF LineageInv
<1>1. k = protocols /\ DispatchOf(k) /\ Remaining(k)
  BY DEF StartTrial, Remaining, LastIsDispatched
<1>2. NextSlot(k) \in SelectedTasks(k)
  BY <1>1, NextIsSelected DEF Remaining
<1>3. /\ UNCHANGED <<lineage, sources, protocols, excluded, evidence, capsule, building, closed,
                     trials>>
      /\ exposed' = [exposed EXCEPT ![k] = @ \cup {NextSlot(k)}]
      /\ dispatching' = [dispatching EXCEPT ![k].at = "agent", ![k].harness = sources]
  BY DEF StartTrial
<1>4. /\ dispatching' = [j \in Studies |-> dispatching'[j]]
      /\ \A j \in Studies : j # k => dispatching'[j] = dispatching[j]
      /\ dispatching'[k] = [dispatching[k] EXCEPT !.at = "agent", !.harness = sources]
  BY <1>3 DEF LineageTypes
<1>5. dispatching'[k] = [at |-> "agent", spec |-> dispatching[k].spec,
                        known |-> dispatching[k].known, harness |-> sources]
  BY <1>1, <1>4 DEF DispatchOf
<1>6. DispatchOf(k)'
  BY <1>1, <1>3, <1>5 DEF DispatchOf, Remaining, SelectedTasks, LineageTypes
<1>7. /\ trials' = [j \in Studies |-> trials'[j]]
      /\ trials'[k] \in Seq(TrialReceipts) /\ Len(trials'[k]) <= NTasks
      /\ \A i \in DOMAIN trials'[k] : trials'[k][i].harness <= sources
  BY <1>3 DEF LineageTypes, Superseded
<1>8. /\ exposed' = [j \in Studies |-> exposed'[j]]
      /\ \A j \in Studies : j # k => exposed'[j] = exposed[j]
      /\ exposed'[k] \subseteq exposed[k] \cup SelectedTasks(k)
  BY <1>2, <1>3 DEF LineageTypes
<1>. QED
  BY <1>1, <1>3, <1>4, <1>6, <1>7, <1>8, OwnStep

(* The next receipt is the next row, of sources that are written. *)
LEMMA AppendReceiptKeeps ==
    ASSUME LineageInv, NEW k \in Studies, AppendReceipt(k)
    PROVE  LineageInv'
<1>. USE DEF LineageInv
<1>1. k = protocols /\ DispatchOf(k) /\ dispatching[k] # Unwritten /\ dispatching[k].at = "agent"
  BY DEF AppendReceipt, LastIsDispatched
<1>2. NextSlot(k) \in LockedCandidates /\ Len(trials[k]) + 1 <= NTasks
  BY <1>1, NextIsSelected DEF DispatchOf
<1>3. PICK cost \in {"isolated", "missing"} :
        /\ trials' = [trials EXCEPT ![k] = Append(@, [task |-> NextSlot(k), cost |-> cost,
                                                      harness |-> dispatching[k].harness])]
        /\ dispatching' = [dispatching EXCEPT ![k] =
             IF cost = "isolated" /\ @.harness = @.spec.harness
               THEN [@ EXCEPT !.at = "ready", !.known = dispatching[k].known + 1, !.harness = 0]
               ELSE Unwritten]
  BY DEF AppendReceipt
<1>4. UNCHANGED <<lineage, sources, protocols, excluded, evidence, capsule, building, closed,
                  exposed>>
  BY DEF AppendReceipt
<1>. DEFINE receipt == [task |-> NextSlot(k), cost |-> cost, harness |-> dispatching[k].harness]
<1>5. receipt \in TrialReceipts /\ receipt.harness <= sources
  BY <1>1, <1>2 DEF TrialReceipts, DispatchOf, LineageTypes
<1>6. /\ trials' = [j \in Studies |-> trials'[j]] /\ trials'[k] = Append(trials[k], receipt)
      /\ \A j \in Studies : j # k => trials'[j] = trials[j]
  BY <1>3 DEF LineageTypes
<1>. HIDE DEF receipt
<1>7. /\ trials'[k] \in Seq(TrialReceipts) /\ Len(trials'[k]) <= NTasks
      /\ Len(trials'[k]) = Len(trials[k]) + 1
      /\ \A i \in DOMAIN trials'[k] : trials'[k][i].harness <= sources
  BY <1>2, <1>5, <1>6, ReceiptAppended
<1>8. /\ dispatching' = [j \in Studies |-> dispatching'[j]]
      /\ \A j \in Studies : j # k => dispatching'[j] = dispatching[j]
      /\ \/ dispatching'[k] = Unwritten
         \/ dispatching'[k] = [dispatching[k] EXCEPT !.at = "ready", !.harness = 0,
                                                    !.known = dispatching[k].known + 1]
  <2>. DEFINE goesOn == cost = "isolated" /\ dispatching[k].harness = dispatching[k].spec.harness
              next == [dispatching[k] EXCEPT !.at = "ready", !.known = dispatching[k].known + 1,
                                             !.harness = 0]
  <2>1. goesOn => dispatching' = [dispatching EXCEPT ![k] = next]
    BY <1>3
  <2>2. ~goesOn => dispatching' = [dispatching EXCEPT ![k] = Unwritten]
    BY <1>3
  <2>. HIDE DEF goesOn, next
  <2>3. \A v : dispatching' = [dispatching EXCEPT ![k] = v] =>
          /\ dispatching' = [j \in Studies |-> dispatching'[j]] /\ dispatching'[k] = v
          /\ \A j \in Studies : j # k => dispatching'[j] = dispatching[j]
    BY DEF LineageTypes
  <2>4. PICK v \in {next, Unwritten} : dispatching' = [dispatching EXCEPT ![k] = v]
    BY <2>1, <2>2
  <2>. QED
    BY <2>3, <2>4 DEF next
<1>9. ASSUME dispatching'[k] # Unwritten PROVE DispatchOf(k)'
  <2>1. dispatching'[k] = [at |-> "ready", spec |-> dispatching[k].spec,
                          known |-> dispatching[k].known + 1, harness |-> 0]
    BY <1>1, <1>8, <1>9 DEF DispatchOf
  <2>. QED
    BY <1>1, <1>4, <1>7, <2>1 DEF DispatchOf, SelectedTasks, LineageTypes
<1>10. exposed' = [j \in Studies |-> exposed'[j]] /\ exposed'[k] = exposed[k]
      /\ \A j \in Studies : j # k => exposed'[j] = exposed[j]
  BY <1>4 DEF LineageTypes
<1>. QED
  BY <1>1, <1>4, <1>6, <1>7, <1>8, <1>9, <1>10, OwnStep

(* So is that of a run whose agent was never started. *)
LEMMA FailBeforeAgentKeeps ==
    ASSUME LineageInv, NEW k \in Studies, FailBeforeAgent(k)
    PROVE  LineageInv'
<1>. USE DEF LineageInv
<1>1. k = protocols /\ Remaining(k)
  BY DEF FailBeforeAgent, Remaining, LastIsDispatched
<1>2. NextSlot(k) \in LockedCandidates /\ Len(trials[k]) + 1 <= NTasks
  BY <1>1, NextIsSelected DEF Remaining
<1>. DEFINE receipt == [task |-> NextSlot(k), cost |-> "pre_agent", harness |-> sources]
<1>3. /\ UNCHANGED <<lineage, sources, protocols, excluded, evidence, capsule, building, closed,
                     exposed>>
      /\ trials' = [trials EXCEPT ![k] = Append(@, receipt)]
      /\ dispatching' = [dispatching EXCEPT ![k] = Unwritten]
  BY DEF FailBeforeAgent
<1>4. receipt \in TrialReceipts /\ receipt.harness <= sources
  BY <1>2 DEF TrialReceipts, LineageTypes
<1>5. /\ trials' = [j \in Studies |-> trials'[j]] /\ trials'[k] = Append(trials[k], receipt)
      /\ \A j \in Studies : j # k => trials'[j] = trials[j]
  BY <1>3 DEF LineageTypes
<1>. HIDE DEF receipt
<1>6. /\ trials'[k] \in Seq(TrialReceipts) /\ Len(trials'[k]) <= NTasks
      /\ \A i \in DOMAIN trials'[k] : trials'[k][i].harness <= sources
  BY <1>2, <1>4, <1>5, ReceiptAppended
<1>7. /\ dispatching' = [j \in Studies |-> dispatching'[j]] /\ dispatching'[k] = Unwritten
      /\ \A j \in Studies : j # k => dispatching'[j] = dispatching[j]
      /\ exposed' = [j \in Studies |-> exposed'[j]] /\ exposed'[k] = exposed[k]
      /\ \A j \in Studies : j # k => exposed'[j] = exposed[j]
  BY <1>3 DEF LineageTypes
<1>. QED
  BY <1>1, <1>3, <1>5, <1>6, <1>7, OwnStep

(* Newer sources make every receipt one of older sources. *)
LEMMA EditSourcesKeeps ==
    ASSUME LineageInv, EditSources
    PROVE  LineageInv'
<1>. USE DEF LineageInv
<1>1. /\ UNCHANGED <<lineage, protocols, excluded, evidence, capsule, building, trials, exposed,
                     closed, dispatching>>
      /\ sources < MaxSources /\ sources' = sources + 1
  BY DEF EditSources
<1>2. LineageTypes'
  BY <1>1, LineageAssumption DEF LineageTypes, Studies
<1>3. FilesAreWhole'
  BY <1>1, FilesFrame DEF LineageTypes, Studies
<1>4. Superseded'
  <2>1. ASSUME NEW k \in Studies, NEW i \in DOMAIN trials[k] PROVE trials[k][i].harness < sources'
    BY <1>1, ReceiptTyped DEF LineageTypes
  <2>2. \A k \in Studies : \A i \in DOMAIN trials[k] : trials[k][i].harness <= sources'
    BY <2>1, <1>1, ReceiptTyped DEF LineageTypes
  <2>. QED
    BY <2>1, <2>2, <1>1 DEF Superseded, Studies
<1>5. LastIsDispatched'
  BY <1>1 DEF LastIsDispatched, DispatchOf, SelectedTasks, LineageTypes, Studies
<1>6. ExposuresAccumulate' /\ ConfirmatoryIsUnexposed'
  BY <1>1 DEF ExposuresAccumulate, ConfirmatoryIsUnexposed, Studies
<1>. QED
  BY <1>2, <1>3, <1>4, <1>5, <1>6

(* A terminal record is never taken back. *)
LEMMA CloseStudyKeeps ==
    ASSUME LineageInv, NEW k \in Studies, CloseStudy(k)
    PROVE  LineageInv'
<1>. USE DEF LineageInv
<1>1. /\ UNCHANGED <<lineage, sources, protocols, excluded, evidence, capsule, building, trials,
                     exposed, dispatching>>
      /\ closed' = [closed EXCEPT ![k] = TRUE]
  BY DEF CloseStudy
<1>2. closed' \in [Studies -> BOOLEAN] /\ \A j \in Studies : closed[j] => closed'[j]
  BY <1>1 DEF LineageTypes
<1>3. LineageTypes'
  BY <1>1, <1>2 DEF LineageTypes, Studies
<1>4. FilesAreWhole'
  BY <1>1, FilesFrame DEF LineageTypes, Studies
<1>5. Superseded'
  BY <1>1, <1>2 DEF Superseded, Studies
<1>6. LastIsDispatched'
  BY <1>1 DEF LastIsDispatched, DispatchOf, SelectedTasks, Studies
<1>7. ExposuresAccumulate' /\ ConfirmatoryIsUnexposed'
  BY <1>1 DEF ExposuresAccumulate, ConfirmatoryIsUnexposed, Studies
<1>. QED
  BY <1>3, <1>4, <1>5, <1>6, <1>7

(* The predecessor is closed and at rest, and the sources are no longer     *)
(* those that any of its receipts is of.                                    *)
LEMMA AmendProtocolKeeps ==
    ASSUME LineageInv, AmendProtocol
    PROVE  LineageInv'
<1>. USE DEF LineageInv
<1>1. /\ UNCHANGED <<lineage, capsule, building, trials, exposed, closed, dispatching>>
      /\ protocols < Len(lineage) /\ protocols' = protocols + 1
      /\ sources < MaxSources /\ sources' = sources + 1
      /\ closed[protocols] /\ dispatching[protocols] = Unwritten
      /\ excluded' = [excluded EXCEPT ![protocols + 1] = PostLockExposures(protocols)]
      /\ evidence' = [evidence EXCEPT ![protocols + 1] =
                        [sampled |-> {j \in 1..protocols : trials[j] # <<>>},
                         receipts |-> trials[protocols]]]
  BY DEF AmendProtocol
<1>2. /\ Studies' = Studies /\ Studies = 1..Len(lineage) /\ Len(lineage) \in Nat
      /\ protocols \in Studies /\ protocols' \in Studies /\ protocols \in Nat
  BY <1>1 DEF LineageTypes, Studies
<1>3. /\ excluded' \in [Studies -> SUBSET LockedCandidates]
      /\ \A j \in Studies : j # protocols' => excluded'[j] = excluded[j]
      /\ excluded'[protocols'] = excluded[protocols] \cup exposed[protocols]
  BY <1>1, <1>2 DEF LineageTypes, PostLockExposures
<1>4. LineageTypes'
  <2>1. evidence' = [j \in Studies |-> evidence'[j]]
    BY <1>1 DEF LineageTypes
  <2>2. sources' \in 1..MaxSources
    BY <1>1, LineageAssumption DEF LineageTypes
  <2>. QED
    BY <1>1, <1>2, <1>3, <2>1, <2>2 DEF LineageTypes
<1>5. FilesAreWhole'
  BY <1>1, <1>2, FilesFrame
<1>6. \A j \in Studies : dispatching[j] = Unwritten
  BY <1>1 DEF LastIsDispatched
<1>7. Superseded'
  <2>1. ASSUME NEW j \in Studies, NEW i \in DOMAIN trials[j] PROVE trials[j][i].harness < sources'
    <3>1. trials[j][i].harness \in Nat /\ trials[j][i].harness <= sources
      BY ReceiptTyped
    <3>. QED
      BY <3>1, <1>1 DEF LineageTypes
  <2>2. ASSUME NEW j \in Studies, j < protocols' PROVE closed[j]
    <3>1. j < protocols \/ j = protocols
      BY <2>2, <1>1, <1>2
    <3>. QED
      BY <3>1, <1>1 DEF Superseded
  <2>3. \A j \in Studies : \A i \in DOMAIN trials[j] : trials[j][i].harness <= sources'
    BY <2>1, <1>1, ReceiptTyped DEF LineageTypes
  <2>. QED
    BY <2>1, <2>2, <2>3, <1>1, <1>2, <1>6 DEF Superseded
<1>8. LastIsDispatched'
  BY <1>1, <1>2, <1>6 DEF LastIsDispatched
<1>9. ExposuresAccumulate'
  <2>1. ASSUME NEW j \in Studies, NEW k \in Studies, j < k, k <= protocols'
        PROVE  exposed[j] \subseteq excluded'[k]
    <3>1. CASE k = protocols'
      <4>1. j = protocols \/ j < protocols
        BY <3>1, <2>1, <1>1, <1>2
      <4>. QED
        BY <4>1, <3>1, <1>2, <1>3 DEF ExposuresAccumulate
    <3>2. CASE k # protocols'
      BY <3>2, <2>1, <1>1, <1>2, <1>3 DEF ExposuresAccumulate
    <3>. QED
      BY <3>1, <3>2
  <2>. QED
    BY <2>1, <1>1, <1>2 DEF ExposuresAccumulate
<1>10. ConfirmatoryIsUnexposed'
  BY <1>1, <1>2 DEF ConfirmatoryIsUnexposed
<1>. QED
  BY <1>4, <1>5, <1>7, <1>8, <1>9, <1>10

(* Builders and the operator write whole files, of studies that are defined. *)
LEMMA FilesKeep ==
    ASSUME LineageInv,
           WriteArtifact \/ KillBuilder \/ \E k \in Studies : StartBuild(k) \/ Authorize(k)
    PROVE  LineageInv'
<1>. USE DEF LineageInv
<1>1. UNCHANGED <<lineage, sources, protocols, excluded, evidence, trials, exposed, closed,
                  dispatching>>
  BY DEF WriteArtifact, KillBuilder, StartBuild, Authorize
<1>2. Studies' = Studies
  BY <1>1 DEF Studies
<1>3. CASE WriteArtifact
  <2>. DEFINE f == WriteOrder[building.next]
              file == [x \in Content[f] |-> building.payloads[x]]
  <2>1. capsule' = [capsule EXCEPT ![building.study][f] = file] /\ building # Unwritten
    BY <1>3 DEF WriteArtifact
  <2>2. /\ DOMAIN file = Content[f] /\ building.study \in 2..protocols
        /\ capsule = [k \in Studies |-> [g \in DOMAIN Content |-> capsule[k][g]]]
    BY <2>1 DEF FilesAreWhole
  <2>. HIDE DEF f, file
  <2>3. /\ capsule' = [k \in Studies |-> [g \in DOMAIN Content |-> capsule'[k][g]]]
        /\ \A k \in Studies : \A g \in DOMAIN Content :
              capsule'[k][g] = IF k = building.study /\ g = f THEN file ELSE capsule[k][g]
    BY <2>1, <2>2
  <2>4. building' # Unwritten => building' = [building EXCEPT !.next = @ + 1]
    BY <1>3 DEF WriteArtifact
  <2>5. building' # Unwritten =>
          /\ building'.study \in 2..protocols
          /\ building' = [study |-> building'.study, next |-> building'.next,
                          payloads |-> building'.payloads]
    BY <2>1, <2>4 DEF FilesAreWhole
  <2>6. \A k \in Studies : \A g \in DOMAIN Content :
          /\ capsule'[k][g] = Unwritten \/ DOMAIN capsule'[k][g] = Content[g]
          /\ k > protocols => capsule'[k][g] = Unwritten
    <3>1. \A k \in Studies : k > protocols => k # building.study
      BY <2>2 DEF LineageTypes, Studies
    <3>2. \A k \in Studies : \A g \in DOMAIN Content :
            /\ capsule[k][g] = Unwritten \/ DOMAIN capsule[k][g] = Content[g]
            /\ k > protocols => capsule[k][g] = Unwritten
      BY DEF FilesAreWhole
    <3>. QED
      BY <2>2, <2>3, <3>1, <3>2
  <2>7. FilesAreWhole'
    BY <2>3, <2>5, <2>6, <1>1, <1>2 DEF FilesAreWhole
  <2>. QED
    BY <2>7, <1>1, FilesOnly
<1>4. CASE KillBuilder
  <2>1. FilesAreWhole'
    BY <1>4, <1>1, <1>2 DEF KillBuilder, FilesAreWhole
  <2>. QED
    BY <2>1, <1>1, FilesOnly
<1>5. ASSUME NEW k \in Studies, StartBuild(k) PROVE LineageInv'
  <2>1. /\ building' = [study |-> k, next |-> 1, payloads |-> BuildCorePayloads(k)]
        /\ k \in 2..protocols /\ capsule' = capsule
    BY <1>5 DEF StartBuild
  <2>2. building'.study = k /\ building' = [study |-> building'.study, next |-> building'.next,
                                           payloads |-> building'.payloads]
    BY <2>1
  <2>3. FilesAreWhole'
    BY <2>1, <2>2, <1>1, <1>2 DEF FilesAreWhole
  <2>. QED
    BY <2>3, <1>1, FilesOnly
<1>6. ASSUME NEW k \in Studies, Authorize(k) PROVE LineageInv'
  <2>. DEFINE plan == [capsule[k].dispatch_plan EXCEPT !.authorized = TRUE]
  <2>1. /\ capsule' = [capsule EXCEPT ![k].dispatch_plan.authorized = TRUE]
        /\ capsule[k].dispatch_plan # Unwritten /\ building' = building
    BY <1>6 DEF Authorize
  <2>2. /\ capsule = [j \in Studies |-> [g \in DOMAIN Content |-> capsule[j][g]]]
        /\ "dispatch_plan" \in DOMAIN Content
        /\ DOMAIN plan = DOMAIN capsule[k].dispatch_plan
    BY DEF FilesAreWhole, Content
  <2>3. /\ capsule' = [j \in Studies |-> [g \in DOMAIN Content |-> capsule'[j][g]]]
        /\ \A j \in Studies : \A g \in DOMAIN Content :
              capsule'[j][g] = IF j = k /\ g = "dispatch_plan" THEN plan ELSE capsule[j][g]
    BY <2>1, <2>2
  <2>. HIDE DEF plan
  <2>4. DOMAIN plan = Content["dispatch_plan"] /\ ~(k > protocols)
    BY <2>1, <2>2 DEF FilesAreWhole
  <2>5. \A j \in Studies : \A g \in DOMAIN Content :
          /\ capsule'[j][g] = Unwritten \/ DOMAIN capsule'[j][g] = Content[g]
          /\ j > protocols => capsule'[j][g] = Unwritten
    BY <2>3, <2>4 DEF FilesAreWhole
  <2>6. FilesAreWhole'
    BY <2>1, <2>3, <2>5, <1>1, <1>2 DEF FilesAreWhole
  <2>. QED
    BY <2>6, <1>1, FilesOnly
<1>. QED
  BY <1>3, <1>4, <1>5, <1>6

(* The invariant is inductive. *)
LEMMA LineageSteps == LineageInv /\ [LineageNext]_lineageVars => LineageInv'
<1>. SUFFICES ASSUME LineageInv, [LineageNext]_lineageVars PROVE LineageInv'
  OBVIOUS
<1>1. CASE EditSources
  BY <1>1, EditSourcesKeeps
<1>2. CASE AmendProtocol
  BY <1>2, AmendProtocolKeeps
<1>3. CASE WriteArtifact \/ KillBuilder \/ \E k \in Studies : StartBuild(k) \/ Authorize(k)
  BY <1>3, FilesKeep
<1>4. ASSUME NEW k \in Studies, CloseStudy(k) PROVE LineageInv'
  BY <1>4, CloseStudyKeeps
<1>5. ASSUME NEW k \in Studies, StartDispatch(k) PROVE LineageInv'
  BY <1>5, StartDispatchKeeps
<1>6. ASSUME NEW k \in Studies, LeaveDispatch(k) \/ LoseRun(k) PROVE LineageInv'
  BY <1>6, LeaveDispatchKeeps
<1>7. ASSUME NEW k \in Studies, StartTrial(k) PROVE LineageInv'
  BY <1>7, StartTrialKeeps
<1>8. ASSUME NEW k \in Studies, AppendReceipt(k) PROVE LineageInv'
  BY <1>8, AppendReceiptKeeps
<1>9. ASSUME NEW k \in Studies, FailBeforeAgent(k) PROVE LineageInv'
  BY <1>9, FailBeforeAgentKeeps
<1>10. CASE UNCHANGED lineageVars
  <2>1. UNCHANGED <<lineage, sources, protocols, excluded, evidence, trials, exposed, closed,
                    dispatching>> /\ UNCHANGED <<capsule, building>>
    BY <1>10 DEF lineageVars
  <2>2. FilesAreWhole'
    BY <2>1 DEF LineageInv, FilesAreWhole, Studies
  <2>. QED
    BY <2>1, <2>2, FilesOnly
<1>. QED
  BY <1>1, <1>2, <1>3, <1>4, <1>5, <1>6, <1>7, <1>8, <1>9, <1>10 DEF LineageNext

(* Every study has at most one trial for each of its candidates, and shows  *)
(* none that is not one.                                                    *)
THEOREM LineageIsTyped == LineageSpec => []LineageTypeOK
<1>1. LineageInv => LineageTypeOK
  BY DEF LineageInv, LineageTypes, LineageTypeOK
<1>. QED
  BY <1>1, LineageStarts, LineageSteps, PTL DEF LineageSpec

(* No two studies put one task before an agent, whichever builders they     *)
(* have, however often they are stopped, closed and amended.                *)
THEOREM NoTaskShownTwice == LineageSpec => []ConfirmatoryIsUnexposed
<1>1. LineageInv => ConfirmatoryIsUnexposed
  BY DEF LineageInv
<1>. QED
  BY <1>1, LineageStarts, LineageSteps, PTL DEF LineageSpec

-----------------------------------------------------------------------------
(* The publication                                                         *)

TreatmentInputs == [TreatmentParts -> Nat]
StudyManifests == [plan : Nat, inputs : TreatmentInputs]
StudySpecs == [manifest : StudyManifests, harness : Nat]
StudyTrials == [arm : StudyArms, attempt : 1..MaxTries, valid : BOOLEAN, spec : StudySpecs,
           inputs : [TreatmentParts -> Nat \cup {Withheld}], cost : {1, Withheld}]

\* Types.
PublicationTypes ==
    /\ shape \in StudyShapes /\ changes \in 0..MaxChanges
    /\ given \in TreatmentInputs
    /\ locked \in [plan : Nat, manifest : StudyManifests, spec : StudySpecs]
    /\ attempts \in Seq(StudyTrials)
    /\ running # Resting => running.arm \in StudyArms /\ running.inputs \in TreatmentInputs

\* What is known of a snapshot once it is read, once it is validated, once it is staged.
ReadHolds(p) == p.log \in Seq(StudyTrials) /\ BelongsToSpec(p.spec, p.log)

ValidatedHolds(p) ==
    p.manifest \in StudyManifests /\ AnalysisContractHolds(p.spec, p.manifest, p.plan)

StagedHolds(p) ==
    /\ ReceiptProvenance(p.manifest, p.log) /\ HeadlineEligible(p.log)
    /\ p.report.sources = [spec |-> p.spec, log |-> p.log]

ReleaseHolds ==
    released # Withheld => ReadHolds(released) /\ ValidatedHolds(released) /\ StagedHolds(released)

\* The promotion has only the snapshot to go by, which no later edit reaches.
SnapshotHolds ==
    /\ promotion # Resting =>
          /\ promotion.at \in {"read", "validated", "staged"} /\ ReadHolds(promotion)
          /\ promotion.at # "read" => ValidatedHolds(promotion)
          /\ promotion.at = "staged" => StagedHolds(promotion)
    /\ ReleaseHolds

PublicationInv == PublicationTypes /\ SnapshotHolds

-----------------------------------------------------------------------------
(* The three files are those of the tree, and there is no snapshot. *)
LEMMA PublicationStarts == PublicationInit => PublicationInv
<1>. SUFFICES ASSUME PublicationInit PROVE PublicationInv
  OBVIOUS
<1>1. given \in TreatmentInputs
  BY DEF PublicationInit, TreatmentInputs
<1>2. ManifestFor(1, given) \in StudyManifests
  BY <1>1 DEF ManifestFor, StudyManifests
<1>3. SpecFor(ManifestFor(1, given), 1) \in StudySpecs
  BY <1>2 DEF SpecFor, StudySpecs
<1>4. locked \in [plan : Nat, manifest : StudyManifests, spec : StudySpecs]
  BY <1>2, <1>3 DEF PublicationInit
<1>5. changes \in 0..MaxChanges /\ attempts \in Seq(StudyTrials)
  BY PublicationAssumption, EmptySeq DEF PublicationInit
<1>. QED
  BY <1>1, <1>4, <1>5 DEF PublicationInit, PublicationInv, PublicationTypes, SnapshotHolds,
     ReleaseHolds

(* The number of a trial is within the attempts of its arm. *)
LEMMA TrialAppended ==
    ASSUME PublicationInv, NEW a \in StudyArms, NEW valid \in BOOLEAN,
           NEW inputs \in [TreatmentParts -> Nat \cup {Withheld}], NEW cost \in {1, Withheld},
           AppendTrial(a, valid, inputs, cost)
    PROVE  attempts' \in Seq(StudyTrials)
<1>1. attempts \in Seq(StudyTrials) /\ locked.spec \in StudySpecs /\ MaxTries \in Nat
  BY PublicationAssumption DEF PublicationInv, PublicationTypes, MaxTries
<1>2. Tries(a) \in Nat /\ Tries(a) < MaxTries
  <2>1. Len(attempts) \in Nat /\ DOMAIN attempts = 1..Len(attempts)
    BY <1>1, LenProperties
  <2>2. IsFiniteSet(1..Len(attempts))
    BY <2>1, FS_Interval
  <2>3. {i \in DOMAIN attempts : attempts[i].arm = a} \in SUBSET (1..Len(attempts))
    BY <2>1
  <2>4. IsFiniteSet({i \in DOMAIN attempts : attempts[i].arm = a})
    BY <2>2, <2>3, FS_Subset
  <2>. QED
    BY <2>4, FS_CardinalityType DEF Tries, AppendTrial
<1>. DEFINE t == [arm |-> a, attempt |-> Tries(a) + 1, valid |-> valid, spec |-> locked.spec,
                  inputs |-> inputs, cost |-> cost]
<1>3. Tries(a) + 1 \in 1..MaxTries
  BY <1>1, <1>2
<1>4. t \in StudyTrials
  BY <1>1, <1>3 DEF StudyTrials
<1>5. attempts' = Append(attempts, t)
  BY DEF AppendTrial
<1>. HIDE DEF t
<1>. QED
  BY <1>1, <1>4, <1>5, AppendProperties

(* What goes on in the tree and in the trials does not reach the snapshot. *)
LEMMA SnapshotFrame ==
    ASSUME PublicationInv, UNCHANGED <<shape, promotion, released>>
    PROVE  SnapshotHolds'
<1>1. UNCHANGED <<StudyArms, MaxTries>> /\ StudyTrials' = StudyTrials
  BY DEF StudyArms, MaxTries, StudyTrials
<1>. QED
  BY <1>1 DEF PublicationInv, SnapshotHolds, ReleaseHolds, ReadHolds, ValidatedHolds, StagedHolds,
     HeadlineEligible

(* The promotion keeps the tree and the trials. *)
LEMMA TreeFrame ==
    ASSUME PublicationInv, UNCHANGED <<shape, given, locked, changes, running, attempts>>
    PROVE  PublicationTypes' /\ StudyTrials' = StudyTrials /\ UNCHANGED StudyArms
  BY DEF PublicationInv, PublicationTypes, StudyArms, MaxTries, StudyTrials

(* The invariant is inductive. *)
LEMMA PublicationSteps == PublicationInv /\ [PublicationNext]_publicationVars => PublicationInv'
<1>. SUFFICES ASSUME PublicationInv, [PublicationNext]_publicationVars PROVE PublicationInv'
  OBVIOUS
<1>. USE DEF PublicationInv
<1>. DEFINE Same == UNCHANGED <<shape, promotion, released>>
<1>1. ASSUME NEW p \in TreatmentParts, EditGiven(p) PROVE PublicationInv'
  <2>1. UNCHANGED <<shape, locked, running, attempts, promotion, released>>
    BY <1>1 DEF EditGiven
  <2>2. StudyTrials' = StudyTrials /\ UNCHANGED StudyArms
    BY <2>1 DEF StudyArms, MaxTries, StudyTrials
  <2>3. given' \in TreatmentInputs /\ changes' \in 0..MaxChanges
    BY <1>1, PublicationAssumption DEF EditGiven, PublicationTypes, TreatmentInputs
  <2>4. PublicationTypes'
    BY <2>1, <2>2, <2>3 DEF PublicationTypes
  <2>. QED
    BY <2>1, <2>4, SnapshotFrame
<1>2. CASE RewritePlan \/ Relock("manifest") \/ Relock("spec")
  <2>1. UNCHANGED <<shape, given, running, attempts, promotion, released>>
    BY <1>2 DEF RewritePlan, Relock
  <2>2. StudyTrials' = StudyTrials /\ UNCHANGED StudyArms
    BY <2>1 DEF StudyArms, MaxTries, StudyTrials
  <2>3. /\ ManifestFor(locked.plan, given) \in StudyManifests
        /\ SpecFor(locked.manifest, given["harness"]) \in StudySpecs
    BY DEF PublicationTypes, ManifestFor, StudyManifests, SpecFor, StudySpecs, TreatmentInputs, TreatmentParts
  <2>4. locked' \in [plan : Nat, manifest : StudyManifests, spec : StudySpecs]
    <3>1. CASE RewritePlan
      BY <3>1 DEF RewritePlan, PublicationTypes
    <3>2. CASE Relock("manifest")
      BY <3>2, <2>3 DEF Relock, PublicationTypes
    <3>3. CASE Relock("spec")
      BY <3>3, <2>3 DEF Relock, PublicationTypes
    <3>. QED
      BY <1>2, <3>1, <3>2, <3>3
  <2>5. changes' \in 0..MaxChanges
    BY <1>2, PublicationAssumption DEF RewritePlan, Relock, PublicationTypes
  <2>6. PublicationTypes'
    BY <2>1, <2>2, <2>4, <2>5 DEF PublicationTypes
  <2>. QED
    BY <2>1, <2>6, SnapshotFrame
<1>3. ASSUME NEW a \in StudyArms, StartRun(a) PROVE PublicationInv'
  <2>1. UNCHANGED <<shape, given, locked, changes, attempts, promotion, released>>
    BY <1>3 DEF StartRun
  <2>2. StudyTrials' = StudyTrials /\ UNCHANGED StudyArms
    BY <2>1 DEF StudyArms, MaxTries, StudyTrials
  <2>3. running'.arm \in StudyArms /\ running'.inputs \in TreatmentInputs
    BY <1>3 DEF StartRun, PublicationTypes
  <2>4. PublicationTypes'
    BY <2>1, <2>2, <2>3 DEF PublicationTypes
  <2>. QED
    BY <2>1, <2>4, SnapshotFrame
<1>4. ASSUME NEW a \in StudyArms, FailUncaptured(a) PROVE PublicationInv'
  <2>1. UNCHANGED <<shape, given, locked, changes, running, promotion, released>>
    BY <1>4 DEF FailUncaptured
  <2>2. StudyTrials' = StudyTrials /\ UNCHANGED StudyArms
    BY <2>1 DEF StudyArms, MaxTries, StudyTrials
  <2>3. attempts' \in Seq(StudyTrials)
    BY <1>4, TrialAppended DEF FailUncaptured
  <2>4. PublicationTypes'
    BY <2>1, <2>2, <2>3 DEF PublicationTypes
  <2>. QED
    BY <2>1, <2>4, SnapshotFrame
<1>5. CASE FinishTrial
  <2>1. UNCHANGED <<shape, given, locked, changes, promotion, released>> /\ running' = Resting
    BY <1>5 DEF FinishTrial
  <2>2. StudyTrials' = StudyTrials /\ UNCHANGED StudyArms
    BY <2>1 DEF StudyArms, MaxTries, StudyTrials
  <2>3. PICK valid \in BOOLEAN, cost \in {1, Withheld} :
          AppendTrial(running.arm, valid, running.inputs, cost)
    BY <1>5 DEF FinishTrial
  <2>4. running.arm \in StudyArms /\ running.inputs \in [TreatmentParts -> Nat \cup {Withheld}]
    BY <1>5 DEF FinishTrial, PublicationTypes, TreatmentInputs
  <2>5. attempts' \in Seq(StudyTrials)
    BY <2>3, <2>4, TrialAppended
  <2>6. PublicationTypes'
    BY <2>1, <2>2, <2>5 DEF PublicationTypes
  <2>. QED
    BY <2>1, <2>6, SnapshotFrame
<1>6. CASE SnapshotReceipts
  <2>1. /\ UNCHANGED <<shape, given, locked, changes, running, attempts>> /\ UNCHANGED released
        /\ released = Withheld /\ BelongsToSpec(locked.spec, attempts)
        /\ promotion' = [at |-> "read", spec |-> locked.spec, log |-> attempts]
    BY <1>6 DEF SnapshotReceipts
  <2>2. PublicationTypes' /\ StudyTrials' = StudyTrials
    BY <2>1, TreeFrame
  <2>3. /\ promotion'.at = "read" /\ promotion'.spec = locked.spec
        /\ promotion'.log = attempts
    BY <2>1
  <2>4. ReadHolds(promotion)'
    BY <2>1, <2>2, <2>3 DEF ReadHolds, PublicationTypes
  <2>. QED
    BY <2>1, <2>2, <2>3, <2>4 DEF SnapshotHolds, ReleaseHolds
<1>7. CASE ValidateInputs
  <2>1. /\ UNCHANGED <<shape, given, locked, changes, running, attempts>> /\ UNCHANGED released
        /\ promotion # Resting
        /\ AnalysisContractHolds(promotion.spec, locked.manifest, locked.plan)
        /\ promotion' = [at |-> "validated", spec |-> promotion.spec, log |-> promotion.log,
                         manifest |-> locked.manifest, plan |-> locked.plan]
    BY <1>7 DEF ValidateInputs
  <2>2. PublicationTypes' /\ StudyTrials' = StudyTrials /\ UNCHANGED StudyArms
    BY <2>1, TreeFrame
  <2>3. /\ promotion'.at = "validated" /\ promotion'.spec = promotion.spec
        /\ promotion'.log = promotion.log /\ promotion'.manifest = locked.manifest
        /\ promotion'.plan = locked.plan
    BY <2>1
  <2>4. ReadHolds(promotion)' /\ ValidatedHolds(promotion)'
    BY <2>1, <2>2, <2>3 DEF SnapshotHolds, ReadHolds, ValidatedHolds, PublicationTypes
  <2>5. ReleaseHolds'
    BY <2>1, <2>2 DEF SnapshotHolds, ReleaseHolds, ReadHolds, ValidatedHolds, StagedHolds,
       HeadlineEligible
  <2>. QED
    BY <2>2, <2>3, <2>4, <2>5 DEF SnapshotHolds
<1>8. CASE StageMetrics
  <2>1. /\ UNCHANGED <<shape, given, locked, changes, running, attempts>> /\ UNCHANGED released
        /\ promotion # Resting /\ promotion.at = "validated"
        /\ ReceiptProvenance(promotion.manifest, promotion.log) /\ HeadlineEligible(promotion.log)
    BY <1>8 DEF StageMetrics
  <2>2. PublicationTypes' /\ StudyTrials' = StudyTrials /\ UNCHANGED StudyArms
    BY <2>1, TreeFrame
  <2>3. /\ promotion'.at = "staged" /\ promotion'.spec = promotion.spec
        /\ promotion'.log = promotion.log /\ promotion'.manifest = promotion.manifest
        /\ promotion'.plan = promotion.plan
        /\ promotion'.report.sources = [spec |-> promotion.spec, log |-> promotion.log]
    BY <1>8 DEF StageMetrics, BuildReport
  <2>4. ReadHolds(promotion)' /\ ValidatedHolds(promotion)'
    BY <2>1, <2>2, <2>3 DEF SnapshotHolds, ReadHolds, ValidatedHolds
  <2>5. StagedHolds(promotion)'
    BY <2>1, <2>2, <2>3 DEF StagedHolds, HeadlineEligible
  <2>6. ReleaseHolds'
    BY <2>1, <2>2 DEF SnapshotHolds, ReleaseHolds, ReadHolds, ValidatedHolds, StagedHolds,
       HeadlineEligible
  <2>. QED
    BY <2>2, <2>3, <2>4, <2>5, <2>6 DEF SnapshotHolds
<1>9. CASE Release
  <2>1. /\ UNCHANGED <<shape, given, locked, changes, running, attempts>>
        /\ promotion # Resting /\ promotion.at = "staged"
        /\ released' = promotion /\ promotion' = Resting
    BY <1>9 DEF Release
  <2>2. PublicationTypes' /\ StudyTrials' = StudyTrials /\ UNCHANGED StudyArms
    BY <2>1, TreeFrame
  <2>3. ReadHolds(promotion) /\ ValidatedHolds(promotion) /\ StagedHolds(promotion)
    BY <2>1 DEF SnapshotHolds
  <2>4. ReadHolds(released)' /\ ValidatedHolds(released)' /\ StagedHolds(released)'
    BY <2>1, <2>2, <2>3 DEF ReadHolds, ValidatedHolds, StagedHolds, HeadlineEligible
  <2>. QED
    BY <2>1, <2>2, <2>4 DEF SnapshotHolds, ReleaseHolds
<1>10. CASE AbandonPromotion
  <2>1. /\ UNCHANGED <<shape, given, locked, changes, running, attempts>> /\ UNCHANGED released
        /\ promotion' = Resting
    BY <1>10 DEF AbandonPromotion
  <2>2. PublicationTypes' /\ StudyTrials' = StudyTrials /\ UNCHANGED StudyArms
    BY <2>1, TreeFrame
  <2>3. ReleaseHolds'
    BY <2>1, <2>2 DEF SnapshotHolds, ReleaseHolds, ReadHolds, ValidatedHolds, StagedHolds,
       HeadlineEligible
  <2>. QED
    BY <2>1, <2>2, <2>3 DEF SnapshotHolds
<1>11. CASE UNCHANGED publicationVars
  <2>1. UNCHANGED <<shape, given, locked, changes, running, attempts>> /\ Same
    BY <1>11 DEF publicationVars
  <2>. QED
    BY <2>1, TreeFrame, SnapshotFrame
<1>. QED
  BY <1>1, <1>2, <1>3, <1>4, <1>5, <1>6, <1>7, <1>8, <1>9, <1>10, <1>11 DEF PublicationNext

(* Where every arm has one receipt, and that one is valid, all of them are. *)
LEMMA EligibleIsValid ==
    ASSUME NEW log \in Seq(StudyTrials), HeadlineEligible(log), NEW i \in DOMAIN log
    PROVE  log[i].valid
<1>. DEFINE a == log[i].arm
            S == {j \in DOMAIN log : log[j].arm = a}
<1>1. log[i] \in StudyTrials /\ a \in StudyArms
  <2>1. log[i] \in StudyTrials
    BY ElementOfSeq, LenProperties
  <2>. QED
    BY <2>1 DEF StudyTrials
<1>2. Cardinality(S) = 1 /\ a \in DOMAIN Admitted(log)
  BY <1>1 DEF HeadlineEligible
<1>3. PICK j \in DOMAIN log : log[j].valid /\ log[j].arm = a
  BY <1>2 DEF Admitted
<1>4. IsFiniteSet(S)
  <2>1. Len(log) \in Nat /\ DOMAIN log = 1..Len(log)
    BY LenProperties
  <2>2. IsFiniteSet(1..Len(log)) /\ S \in SUBSET (1..Len(log))
    BY <2>1, FS_Interval
  <2>. QED
    BY <2>2, FS_Subset
<1>5. i \in S /\ j \in S
  BY <1>3
<1>. HIDE DEF S
<1>6. i = j
  BY <1>2, <1>4, <1>5, AtMostOne
<1>. QED
  BY <1>3, <1>6

(* Three comparisons with the manifest, two of them direct and one by way   *)
(* of the spec, make all trials trials of what it hashes.                   *)
LEMMA StagedIsOneTreatment == PublicationInv => PublishedIsOneTreatment
<1>. SUFFICES ASSUME PublicationInv, released # Withheld
              PROVE  /\ released.spec.manifest = released.manifest
                     /\ released.manifest.plan = released.plan
                     /\ released.report.sources = [spec |-> released.spec, log |-> released.log]
                     /\ \A a \in StudyArms :
                           Cardinality({i \in DOMAIN released.log : released.log[i].arm = a}) = 1
                     /\ \A i \in DOMAIN released.log :
                           /\ released.log[i].valid
                           /\ released.log[i].inputs = released.manifest.inputs
  BY DEF PublishedIsOneTreatment
<1>1. ReadHolds(released) /\ ValidatedHolds(released) /\ StagedHolds(released)
  BY DEF PublicationInv, SnapshotHolds, ReleaseHolds
<1>2. ASSUME NEW i \in DOMAIN released.log
      PROVE  released.log[i].valid /\ released.log[i].inputs = released.manifest.inputs
  <2>. DEFINE r == released.log[i]
              m == released.manifest
  <2>1. r.valid
    BY <1>1, EligibleIsValid DEF ReadHolds, StagedHolds
  <2>2. r \in StudyTrials /\ m \in StudyManifests
    BY <1>1, ElementOfSeq, LenProperties DEF ReadHolds, ValidatedHolds
  <2>3. /\ r.inputs = [p \in TreatmentParts |-> r.inputs[p]]
        /\ m.inputs = [p \in TreatmentParts |-> m.inputs[p]]
    BY <2>2 DEF StudyTrials, StudyManifests, TreatmentInputs
  <2>4. r.inputs["task"] = m.inputs["task"] /\ r.inputs["verifier"] = m.inputs["verifier"]
    BY <1>1, <2>1 DEF StagedHolds, ReceiptProvenance, AgreesWith
  <2>5. r.inputs["harness"] = m.inputs["harness"]
    BY <1>1, <2>1 DEF ReadHolds, BelongsToSpec, ValidatedHolds, AnalysisContractHolds
  <2>6. \A p \in TreatmentParts : r.inputs[p] = m.inputs[p]
    BY <2>4, <2>5 DEF TreatmentParts
  <2>. HIDE DEF r, m
  <2>7. r.inputs = m.inputs
    BY <2>3, <2>6
  <2>. QED
    BY <2>1, <2>7 DEF r, m
<1>. QED
  BY <1>1, <1>2 DEF ValidatedHolds, AnalysisContractHolds, StagedHolds, HeadlineEligible

(* What is published of a study has every arm tried once, under the inputs  *)
(* that its manifest hashes.                                                *)
THEOREM OneTreatmentIsPublished == StudyPublicationSpec => []PublishedIsOneTreatment
<1>. QED
  BY PublicationStarts, PublicationSteps, StagedIsOneTreatment, PTL DEF StudyPublicationSpec

(* Every sum of a report that can be shown is withheld or counts what it is the sum of: the *)
(* spend of all the trials is of as many units as the log has lines.                        *)
THEOREM SpendsAreWhole == StudyPublicationSpec => []SpendIsWhole
<1>1. PublicationInv => SpendIsWhole
  <2>. SUFFICES ASSUME PublicationInv PROVE SpendIsWhole
    OBVIOUS
  <2>1. Cardinality(DOMAIN attempts) = Len(attempts)
    <3>1. attempts \in Seq(StudyTrials)
      BY DEF PublicationInv, PublicationTypes
    <3>2. Len(attempts) \in Nat /\ DOMAIN attempts = 1..Len(attempts)
      BY <3>1, LenProperties
    <3>3. Cardinality(1..Len(attempts))
            = IF 1 > Len(attempts) THEN 0 ELSE Len(attempts) - 1 + 1
      BY <3>2, FS_Interval
    <3>. QED
      BY <3>2, <3>3
  <2>2. \A summed : SumOfCosts(attempts, summed) \in {Withheld, Cardinality(summed)}
    BY DEF SumOfCosts
  <2>3. BuildReport(attempts, locked.spec).economics = Economics(attempts)
    BY DEF BuildReport
  <2>4. /\ Economics(attempts).all = SumOfCosts(attempts, DOMAIN attempts)
        /\ Economics(attempts).paired = SumOfCosts(attempts, PairedTrials(attempts))
        /\ \A a \in StudyArms :
             Economics(attempts).arms[a]
               = SumOfCosts(attempts, {i \in DOMAIN attempts : attempts[i].arm = a})
    BY DEF Economics
  <2>. QED
    BY <2>1, <2>2, <2>3, <2>4 DEF SpendIsWhole
<1>. QED
  BY <1>1, PublicationStarts, PublicationSteps, PTL DEF StudyPublicationSpec

-----------------------------------------------------------------------------
(* The pilots                                                              *)

PilotNames == {"cheap", "interface", "supplement", "parity", "canary"}

FileNames == {"manifest", "spec", "codex", "opencode", "evidence", "plan"}

\* Types, and a revision that a spec names, or is about to, is there.
PilotTypes ==
    /\ pilot \in PilotNames
    /\ worktree \in [Inputs -> Nat] /\ revisions \in Seq([Inputs -> Nat]) /\ revisions # <<>>
    /\ DOMAIN bound = {CapsuleFiles[n] : n \in DOMAIN CapsuleFiles}
    /\ canary = [d \in Dispatchers |-> canary[d]]

NamedRevisionsExist ==
    /\ locking # Absent => locking.core.revision \in DOMAIN revisions
    /\ \A s \in Specs : bound[s] # Absent => bound[s].revision \in DOMAIN revisions

\* The trial on record is of the dispatcher that recorded it, and of what it is accepted for.
TrialIsItsOwn ==
    \A d \in Dispatchers : canary[d].at \in {"recorded", "accepted"} =>
        /\ canaryLog # <<>> /\ canaryLog[1].by = d
        /\ canary[d].at = "accepted" => canaryLog[1].spec = canary[d].spec

PilotInv == PilotTypes /\ NamedRevisionsExist /\ AdmittedIsReproducible /\ TrialIsItsOwn

-----------------------------------------------------------------------------
(* Every capsule has a spec; the manifest is not one; all are files of it.   *)
LEMMA SpecsAreFiles ==
    ASSUME pilot \in PilotNames
    PROVE  /\ "manifest" \notin Specs
           /\ SpecFiles[1] \in Specs
           /\ Specs \subseteq {CapsuleFiles[n] : n \in DOMAIN CapsuleFiles}
           /\ "manifest" \in {CapsuleFiles[n] : n \in DOMAIN CapsuleFiles}
<1>. DEFINE ends == [cheap |-> <<>>, interface |-> <<>>, supplement |-> <<>>,
                     parity |-> <<"evidence">>, canary |-> <<"plan">>][pilot]
            begin == <<"manifest">>
<1>1. \/ SpecFiles = <<"spec">>
      \/ SpecFiles = <<"codex", "opencode">>
  BY DEF SpecFiles, PilotNames
<1>2. ends = <<>> \/ ends = <<"evidence">> \/ ends = <<"plan">>
  BY DEF PilotNames
<1>3. /\ SpecFiles \in Seq(FileNames) /\ Len(SpecFiles) \in 1..2
      /\ "manifest" \notin Specs /\ SpecFiles[1] \in Specs
  <2>1. CASE SpecFiles = <<"spec">>
    BY <2>1 DEF Specs, FileNames
  <2>2. CASE SpecFiles = <<"codex", "opencode">>
    BY <2>2 DEF Specs, FileNames
  <2>. QED
    BY <1>1, <2>1, <2>2
<1>4. ends \in Seq(FileNames)
  <2>. HIDE DEF ends
  <2>1. CASE ends = <<>>
    BY <2>1, EmptySeq
  <2>2. CASE ends = <<"evidence">>
    BY <2>2 DEF FileNames
  <2>3. CASE ends = <<"plan">>
    BY <2>3 DEF FileNames
  <2>. QED
    BY <1>2, <2>1, <2>2, <2>3
<1>5. begin \in Seq(FileNames) /\ Len(begin) = 1 /\ begin[1] = "manifest"
  BY DEF FileNames
<1>6. CapsuleFiles = (begin \o SpecFiles) \o ends
  BY DEF CapsuleFiles
<1>. HIDE DEF ends, begin, SpecFiles
<1>7. /\ begin \o SpecFiles \in Seq(FileNames)
      /\ Len(begin \o SpecFiles) = 1 + Len(SpecFiles)
      /\ (begin \o SpecFiles)[1] = "manifest"
      /\ \A i \in 1..Len(SpecFiles) : (begin \o SpecFiles)[i + 1] = SpecFiles[i]
  <2>1. begin \o SpecFiles \in Seq(FileNames) /\ Len(begin \o SpecFiles) = 1 + Len(SpecFiles)
    BY <1>3, <1>5, ConcatProperties
  <2>2. \A i \in 1..(1 + Len(SpecFiles)) :
          (begin \o SpecFiles)[i] = IF i <= 1 THEN begin[i] ELSE SpecFiles[i - 1]
    BY <1>3, <1>5, ConcatProperties
  <2>. QED
    BY <1>3, <1>5, <2>1, <2>2
<1>8. /\ DOMAIN CapsuleFiles = 1..Len(CapsuleFiles)
      /\ Len(CapsuleFiles) \in Nat /\ Len(CapsuleFiles) >= 1 + Len(SpecFiles)
      /\ \A i \in 1..(1 + Len(SpecFiles)) : CapsuleFiles[i] = (begin \o SpecFiles)[i]
  BY <1>3, <1>4, <1>6, <1>7, ConcatProperties, LenProperties
<1>9. 1 \in DOMAIN CapsuleFiles /\ CapsuleFiles[1] = "manifest"
  BY <1>3, <1>7, <1>8
<1>10. ASSUME NEW i \in DOMAIN SpecFiles
       PROVE  SpecFiles[i] \in {CapsuleFiles[n] : n \in DOMAIN CapsuleFiles}
  <2>1. i \in 1..Len(SpecFiles)
    BY <1>3, LenProperties
  <2>2. i + 1 \in DOMAIN CapsuleFiles /\ CapsuleFiles[i + 1] = SpecFiles[i]
    BY <2>1, <1>3, <1>7, <1>8
  <2>. QED
    BY <2>2
<1>. QED
  BY <1>3, <1>9, <1>10 DEF Specs

(* Earlier revisions stay as they are when one is committed. *)
LEMMA RevisionsStay ==
    ASSUME PilotTypes, NEW committed \in [Inputs -> Nat], revisions' = Append(revisions, committed)
    PROVE  /\ revisions' \in Seq([Inputs -> Nat]) /\ revisions' # <<>>
           /\ DOMAIN revisions \subseteq DOMAIN revisions'
           /\ \A r \in DOMAIN revisions : revisions'[r] = revisions[r]
<1>1. revisions \in Seq([Inputs -> Nat])
  BY DEF PilotTypes
<1>. QED
  BY <1>1, AppendProperties, LenProperties

(* What a preflight lets pass is reproducible. *)
LEMMA CapsuleIsReproducible ==
    ASSUME PilotTypes, NamedRevisionsExist, CapsuleHolds
    PROVE  \E r \in DOMAIN revisions :
            /\ \A s \in Capsule.specs : s.revision = r /\ s.manifest = Capsule.manifest
            /\ \A i \in CriticalPaths \cap HarnessInputs :
                  revisions[r][i] = Capsule.manifest.inputs.harness[i]
            /\ pilot # "canary" => revisions[r]["task"] = Capsule.manifest.inputs.task
<1>. DEFINE r == bound[SpecFiles[1]].revision
<1>1. SpecFiles[1] \in Specs /\ Specs \subseteq DOMAIN bound
  BY SpecsAreFiles DEF PilotTypes
<1>2. r \in DOMAIN revisions
  BY <1>1 DEF NamedRevisionsExist, CapsuleHolds, FilesPresent
<1>3. Capsule.specs = {bound[s] : s \in Specs} /\ Capsule.manifest = bound["manifest"]
  BY DEF Capsule
<1>4. \A s \in Specs : bound[s].revision = r /\ bound[s].manifest = bound["manifest"]
  BY <1>1 DEF CapsuleHolds, SameRevision, SpecsNameManifest
<1>5. \A i \in CriticalPaths : revisions[r][i] = worktree[i]
  BY DEF CapsuleHolds, RevisionIsCurrent
<1>6. bound["manifest"].inputs.harness = [i \in HarnessInputs |-> worktree[i]]
  BY DEF CapsuleHolds, HashesAreCurrent, Provenance, HashOf
<1>7. pilot # "canary" => bound["manifest"].inputs.task = worktree["task"]
  BY DEF CapsuleHolds, HashesAreCurrent, Provenance
<1>8. pilot # "canary" => "task" \in CriticalPaths
  BY DEF CriticalPaths, PilotTypes, PilotNames, Inputs
<1>. HIDE DEF r
<1>. QED
  BY <1>2, <1>3, <1>4, <1>5, <1>6, <1>7, <1>8

(* A pilot starts with one revision and no file. *)
LEMMA PilotStarts == PilotInit => PilotInv
<1>. SUFFICES ASSUME PilotInit PROVE PilotInv
  OBVIOUS
<1>1. pilot \in PilotNames
  BY PilotAssumption DEF PilotInit, PilotNames
<1>2. worktree \in [Inputs -> Nat] /\ revisions = <<worktree>>
  BY DEF PilotInit
<1>3. revisions \in Seq([Inputs -> Nat]) /\ revisions # <<>>
  BY <1>2
<1>4. PilotTypes
  BY <1>1, <1>2, <1>3 DEF PilotInit, PilotTypes
<1>5. Specs \subseteq DOMAIN bound
  BY <1>1, SpecsAreFiles DEF PilotInit
<1>. QED
  BY <1>4, <1>5 DEF PilotInit, PilotInv, NamedRevisionsExist, AdmittedIsReproducible, TrialIsItsOwn

(* What depends on the files, the revisions and the verdict alone. *)
LEMMA CapsuleFrame ==
    ASSUME NamedRevisionsExist, AdmittedIsReproducible,
           UNCHANGED <<pilot, revisions, bound, locking, admitted>>
    PROVE  NamedRevisionsExist' /\ AdmittedIsReproducible'
  BY DEF NamedRevisionsExist, AdmittedIsReproducible, Specs, SpecFiles, CriticalPaths

(* What depends on the dispatchers and the log alone. *)
LEMMA CanaryFrame ==
    ASSUME TrialIsItsOwn, UNCHANGED <<canary, canaryLog>>
    PROVE  TrialIsItsOwn'
  BY DEF TrialIsItsOwn

(* The invariant is inductive. *)
LEMMA PilotSteps == PilotInv /\ [PilotNext]_pilotVars => PilotInv'
<1>. SUFFICES ASSUME PilotInv, [PilotNext]_pilotVars PROVE PilotInv'
  OBVIOUS
<1>. USE DEF PilotInv
<1>1. ASSUME NEW i \in Inputs, EditInput(i) PROVE PilotInv'
  <2>1. /\ worktree' = [worktree EXCEPT ![i] = @ + 1]
        /\ UNCHANGED <<pilot, revisions, bound, locking, admitted, canary, canaryLog>>
    BY <1>1 DEF EditInput
  <2>2. PilotTypes'
    BY <2>1 DEF PilotTypes, CapsuleFiles, SpecFiles
  <2>. QED
    BY <2>1, <2>2, CapsuleFrame, CanaryFrame
<1>2. CASE CommitInputs
  <2>1. PICK committed \in {worktree, revisions[Len(revisions)]} :
          revisions' = Append(revisions, committed)
    BY <1>2 DEF CommitInputs
  <2>2. UNCHANGED <<pilot, worktree, bound, locking, admitted, canary, canaryLog>>
    BY <1>2 DEF CommitInputs
  <2>3. committed \in [Inputs -> Nat]
    <3>1. revisions \in Seq([Inputs -> Nat]) /\ Len(revisions) \in 1..Len(revisions)
      BY EmptySeq, LenProperties DEF PilotTypes
    <3>2. revisions[Len(revisions)] \in [Inputs -> Nat]
      BY <3>1, ElementOfSeq
    <3>. QED
      BY <2>1, <3>2 DEF PilotTypes
  <2>4. /\ revisions' \in Seq([Inputs -> Nat]) /\ revisions' # <<>>
        /\ DOMAIN revisions \subseteq DOMAIN revisions'
        /\ \A r \in DOMAIN revisions : revisions'[r] = revisions[r]
    BY <2>1, <2>3, RevisionsStay
  <2>5. PilotTypes'
    BY <2>2, <2>4 DEF PilotTypes, CapsuleFiles, SpecFiles
  <2>6. NamedRevisionsExist'
    BY <2>2, <2>4 DEF NamedRevisionsExist, Specs, SpecFiles
  <2>7. AdmittedIsReproducible'
    BY <2>2, <2>4 DEF AdmittedIsReproducible, CriticalPaths
  <2>. QED
    BY <2>2, <2>5, <2>6, <2>7, CanaryFrame
<1>3. CASE StartLocking
  <2>1. /\ locking' = [next |-> 1,
                       core |-> [inputs |-> Provenance(worktree), revision |-> Len(revisions)]]
        /\ UNCHANGED <<pilot, worktree, revisions, bound, admitted, canary, canaryLog>>
    BY <1>3 DEF StartLocking
  <2>2. Len(revisions) \in DOMAIN revisions
    BY EmptySeq, LenProperties DEF PilotTypes
  <2>3. NamedRevisionsExist'
    BY <2>1, <2>2 DEF NamedRevisionsExist, Specs, SpecFiles
  <2>4. AdmittedIsReproducible'
    BY <2>1 DEF AdmittedIsReproducible, CriticalPaths
  <2>5. PilotTypes'
    BY <2>1 DEF PilotTypes, CapsuleFiles, SpecFiles
  <2>. QED
    BY <2>1, <2>3, <2>4, <2>5, CanaryFrame
<1>4. CASE WriteRegularArtifact
  <2>. DEFINE f == CapsuleFiles[locking.next]
  <2>1. /\ locking # Absent /\ bound' = [bound EXCEPT ![f] = PayloadOf(f, locking.core)]
        /\ locking' = IF locking.next = Len(CapsuleFiles) THEN Absent
                      ELSE [locking EXCEPT !.next = @ + 1]
        /\ UNCHANGED <<pilot, worktree, revisions, admitted, canary, canaryLog>>
    BY <1>4 DEF WriteRegularArtifact
  <2>2. locking' # Absent => locking'.core.revision \in DOMAIN revisions
    <3>1. locking.core.revision \in DOMAIN revisions
      BY <2>1 DEF NamedRevisionsExist
    <3>2. CASE locking.next = Len(CapsuleFiles)
      BY <2>1, <3>2
    <3>3. CASE locking.next # Len(CapsuleFiles)
      <4>1. locking'.core = locking.core
        BY <2>1, <3>3
      <4>. QED
        BY <3>1, <4>1
    <3>. QED
      BY <3>2, <3>3
  <2>3. ASSUME NEW s \in Specs, bound'[s] # Absent
        PROVE  bound'[s].revision \in DOMAIN revisions
    <3>1. s \in DOMAIN bound /\ s # "manifest"
      BY SpecsAreFiles DEF PilotTypes
    <3>2. CASE s = f
      <4>1. bound'[s] = SpecOf(locking.core)
        BY <2>1, <3>1, <3>2 DEF PayloadOf
      <4>. QED
        BY <4>1, <2>1 DEF SpecOf, NamedRevisionsExist
    <3>3. CASE s # f
      <4>1. bound'[s] = bound[s]
        BY <2>1, <3>1, <3>3
      <4>. QED
        BY <4>1, <2>3 DEF NamedRevisionsExist
    <3>. QED
      BY <3>2, <3>3
  <2>4. Specs' = Specs /\ CriticalPaths' = CriticalPaths
    BY <2>1 DEF Specs, SpecFiles, CriticalPaths
  <2>5. NamedRevisionsExist'
    BY <2>1, <2>2, <2>3, <2>4 DEF NamedRevisionsExist
  <2>6. AdmittedIsReproducible'
    BY <2>1, <2>4 DEF AdmittedIsReproducible
  <2>7. PilotTypes'
    <3>1. DOMAIN bound' = DOMAIN bound
      BY <2>1
    <3>. QED
      BY <2>1, <3>1 DEF PilotTypes, CapsuleFiles, SpecFiles
  <2>. QED
    BY <2>1, <2>5, <2>6, <2>7, CanaryFrame
<1>5. CASE LockingStops
  <2>1. locking' = Absent /\ UNCHANGED <<pilot, worktree, revisions, bound, admitted, canary, canaryLog>>
    BY <1>5 DEF LockingStops
  <2>2. PilotTypes'
    BY <2>1 DEF PilotTypes, CapsuleFiles, SpecFiles
  <2>3. NamedRevisionsExist' /\ AdmittedIsReproducible'
    BY <2>1 DEF NamedRevisionsExist, AdmittedIsReproducible, Specs, SpecFiles, CriticalPaths
  <2>. QED
    BY <2>1, <2>2, <2>3, CanaryFrame
<1>6. CASE Preflight
  <2>1. /\ CapsuleHolds /\ admitted' = Capsule
        /\ UNCHANGED <<pilot, worktree, revisions, bound, locking, canary, canaryLog>>
    BY <1>6 DEF Preflight
  <2>2. PilotTypes'
    BY <2>1 DEF PilotTypes, CapsuleFiles, SpecFiles
  <2>3. NamedRevisionsExist'
    BY <2>1 DEF NamedRevisionsExist, Specs, SpecFiles
  <2>4. CriticalPaths' = CriticalPaths
    BY <2>1 DEF CriticalPaths
  <2>5. AdmittedIsReproducible'
    BY <2>1, <2>4, CapsuleIsReproducible DEF AdmittedIsReproducible
  <2>. QED
    BY <2>1, <2>2, <2>3, <2>5, CanaryFrame
<1>7. ASSUME NEW s \in Specs, RunTrial(s) PROVE PilotInv'
  <2>1. UNCHANGED <<pilot, worktree, revisions, bound, locking, admitted, canary, canaryLog>>
    BY <1>7 DEF RunTrial
  <2>2. PilotTypes'
    BY <2>1 DEF PilotTypes, CapsuleFiles, SpecFiles
  <2>. QED
    BY <2>1, <2>2, CapsuleFrame, CanaryFrame
<1>8. ASSUME NEW d \in Dispatchers, LoadCanaryDispatchPlan(d) PROVE PilotInv'
  <2>1. /\ CapsuleHolds /\ admitted' = Capsule
        /\ canary' = [canary EXCEPT ![d] = [at |-> "loaded", spec |-> bound["spec"]]]
        /\ UNCHANGED <<pilot, worktree, revisions, bound, locking, canaryLog>>
    BY <1>8 DEF LoadCanaryDispatchPlan
  <2>2. PilotTypes'
    BY <2>1 DEF PilotTypes, CapsuleFiles, SpecFiles
  <2>3. NamedRevisionsExist'
    BY <2>1 DEF NamedRevisionsExist, Specs, SpecFiles
  <2>4. CriticalPaths' = CriticalPaths
    BY <2>1 DEF CriticalPaths
  <2>5. AdmittedIsReproducible'
    BY <2>1, <2>4, CapsuleIsReproducible DEF AdmittedIsReproducible
  <2>6. TrialIsItsOwn'
    BY <2>1 DEF TrialIsItsOwn, PilotTypes
  <2>. QED
    BY <2>2, <2>3, <2>5, <2>6
<1>9. ASSUME NEW d \in Dispatchers, StartCanary(d) PROVE PilotInv'
  <2>1. /\ canary' = [canary EXCEPT ![d] = [canary[d] EXCEPT !.at = "running"]]
        /\ canary[d].at = "loaded"
        /\ UNCHANGED <<pilot, worktree, revisions, bound, locking, admitted, canaryLog>>
    BY <1>9 DEF StartCanary
  <2>2. PilotTypes'
    BY <2>1 DEF PilotTypes, CapsuleFiles, SpecFiles
  <2>3. ASSUME NEW e \in Dispatchers, canary'[e].at \in {"recorded", "accepted"}
        PROVE  canary'[e] = canary[e]
    <3>1. CASE e = d
      <4>1. canary'[d] = [canary[d] EXCEPT !.at = "running"]
        BY <2>1 DEF PilotTypes
      <4>2. canary'[d].at \in {"running", canary[d].at}
        BY <4>1
      <4>. QED
        BY <4>2, <3>1, <2>3, <2>1
    <3>2. CASE e # d
      BY <2>1, <3>2 DEF PilotTypes
    <3>. QED
      BY <3>1, <3>2
  <2>4. TrialIsItsOwn'
    BY <2>1, <2>3 DEF TrialIsItsOwn
  <2>. QED
    BY <2>1, <2>2, <2>4, CapsuleFrame
<1>10. ASSUME NEW d \in Dispatchers, RecordCanary(d) PROVE PilotInv'
  <2>1. PICK complies \in BOOLEAN :
          canaryLog' = <<[by |-> d, spec |-> bound["spec"], complies |-> complies]>>
    BY <1>10 DEF RecordCanary
  <2>2. /\ canaryLog = <<>>
        /\ canary' = [canary EXCEPT ![d] = [at |-> "recorded", spec |-> canary[d].spec]]
        /\ UNCHANGED <<pilot, worktree, revisions, bound, locking, admitted>>
    BY <1>10 DEF RecordCanary
  <2>3. PilotTypes'
    BY <2>2 DEF PilotTypes, CapsuleFiles, SpecFiles
  <2>4. canaryLog' # <<>> /\ canaryLog'[1].by = d
    BY <2>1
  <2>5. canary'[d].at = "recorded" /\ \A e \in Dispatchers : e # d => canary'[e] = canary[e]
    BY <2>2 DEF PilotTypes
  <2>6. \A e \in Dispatchers : canary[e].at \notin {"recorded", "accepted"}
    BY <2>2 DEF TrialIsItsOwn
  <2>7. TrialIsItsOwn'
    BY <2>4, <2>5, <2>6 DEF TrialIsItsOwn
  <2>. QED
    BY <2>2, <2>3, <2>7, CapsuleFrame
<1>11. ASSUME NEW d \in Dispatchers, EndCanary(d) PROVE PilotInv'
  <2>1. PICK success \in {FALSE, canary[d].at = "recorded"} :
          canary' = [canary EXCEPT ![d] =
                       IF SucceededOnce(success) /\ ReceiptComplies(d)
                         THEN [at |-> "accepted", spec |-> canary[d].spec] ELSE [at |-> "blocked"]]
    BY <1>11 DEF EndCanary
  <2>2. UNCHANGED <<pilot, worktree, revisions, bound, locking, admitted, canaryLog>>
    BY <1>11 DEF EndCanary
  <2>3. PilotTypes'
    BY <2>1, <2>2 DEF PilotTypes, CapsuleFiles, SpecFiles
  <2>4. \A e \in Dispatchers : e # d => canary'[e] = canary[e]
    BY <2>1 DEF PilotTypes
  <2>5. \/ canary'[d].at = "blocked"
        \/ /\ canary'[d] = [at |-> "accepted", spec |-> canary[d].spec]
           /\ success /\ ReceiptComplies(d)
    BY <2>1 DEF PilotTypes, SucceededOnce
  <2>6. canary'[d].at \in {"recorded", "accepted"} =>
          canaryLog # <<>> /\ canaryLog[1].by = d /\ canaryLog[1].spec = canary'[d].spec
    <3>1. success => canary[d].at = "recorded"
      BY <2>1
    <3>2. canary[d].at = "recorded" => canaryLog # <<>> /\ canaryLog[1].by = d
      BY DEF TrialIsItsOwn
    <3>. QED
      BY <2>5, <3>1, <3>2 DEF ReceiptComplies
  <2>7. TrialIsItsOwn'
    BY <2>2, <2>4, <2>6 DEF TrialIsItsOwn
  <2>. QED
    BY <2>2, <2>3, <2>7, CapsuleFrame
<1>12. CASE UNCHANGED pilotVars
  <2>1. UNCHANGED <<pilot, worktree, revisions, bound, locking, admitted, canary, canaryLog>>
    BY <1>12 DEF pilotVars
  <2>2. PilotTypes'
    BY <2>1 DEF PilotTypes, CapsuleFiles, SpecFiles
  <2>. QED
    BY <2>1, <2>2, CapsuleFrame, CanaryFrame
<1>. QED
  BY <1>1, <1>2, <1>3, <1>4, <1>5, <1>6, <1>7, <1>8, <1>9, <1>10, <1>11, <1>12 DEF PilotNext

(* Whatever is edited, committed or locked again between two preflights,    *)
(* and however many dispatchers run the canary.                             *)
THEOREM PilotVerdictsAreSo == PilotSpec => []PilotVerdictsHold
<1>1. PilotInv => PilotVerdictsHold
  BY DEF PilotInv, PilotVerdictsHold, TrialIsItsOwn, CanaryVerdictIsItsOwn
<1>. QED
  BY <1>1, PilotStarts, PilotSteps, PTL DEF PilotSpec

-----------------------------------------------------------------------------
(* Types                                                                   *)

(* An attempt has a number that its arm may still get. *)
THEOREM PublicationIsTyped == StudyPublicationSpec => []PublicationTypeOK
<1>1. PublicationInv => PublicationTypeOK
  <2>. SUFFICES ASSUME PublicationInv PROVE PublicationTypeOK
    OBVIOUS
  <2>1. attempts \in Seq(StudyTrials) /\ changes \in 0..MaxChanges
    BY DEF PublicationInv, PublicationTypes
  <2>2. \A i \in DOMAIN attempts : attempts[i] \in StudyTrials
    BY <2>1, ElementOfSeq, LenProperties
  <2>. QED
    BY <2>1, <2>2 DEF PublicationTypeOK, StudyTrials
<1>. QED
  BY <1>1, PublicationStarts, PublicationSteps, PTL DEF StudyPublicationSpec

\* Every edit is of an input or is a commit, and there are no more than the bound.
PilotTyped ==
    /\ pilot \in PilotKinds /\ worktree \in [Inputs -> Nat \ {0}]
    /\ Edits <= MaxEdits[pilot]
    /\ canaryLog = <<>> \/ canaryLog[1].by \in Dispatchers

LEMMA PilotStaysTyped ==
    ASSUME PilotInv, PilotTyped, [PilotNext]_pilotVars
    PROVE  PilotTyped'
<1>1. /\ Len(revisions) \in Nat /\ MaxEdits[pilot] \in Nat
      /\ \A n \in Inputs : worktree[n] \in Nat \ {0}
  BY PilotAssumption, LenProperties DEF PilotInv, PilotTypes, PilotTyped
<1>2. "core" \in Inputs /\ "adapters" \in Inputs /\ "task" \in Inputs
  BY DEF Inputs
<1>3. ASSUME NEW i \in Inputs, EditInput(i) PROVE PilotTyped'
  <2>1. /\ worktree' = [worktree EXCEPT ![i] = @ + 1] /\ worktree' \in [Inputs -> Nat \ {0}]
        /\ Edits < MaxEdits[pilot] /\ UNCHANGED <<pilot, revisions, canaryLog>>
    BY <1>1, <1>3 DEF EditInput, PilotTyped
  <2>2. Edits' = Edits + 1
    BY <1>1, <1>2, <2>1 DEF Edits, PilotTyped, Inputs
  <2>3. Edits \in Int
    BY <1>1, <1>2 DEF Edits
  <2>. QED
    BY <1>1, <2>1, <2>2, <2>3 DEF PilotTyped
<1>4. CASE CommitInputs
  <2>1. PICK committed \in {worktree, revisions[Len(revisions)]} :
           revisions' = Append(revisions, committed)
    BY <1>4 DEF CommitInputs
  <2>2. Edits < MaxEdits[pilot] /\ UNCHANGED <<pilot, worktree, canaryLog>>
    BY <1>4 DEF CommitInputs
  <2>3. Len(revisions') = Len(revisions) + 1
    <3>1. revisions \in Seq([Inputs -> Nat]) /\ revisions # <<>>
      BY DEF PilotInv, PilotTypes
    <3>2. committed \in [Inputs -> Nat]
      BY <2>1, <3>1, ElementOfSeq, LenProperties, EmptySeq DEF PilotInv, PilotTypes
    <3>. QED
      BY <2>1, <3>1, <3>2, AppendProperties
  <2>4. Edits' = Edits + 1 /\ Edits \in Int
    BY <1>1, <1>2, <2>2, <2>3 DEF Edits
  <2>. QED
    BY <1>1, <2>2, <2>4 DEF PilotTyped
<1>5. ASSUME NEW d \in Dispatchers, RecordCanary(d) PROVE PilotTyped'
  BY <1>5 DEF RecordCanary, PilotTyped, Edits
<1>6. CASE UNCHANGED <<pilot, worktree, revisions, canaryLog>>
  BY <1>6 DEF PilotTyped, Edits
<1>. QED
  BY <1>3, <1>4, <1>5, <1>6
     DEF PilotNext, StartLocking, WriteRegularArtifact, LockingStops, Preflight, RunTrial,
         LoadCanaryDispatchPlan, StartCanary, EndCanary, pilotVars

(* An input has been edited no more often than the bound, and the trial on record is of a *)
(* dispatcher.                                                                            *)
THEOREM PilotIsTyped == PilotSpec => []PilotTypeOK
<1>1. PilotInit => PilotTyped
  <2>. SUFFICES ASSUME PilotInit PROVE PilotTyped
    OBVIOUS
  <2>1. worktree = [i \in Inputs |-> 1] /\ revisions = <<worktree>> /\ pilot \in PilotKinds
        /\ canaryLog = <<>>
    BY DEF PilotInit
  <2>2. Len(revisions) = 1
    BY <2>1
  <2>3. Edits = 0
    BY <2>1, <2>2 DEF Edits, Inputs
  <2>. QED
    BY <2>1, <2>3, PilotAssumption DEF PilotTyped
<1>2. PilotInv /\ PilotTyped /\ [PilotNext]_pilotVars => PilotInv' /\ PilotTyped'
  BY PilotSteps, PilotStaysTyped
<1>3. PilotInv /\ PilotTyped => PilotTypeOK
  <2>. SUFFICES ASSUME PilotInv, PilotTyped PROVE PilotTypeOK
    OBVIOUS
  <2>1. Len(revisions) \in Nat /\ Len(revisions) # 0
    BY LenProperties, EmptySeq DEF PilotInv, PilotTypes
  <2>2. \A i \in Inputs : worktree[i] \in Nat \ {0}
    BY DEF PilotTyped
  <2>3. \A i \in Inputs : worktree[i] <= Edits + 1
    BY <2>1, <2>2 DEF Edits, Inputs
  <2>4. Edits \in Int /\ MaxEdits[pilot] \in Nat /\ Edits <= MaxEdits[pilot]
    BY <2>1, <2>2, PilotAssumption DEF Edits, Inputs, PilotTyped
  <2>5. \A i \in Inputs : worktree[i] \in 1..(MaxEdits[pilot] + 1)
    BY <2>2, <2>3, <2>4
  <2>. QED
    BY <2>5 DEF PilotTypeOK, PilotTyped
<1>. QED
  BY <1>1, <1>2, <1>3, PilotStarts, PTL DEF PilotSpec

-----------------------------------------------------------------------------
(* Promotion                                                               *)

Orderly == ~Overlap /\ ~Faulty

-----------------------------------------------------------------------------
(* Promotions one after the other: the invariant                           *)

AtRest == Ended \cup {"new"}

(* No directory of its own yet; a staging tree; a tree to be renamed; a    *)
(* publication of its own.                                                 *)
Early    == {"new", "validate", "stage"}
Writing  == {"seal", "progress", "charts", "report", "publish"}
Finished == {"freeze", "check", "rename"}
Official == {"renamed", "confirm", "registry", "append", "undo", "undoing"}

Alone ==
    \A p, q \in Promotions :
        p # q /\ RunOf[p] = RunOf[q] => pc[p] \in AtRest \/ pc[q] \in AtRest

(* A run's names lead to directories of its promotions, to two of them if  *)
(* to any.                                                                 *)
Names ==
    /\ gone = {}
    /\ \A r \in Runs :
         /\ staging[r] # None => RunOf[staging[r]] = r /\ staging[r] # final[r]
         /\ final[r] # None => RunOf[final[r]] = r
    /\ \A p \in Promotions :
         pc[p] \in Early => dir[p] = EmptyDirectory /\ Staged(p) # p /\ Published(p) # p

(* What a promotion knows of the tree it works on, at each step.           *)
Place(p) ==
    /\ pc[p] = "inputs" => Staged(p) # None /\ held[p] = Staged(p)
    /\ pc[p] \in Writing => Staged(p) # None /\ dir[Staged(p)].writer = p
    /\ pc[p] \in Finished =>
         /\ Staged(p) # None /\ dir[Staged(p)].writer = p
         /\ SealedTree(dir[Staged(p)], snap[p]) /\ Published(p) = None
    /\ pc[p] \in {"check", "rename"} => held[p] = Staged(p) /\ dir[Staged(p)].frozen
    /\ pc[p] \in Official =>
         /\ Published(p) # None /\ Published(p) = held[p] /\ dir[held[p]].writer = p
         /\ Staged(p) = None
         /\ \A q \in Promotions : RunOf[q] = RunOf[p] => pc[q] # "done"
    /\ pc[p] \in {"progress", "publish"} \cup Finished \cup Official => completed[p] # 4
    /\ pc[p] = "undoing" => target[p] = "staging"
    /\ pc[p] \in {"thaw", "quarantine"} => Staged(p) # None /\ held[p] = Staged(p)
    /\ pc[p] = "done" => Published(p) # None

(* What is official is complete, frozen, and its writer got past the       *)
(* rename and did not fail.                                                *)
Valid(r) ==
    final[r] # None =>
        /\ \E v \in Versions : SealedTree(dir[final[r]], v)
        /\ dir[final[r]].frozen
        /\ dir[final[r]].writer \in Promotions /\ RunOf[dir[final[r]].writer] = r
        /\ pc[dir[final[r]].writer] \in Official \cup {"done", "dead"}

Publications == \A r \in Runs : Valid(r)

Entered == {r \in Runs : \E q \in Promotions : RunOf[q] = r /\ pc[q] = "done"}

Entries == registry \subseteq Entered /\ \A p \in Promotions : listed[p] \subseteq Entered

PromotionInv ==
    /\ TypeOK /\ Alone /\ Names /\ (\A p \in Promotions : Place(p))
    /\ Publications /\ Entries

-----------------------------------------------------------------------------
(* Steps                                                                   *)

Step(p) == BindCapsule(p) \/ Advance(p) \/ RollBack(p) \/ Interruption(p)

(* The variables of the other promotions.                                  *)
Others(p) ==
    \A q \in Promotions \ {p} :
        /\ pc'[q] = pc[q] /\ snap'[q] = snap[q] /\ held'[q] = held[q]
        /\ listed'[q] = listed[q] /\ target'[q] = target[q] /\ completed'[q] = completed[q]

(* A step of a promotion changes what belongs to it and to its run; of the *)
(* directories, only those its run's names lead to.                        *)
Frame(p) ==
    /\ pc[p] \notin Ended
    /\ \A q \in Promotions \ {p} : RunOf[q] = RunOf[p] => pc[q] \in AtRest
    /\ Others(p)
    /\ \A r \in Runs \ {RunOf[p]} : staging'[r] = staging[r] /\ final'[r] = final[r]
    /\ staging'[RunOf[p]] \in {Staged(p), Published(p), p, None}
    /\ final'[RunOf[p]] \in {Staged(p), Published(p), p, None}
    /\ \A d \in Promotions \ {Staged(p), Published(p)} : dir'[d] = dir[d]
    /\ gone' = gone

(* What it leaves there satisfies the invariant.                           *)
Own(p) ==
    /\ Place(p)'
    /\ staging'[RunOf[p]] # None => staging'[RunOf[p]] # final'[RunOf[p]]
    /\ pc'[p] \in Early =>
         dir'[p] = EmptyDirectory /\ staging'[RunOf[p]] # p /\ final'[RunOf[p]] # p
    /\ Valid(RunOf[p])'
    /\ final'[RunOf[p]] = None =>
         \A q \in Promotions : RunOf[q] = RunOf[p] => pc[q] # "done"
    /\ registry' \subseteq Entered' /\ listed'[p] \subseteq Entered'

LEMMA NamesOfRun ==
    ASSUME TypeOK, Names, NEW p \in Promotions
    PROVE  /\ RunOf[p] \in Runs /\ p # None
           /\ Staged(p) \in Promotions \cup {None} /\ Published(p) \in Promotions \cup {None}
           /\ Staged(p) # None => RunOf[Staged(p)] = RunOf[p] /\ Staged(p) # Published(p)
           /\ Published(p) # None => RunOf[Published(p)] = RunOf[p]
BY PromotionAssumption DEF TypeOK, Names, Staged, Published

LEMMA FrameKeepsAlone ==
    ASSUME PromotionInv, NEW p \in Promotions, Frame(p)
    PROVE  Alone'
BY DEF PromotionInv, Alone, Frame, Others

LEMMA FrameKeepsNames ==
    ASSUME PromotionInv, NEW p \in Promotions, Frame(p), Own(p)
    PROVE  Names'
<1>. USE PromotionAssumption
<1>1. TypeOK /\ Names
  BY DEF PromotionInv
<1>2. gone' = {}
  BY <1>1 DEF Names, Frame
<1>3. ASSUME NEW r \in Runs
      PROVE  /\ staging'[r] # None => RunOf[staging'[r]] = r /\ staging'[r] # final'[r]
             /\ final'[r] # None => RunOf[final'[r]] = r
  <2>1. CASE r # RunOf[p]
    BY <1>1, <2>1 DEF Names, Frame
  <2>2. CASE r = RunOf[p]
    BY <1>1, <2>2, NamesOfRun DEF Frame, Own
  <2>. QED
    BY <2>1, <2>2
<1>4. ASSUME NEW q \in Promotions, pc'[q] \in Early
      PROVE  /\ dir'[q] = EmptyDirectory
             /\ staging'[RunOf[q]] # q /\ final'[RunOf[q]] # q
  <2>1. CASE q = p
    BY <1>4, <2>1 DEF Own
  <2>2. CASE q # p
    <3>1. pc[q] \in Early
      BY <1>4, <2>2 DEF Frame, Others
    <3>2. dir[q] = EmptyDirectory /\ Staged(q) # q /\ Published(q) # q
      BY <1>1, <3>1 DEF Names
    <3>3. CASE RunOf[q] = RunOf[p]
      BY <1>1, <2>2, <3>2, <3>3, NamesOfRun DEF Frame, Staged, Published
    <3>4. CASE RunOf[q] # RunOf[p]
      BY <1>1, <2>2, <3>2, <3>4, NamesOfRun DEF Frame, Staged, Published
    <3>. QED
      BY <3>3, <3>4
  <2>. QED
    BY <2>1, <2>2
<1>. QED
  BY <1>2, <1>3, <1>4 DEF Names, Staged, Published

LEMMA FrameKeepsPlaces ==
    ASSUME PromotionInv, NEW p \in Promotions, Frame(p), Own(p), NEW q \in Promotions
    PROVE  Place(q)'
<1>. USE PromotionAssumption
<1>0. TypeOK /\ Names /\ Place(q)
  BY DEF PromotionInv
<1>1. CASE q = p
  BY <1>1 DEF Own
<1>2. CASE q # p /\ RunOf[q] = RunOf[p]
  <2>1. pc'[q] = pc[q] /\ pc[q] \in AtRest
    BY <1>2 DEF Frame, Others
  <2>2. pc[q] = "done" => final'[RunOf[q]] # None
    BY <1>2 DEF Own
  <2>. QED
    BY <2>1, <2>2 DEF Place, AtRest, Ended, Writing, Finished, Official, Published
<1>3. CASE RunOf[q] # RunOf[p]
  <2>1. /\ pc'[q] = pc[q] /\ snap'[q] = snap[q] /\ held'[q] = held[q] /\ target'[q] = target[q]
        /\ completed'[q] = completed[q]
        /\ staging'[RunOf[q]] = staging[RunOf[q]] /\ final'[RunOf[q]] = final[RunOf[q]]
    BY <1>3 DEF Frame, Others
  <2>2. /\ Staged(q) # None => dir'[Staged(q)] = dir[Staged(q)]
        /\ Published(q) # None => dir'[Published(q)] = dir[Published(q)]
    BY <1>0, <1>3, NamesOfRun DEF Frame
  <2>3. ASSUME NEW x \in Promotions, RunOf[x] = RunOf[q]
        PROVE  pc'[x] = pc[x]
    BY <1>3, <2>3 DEF Frame, Others
  <2>4. Staged(q)' = Staged(q) /\ Published(q)' = Published(q)
    BY <2>1 DEF Staged, Published
  <2>5. /\ pc[q] \in Writing \cup Finished => dir'[Staged(q)] = dir[Staged(q)]
        /\ pc[q] \in Official => dir'[held[q]] = dir[held[q]]
    BY <1>0, <2>2 DEF Place, Writing, Finished, Official
  <2>6. (\A x \in Promotions : RunOf[x] = RunOf[q] => pc[x] # "done")
          => \A x \in Promotions : RunOf[x] = RunOf[q] => pc'[x] # "done"
    BY <2>3
  <2>7. (pc[q] = "inputs" => Staged(q) # None /\ held[q] = Staged(q))'
    BY <1>0, <2>1, <2>4 DEF Place
  <2>8. (pc[q] \in Writing => Staged(q) # None /\ dir[Staged(q)].writer = q)'
    BY <1>0, <2>1, <2>4, <2>5 DEF Place
  <2>9. (pc[q] \in Finished =>
           /\ Staged(q) # None /\ dir[Staged(q)].writer = q
           /\ SealedTree(dir[Staged(q)], snap[q]) /\ Published(q) = None)'
    BY <1>0, <2>1, <2>4, <2>5 DEF Place
  <2>10. (pc[q] \in {"check", "rename"} => held[q] = Staged(q) /\ dir[Staged(q)].frozen)'
    BY <1>0, <2>1, <2>4, <2>5 DEF Place, Finished
  <2>11. (pc[q] \in Official =>
            /\ Published(q) # None /\ Published(q) = held[q] /\ dir[held[q]].writer = q
            /\ Staged(q) = None
            /\ \A x \in Promotions : RunOf[x] = RunOf[q] => pc[x] # "done")'
    BY <1>0, <2>1, <2>4, <2>5, <2>6 DEF Place
  <2>. QED
    BY <1>0, <2>1, <2>4, <2>7, <2>8, <2>9, <2>10, <2>11 DEF Place
<1>. QED
  BY <1>1, <1>2, <1>3

LEMMA FrameKeepsPublications ==
    ASSUME PromotionInv, NEW p \in Promotions, Frame(p), Own(p)
    PROVE  Publications'
<1>. USE PromotionAssumption
<1>0. TypeOK /\ Names /\ Publications
  BY DEF PromotionInv
<1>. SUFFICES ASSUME NEW r \in Runs
              PROVE  Valid(r)'
  BY DEF Publications
<1>1. CASE r = RunOf[p]
  BY <1>1 DEF Own
<1>2. CASE r # RunOf[p]
  <2>. SUFFICES ASSUME final'[r] # None
                PROVE  Valid(r)'
    BY DEF Valid
  <2>1. final'[r] = final[r] /\ final[r] \in Promotions /\ RunOf[final[r]] = r
    BY <1>0, <1>2 DEF Frame, Names, TypeOK
  <2>2. dir'[final[r]] = dir[final[r]]
    BY <1>0, <1>2, <2>1, NamesOfRun DEF Frame
  <2>3. Valid(r)
    BY <1>0 DEF Publications
  <2>4. pc'[dir[final[r]].writer] = pc[dir[final[r]].writer]
    BY <1>2, <2>1, <2>3 DEF Frame, Others, Valid
  <2>. QED
    BY <2>1, <2>2, <2>3, <2>4 DEF Valid
<1>. QED
  BY <1>1, <1>2

LEMMA FrameKeepsEntries ==
    ASSUME PromotionInv, NEW p \in Promotions, Frame(p), Own(p)
    PROVE  Entries'
<1>1. Entered \subseteq Entered'
  BY DEF Entered, Frame, Others, Ended
<1>2. \A q \in Promotions : listed'[q] \subseteq Entered'
  BY <1>1 DEF PromotionInv, Entries, Frame, Others, Own
<1>. QED
  BY <1>2 DEF Own, Entries

LEMMA FrameKeepsInv ==
    ASSUME PromotionInv, NEW p \in Promotions, TypeOK', Frame(p), Own(p)
    PROVE  PromotionInv'
BY FrameKeepsAlone, FrameKeepsNames, FrameKeepsPlaces, FrameKeepsPublications,
   FrameKeepsEntries DEF PromotionInv

-----------------------------------------------------------------------------
(* Steps that leave the names as they are                                  *)

LEMMA OthersIdle ==
    ASSUME PromotionInv, NEW p \in Promotions, pc[p] \notin AtRest
    PROVE  \A q \in Promotions \ {p} : RunOf[q] = RunOf[p] => pc[q] \in AtRest
BY DEF PromotionInv, Alone

(* No promotion of the run reports success while another is at work on it. *)
LEMMA NothingReported ==
    ASSUME NEW p \in Promotions, Place(p), pc[p] \in Official,
           Others(p), pc'[p] # "done"
    PROVE  \A q \in Promotions : RunOf[q] = RunOf[p] => pc'[q] # "done"
BY DEF Place, Others

LEMMA SamePublication ==
    ASSUME PromotionInv, NEW p \in Promotions, Others(p), pc[p] \notin Ended,
           final'[RunOf[p]] = final[RunOf[p]],
           Published(p) # None => dir'[Published(p)] = dir[Published(p)],
           pc[p] \in Official => pc'[p] \in Official \cup {"done", "dead"}
    PROVE  Valid(RunOf[p])'
<1>. SUFFICES ASSUME Published(p) # None
              PROVE  Valid(RunOf[p])'
  BY DEF Valid, Published
<1>1. RunOf[p] \in Runs
  BY PromotionAssumption
<1>2. Valid(RunOf[p]) /\ final[RunOf[p]] = Published(p)
  BY <1>1 DEF PromotionInv, Publications, Published
<1>. DEFINE w == dir[Published(p)].writer
<1>3. w \in Promotions /\ RunOf[w] = RunOf[p] /\ pc[w] \in Official \cup {"done", "dead"}
  BY <1>2 DEF Valid
<1>4. pc'[w] \in Official \cup {"done", "dead"}
  <2>1. CASE w = p /\ pc[p] \in Official
    BY <2>1
  <2>2. CASE w = p /\ pc[p] \in {"done", "dead"}
    BY <2>2 DEF Ended
  <2>3. CASE w # p
    BY <1>3, <2>3 DEF Others
  <2>. QED
    BY <1>3, <2>1, <2>2, <2>3
<1>. QED
  BY <1>2, <1>4 DEF Valid

LEMMA NamesStay ==
    ASSUME PromotionInv, NEW p \in Promotions, pc[p] \notin Ended, Others(p),
           \A q \in Promotions \ {p} : RunOf[q] = RunOf[p] => pc[q] \in AtRest,
           UNCHANGED <<staging, final, gone, registry>>,
           \A d \in Promotions \ {Staged(p)} : dir'[d] = dir[d],
           Place(p)',
           pc'[p] \in Early => pc[p] \in Early /\ dir' = dir,
           pc[p] \in Official => pc'[p] \in Official \cup {"done", "dead"},
           listed'[p] \subseteq listed[p] \cup registry
    PROVE  Frame(p) /\ Own(p)
<1>1. TypeOK /\ Names /\ Entries /\ \A q \in Promotions : Place(q)
  BY DEF PromotionInv
<1>2. Frame(p)
  BY <1>1 DEF Frame, Staged, Published
<1>3. Valid(RunOf[p])'
  BY <1>1, NamesOfRun, SamePublication
<1>4. Entered \subseteq Entered'
  BY <1>2 DEF Entered, Frame, Others, Ended
<1>5. registry' \subseteq Entered' /\ listed'[p] \subseteq Entered'
  BY <1>1, <1>4 DEF Entries
<1>6. final'[RunOf[p]] = None =>
        \A q \in Promotions : RunOf[q] = RunOf[p] => pc[q] # "done"
  BY <1>1 DEF Place, Published
<1>7. staging'[RunOf[p]] # None => staging'[RunOf[p]] # final'[RunOf[p]]
  BY <1>1, NamesOfRun DEF Staged, Published
<1>8. pc'[p] \in Early =>
        dir'[p] = EmptyDirectory /\ staging'[RunOf[p]] # p /\ final'[RunOf[p]] # p
  BY <1>1 DEF Names, Staged, Published
<1>. QED
  BY <1>2, <1>3, <1>5, <1>6, <1>7, <1>8 DEF Own

LEMMA StepFailsTo ==
    ASSUME TypeOK, Orderly, NEW p \in Promotions, Place(p), StepFails(p)
    PROVE  /\ pc'[p] \in {"undo", "failed", "discard"}
           /\ pc[p] \in Official => pc'[p] = "undo"
           /\ pc'[p] = "undo" => pc[p] \in Official
<1>1. pc[p] # "renamed"
  BY DEF StepFails, Orderly, Place, Official
<1>2. CASE pc[p] \in {"confirm", "registry", "append"}
  <2>1. completed[p] # 4
    BY <1>2 DEF Place, Official
  <2>2. pc' = [pc EXCEPT ![p] = "undo"]
    BY <1>2, <2>1 DEF StepFails, Goto
  <2>. QED
    BY <1>2, <2>2 DEF TypeOK, Official
<1>3. CASE pc[p] \in Pipeline \ {"renamed", "confirm", "registry", "append"}
  <2>1. pc' = [pc EXCEPT ![p] = IF completed[p] = 4 THEN "failed" ELSE "discard"]
    BY <1>3 DEF StepFails, Goto
  <2>. QED
    BY <1>3, <2>1 DEF TypeOK, Official, Pipeline
<1>. QED
  BY <1>1, <1>2, <1>3 DEF StepFails

(* Only the program counter and the promotion's own notes.                 *)
LEMMA QuietSteps ==
    ASSUME PromotionInv, Orderly, NEW p \in Promotions,
           \/ BindCapsule(p) \/ ValidatorsPass(p) \/ CheckNames(p) \/ RenamedIsFrozenTree(p)
           \/ ConfirmFinal(p) \/ ReadRegistry(p) \/ StepFails(p) \/ UndoPublish(p)
           \/ DiscardStaging(p) \/ Killed(p)
    PROVE  TypeOK' /\ Frame(p) /\ Own(p)
<1>. USE PromotionAssumption
<1>0. TypeOK /\ Names /\ Place(p)
  BY DEF PromotionInv
<1>1. CASE BindCapsule(p)
  <2>1. TypeOK' /\ Others(p)
    BY <1>0, <1>1 DEF BindCapsule, Goto, files, TypeOK, Pcs, Pipeline, Others
  <2>2. Place(p)'
    BY <1>0, <1>1 DEF BindCapsule, Goto, files, TypeOK, Place, Writing, Finished, Official
  <2>3. \A q \in Promotions \ {p} : RunOf[q] = RunOf[p] => pc[q] \in AtRest
    BY <1>1 DEF BindCapsule, Orderly, AtRest
  <2>. QED
    BY <1>0, <1>1, <2>1, <2>2, <2>3, NamesStay
       DEF BindCapsule, Goto, files, TypeOK, Early, Official, Ended
<1>2. CASE ValidatorsPass(p)
  <2>1. TypeOK' /\ Others(p)
    BY <1>0, <1>2 DEF ValidatorsPass, Goto, files, TypeOK, Pcs, Pipeline, Others
  <2>2. Place(p)'
    BY <1>0, <1>2 DEF ValidatorsPass, Goto, files, TypeOK, Place, Writing, Finished, Official
  <2>. QED
    BY <1>0, <1>2, <2>1, <2>2, OthersIdle, NamesStay
       DEF ValidatorsPass, Goto, files, TypeOK, Early, Official, Ended, AtRest
<1>3. CASE CheckNames(p)
  <2>1. TypeOK' /\ Others(p)
    BY <1>0, <1>3 DEF CheckNames, Goto, files, TypeOK, Pcs, Pipeline, Others
  <2>2. Place(p)'
    BY <1>0, <1>3 DEF CheckNames, Goto, files, TypeOK, Place, Writing, Finished, Official,
                      Staged, Published
  <2>. QED
    BY <1>0, <1>3, <2>1, <2>2, OthersIdle, NamesStay
       DEF CheckNames, Goto, files, TypeOK, Early, Official, Ended, AtRest
<1>4. CASE RenamedIsFrozenTree(p)
  <2>1. TypeOK' /\ Others(p)
    BY <1>0, <1>4 DEF RenamedIsFrozenTree, Goto, files, TypeOK, Pcs, Pipeline, Others
  <2>2. Place(p)'
    BY <1>0, <1>4, NothingReported
       DEF RenamedIsFrozenTree, Goto, files, TypeOK, Place, Writing, Finished, Official,
           Staged, Published
  <2>. QED
    BY <1>0, <1>4, <2>1, <2>2, OthersIdle, NamesStay
       DEF RenamedIsFrozenTree, Goto, files, TypeOK, Early, Official, Ended, AtRest
<1>5. CASE ConfirmFinal(p)
  <2>1. TypeOK' /\ Others(p)
    BY <1>0, <1>5 DEF ConfirmFinal, Goto, files, TypeOK, Pcs, Pipeline, Others
  <2>2. Place(p)'
    BY <1>0, <1>5, NothingReported
       DEF ConfirmFinal, Goto, files, TypeOK, Place, Writing, Finished, Official,
           Staged, Published
  <2>. QED
    BY <1>0, <1>5, <2>1, <2>2, OthersIdle, NamesStay
       DEF ConfirmFinal, Goto, files, TypeOK, Early, Official, Ended, AtRest
<1>6. CASE ReadRegistry(p)
  <2>1. TypeOK' /\ Others(p)
    BY <1>0, <1>6 DEF ReadRegistry, Goto, files, TypeOK, Pcs, Pipeline, Others
  <2>2. Place(p)'
    BY <1>0, <1>6, NothingReported
       DEF ReadRegistry, Goto, files, TypeOK, Place, Writing, Finished, Official,
           Staged, Published
  <2>. QED
    BY <1>0, <1>6, <2>1, <2>2, OthersIdle, NamesStay
       DEF ReadRegistry, Goto, files, TypeOK, Early, Official, Ended, AtRest
<1>7. CASE StepFails(p)
  <2>0. /\ pc'[p] \in {"undo", "failed", "discard"}
        /\ pc[p] \in Official => pc'[p] = "undo"
        /\ pc'[p] = "undo" => pc[p] \in Official
    BY <1>0, <1>7, StepFailsTo
  <2>1. TypeOK' /\ Others(p)
    BY <1>0, <1>7 DEF StepFails, Goto, files, TypeOK, Pcs, Pipeline, RollingBack, Ended, Others
  <2>2. Place(p)'
    BY <1>0, <1>7, <2>0, NothingReported
       DEF StepFails, Goto, files, TypeOK, Place, Writing, Finished, Official,
           Staged, Published
  <2>. QED
    BY <1>0, <1>7, <2>0, <2>1, <2>2, OthersIdle, NamesStay
       DEF StepFails, Pipeline, files, TypeOK, Early, Official, Ended, AtRest
<1>8. CASE UndoPublish(p)
  <2>1. TypeOK' /\ Others(p)
    BY <1>0, <1>8 DEF UndoPublish, Goto, files, TypeOK, Pcs, RollingBack, Others
  <2>2. pc'[p] = "undoing" /\ target'[p] = "staging"
    BY <1>0, <1>8 DEF UndoPublish, Goto, TypeOK, Place, Official
  <2>3. Place(p)'
    BY <1>0, <1>8, <2>2, NothingReported
       DEF UndoPublish, Goto, files, TypeOK, Place, Writing, Finished, Official,
           Staged, Published
  <2>. QED
    BY <1>0, <1>8, <2>1, <2>2, <2>3, OthersIdle, NamesStay
       DEF UndoPublish, files, TypeOK, Early, Official, Ended, AtRest
<1>9. CASE DiscardStaging(p)
  <2>0. pc'[p] \in {"failed", "discard", "thaw"}
    BY <1>0, <1>9 DEF DiscardStaging, RolledBack, Goto, TypeOK
  <2>1. TypeOK' /\ Others(p)
    BY <1>0, <1>9, NamesOfRun
       DEF DiscardStaging, RolledBack, Goto, files, TypeOK, Pcs, RollingBack, Ended, Others
  <2>2. Place(p)'
    BY <1>0, <1>9, <2>0
       DEF DiscardStaging, RolledBack, Goto, files, TypeOK, Place, Writing, Finished, Official,
           Staged, Published
  <2>. QED
    BY <1>0, <1>9, <2>0, <2>1, <2>2, OthersIdle, NamesStay
       DEF DiscardStaging, files, TypeOK, Early, Official, Ended, AtRest
<1>10. CASE Killed(p)
  <2>1. TypeOK' /\ Others(p)
    BY <1>0, <1>10 DEF Killed, Goto, files, TypeOK, Pcs, Ended, Others
  <2>2. Place(p)'
    BY <1>0, <1>10 DEF Killed, Goto, files, TypeOK, Place, Writing, Finished, Official
  <2>. QED
    BY <1>0, <1>10, <2>1, <2>2, OthersIdle, NamesStay
       DEF Killed, Goto, files, TypeOK, Pipeline, RollingBack, Early, Official, Ended, AtRest
<1>. QED
  BY <1>1, <1>2, <1>3, <1>4, <1>5, <1>6, <1>7, <1>8, <1>9, <1>10

(* One directory gets other content; what the steps write into it.         *)
LEMMA OneDirectory ==
    ASSUME TypeOK, NEW d \in Promotions, NEW t \in Directory,
           dir' = [dir EXCEPT ![d] = t]
    PROVE  /\ dir' \in [Promotions -> Directory] /\ dir'[d] = t
           /\ \A e \in Promotions \ {d} : dir'[e] = dir[e]
BY DEF TypeOK

LEMMA SealContents ==
    ASSUME NEW t \in Directory, NEW s \in Seals
    PROVE  /\ [t EXCEPT !.seal = s] \in Directory /\ [t EXCEPT !.seal = s].writer = t.writer
           /\ [t EXCEPT !.report = TRUE, !.seal = s] \in Directory
           /\ [t EXCEPT !.report = TRUE, !.seal = s].writer = t.writer
BY DEF Directory

LEMMA FlagContents ==
    ASSUME NEW t \in Directory, NEW b \in BOOLEAN
    PROVE  /\ [t EXCEPT !.progress = b] \in Directory /\ [t EXCEPT !.progress = b].writer = t.writer
           /\ [t EXCEPT !.frozen = b] \in Directory /\ [t EXCEPT !.frozen = b].writer = t.writer
           /\ [t EXCEPT !.frozen = b].frozen = b
BY DEF Directory

LEMMA FrozenStaysSealed ==
    ASSUME NEW t \in Directory, NEW b \in BOOLEAN, NEW v, SealedTree(t, v)
    PROVE  SealedTree([t EXCEPT !.frozen = b], v)
BY DEF Directory, SealedTree, ExactInventory

LEMMA SealTypes ==
    ASSUME TypeOK, NEW p \in Promotions
    PROVE  SealOf("report", snap[p]) \in Seals /\ SealOf("inputs", snap[p]) \in Seals
BY DEF TypeOK, SealOf, Seals

LEMMA InputsWritten ==
    ASSUME TypeOK, NEW p \in Promotions, held[p] \in Promotions, WriteInputs(p)
    PROVE  /\ dir' \in [Promotions -> Directory] /\ dir'[held[p]].writer = p
           /\ \A e \in Promotions \ {held[p]} : dir'[e] = dir[e]
<1>. DEFINE h == held[p]
<1>1. dir \in [Promotions -> Directory] /\ snap[p] \in Versions /\ dir[h] \in Directory
  BY DEF TypeOK
<1>2. /\ dir' = [e \in Promotions |-> dir'[e]]
      /\ \A e \in Promotions \ {h} : dir'[e] = dir[e]
  BY <1>1 DEF WriteInputs
<1>3. dir'[h] = [dir[h] EXCEPT !.inputs = "all", !.writer = p, !.version = snap[p]]
  BY <1>1 DEF WriteInputs, Directory
<1>4. dir'[h] \in Directory /\ dir'[h].writer = p
  BY <1>1, <1>3 DEF Directory
<1>. QED
  BY <1>1, <1>2, <1>4

LEMMA InputsWrittenInPart ==
    ASSUME TypeOK, NEW p \in Promotions, held[p] \in Promotions,
           NEW left \in {"none", "part"}, NEW step, WriteInputsInterrupted(p, left, step)
    PROVE  /\ dir' \in [Promotions -> Directory]
           /\ \A e \in Promotions \ {held[p]} : dir'[e] = dir[e]
<1>. DEFINE h == held[p]
<1>1. dir \in [Promotions -> Directory] /\ snap[p] \in Versions /\ dir[h] \in Directory
  BY DEF TypeOK
<1>2. /\ dir' = [e \in Promotions |-> dir'[e]]
      /\ \A e \in Promotions \ {h} : dir'[e] = dir[e]
  BY <1>1 DEF WriteInputsInterrupted
<1>3. dir'[h] = [dir[h] EXCEPT !.inputs = left, !.writer = p, !.version = snap[p],
                               !.residue = TRUE]
  BY <1>1 DEF WriteInputsInterrupted, Directory
<1>4. dir'[h] \in Directory
  BY <1>1, <1>3 DEF Directory
<1>. QED
  BY <1>1, <1>2, <1>4

(* A step that writes into the staging tree it works on.                   *)
LEMMA WritingSteps ==
    ASSUME PromotionInv, Orderly, NEW p \in Promotions,
           \/ WriteInputs(p) \/ SealMetrics(p) \/ WriteProgress(p) \/ StageCharts(p)
           \/ StageReport(p) \/ ValidateStaging(p) \/ Freeze(p) \/ Thaw(p)
           \/ InterruptedRenaming(p)
           \/ \E left \in {"none", "part"}, step \in {"failed", "dead"} :
                   WriteInputsInterrupted(p, left, step)
    PROVE  TypeOK' /\ Frame(p) /\ Own(p)
<1>. USE PromotionAssumption
<1>. DEFINE d == Staged(p)
<1>0. TypeOK /\ Names /\ Place(p) /\ d \in Promotions \cup {None} /\ snap[p] \in Versions
  BY NamesOfRun DEF PromotionInv, TypeOK
<1>1. CASE WriteInputs(p)
  <2>1. d = held[p] /\ d \in Promotions
    BY <1>0, <1>1 DEF WriteInputs, Place
  <2>2. /\ dir' \in [Promotions -> Directory] /\ dir'[d].writer = p
        /\ \A e \in Promotions \ {d} : dir'[e] = dir[e]
    <3>. HIDE DEF d
    <3>. QED
      BY <1>0, <1>1, <2>1, InputsWritten
  <2>3. TypeOK' /\ Others(p)
    BY <1>0, <1>1, <2>2 DEF WriteInputs, Goto, TypeOK, Pcs, Pipeline, Others
  <2>4. Place(p)'
    BY <1>0, <1>1, <2>1, <2>2
       DEF WriteInputs, Goto, TypeOK, Place, Writing, Finished, Official, Staged
  <2>. QED
    BY <1>0, <1>1, <2>2, <2>3, <2>4, OthersIdle, NamesStay
       DEF WriteInputs, Goto, TypeOK, Early, Official, Ended, AtRest
<1>2. CASE SealMetrics(p)
  <2>. DEFINE s == SealOf(IF dir[d].report THEN "report" ELSE "inputs", snap[p])
              t == [dir[d] EXCEPT !.seal = s]
  <2>1. d \in Promotions /\ dir[d] \in Directory /\ dir[d].writer = p
    BY <1>0, <1>2 DEF SealMetrics, Place, Writing, TypeOK
  <2>2. t \in Directory /\ t.writer = p
    <3>1. s \in Seals
      BY <1>0, SealTypes
    <3>. HIDE DEF s, d
    <3>. QED
      BY <1>0, <2>1, <3>1, SealContents
  <2>3. dir' = [dir EXCEPT ![d] = t]
    BY <1>0, <1>2, <2>1 DEF SealMetrics, TypeOK
  <2>4. /\ dir' \in [Promotions -> Directory] /\ dir'[d].writer = p
        /\ \A e \in Promotions \ {d} : dir'[e] = dir[e]
    <3>. HIDE DEF t, d
    <3>. QED
      BY <1>0, <2>1, <2>2, <2>3, OneDirectory
  <2>5. TypeOK' /\ Others(p)
    BY <1>0, <1>2, <2>4 DEF SealMetrics, Goto, TypeOK, Pcs, Pipeline, Others
  <2>6. Place(p)'
    BY <1>0, <1>2, <2>1, <2>4
       DEF SealMetrics, Goto, TypeOK, Place, Writing, Finished, Official, Staged
  <2>. QED
    BY <1>0, <1>2, <2>4, <2>5, <2>6, OthersIdle, NamesStay
       DEF SealMetrics, Goto, TypeOK, Early, Official, Ended, AtRest
<1>3. CASE WriteProgress(p)
  <2>. DEFINE t == [dir[d] EXCEPT !.progress = TRUE]
  <2>1. d \in Promotions /\ dir[d] \in Directory /\ dir[d].writer = p
    BY <1>0, <1>3 DEF WriteProgress, Place, Writing, TypeOK
  <2>2. t \in Directory /\ t.writer = p
    <3>. HIDE DEF d
    <3>. QED
      BY <1>0, <2>1, FlagContents
  <2>3. dir' = [dir EXCEPT ![d] = t]
    BY <1>0, <1>3, <2>1 DEF WriteProgress, TypeOK
  <2>4. /\ dir' \in [Promotions -> Directory] /\ dir'[d].writer = p
        /\ \A e \in Promotions \ {d} : dir'[e] = dir[e]
    <3>. HIDE DEF t, d
    <3>. QED
      BY <1>0, <2>1, <2>2, <2>3, OneDirectory
  <2>5. TypeOK' /\ Others(p) /\ pc'[p] \in {"charts", "publish"}
    BY <1>0, <1>3, <2>4 DEF WriteProgress, Goto, TypeOK, Pcs, Pipeline, Others
  <2>6. Place(p)'
    BY <1>0, <1>3, <2>1, <2>4, <2>5
       DEF WriteProgress, TypeOK, Place, Writing, Finished, Official, Staged
  <2>. QED
    BY <1>0, <1>3, <2>4, <2>5, <2>6, OthersIdle, NamesStay
       DEF WriteProgress, TypeOK, Early, Official, Ended, AtRest
<1>4. CASE StageCharts(p)
  <2>. DEFINE t == [dir[d] EXCEPT !.progress = TRUE]
  <2>1. d \in Promotions /\ dir[d] \in Directory /\ dir[d].writer = p
    BY <1>0, <1>4 DEF StageCharts, Place, Writing, TypeOK
  <2>2. t \in Directory /\ t.writer = p
    <3>. HIDE DEF d
    <3>. QED
      BY <1>0, <2>1, FlagContents
  <2>3. dir' = [dir EXCEPT ![d] = t]
    BY <1>0, <1>4, <2>1 DEF StageCharts, TypeOK
  <2>4. /\ dir' \in [Promotions -> Directory] /\ dir'[d].writer = p
        /\ \A e \in Promotions \ {d} : dir'[e] = dir[e]
    <3>. HIDE DEF t, d
    <3>. QED
      BY <1>0, <2>1, <2>2, <2>3, OneDirectory
  <2>5. TypeOK' /\ Others(p)
    BY <1>0, <1>4, <2>4 DEF StageCharts, Goto, TypeOK, Pcs, Pipeline, Others
  <2>6. Place(p)'
    BY <1>0, <1>4, <2>1, <2>4
       DEF StageCharts, Goto, TypeOK, Place, Writing, Finished, Official, Staged
  <2>. QED
    BY <1>0, <1>4, <2>4, <2>5, <2>6, OthersIdle, NamesStay
       DEF StageCharts, Goto, TypeOK, Early, Official, Ended, AtRest
<1>5. CASE StageReport(p)
  <2>. DEFINE s == SealOf("report", snap[p])
              t == [dir[d] EXCEPT !.report = TRUE, !.seal = s]
  <2>1. d \in Promotions /\ dir[d] \in Directory /\ dir[d].writer = p
    BY <1>0, <1>5 DEF StageReport, Place, Writing, TypeOK
  <2>2. t \in Directory /\ t.writer = p
    <3>1. s \in Seals
      BY <1>0, SealTypes
    <3>. HIDE DEF s, d
    <3>. QED
      BY <1>0, <2>1, <3>1, SealContents
  <2>3. dir' = [dir EXCEPT ![d] = t]
    BY <1>0, <1>5, <2>1 DEF StageReport, TypeOK
  <2>4. /\ dir' \in [Promotions -> Directory] /\ dir'[d].writer = p
        /\ \A e \in Promotions \ {d} : dir'[e] = dir[e]
    <3>. HIDE DEF t, d
    <3>. QED
      BY <1>0, <2>1, <2>2, <2>3, OneDirectory
  <2>5. TypeOK' /\ Others(p)
    BY <1>0, <1>5, <2>4 DEF StageReport, Goto, TypeOK, Pcs, Pipeline, Others
  <2>6. Place(p)'
    BY <1>0, <1>5, <2>1, <2>4
       DEF StageReport, Goto, TypeOK, Place, Writing, Finished, Official, Staged
  <2>. QED
    BY <1>0, <1>5, <2>4, <2>5, <2>6, OthersIdle, NamesStay
       DEF StageReport, Goto, TypeOK, Early, Official, Ended, AtRest
<1>6. CASE ValidateStaging(p)
  <2>. DEFINE t == [dir[d] EXCEPT !.progress = FALSE]
  <2>1. d \in Promotions /\ dir[d] \in Directory /\ dir[d].writer = p
    BY <1>0, <1>6 DEF ValidateStaging, Place, Writing, TypeOK
  <2>2. t \in Directory /\ t.writer = p /\ SealedTree(t, snap[p])
    <3>1. SealedTree(t, snap[p])
      BY <1>6 DEF ValidateStaging
    <3>. HIDE DEF d
    <3>. QED
      BY <1>0, <2>1, <3>1, FlagContents
  <2>3. dir' = [dir EXCEPT ![d] = t]
    BY <1>0, <1>6, <2>1 DEF ValidateStaging, TypeOK
  <2>4. /\ dir' \in [Promotions -> Directory] /\ dir'[d].writer = p
        /\ SealedTree(dir'[d], snap[p])
        /\ \A e \in Promotions \ {d} : dir'[e] = dir[e]
    <3>. HIDE DEF t, d
    <3>. QED
      BY <1>0, <2>1, <2>2, <2>3, OneDirectory
  <2>5. TypeOK' /\ Others(p)
    BY <1>0, <1>6, <2>4 DEF ValidateStaging, Goto, TypeOK, Pcs, Pipeline, Others
  <2>6. Place(p)'
    <3>1. /\ pc'[p] = "freeze" /\ snap' = snap /\ Staged(p)' = d /\ Published(p)' = None
          /\ completed'[p] # 4
      BY <1>0, <1>6 DEF ValidateStaging, Goto, TypeOK, Staged, Published, Place
    <3>. QED
      BY <2>1, <2>4, <3>1 DEF Place, Writing, Finished, Official
  <2>. QED
    BY <1>0, <1>6, <2>4, <2>5, <2>6, OthersIdle, NamesStay
       DEF ValidateStaging, Goto, TypeOK, Early, Official, Ended, AtRest
<1>7. CASE Freeze(p)
  <2>. DEFINE t == [dir[d] EXCEPT !.frozen = TRUE]
  <2>1. /\ d \in Promotions /\ dir[d] \in Directory /\ dir[d].writer = p
        /\ SealedTree(dir[d], snap[p]) /\ Published(p) = None
    BY <1>0, <1>7 DEF Freeze, Place, Finished, TypeOK
  <2>2. t \in Directory /\ t.writer = p /\ t.frozen
    <3>. HIDE DEF d
    <3>. QED
      BY <1>0, <2>1, FlagContents
  <2>3. SealedTree(t, snap[p])
    BY <2>1, FrozenStaysSealed
  <2>4. dir' = [dir EXCEPT ![d] = t]
    BY <1>0, <1>7, <2>1 DEF Freeze, TypeOK
  <2>5. /\ dir' \in [Promotions -> Directory] /\ dir'[d].writer = p /\ dir'[d].frozen
        /\ SealedTree(dir'[d], snap[p])
        /\ \A e \in Promotions \ {d} : dir'[e] = dir[e]
    <3>. HIDE DEF t, d
    <3>. QED
      BY <1>0, <2>1, <2>2, <2>3, <2>4, OneDirectory
  <2>6. TypeOK' /\ Others(p)
    BY <1>0, <1>7, <2>5 DEF Freeze, Goto, TypeOK, Pcs, Pipeline, Others
  <2>7. Place(p)'
    <3>1. /\ pc'[p] = "check" /\ snap' = snap /\ Staged(p)' = d /\ Published(p)' = None
          /\ held'[p] = d /\ completed'[p] # 4
      BY <1>0, <1>7, <2>1 DEF Freeze, Goto, TypeOK, Staged, Published, Place, Finished
    <3>. QED
      BY <2>1, <2>5, <3>1 DEF Place, Writing, Finished, Official
  <2>. QED
    BY <1>0, <1>7, <2>5, <2>6, <2>7, OthersIdle, NamesStay
       DEF Freeze, Goto, TypeOK, Early, Official, Ended, AtRest
<1>8. CASE Thaw(p)
  <2>. DEFINE t == [dir[d] EXCEPT !.frozen = FALSE]
  <2>1. d = held[p] /\ d \in Promotions /\ dir[d] \in Directory
    BY <1>0, <1>8 DEF Thaw, Place, TypeOK
  <2>2. t \in Directory
    <3>. HIDE DEF d
    <3>. QED
      BY <1>0, <2>1, FlagContents
  <2>3. dir' = [dir EXCEPT ![d] = t]
    BY <1>0, <1>8, <2>1 DEF Thaw, TypeOK
  <2>4. /\ dir' \in [Promotions -> Directory]
        /\ \A e \in Promotions \ {d} : dir'[e] = dir[e]
    <3>. HIDE DEF t, d
    <3>. QED
      BY <1>0, <2>1, <2>2, <2>3, OneDirectory
  <2>5. TypeOK' /\ Others(p)
    BY <1>0, <1>8, <2>4 DEF Thaw, Goto, TypeOK, Pcs, RollingBack, Others
  <2>6. Place(p)'
    BY <1>0, <1>8, <2>1
       DEF Thaw, Goto, TypeOK, Place, Writing, Finished, Official, Staged
  <2>. QED
    BY <1>0, <1>8, <2>4, <2>5, <2>6, OthersIdle, NamesStay
       DEF Thaw, Goto, TypeOK, Early, Official, Ended, AtRest
<1>9. CASE InterruptedRenaming(p)
  <2>. DEFINE t == [dir[d] EXCEPT !.frozen = FALSE]
  <2>1. d \in Promotions /\ dir[d] \in Directory
    BY <1>0, <1>9 DEF InterruptedRenaming, TypeOK
  <2>2. t \in Directory
    <3>. HIDE DEF d
    <3>. QED
      BY <1>0, <2>1, FlagContents
  <2>3. dir' = [dir EXCEPT ![d] = t]
    BY <1>0, <1>9, <2>1 DEF InterruptedRenaming, TypeOK
  <2>4. /\ dir' \in [Promotions -> Directory]
        /\ \A e \in Promotions \ {d} : dir'[e] = dir[e]
    <3>. HIDE DEF t, d
    <3>. QED
      BY <1>0, <2>1, <2>2, <2>3, OneDirectory
  <2>5. TypeOK' /\ Others(p)
    BY <1>0, <1>9, <2>4 DEF InterruptedRenaming, Goto, TypeOK, Pcs, Ended, Others
  <2>6. Place(p)'
    BY <1>0, <1>9 DEF InterruptedRenaming, Goto, TypeOK, Place, Writing, Finished, Official
  <2>. QED
    BY <1>0, <1>9, <2>4, <2>5, <2>6, OthersIdle, NamesStay
       DEF InterruptedRenaming, Goto, TypeOK, Early, Official, Ended, AtRest
<1>10. ASSUME NEW left \in {"none", "part"}, NEW step \in {"failed", "dead"},
              WriteInputsInterrupted(p, left, step)
       PROVE  TypeOK' /\ Frame(p) /\ Own(p)
  <2>1. d = held[p] /\ d \in Promotions
    BY <1>0, <1>10 DEF WriteInputsInterrupted, Place
  <2>2. /\ dir' \in [Promotions -> Directory]
        /\ \A e \in Promotions \ {d} : dir'[e] = dir[e]
    <3>. HIDE DEF d
    <3>. QED
      BY <1>0, <1>10, <2>1, InputsWrittenInPart
  <2>3. TypeOK' /\ Others(p) /\ pc'[p] \in {"failed", "dead"}
    BY <1>0, <1>10, <2>2 DEF WriteInputsInterrupted, Goto, TypeOK, Pcs, Ended, Others
  <2>4. Place(p)'
    BY <2>3 DEF Place, Writing, Finished, Official
  <2>. QED
    BY <1>0, <1>10, <2>2, <2>3, <2>4, OthersIdle, NamesStay
       DEF WriteInputsInterrupted, TypeOK, Early, Official, Ended, AtRest
<1>. QED
  BY <1>1, <1>2, <1>3, <1>4, <1>5, <1>6, <1>7, <1>8, <1>9, <1>10

-----------------------------------------------------------------------------
(* Steps that change the names or the registry                             *)

LEMMA MovingSteps ==
    ASSUME PromotionInv, Orderly, NEW p \in Promotions,
           \/ OpenStaging(p) \/ Rename(p) \/ RenameBack(p) \/ Quarantine(p)
           \/ InterruptedConfirming(p)
    PROVE  TypeOK' /\ Frame(p) /\ Own(p)
<1>. USE PromotionAssumption
<1>. DEFINE r == RunOf[p]
<1>0. /\ TypeOK /\ Names /\ Place(p) /\ Entries /\ r \in Runs /\ p # None
      /\ \A q \in Promotions : Place(q)
      /\ Staged(p) = staging[r] /\ Published(p) = final[r]
      /\ staging[r] \in Promotions \cup {None} /\ final[r] \in Promotions \cup {None}
      /\ snap[p] \in Versions
  BY NamesOfRun DEF PromotionInv, Staged, Published, TypeOK
<1>1. ASSUME NEW q \in Promotions, RunOf[q] = r, pc[q] = "done"
      PROVE  final[r] # None
  BY <1>0, <1>1 DEF Place, Published
<1>2. CASE OpenStaging(p)
  <2>. DEFINE d == IF staging[r] = None THEN p ELSE staging[r]
  <2>1. /\ pc[p] = "stage" /\ pc' = [pc EXCEPT ![p] = "inputs"]
        /\ held' = [held EXCEPT ![p] = d] /\ staging' = [staging EXCEPT ![r] = d]
        /\ UNCHANGED <<raw, dir, final, gone, registry, snap, listed, target, completed>>
    BY <1>0, <1>2 DEF OpenStaging, Goto
  <2>2. d \in Promotions /\ d # final[r] /\ d \in {Staged(p), Published(p), p, None}
    BY <1>0, <2>1 DEF Names, Early
  <2>. HIDE DEF d
  <2>3. TypeOK'
    BY <1>0, <2>1, <2>2 DEF TypeOK, Pcs, Pipeline
  <2>4. Others(p) /\ pc'[p] = "inputs" /\ staging'[r] = d /\ held'[p] = d
    BY <1>0, <2>1 DEF Others, TypeOK
  <2>5. Frame(p)
    BY <1>0, <2>1, <2>2, <2>4, OthersIdle DEF Frame, TypeOK, AtRest, Ended
  <2>6. Place(p)'
    BY <2>2, <2>4 DEF Place, Writing, Finished, Official, Staged
  <2>7. Valid(r)'
    BY <1>0, <2>1, <2>4, SamePublication DEF Official, Ended
  <2>8. Entered \subseteq Entered'
    BY <2>1, <2>4 DEF Entered, Others
  <2>. QED
    BY <1>0, <1>1, <2>1, <2>2, <2>3, <2>4, <2>5, <2>6, <2>7, <2>8 DEF Own, Early, Entries
<1>3. CASE Rename(p)
  <2>. DEFINE d == staging[r]
  <2>1. /\ pc[p] = "rename" /\ pc' = [pc EXCEPT ![p] = "renamed"]
        /\ final[r] = None /\ final' = [final EXCEPT ![r] = d]
        /\ staging' = [staging EXCEPT ![r] = None]
        /\ UNCHANGED <<raw, dir, gone, registry, snap, held, listed, target, completed>>
    BY <1>0, <1>3 DEF Rename, Goto
  <2>2. /\ d \in Promotions /\ held[p] = d /\ dir[d].frozen /\ dir[d].writer = p
        /\ SealedTree(dir[d], snap[p]) /\ completed[p] # 4
    BY <1>0, <2>1 DEF Place, Finished
  <2>. HIDE DEF d
  <2>3. TypeOK'
    BY <1>0, <2>1, <2>2 DEF TypeOK, Pcs, Pipeline
  <2>4. Others(p) /\ pc'[p] = "renamed" /\ final'[r] = d /\ staging'[r] = None
    BY <1>0, <2>1 DEF Others, TypeOK
  <2>5. d = Staged(p)
    BY <1>0 DEF d
  <2>6. Frame(p)
    BY <1>0, <2>1, <2>4, <2>5, OthersIdle DEF Frame, TypeOK, AtRest, Ended
  <2>7. \A q \in Promotions : RunOf[q] = r => pc[q] # "done" /\ pc'[q] # "done"
    BY <1>1, <2>1, <2>4 DEF Others
  <2>8. Place(p)'
    BY <2>1, <2>2, <2>4, <2>7 DEF Place, Writing, Finished, Official, Staged, Published
  <2>9. Valid(r)'
    BY <1>0, <2>1, <2>2, <2>4 DEF Valid, Official
  <2>10. Entered \subseteq Entered'
    BY <2>1, <2>4 DEF Entered, Others
  <2>. QED
    BY <1>0, <2>1, <2>2, <2>3, <2>4, <2>6, <2>7, <2>8, <2>9, <2>10 DEF Own, Early, Entries
<1>4. CASE RenameBack(p) \/ InterruptedConfirming(p)
  <2>. DEFINE d == final[r]
  <2>1. /\ d \in Promotions /\ staging[r] = None /\ pc[p] \notin AtRest
        /\ \A q \in Promotions : RunOf[q] = r => pc[q] # "done"
        /\ dir[d] \in Directory
    BY <1>0, <1>4
       DEF RenameBack, InterruptedConfirming, Place, Official, AtRest, Ended, TypeOK
  <2>2. MoveBack(p, FALSE)
    <3>1. CASE RenameBack(p)
      <4>1. target[p] = "staging"
        BY <1>0, <3>1 DEF RenameBack, Place
      <4>2. (target[p] = "failed") = FALSE
        BY <4>1
      <4>. QED
        BY <3>1, <4>2 DEF RenameBack
    <3>2. CASE InterruptedConfirming(p)
      <4>1. (Staged(p) # None) = FALSE
        BY <1>0, <2>1
      <4>. QED
        BY <3>2, <4>1 DEF InterruptedConfirming
    <3>. QED
      BY <1>4, <3>1, <3>2
  <2>3. /\ final' = [final EXCEPT ![r] = None] /\ staging' = [staging EXCEPT ![r] = d]
        /\ gone' = gone /\ dir' = [dir EXCEPT ![d] = [dir[d] EXCEPT !.frozen = FALSE]]
    BY <1>0, <2>1, <2>2 DEF MoveBack, Published, Staged
  <2>4. /\ pc' = [pc EXCEPT ![p] = IF pc[p] = "confirm" THEN "dead" ELSE "discard"]
        /\ UNCHANGED <<raw, registry, snap, held, listed, target, completed>>
    BY <1>4 DEF RenameBack, InterruptedConfirming, Goto
  <2>5. /\ dir' \in [Promotions -> Directory]
        /\ \A e \in Promotions \ {d} : dir'[e] = dir[e]
    <3>. DEFINE t == [dir[d] EXCEPT !.frozen = FALSE]
    <3>1. t \in Directory
      <4>. HIDE DEF d
      <4>. QED
        BY <2>1, FlagContents
    <3>2. dir' = [dir EXCEPT ![d] = t]
      BY <2>3
    <3>. HIDE DEF t, d
    <3>. QED
      BY <1>0, <2>1, <3>1, <3>2, OneDirectory
  <2>. HIDE DEF d
  <2>6. TypeOK'
    BY <1>0, <2>1, <2>3, <2>4, <2>5 DEF TypeOK, Pcs, RollingBack, Ended
  <2>7. Others(p) /\ pc'[p] \in {"dead", "discard"} /\ final'[r] = None /\ staging'[r] = d
    BY <1>0, <2>3, <2>4 DEF Others, TypeOK
  <2>8. d = Published(p)
    BY <1>0 DEF d
  <2>9. Frame(p)
    BY <1>0, <2>1, <2>3, <2>5, <2>7, <2>8, OthersIdle DEF Frame, TypeOK, AtRest
  <2>10. Place(p)'
    BY <2>7 DEF Place, Writing, Finished, Official
  <2>11. Valid(r)'
    BY <2>7 DEF Valid
  <2>12. Entered \subseteq Entered'
    BY <2>1, <2>7 DEF Entered, Others, AtRest, Ended
  <2>. QED
    BY <1>0, <2>1, <2>4, <2>6, <2>7, <2>9, <2>10, <2>11, <2>12 DEF Own, Early, Entries
<1>5. CASE Quarantine(p)
  <2>1. /\ pc[p] = "quarantine" /\ pc'[p] \in {"failed", "discard"}
        /\ staging' = [staging EXCEPT ![r] = None]
        /\ UNCHANGED <<raw, dir, final, gone, registry, snap, held, listed, target>>
    BY <1>0, <1>5 DEF Quarantine, RolledBack, Goto, TypeOK
  <2>2. TypeOK' /\ Others(p) /\ staging'[r] = None
    BY <1>0, <1>5, <2>1
       DEF Quarantine, RolledBack, Goto, TypeOK, Pcs, RollingBack, Ended, Others
  <2>3. Frame(p)
    BY <1>0, <2>1, <2>2, OthersIdle DEF Frame, TypeOK, AtRest, Ended
  <2>4. Place(p)'
    BY <2>1 DEF Place, Writing, Finished, Official
  <2>5. Valid(r)'
    BY <1>0, <2>1, <2>2, SamePublication DEF Official, Ended
  <2>6. Entered \subseteq Entered'
    BY <2>1, <2>2 DEF Entered, Others
  <2>. QED
    BY <1>0, <1>1, <2>1, <2>2, <2>3, <2>4, <2>5, <2>6 DEF Own, Early, Entries
<1>. QED
  BY <1>2, <1>3, <1>4, <1>5

LEMMA SuccessStep ==
    ASSUME PromotionInv, Orderly, NEW p \in Promotions, ReplaceRegistry(p)
    PROVE  TypeOK' /\ Frame(p) /\ Own(p)
<1>. USE PromotionAssumption
<1>. DEFINE r == RunOf[p]
<1>0. /\ TypeOK /\ Names /\ Place(p) /\ Entries /\ r \in Runs
      /\ \A q \in Promotions : Place(q)
  BY DEF PromotionInv
<1>1. /\ pc[p] = "append" /\ pc' = [pc EXCEPT ![p] = "done"]
      /\ registry' = listed[p] \cup {r}
      /\ UNCHANGED <<raw, dir, staging, final, gone, snap, held, listed, target, completed>>
  BY DEF ReplaceRegistry, Orderly, Goto
<1>2. TypeOK'
  BY <1>0, <1>1 DEF TypeOK, Pcs, Ended
<1>3. Others(p) /\ pc'[p] = "done"
  BY <1>0, <1>1 DEF Others, TypeOK
<1>4. Frame(p)
  BY <1>0, <1>1, <1>3, OthersIdle DEF Frame, TypeOK, AtRest, Ended, Staged, Published
<1>5. Published(p) # None
  BY <1>0, <1>1 DEF Place, Official
<1>6. Place(p)'
  BY <1>1, <1>3, <1>5 DEF Place, Writing, Finished, Official, Published
<1>7. Valid(r)'
  BY <1>1, <1>3, SamePublication DEF Ended
<1>8. Entered \cup {r} \subseteq Entered'
  BY <1>0, <1>1, <1>3 DEF Entered, Others
<1>9. staging'[r] # None => staging'[r] # final'[r]
  BY <1>0, <1>1 DEF Names
<1>. QED
  BY <1>0, <1>1, <1>2, <1>3, <1>4, <1>5, <1>6, <1>7, <1>8, <1>9
     DEF Own, Early, Entries, Published

-----------------------------------------------------------------------------
(* The invariant holds                                                     *)

(* Nothing is renamed but the frozen tree, and it can be moved back.       *)
LEMMA NeverHappens ==
    ASSUME PromotionInv, Orderly, NEW p \in Promotions
    PROVE  ~RejectRenamed(p) /\ ~RenameBackFails(p) /\ ~RollbackFails(p)
<1>1. Place(p)
  BY DEF PromotionInv
<1>2. ~RejectRenamed(p)
  BY <1>1 DEF RejectRenamed, Place, Official
<1>3. ~RenameBackFails(p)
  BY <1>1 DEF RenameBackFails, CanMoveBack, Place, Official, Orderly
<1>4. ~RollbackFails(p)
  BY DEF RollbackFails, Orderly
<1>. QED
  BY <1>2, <1>3, <1>4

LEMMA StepKeepsInv ==
    ASSUME PromotionInv, Orderly, NEW p \in Promotions, Step(p)
    PROVE  PromotionInv' /\ Frame(p)
<1>1. TypeOK' /\ Frame(p) /\ Own(p)
  BY QuietSteps, WritingSteps, MovingSteps, SuccessStep, NeverHappens
     DEF Step, Advance, RollBack, Interruption
<1>. QED
  BY <1>1, FrameKeepsInv

LEMMA SourceKeepsInv ==
    ASSUME PromotionInv, NEW r \in Runs, SourceRewritten(r)
    PROVE  PromotionInv'
<1>1. TypeOK'
  BY PromotionAssumption DEF PromotionInv, SourceRewritten, TypeOK, Versions
<1>2. UNCHANGED <<dir, staging, final, gone, registry, pc, snap, held, listed, target, completed>>
  BY DEF SourceRewritten
<1>3. (Alone /\ Names /\ Entries)'
  BY <1>2 DEF PromotionInv, Alone, Names, Entries, Entered, Staged, Published
<1>4. (\A p \in Promotions : Place(p))'
  BY <1>2 DEF PromotionInv, Place, Staged, Published
<1>5. Publications'
  BY <1>2 DEF PromotionInv, Publications, Valid
<1>. QED
  BY <1>1, <1>3, <1>4, <1>5 DEF PromotionInv

LEMMA InitInv == Init => PromotionInv
<1>. SUFFICES ASSUME Init PROVE PromotionInv
  OBVIOUS
<1>1. TypeOK
  BY PromotionAssumption
     DEF Init, TypeOK, Versions, Directory, EmptyDirectory, Seals, Pcs
<1>2. Alone /\ Names /\ Publications /\ Entries
  BY PromotionAssumption
     DEF Init, Alone, AtRest, Names, Early, Staged, Published, Publications, Valid, Entries
<1>3. \A p \in Promotions : Place(p)
  BY DEF Init, Place, Writing, Finished, Official
<1>. QED
  BY <1>1, <1>2, <1>3 DEF PromotionInv

LEMMA NextKeepsInv == PromotionInv /\ Orderly /\ [Next]_vars => PromotionInv'
<1>. SUFFICES ASSUME PromotionInv, Orderly, [Next]_vars
              PROVE  PromotionInv'
  OBVIOUS
<1>1. CASE Next
  BY <1>1, StepKeepsInv, SourceKeepsInv DEF Next, Step
<1>2. CASE UNCHANGED vars
  <2>1. (TypeOK /\ Alone /\ Names /\ Entries)'
    BY <1>2 DEF vars, PromotionInv, TypeOK, Alone, Names, Entries, Entered, Staged, Published
  <2>2. (\A p \in Promotions : Place(p))'
    BY <1>2 DEF vars, PromotionInv, Place, Staged, Published
  <2>3. Publications'
    BY <1>2 DEF vars, PromotionInv, Publications, Valid
  <2>. QED
    BY <2>1, <2>2, <2>3 DEF PromotionInv
<1>. QED
  BY <1>1, <1>2

LEMMA SpecInv == ASSUME Orderly PROVE Spec => []PromotionInv
<1>1. PromotionInv /\ [Next]_vars => PromotionInv'
  BY NextKeepsInv
<1>. QED
  BY <1>1, InitInv, PTL DEF Spec

-----------------------------------------------------------------------------
(* What is official                                                        *)

(* A sealed tree has one of the contents that Publication allows.          *)
LEMMA SealedContent ==
    ASSUME NEW d \in Promotions, dir[d] \in Directory, NEW v \in Versions,
           SealedTree(dir[d], v)
    PROVE  ContentOf(d) \in SealedContents
<1>. DEFINE c == [inputs |-> "all", version |-> v, report |-> TRUE, progress |-> FALSE,
                  residue |-> FALSE, seal |-> SealOf("report", v)]
<1>1. /\ dir[d].inputs = "all" /\ dir[d].version = v /\ dir[d].seal = SealOf("report", v)
      /\ dir[d].report /\ ~dir[d].progress /\ ~dir[d].residue
  BY DEF SealedTree, ExactInventory
<1>2. dir[d].report = TRUE /\ dir[d].progress = FALSE /\ dir[d].residue = FALSE
  BY <1>1 DEF Directory
<1>3. DOMAIN EmptyDirectory \ {"frozen", "writer"}
        = {"inputs", "version", "report", "progress", "residue", "seal"}
  BY DEF EmptyDirectory
<1>4. ContentOf(d) = c
  <2>. DEFINE S == {"inputs", "version", "report", "progress", "residue", "seal"}
  <2>1. ContentOf(d) = [f \in S |-> dir[d][f]]
    BY <1>3 DEF ContentOf
  <2>2. c = [f \in S |-> c[f]]
    OBVIOUS
  <2>3. /\ c.inputs = dir[d].inputs /\ c.version = dir[d].version /\ c.seal = dir[d].seal
        /\ c.residue = dir[d].residue
    BY <1>1, <1>2
  <2>4. c.report = dir[d].report /\ c.progress = dir[d].progress
    BY <1>2
  <2>. HIDE DEF c
  <2>5. \A f \in S : c[f] = dir[d][f]
    BY <2>3, <2>4
  <2>. HIDE DEF S
  <2>. QED
    BY <2>1, <2>2, <2>5
<1>. QED
  BY <1>4 DEF SealedContents

(* Whatever the promotions before it left behind, what is official is a    *)
(* complete, frozen publication of one version, and what is registered is  *)
(* official, when no run is promoted twice at a time                       *)
(* (_validate_staging_for_publish, rename, _step_update_registry).         *)
THEOREM OfficialTreesAreSealed == ASSUME Orderly PROVE Spec => []OfficialIsSealed
<1>1. PromotionInv => OfficialIsSealed
  <2>. SUFFICES ASSUME PromotionInv PROVE OfficialIsSealed
    OBVIOUS
  <2>1. ASSUME NEW r \in Runs, final[r] # None
        PROVE  ContentOf(final[r]) \in SealedContents /\ dir[final[r]].frozen
    <3>1. Valid(r) /\ final[r] \in Promotions /\ dir[final[r]] \in Directory
      BY <2>1 DEF PromotionInv, Publications, TypeOK
    <3>. QED
      BY <2>1, <3>1, SealedContent DEF Valid
  <2>2. RegisteredIsPublished
    BY DEF PromotionInv, Entries, Entered, Place, Published, RegisteredIsPublished
  <2>. QED
    BY <2>1, <2>2 DEF OfficialIsSealed
<1>. QED
  BY <1>1, SpecInv, PTL

-----------------------------------------------------------------------------
(* The refinement                                                          *)

(* All other steps leave the publications alone, and only replacing the    *)
(* registry reports success.                                               *)
LEMMA OtherSteps ==
    ASSUME PromotionInv, Orderly, NEW p \in Promotions, Step(p),
           ~Rename(p), ~RenameBack(p), ~InterruptedConfirming(p)
    PROVE  /\ final' = final
           /\ Published(p) # None => dir'[Published(p)] = dir[Published(p)]
           /\ pc'[p] = "done" => pc[p] = "append"
<1>0. TypeOK /\ Names /\ Place(p)
  BY DEF PromotionInv
<1>1. \/ BindCapsule(p) \/ ValidatorsPass(p) \/ CheckNames(p) \/ RenamedIsFrozenTree(p)
      \/ ConfirmFinal(p) \/ ReadRegistry(p) \/ StepFails(p) \/ UndoPublish(p)
      \/ DiscardStaging(p) \/ Killed(p) \/ OpenStaging(p) \/ Quarantine(p)
      \/ ReplaceRegistry(p)
      => final' = final /\ dir' = dir
  BY DEF BindCapsule, ValidatorsPass, CheckNames, RenamedIsFrozenTree, ConfirmFinal,
         ReadRegistry, StepFails, UndoPublish, DiscardStaging, Killed, OpenStaging,
         Quarantine, ReplaceRegistry, files
<1>2. WriteInputs(p) \/ (\E left \in {"none", "part"}, step \in {"failed", "dead"} :
                              WriteInputsInterrupted(p, left, step))
      => /\ final' = final /\ held[p] = Staged(p)
         /\ \A e \in Promotions \ {held[p]} : dir'[e] = dir[e]
  BY <1>0 DEF WriteInputs, WriteInputsInterrupted, TypeOK, Place
<1>3. SealMetrics(p) \/ WriteProgress(p) \/ StageCharts(p) \/ StageReport(p)
      \/ ValidateStaging(p) \/ Freeze(p) \/ InterruptedRenaming(p)
      => final' = final /\ \A e \in Promotions \ {Staged(p)} : dir'[e] = dir[e]
  BY <1>0 DEF SealMetrics, WriteProgress, StageCharts, StageReport, ValidateStaging, Freeze,
              InterruptedRenaming, TypeOK
<1>4. Thaw(p) => /\ final' = final /\ held[p] = Staged(p)
                 /\ \A e \in Promotions \ {held[p]} : dir'[e] = dir[e]
  BY <1>0 DEF Thaw, TypeOK, Place
<1>5. final' = final /\ (Published(p) # None => dir'[Published(p)] = dir[Published(p)])
  BY <1>0, <1>1, <1>2, <1>3, <1>4, NamesOfRun, NeverHappens
     DEF Step, Advance, RollBack, Interruption
<1>6. pc'[p] = "done" => pc[p] = "append"
  <2>1. CASE StepFails(p)
    <3>1. pc'[p] \in {"undo", "failed", "discard"}
      BY <1>0, <2>1, StepFailsTo
    <3>. QED
      BY <3>1
  <2>2. CASE DiscardStaging(p) \/ Quarantine(p)
    BY <1>0, <2>2 DEF DiscardStaging, Quarantine, RolledBack, Goto, TypeOK
  <2>3. CASE ~StepFails(p) /\ ~DiscardStaging(p) /\ ~Quarantine(p)
    BY <1>0, <2>3, NeverHappens
       DEF Step, Advance, RollBack, Interruption, BindCapsule, ValidatorsPass, OpenStaging,
           WriteInputs, WriteInputsInterrupted, SealMetrics, WriteProgress, StageCharts,
           StageReport, ValidateStaging, Freeze, CheckNames, RenamedIsFrozenTree,
           ConfirmFinal, ReadRegistry, ReplaceRegistry, UndoPublish, Thaw, Killed,
           InterruptedRenaming, Goto, TypeOK
  <2>. QED
    BY <2>1, <2>2, <2>3
<1>. QED
  BY <1>5, <1>6

(* The step of Publication that a step of a promotion takes.               *)
LEMMA StepRefines ==
    ASSUME PromotionInv, PromotionInv', Orderly, NEW p \in Promotions, Step(p), Frame(p)
    PROVE  Abstract!Next \/ UNCHANGED Abstract!vars
<1>. USE PromotionAssumption
<1>. DEFINE r == RunOf[p]
<1>0. /\ TypeOK /\ Names /\ r \in Runs /\ Place(p) /\ \A q \in Promotions : Place(q)
      /\ Valid(r) /\ Valid(r)'
  BY DEF PromotionInv, Publications
<1>1. \A x \in Runs \ {r} : OfficialOf(x)' = OfficialOf(x)
  <2>. SUFFICES ASSUME NEW x \in Runs \ {r}
                PROVE  OfficialOf(x)' = OfficialOf(x)
    OBVIOUS
  <2>1. final'[x] = final[x]
    BY DEF Frame
  <2>2. final[x] # None => dir'[final[x]] = dir[final[x]]
    BY <1>0, NamesOfRun DEF Frame, Names, TypeOK
  <2>. QED
    BY <2>1, <2>2 DEF OfficialOf, ContentOf
<1>2. \A q \in Promotions \ {p} : OutcomeOf(q)' = OutcomeOf(q)
  BY DEF Frame, Others, OutcomeOf
<1>3. OutcomeOf(p) = "running"
  BY DEF Frame, Ended, OutcomeOf
<1>4. final[r] # None => OfficialOf(r) \in [by : Promotions, content : SealedContents]
  <2>. SUFFICES ASSUME final[r] # None
                PROVE  OfficialOf(r) \in [by : Promotions, content : SealedContents]
    OBVIOUS
  <2>1. ContentOf(final[r]) \in SealedContents /\ dir[final[r]].writer \in Promotions
    BY <1>0, SealedContent DEF Valid, TypeOK
  <2>. QED
    BY <2>1 DEF OfficialOf
<1>5. OfficialOf(r) = None <=> final[r] = None
  BY <1>4, NoneIsNoPublication DEF OfficialOf
<1>6. CASE Rename(p)
  <2>. DEFINE d == staging[r]
  <2>1. /\ final[r] = None /\ final'[r] = d /\ d \in Promotions /\ dir' = dir
        /\ pc[p] = "rename" /\ pc'[p] = "renamed"
    BY <1>0, <1>6 DEF Rename, Staged, Published, Goto, TypeOK
  <2>2. dir[d].writer = p /\ SealedTree(dir[d], snap[p]) /\ snap[p] \in Versions
    BY <1>0, <2>1 DEF Place, Finished, Staged, TypeOK
  <2>3. ContentOf(d) \in SealedContents
    BY <1>0, <2>1, <2>2, SealedContent DEF TypeOK
  <2>4. OfficialOf(r)' = [by |-> p, content |-> ContentOf(d)]
    BY <2>1, <2>2 DEF OfficialOf, ContentOf
  <2>5. OutcomeOf(p)' = "running"
    BY <2>1 DEF OutcomeOf
  <2>6. Abstract!Publish(r)
    <3>1. OfficialOf(r) = None
      BY <1>5, <2>1
    <3>2. [x \in Runs |-> OfficialOf(x)']
            = [[x \in Runs |-> OfficialOf(x)] EXCEPT ![r] = [by |-> p, content |-> ContentOf(d)]]
      BY <1>0, <1>1, <2>4
    <3>3. [q \in Promotions |-> OutcomeOf(q)'] = [q \in Promotions |-> OutcomeOf(q)]
      BY <1>2, <1>3, <2>5
    <3>. QED
      BY <1>0, <2>3, <3>1, <3>2, <3>3 DEF Abstract!Publish
  <2>. QED
    BY <1>0, <2>6 DEF Abstract!Next
<1>7. CASE RenameBack(p) \/ InterruptedConfirming(p)
  <2>1. final[r] # None /\ final'[r] = None /\ pc'[p] \in {"discard", "dead"}
    BY <1>0, <1>7 DEF RenameBack, InterruptedConfirming, MoveBack, CanMoveBack, Published,
                      Goto, TypeOK
  <2>2. \A q \in Promotions : RunOf[q] = r => OutcomeOf(q) # "succeeded"
    BY <1>0, <1>7 DEF RenameBack, InterruptedConfirming, Place, Official, OutcomeOf
  <2>3. OfficialOf(r)' = None
    BY <2>1 DEF OfficialOf
  <2>4. OutcomeOf(p)' = "running"
    BY <2>1 DEF OutcomeOf
  <2>5. Abstract!Withdraw(r)
    <3>1. OfficialOf(r) # None
      BY <1>5, <2>1
    <3>2. [x \in Runs |-> OfficialOf(x)'] = [[x \in Runs |-> OfficialOf(x)] EXCEPT ![r] = None]
      BY <1>0, <1>1, <2>3
    <3>3. [q \in Promotions |-> OutcomeOf(q)'] = [q \in Promotions |-> OutcomeOf(q)]
      BY <1>2, <1>3, <2>4
    <3>. QED
      BY <1>0, <2>2, <3>1, <3>2, <3>3 DEF Abstract!Withdraw
  <2>. QED
    BY <1>0, <2>5 DEF Abstract!Next
<1>8. CASE ~Rename(p) /\ ~RenameBack(p) /\ ~InterruptedConfirming(p)
  <2>1. /\ final'[r] = final[r]
        /\ final[r] # None => dir'[final[r]] = dir[final[r]]
        /\ pc'[p] = "done" => pc[p] = "append"
    BY <1>8, OtherSteps DEF Published
  <2>2. OfficialOf(r)' = OfficialOf(r)
    BY <2>1 DEF OfficialOf, ContentOf
  <2>3. [x \in Runs |-> OfficialOf(x)'] = [x \in Runs |-> OfficialOf(x)]
    BY <1>1, <2>2
  <2>4. CASE pc'[p] = "done"
    <3>1. /\ final[r] # None /\ dir[final[r]].writer = p
      BY <1>0, <2>1, <2>4 DEF Place, Official, Published
    <3>2. OfficialOf(r) # None /\ OfficialOf(r).by = p
      BY <1>5, <3>1 DEF OfficialOf
    <3>3. OutcomeOf(p)' = "succeeded"
      BY <2>4 DEF OutcomeOf
    <3>4. [q \in Promotions |-> OutcomeOf(q)']
            = [[q \in Promotions |-> OutcomeOf(q)] EXCEPT ![p] = "succeeded"]
      BY <1>2, <3>3
    <3>5. Abstract!Succeed(p)
      BY <1>0, <1>3, <2>3, <3>2, <3>4 DEF Abstract!Succeed
    <3>. QED
      BY <3>5 DEF Abstract!Next
  <2>5. CASE pc'[p] = "failed"
    <3>1. final[r] # None => dir[final[r]].writer # p
      BY <1>0, <2>1, <2>5 DEF Valid, Official
    <3>2. OfficialOf(r) # None => OfficialOf(r).by # p
      BY <1>5, <3>1 DEF OfficialOf
    <3>3. OutcomeOf(p)' = "failed"
      BY <2>5 DEF OutcomeOf
    <3>4. [q \in Promotions |-> OutcomeOf(q)']
            = [[q \in Promotions |-> OutcomeOf(q)] EXCEPT ![p] = "failed"]
      BY <1>2, <3>3
    <3>5. Abstract!Fail(p)
      BY <1>0, <1>3, <2>3, <3>2, <3>4 DEF Abstract!Fail
    <3>. QED
      BY <3>5 DEF Abstract!Next
  <2>6. CASE pc'[p] \notin {"done", "failed"}
    <3>1. OutcomeOf(p)' = "running"
      BY <2>6 DEF OutcomeOf
    <3>2. [q \in Promotions |-> OutcomeOf(q)'] = [q \in Promotions |-> OutcomeOf(q)]
      BY <1>2, <1>3, <3>1
    <3>. QED
      BY <2>3, <3>2 DEF Abstract!vars
  <2>. QED
    BY <2>4, <2>5, <2>6
<1>. QED
  BY <1>6, <1>7, <1>8

(* A run is published all at once and completely, stays as it is, is taken *)
(* back only while no promotion of it has reported success, and a failed   *)
(* promotion leaves nothing of its own official                            *)
(* (RunPromotionOrchestrator.run and its rollback).                        *)
THEOREM ImplementsPublication == ASSUME Orderly PROVE Spec => PublicationSpec
<1>1. Init => Abstract!Init
  BY PromotionAssumption DEF Init, Abstract!Init, OfficialOf, OutcomeOf
<1>2. PromotionInv /\ PromotionInv' /\ [Next]_vars => [Abstract!Next]_Abstract!vars
  <2>. SUFFICES ASSUME PromotionInv, PromotionInv', [Next]_vars
                PROVE  Abstract!Next \/ UNCHANGED Abstract!vars
    OBVIOUS
  <2>1. UNCHANGED <<dir, final, pc>> => UNCHANGED Abstract!vars
    BY DEF Abstract!vars, OfficialOf, ContentOf, OutcomeOf
  <2>2. ASSUME NEW p \in Promotions, Step(p)
        PROVE  Abstract!Next \/ UNCHANGED Abstract!vars
    BY <2>2, StepKeepsInv, StepRefines
  <2>3. UNCHANGED vars \/ (\E r \in Runs : SourceRewritten(r)) => UNCHANGED <<dir, final, pc>>
    BY DEF vars, SourceRewritten
  <2>. QED
    BY <2>1, <2>2, <2>3 DEF Next, Step
<1>. QED
  BY <1>1, <1>2, SpecInv, PTL DEF Spec, PublicationSpec, Abstract!Spec

-----------------------------------------------------------------------------
(* Promotions of one run that overlap, and rollbacks that fail             *)

(* From the rename on, the official name is a promotion's until it gives   *)
(* it up; the ones that have looked at what they renamed.                  *)
Publishing == Official \cup {"done"}
Confirmed  == {"registry", "append", "done"}

(* A run's names lead to different directories of its promotions, and to   *)
(* none that is still to be made.                                          *)
NamesApart ==
    /\ \A r \in Runs :
         /\ staging[r] # None => RunOf[staging[r]] = r /\ staging[r] # final[r]
         /\ final[r] # None => RunOf[final[r]] = r
    /\ \A p \in Promotions : pc[p] \in Early => Staged(p) # p /\ Published(p) # p

(* A rename needs a free name, and only who renamed last frees it.         *)
OnePublishes ==
    /\ \A p, q \in Promotions :
         RunOf[p] = RunOf[q] /\ pc[p] \in Publishing /\ pc[q] \in Publishing => p = q
    /\ \A p \in Promotions : pc[p] \in Publishing => Published(p) # None

(* What was confirmed is still so.                                         *)
ConfirmedIsSealed ==
    \A p \in Promotions : pc[p] \in Confirmed => SealedTree(dir[Published(p)], snap[p])

OverlapInv == TypeOK /\ NamesApart /\ OnePublishes /\ ConfirmedIsSealed

(* What a step does to the names of its run: it leaves the official one,   *)
(* makes a staging tree, publishes one or withdraws it.                    *)
Stays(p) ==
    /\ Published(p)' = Published(p) /\ Staged(p)' \in {Staged(p), None}
    /\ pc'[p] \in Publishing => pc[p] \in Publishing
    /\ pc'[p] \in Early => pc[p] \in Early
Makes(p) ==
    /\ Staged(p) = None /\ Staged(p)' = p /\ Published(p)' = Published(p)
    /\ pc[p] \in Early /\ pc'[p] = "inputs"
Publishes(p) ==
    /\ Staged(p) # None /\ Published(p) = None
    /\ Published(p)' = Staged(p) /\ Staged(p)' = None /\ pc'[p] = "renamed"
Withdraws(p) ==
    /\ pc[p] \in Official /\ Published(p)' = None /\ Staged(p)' \in {Staged(p), Published(p)}
    /\ pc'[p] \notin Publishing \cup Early

(* What every step does.  What is sealed under an official name is never   *)
(* written to, and thawing is no loss of content.                          *)
Effect(p) ==
    /\ \A q \in Promotions \ {p} : pc'[q] = pc[q] /\ snap'[q] = snap[q]
    /\ \A r \in Runs \ {RunOf[p]} : staging'[r] = staging[r] /\ final'[r] = final[r]
    /\ Stays(p) \/ Makes(p) \/ Publishes(p) \/ Withdraws(p)
    /\ \A r \in Runs : final[r] # None =>
         \A v \in Versions : SealedTree(dir[final[r]], v) => SealedTree(dir'[final[r]], v)
    /\ pc'[p] \in Confirmed =>
         /\ pc[p] \in Publishing /\ Published(p)' = Published(p)
         /\ SealedTree(dir[Published(p)], snap'[p])

LEMMA EffectKeepsNames ==
    ASSUME OverlapInv, NEW p \in Promotions, Effect(p)
    PROVE  NamesApart'
<1>. USE PromotionAssumption
<1>0. TypeOK /\ NamesApart /\ p # None /\ RunOf[p] \in Runs
  BY DEF OverlapInv
<1>. DEFINE s == Staged(p) f == Published(p)
<1>1. /\ s \in Promotions \cup {None} /\ f \in Promotions \cup {None}
      /\ s # None => RunOf[s] = RunOf[p] /\ s # f
      /\ f # None => RunOf[f] = RunOf[p]
  BY <1>0 DEF TypeOK, NamesApart, Staged, Published
<1>2. /\ Staged(p)' # None => RunOf[Staged(p)'] = RunOf[p] /\ Staged(p)' # Published(p)'
      /\ Published(p)' # None => RunOf[Published(p)'] = RunOf[p]
  <2>1. CASE Stays(p)
    BY <1>1, <2>1 DEF Stays
  <2>2. CASE Makes(p)
    BY <1>0, <1>1, <2>2 DEF Makes, NamesApart
  <2>3. CASE Publishes(p)
    BY <1>1, <2>3 DEF Publishes
  <2>4. CASE Withdraws(p)
    BY <1>1, <2>4 DEF Withdraws
  <2>. QED
    BY <2>1, <2>2, <2>3, <2>4 DEF Effect
<1>3. ASSUME NEW r \in Runs
      PROVE  /\ staging'[r] # None => RunOf[staging'[r]] = r /\ staging'[r] # final'[r]
             /\ final'[r] # None => RunOf[final'[r]] = r
  <2>1. CASE r = RunOf[p]
    BY <1>2, <2>1 DEF Staged, Published
  <2>2. CASE r # RunOf[p]
    BY <1>0, <2>2 DEF Effect, NamesApart
  <2>. QED
    BY <2>1, <2>2
<1>4. ASSUME NEW q \in Promotions, pc'[q] \in Early
      PROVE  Staged(q)' # q /\ Published(q)' # q
  <2>1. pc[q] \in Early
    <3>1. CASE q # p
      BY <1>4, <3>1 DEF Effect
    <3>2. CASE q = p
      BY <1>4, <3>2 DEF Effect, Stays, Makes, Publishes, Withdraws, Early
    <3>. QED
      BY <3>1, <3>2
  <2>2. Staged(q) # q /\ Published(q) # q /\ q # None
    BY <1>0, <2>1 DEF NamesApart
  <2>3. CASE RunOf[q] # RunOf[p]
    BY <2>2, <2>3 DEF Effect, Staged, Published
  <2>4. CASE RunOf[q] = RunOf[p]
    <3>1. s # q /\ f # q /\ Staged(q)' = Staged(p)' /\ Published(q)' = Published(p)'
      BY <2>2, <2>4 DEF Staged, Published
    <3>2. Staged(p)' \in {s, f, None} \/ (Staged(p)' = p /\ q # p)
      BY <1>4 DEF Effect, Stays, Makes, Publishes, Withdraws, Early
    <3>3. Published(p)' \in {s, f, None}
      BY DEF Effect, Stays, Makes, Publishes, Withdraws
    <3>. QED
      BY <2>2, <3>1, <3>2, <3>3
  <2>. QED
    BY <2>3, <2>4
<1>. QED
  BY <1>3, <1>4 DEF NamesApart

LEMMA EffectKeepsPublisher ==
    ASSUME OverlapInv, NEW p \in Promotions, Effect(p)
    PROVE  OnePublishes'
<1>. USE PromotionAssumption
<1>0. OnePublishes
  BY DEF OverlapInv
<1>1. pc'[p] \in Publishing => pc[p] \in Publishing \/ Publishes(p)
  BY DEF Effect, Stays, Makes, Withdraws, Publishing, Official
<1>2. ASSUME NEW q \in Promotions, q # p, RunOf[q] = RunOf[p], pc'[q] \in Publishing
      PROVE  pc'[p] \notin Publishing /\ Published(q)' # None
  <2>1. pc[q] \in Publishing /\ Published(q) = Published(p) /\ Published(p) # None
    BY <1>0, <1>2 DEF Effect, OnePublishes, Published
  <2>2. pc[p] \notin Publishing
    BY <1>0, <1>2, <2>1 DEF OnePublishes
  <2>3. ~Publishes(p) /\ ~Withdraws(p)
    BY <2>1, <2>2 DEF Publishes, Withdraws, Publishing
  <2>4. Published(p)' = Published(p)
    BY <2>3 DEF Effect, Stays, Makes
  <2>. QED
    BY <1>1, <1>2, <2>1, <2>2, <2>3, <2>4 DEF Published
<1>3. pc'[p] \in Publishing => Published(p)' # None
  <2>1. CASE Stays(p)
    BY <1>0, <2>1 DEF Stays, OnePublishes
  <2>2. CASE Makes(p)
    BY <2>2 DEF Makes, Publishing, Official
  <2>3. CASE Publishes(p)
    BY <2>3 DEF Publishes
  <2>4. CASE Withdraws(p)
    BY <2>4 DEF Withdraws
  <2>. QED
    BY <2>1, <2>2, <2>3, <2>4 DEF Effect
<1>4. ASSUME NEW q \in Promotions, RunOf[q] # RunOf[p]
      PROVE  pc'[q] = pc[q] /\ Published(q)' = Published(q)
  BY <1>4 DEF Effect, Published
<1>5. ASSUME NEW q \in Promotions, pc'[q] \in Publishing
      PROVE  Published(q)' # None
  BY <1>0, <1>2, <1>3, <1>4, <1>5 DEF OnePublishes
<1>6. ASSUME NEW q \in Promotions, NEW x \in Promotions, RunOf[q] = RunOf[x],
             pc'[q] \in Publishing, pc'[x] \in Publishing
      PROVE  q = x
  <2>1. CASE RunOf[q] = RunOf[p] /\ (q = p \/ x = p)
    BY <1>2, <1>6, <2>1
  <2>2. CASE q # p /\ x # p
    BY <1>0, <1>6, <2>2 DEF Effect, OnePublishes
  <2>. QED
    BY <1>6, <2>1, <2>2
<1>. QED
  BY <1>5, <1>6 DEF OnePublishes

LEMMA EffectKeepsSeal ==
    ASSUME OverlapInv, NEW p \in Promotions, Effect(p), TypeOK'
    PROVE  ConfirmedIsSealed'
<1>. USE PromotionAssumption
<1>0. TypeOK /\ OnePublishes /\ ConfirmedIsSealed /\ Confirmed \subseteq Publishing
  BY DEF OverlapInv, Confirmed, Publishing, Official
<1>. SUFFICES ASSUME NEW q \in Promotions, pc'[q] \in Confirmed
              PROVE  SealedTree(dir'[Published(q)'], snap'[q])
  BY DEF ConfirmedIsSealed
<1>1. /\ Published(q)' = Published(q) /\ Published(q) # None
      /\ SealedTree(dir[Published(q)], snap'[q])
  <2>1. CASE q = p
    BY <1>0, <2>1 DEF Effect, OnePublishes
  <2>2. CASE q # p
    <3>1. pc[q] \in Publishing /\ pc[q] \in Confirmed /\ snap'[q] = snap[q]
      BY <1>0, <2>2 DEF Effect
    <3>2. Published(q) # None /\ SealedTree(dir[Published(q)], snap[q])
      BY <1>0, <3>1 DEF OnePublishes, ConfirmedIsSealed
    <3>3. CASE RunOf[q] # RunOf[p]
      BY <3>1, <3>2, <3>3 DEF Effect, Published
    <3>4. CASE RunOf[q] = RunOf[p]
      <4>1. pc[p] \notin Publishing /\ Published(p) = Published(q)
        BY <1>0, <2>2, <3>1, <3>4 DEF OnePublishes, Published
      <4>2. ~Publishes(p) /\ ~Withdraws(p)
        BY <3>2, <4>1 DEF Publishes, Withdraws, Publishing
      <4>3. Published(p)' = Published(p)
        BY <4>2 DEF Effect, Stays, Makes
      <4>. QED
        BY <3>1, <3>2, <3>4, <4>3 DEF Published
    <3>. QED
      BY <3>3, <3>4
  <2>. QED
    BY <2>1, <2>2
<1>2. RunOf[q] \in Runs /\ snap'[q] \in Versions /\ Published(q) = final[RunOf[q]]
  BY DEF TypeOK, Published
<1>. QED
  BY <1>1, <1>2 DEF Effect

LEMMA FailureGoesTo ==
    ASSUME TypeOK, NEW p \in Promotions, StepFails(p)
    PROVE  /\ pc' = [pc EXCEPT ![p] = pc'[p]] /\ pc'[p] \in {"undo", "failed", "discard"}
           /\ pc'[p] = "undo" => pc[p] \in {"confirm", "registry", "append"}
<1>1. CASE pc[p] \in {"confirm", "registry", "append"}
  <2>1. pc' = [pc EXCEPT ![p] = "undo"]
    BY <1>1 DEF StepFails, Goto
  <2>. QED
    BY <1>1, <2>1 DEF TypeOK
<1>2. CASE pc[p] \notin {"confirm", "registry", "append"}
  <2>1. pc' = [pc EXCEPT ![p] = IF completed[p] = 4 THEN "failed" ELSE "discard"]
    BY <1>2 DEF StepFails, Goto
  <2>. QED
    BY <1>2, <2>1 DEF TypeOK
<1>. QED
  BY <1>1, <1>2

(* A step that leaves directories and names as they are.                   *)
LEMMA QuietEffect ==
    ASSUME NEW p \in Promotions, UNCHANGED <<dir, staging, final>>,
           \A q \in Promotions \ {p} : pc'[q] = pc[q] /\ snap'[q] = snap[q],
           pc'[p] \in Publishing => pc[p] \in Publishing,
           pc'[p] \in Early => pc[p] \in Early,
           pc'[p] \in Confirmed => SealedTree(dir[Published(p)], snap'[p])
    PROVE  Effect(p)
<1>1. Stays(p) /\ Published(p)' = Published(p)
  BY DEF Stays, Staged, Published
<1>2. pc'[p] \in Confirmed => pc[p] \in Publishing
  BY DEF Confirmed, Publishing, Official
<1>. QED
  BY <1>1, <1>2 DEF Effect

LEMMA QuietStepsOverlap ==
    ASSUME OverlapInv, NEW p \in Promotions,
           \/ BindCapsule(p) \/ ValidatorsPass(p) \/ CheckNames(p) \/ RenamedIsFrozenTree(p)
           \/ ConfirmFinal(p) \/ ReadRegistry(p) \/ ReplaceRegistry(p) \/ StepFails(p)
           \/ UndoPublish(p) \/ RenameBackFails(p) \/ DiscardStaging(p) \/ RollbackFails(p)
           \/ Killed(p)
    PROVE  TypeOK' /\ Effect(p)
<1>. USE PromotionAssumption
<1>0. TypeOK /\ ConfirmedIsSealed /\ RunOf[p] \in Runs /\ p # None
  BY DEF OverlapInv
<1>1. CASE BindCapsule(p)
  <2>1. TypeOK'
    BY <1>0, <1>1 DEF BindCapsule, Goto, files, TypeOK, Pcs, Pipeline
  <2>. QED
    BY <1>0, <1>1, <2>1, QuietEffect
       DEF BindCapsule, Goto, files, TypeOK, Publishing, Official, Confirmed, Early
<1>2. CASE ValidatorsPass(p)
  <2>1. TypeOK'
    BY <1>0, <1>2 DEF ValidatorsPass, Goto, files, TypeOK, Pcs, Pipeline
  <2>. QED
    BY <1>0, <1>2, <2>1, QuietEffect
       DEF ValidatorsPass, Goto, files, TypeOK, Publishing, Official, Confirmed, Early
<1>3. CASE CheckNames(p)
  <2>1. TypeOK'
    BY <1>0, <1>3 DEF CheckNames, Goto, files, TypeOK, Pcs, Pipeline
  <2>. QED
    BY <1>0, <1>3, <2>1, QuietEffect
       DEF CheckNames, Goto, files, TypeOK, Publishing, Official, Confirmed, Early
<1>4. CASE RenamedIsFrozenTree(p)
  <2>1. TypeOK'
    BY <1>0, <1>4 DEF RenamedIsFrozenTree, Goto, files, TypeOK, Pcs, Pipeline
  <2>. QED
    BY <1>0, <1>4, <2>1, QuietEffect
       DEF RenamedIsFrozenTree, Goto, files, TypeOK, Publishing, Official, Confirmed, Early
<1>5. CASE ConfirmFinal(p)
  <2>1. TypeOK'
    BY <1>0, <1>5 DEF ConfirmFinal, Goto, files, TypeOK, Pcs, Pipeline
  <2>2. SealedTree(dir[Published(p)], snap'[p])
    BY <1>5 DEF ConfirmFinal
  <2>. QED
    BY <1>0, <1>5, <2>1, <2>2, QuietEffect
       DEF ConfirmFinal, Goto, files, TypeOK, Publishing, Official, Early
<1>6. CASE ReadRegistry(p)
  <2>1. TypeOK'
    BY <1>0, <1>6 DEF ReadRegistry, Goto, files, TypeOK, Pcs, Pipeline
  <2>2. SealedTree(dir[Published(p)], snap'[p])
    BY <1>0, <1>6 DEF ReadRegistry, ConfirmedIsSealed, Confirmed
  <2>. QED
    BY <1>0, <1>6, <2>1, <2>2, QuietEffect
       DEF ReadRegistry, Goto, files, TypeOK, Publishing, Official, Early
<1>7. CASE ReplaceRegistry(p)
  <2>0. pc' = [pc EXCEPT ![p] = "done"] \/ pc' = [pc EXCEPT ![p] = "undo"]
    BY <1>7 DEF ReplaceRegistry, Goto
  <2>1. TypeOK'
    BY <1>0, <1>7, <2>0 DEF ReplaceRegistry, TypeOK, Pcs, RollingBack, Ended
  <2>2. SealedTree(dir[Published(p)], snap'[p])
    BY <1>0, <1>7 DEF ReplaceRegistry, ConfirmedIsSealed, Confirmed
  <2>. QED
    BY <1>0, <1>7, <2>0, <2>1, <2>2, QuietEffect
       DEF ReplaceRegistry, TypeOK, Publishing, Official, Early
<1>8. CASE StepFails(p)
  <2>0. /\ pc' = [pc EXCEPT ![p] = pc'[p]] /\ pc'[p] \in {"undo", "failed", "discard"}
        /\ pc'[p] = "undo" => pc[p] \in {"confirm", "registry", "append"}
    BY <1>0, <1>8, FailureGoesTo
  <2>1. TypeOK'
    BY <1>0, <1>8, <2>0 DEF StepFails, files, TypeOK, Pcs, RollingBack, Ended
  <2>. QED
    BY <1>0, <1>8, <2>0, <2>1, QuietEffect
       DEF StepFails, files, TypeOK, Publishing, Official, Confirmed, Early
<1>9. CASE UndoPublish(p)
  <2>1. TypeOK'
    BY <1>0, <1>9 DEF UndoPublish, Goto, files, TypeOK, Pcs, RollingBack
  <2>. QED
    BY <1>0, <1>9, <2>1, QuietEffect
       DEF UndoPublish, Goto, files, TypeOK, Publishing, Official, Confirmed, Early
<1>10. CASE RenameBackFails(p)
  <2>1. TypeOK'
    BY <1>0, <1>10 DEF RenameBackFails, Goto, files, TypeOK, Pcs, RollingBack
  <2>. QED
    BY <1>0, <1>10, <2>1, QuietEffect
       DEF RenameBackFails, Goto, files, TypeOK, Publishing, Official, Confirmed, Early
<1>11. CASE DiscardStaging(p)
  <2>0. pc' = [pc EXCEPT ![p] = pc'[p]] /\ pc'[p] \in {"failed", "discard", "thaw"}
    BY <1>0, <1>11 DEF DiscardStaging, RolledBack, Goto, TypeOK
  <2>1. TypeOK'
    <3>1. held' \in [Promotions -> Promotions \cup {None}]
      BY <1>0, <1>11 DEF DiscardStaging, TypeOK, Staged
    <3>2. completed' \in [Promotions -> {4, 5, 7, 8}]
      BY <1>0, <1>11 DEF DiscardStaging, RolledBack, TypeOK
    <3>3. pc' \in [Promotions -> Pcs]
      BY <1>0, <2>0 DEF TypeOK, Pcs, RollingBack, Ended
    <3>. QED
      BY <1>0, <1>11, <3>1, <3>2, <3>3 DEF DiscardStaging, files, TypeOK
  <2>. QED
    BY <1>0, <1>11, <2>0, <2>1, QuietEffect
       DEF DiscardStaging, files, TypeOK, Publishing, Official, Confirmed, Early
<1>12. CASE RollbackFails(p)
  <2>0. pc' = [pc EXCEPT ![p] = pc'[p]] /\ pc'[p] \in {"failed", "discard"}
    BY <1>0, <1>12 DEF RollbackFails, RolledBack, Goto, TypeOK
  <2>1. TypeOK'
    BY <1>0, <1>12, <2>0 DEF RollbackFails, RolledBack, files, TypeOK, Pcs, RollingBack, Ended
  <2>. QED
    BY <1>0, <1>12, <2>0, <2>1, QuietEffect
       DEF RollbackFails, files, TypeOK, Publishing, Official, Confirmed, Early
<1>13. CASE Killed(p)
  <2>1. TypeOK'
    BY <1>0, <1>13 DEF Killed, Goto, files, TypeOK, Pcs, Ended
  <2>. QED
    BY <1>0, <1>13, <2>1, QuietEffect
       DEF Killed, Goto, files, TypeOK, Publishing, Official, Confirmed, Early
<1>. QED
  BY <1>1, <1>2, <1>3, <1>4, <1>5, <1>6, <1>7, <1>8, <1>9, <1>10, <1>11, <1>12, <1>13

(* The staging tree is not what its run's, or another, official name leads *)
(* to.                                                                     *)
LEMMA WritingEffect ==
    ASSUME OverlapInv, NEW p \in Promotions, UNCHANGED <<staging, final, snap>>,
           \A d \in Promotions \ {Staged(p)} : dir'[d] = dir[d],
           \A q \in Promotions \ {p} : pc'[q] = pc[q],
           pc'[p] \notin Publishing \cup Early
    PROVE  Effect(p)
<1>1. Stays(p) /\ Published(p)' = Published(p)
  BY DEF Stays, Staged, Published
<1>2. pc'[p] \notin Confirmed
  BY DEF Confirmed, Publishing, Official
<1>3. ASSUME NEW r \in Runs, final[r] # None
      PROVE  dir'[final[r]] = dir[final[r]]
  <2>1. RunOf[p] \in Runs /\ final[r] \in Promotions
    BY <1>3, PromotionAssumption DEF OverlapInv, TypeOK
  <2>2. RunOf[final[r]] = r /\ staging[r] # final[r]
    BY <1>3 DEF OverlapInv, NamesApart
  <2>3. Staged(p) # None => RunOf[Staged(p)] = RunOf[p]
    BY <2>1 DEF OverlapInv, NamesApart, Staged
  <2>4. Staged(p) # final[r]
    BY <1>3, <2>2, <2>3 DEF Staged
  <2>. QED
    BY <2>1, <2>4
<1>. QED
  BY <1>1, <1>2, <1>3 DEF Effect

(* Thawing leaves the contents.                                            *)
LEMMA ThawedContents ==
    ASSUME TypeOK, NEW d
    PROVE  LET thawed == [dir EXCEPT ![d].frozen = FALSE]
           IN  /\ thawed \in [Promotions -> Directory]
               /\ \A e \in Promotions, v \in Versions :
                    SealedTree(dir[e], v) => SealedTree(thawed[e], v)
<1>. DEFINE thawed == [dir EXCEPT ![d].frozen = FALSE]
<1>1. ASSUME NEW e \in Promotions
      PROVE  /\ thawed[e] \in Directory
             /\ \A v \in Versions : SealedTree(dir[e], v) => SealedTree(thawed[e], v)
  <2>1. dir[e] \in Directory
    BY DEF TypeOK
  <2>2. thawed[e] = dir[e] \/ thawed[e] = [dir[e] EXCEPT !.frozen = FALSE]
    BY DEF TypeOK
  <2>3. CASE thawed[e] = dir[e]
    BY <2>1, <2>3
  <2>4. CASE thawed[e] = [dir[e] EXCEPT !.frozen = FALSE]
    <3>. HIDE DEF thawed
    <3>. QED
      BY <2>1, <2>4, FlagContents, FrozenStaysSealed
  <2>. QED
    BY <2>2, <2>3, <2>4
<1>2. thawed = [e \in Promotions |-> thawed[e]]
  BY DEF TypeOK
<1>. QED
  BY <1>1, <1>2

LEMMA ThawEffect ==
    ASSUME OverlapInv, NEW p \in Promotions, Thaw(p)
    PROVE  TypeOK' /\ Effect(p)
<1>0. TypeOK
  BY DEF OverlapInv
<1>1. dir' = [dir EXCEPT ![held[p]].frozen = FALSE] /\ UNCHANGED <<staging, final, snap>>
  BY DEF Thaw
<1>2. /\ dir' \in [Promotions -> Directory]
      /\ \A e \in Promotions, v \in Versions :
           SealedTree(dir[e], v) => SealedTree(dir'[e], v)
  BY <1>0, <1>1, ThawedContents
<1>3. TypeOK'
  BY <1>0, <1>2 DEF Thaw, Goto, TypeOK, Pcs, RollingBack
<1>4. pc'[p] = "quarantine" /\ \A q \in Promotions \ {p} : pc'[q] = pc[q]
  BY <1>0 DEF Thaw, Goto, TypeOK
<1>5. Stays(p) /\ pc'[p] \notin Confirmed
  BY <1>1, <1>4 DEF Stays, Staged, Published, Publishing, Official, Early, Confirmed
<1>6. \A r \in Runs : final[r] # None =>
         \A v \in Versions : SealedTree(dir[final[r]], v) => SealedTree(dir'[final[r]], v)
  BY <1>0, <1>2 DEF TypeOK
<1>. QED
  BY <1>1, <1>3, <1>4, <1>5, <1>6 DEF Effect

(* The five files are written where there are none yet: not into a sealed  *)
(* tree.                                                                   *)
LEMMA InputsEffect ==
    ASSUME OverlapInv, NEW p \in Promotions,
           \/ WriteInputs(p)
           \/ \E left \in {"none", "part"}, step \in {"failed", "dead"} :
                   WriteInputsInterrupted(p, left, step)
    PROVE  TypeOK' /\ Effect(p)
<1>. USE PromotionAssumption
<1>0. TypeOK
  BY DEF OverlapInv
<1>1. /\ UNCHANGED <<raw, staging, final, gone, registry, snap, held, listed, target, completed>>
      /\ pc' = [pc EXCEPT ![p] = pc'[p]] /\ pc'[p] \in {"seal", "failed", "dead"}
  BY <1>0 DEF WriteInputs, WriteInputsInterrupted, Goto, TypeOK
<1>2. held[p] \in Promotions /\ dir[held[p]].inputs = "none"
  BY <1>0 DEF WriteInputs, WriteInputsInterrupted, Held, TypeOK
<1>3. /\ dir' \in [Promotions -> Directory]
      /\ \A e \in Promotions \ {held[p]} : dir'[e] = dir[e]
  BY <1>0, <1>2, InputsWritten, InputsWrittenInPart
<1>4. TypeOK'
  BY <1>0, <1>1, <1>3 DEF TypeOK, Pcs, Pipeline, Ended
<1>5. \A r \in Runs : final[r] # None =>
         \A v \in Versions : SealedTree(dir[final[r]], v) => SealedTree(dir'[final[r]], v)
  BY <1>0, <1>2, <1>3 DEF TypeOK, SealedTree, ExactInventory
<1>6. Stays(p) /\ pc'[p] \notin Confirmed
  BY <1>1 DEF Stays, Staged, Published, Publishing, Official, Early, Confirmed
<1>7. \A q \in Promotions \ {p} : pc'[q] = pc[q]
  BY <1>0, <1>1 DEF TypeOK
<1>. QED
  BY <1>1, <1>4, <1>5, <1>6, <1>7 DEF Effect

LEMMA StagingSteps ==
    ASSUME OverlapInv, NEW p \in Promotions,
           \/ SealMetrics(p) \/ WriteProgress(p) \/ StageCharts(p) \/ StageReport(p)
           \/ ValidateStaging(p) \/ Freeze(p) \/ InterruptedRenaming(p)
    PROVE  TypeOK' /\ Effect(p)
<1>. USE PromotionAssumption
<1>. DEFINE s == Staged(p)
<1>0. TypeOK /\ s \in Promotions \cup {None} /\ snap[p] \in Versions /\ p # None
  BY DEF OverlapInv, TypeOK, Staged
<1>1. /\ UNCHANGED <<raw, staging, final, gone, registry, snap, listed, target>>
      /\ held' \in [Promotions -> Promotions \cup {None}]
      /\ completed' \in [Promotions -> {4, 5, 7, 8}]
  BY <1>0 DEF SealMetrics, WriteProgress, StageCharts, StageReport, ValidateStaging, Freeze,
              InterruptedRenaming, TypeOK
<1>2. /\ pc' = [pc EXCEPT ![p] = pc'[p]]
      /\ pc'[p] \in {"progress", "charts", "publish", "report", "freeze", "check", "dead"}
  BY <1>0 DEF SealMetrics, WriteProgress, StageCharts, StageReport, ValidateStaging, Freeze,
              InterruptedRenaming, Goto, TypeOK
<1>3. /\ dir' \in [Promotions -> Directory]
      /\ \A d \in Promotions \ {s} : dir'[d] = dir[d]
  <2>1. CASE UNCHANGED dir
    BY <1>0, <2>1 DEF TypeOK
  <2>2. CASE ~UNCHANGED dir
    <3>1. s \in Promotions
      BY <1>0, <2>2 DEF SealMetrics, WriteProgress, StageCharts, StageReport, ValidateStaging,
                        Freeze, InterruptedRenaming, StagingWritable
    <3>2. dir[s] \in Directory /\ SealOf("report", snap[p]) \in Seals
          /\ SealOf("inputs", snap[p]) \in Seals
      BY <1>0, <3>1, SealTypes DEF TypeOK
    <3>3. \/ dir' = [dir EXCEPT ![s] = [dir[s] EXCEPT !.seal = SealOf("report", snap[p])]]
          \/ dir' = [dir EXCEPT ![s] = [dir[s] EXCEPT !.seal = SealOf("inputs", snap[p])]]
          \/ dir' = [dir EXCEPT ![s] = [dir[s] EXCEPT !.progress = TRUE]]
          \/ dir' = [dir EXCEPT ![s] = [dir[s] EXCEPT !.progress = FALSE]]
          \/ dir' = [dir EXCEPT ![s] = [dir[s] EXCEPT !.frozen = TRUE]]
          \/ dir' = [dir EXCEPT ![s] = [dir[s] EXCEPT !.frozen = FALSE]]
          \/ dir' = [dir EXCEPT ![s] = [dir[s] EXCEPT !.report = TRUE,
                                                      !.seal = SealOf("report", snap[p])]]
      <4>1. CASE SealMetrics(p)
        BY <4>1 DEF SealMetrics
      <4>2. CASE WriteProgress(p)
        BY <2>2, <4>2 DEF WriteProgress
      <4>3. CASE StageCharts(p)
        BY <4>3 DEF StageCharts
      <4>4. CASE StageReport(p)
        <5>1. dir' = [dir EXCEPT ![s].report = TRUE, ![s].seal = SealOf("report", snap[p])]
          BY <4>4 DEF StageReport
        <5>. HIDE DEF s
        <5>. QED
          BY <1>0, <3>1, <3>2, <5>1 DEF TypeOK, Directory
      <4>5. CASE ValidateStaging(p)
        BY <4>5 DEF ValidateStaging
      <4>6. CASE Freeze(p)
        BY <4>6 DEF Freeze
      <4>7. CASE InterruptedRenaming(p)
        BY <4>7 DEF InterruptedRenaming
      <4>. QED
        BY <4>1, <4>2, <4>3, <4>4, <4>5, <4>6, <4>7
    <3>4. PICK t \in Directory : dir' = [dir EXCEPT ![s] = t]
      <4>. HIDE DEF s
      <4>. QED
        BY <3>2, <3>3, SealContents, FlagContents
    <3>. HIDE DEF s
    <3>. QED
      BY <1>0, <3>1, <3>4, OneDirectory
  <2>. QED
    BY <2>1, <2>2
<1>4. TypeOK'
  <2>1. pc' \in [Promotions -> Pcs]
    BY <1>0, <1>2 DEF TypeOK, Pcs, Pipeline, Ended
  <2>. QED
    BY <1>0, <1>1, <1>3, <2>1 DEF TypeOK
<1>5. \A q \in Promotions \ {p} : pc'[q] = pc[q]
  BY <1>0, <1>2 DEF TypeOK
<1>6. pc'[p] \notin Publishing \cup Early
  BY <1>2 DEF Publishing, Official, Early
<1>. QED
  BY <1>1, <1>3, <1>4, <1>5, <1>6, WritingEffect

(* Steps that change a name and nothing in a directory.                    *)
LEMMA NamingEffect ==
    ASSUME OverlapInv, NEW p \in Promotions, dir' = dir, snap' = snap,
           \A q \in Promotions \ {p} : pc'[q] = pc[q],
           \A r \in Runs \ {RunOf[p]} : staging'[r] = staging[r] /\ final'[r] = final[r],
           Stays(p) \/ Makes(p) \/ Publishes(p) \/ Withdraws(p),
           pc'[p] \notin Confirmed
    PROVE  Effect(p)
BY DEF Effect

LEMMA NamingSteps ==
    ASSUME OverlapInv, NEW p \in Promotions,
           OpenStaging(p) \/ Rename(p) \/ RejectRenamed(p) \/ Quarantine(p)
    PROVE  TypeOK' /\ Effect(p)
<1>. USE PromotionAssumption
<1>0. TypeOK /\ RunOf[p] \in Runs /\ p # None
      /\ Staged(p) \in Promotions \cup {None} /\ Published(p) \in Promotions \cup {None}
  BY DEF OverlapInv, TypeOK, Staged, Published
<1>1. CASE OpenStaging(p)
  <2>. DEFINE d == IF Staged(p) = None THEN p ELSE Staged(p)
  <2>1. /\ staging' = [staging EXCEPT ![RunOf[p]] = d] /\ held' = [held EXCEPT ![p] = d]
        /\ d \in Promotions /\ pc' = [pc EXCEPT ![p] = "inputs"] /\ pc[p] = "stage"
        /\ UNCHANGED <<raw, dir, final, gone, registry, snap, listed, target, completed>>
    BY <1>0, <1>1 DEF OpenStaging, Goto
  <2>2. Staged(p)' = d /\ Published(p)' = Published(p) /\ pc'[p] = "inputs"
    BY <1>0, <2>1 DEF TypeOK, Staged, Published
  <2>3. Stays(p) \/ Makes(p)
    BY <2>1, <2>2 DEF Stays, Makes, Publishing, Official, Early
  <2>4. TypeOK'
    <3>. HIDE DEF d
    <3>. QED
      BY <1>0, <2>1 DEF TypeOK, Pcs, Pipeline
  <2>. QED
    BY <1>0, <2>1, <2>2, <2>3, <2>4, NamingEffect DEF TypeOK, Confirmed
<1>2. CASE Rename(p)
  <2>1. TypeOK'
    BY <1>0, <1>2 DEF Rename, Goto, TypeOK, Pcs, Pipeline
  <2>2. Publishes(p)
    BY <1>0, <1>2 DEF Rename, Goto, TypeOK, Publishes, Staged, Published
  <2>. QED
    BY <1>0, <1>2, <2>1, <2>2, NamingEffect DEF Rename, Goto, TypeOK, Publishes, Confirmed
<1>3. CASE RejectRenamed(p)
  <2>1. TypeOK'
    BY <1>0, <1>3 DEF RejectRenamed, Goto, TypeOK, Pcs, RollingBack
  <2>2. Withdraws(p)
    BY <1>0, <1>3 DEF RejectRenamed, Goto, TypeOK, Withdraws, Staged, Published, Official,
                      Publishing, Early
  <2>. QED
    BY <1>0, <1>3, <2>1, <2>2, NamingEffect
       DEF RejectRenamed, Goto, TypeOK, Withdraws, Confirmed, Publishing, Official
<1>4. CASE Quarantine(p)
  <2>1. /\ pc' = [pc EXCEPT ![p] = pc'[p]] /\ pc'[p] \in {"failed", "discard"}
        /\ completed' \in [Promotions -> {4, 5, 7, 8}]
    BY <1>0, <1>4 DEF Quarantine, RolledBack, Goto, TypeOK
  <2>2. TypeOK'
    BY <1>0, <1>4, <2>1 DEF Quarantine, TypeOK, Pcs, RollingBack, Ended
  <2>3. Stays(p)
    BY <1>0, <1>4, <2>1
       DEF Quarantine, TypeOK, Stays, Staged, Published, Official, Publishing, Early
  <2>. QED
    BY <1>0, <1>4, <2>1, <2>2, <2>3, NamingEffect DEF Quarantine, TypeOK, Confirmed
<1>. QED
  BY <1>1, <1>2, <1>3, <1>4

(* Moving the publication back, or aside.                                  *)
LEMMA MovingBack ==
    ASSUME OverlapInv, NEW p \in Promotions, RenameBack(p) \/ InterruptedConfirming(p)
    PROVE  TypeOK' /\ Effect(p)
<1>. USE PromotionAssumption
<1>0. TypeOK /\ RunOf[p] \in Runs /\ p # None
      /\ Staged(p) \in Promotions \cup {None} /\ Published(p) \in Promotions \cup {None}
  BY DEF OverlapInv, TypeOK, Staged, Published
<1>1. /\ UNCHANGED <<raw, registry, snap, held, listed, target, completed>>
      /\ pc[p] \in Official
      /\ pc' = [pc EXCEPT ![p] = pc'[p]] /\ pc'[p] \in {"discard", "dead"}
  BY <1>0 DEF RenameBack, InterruptedConfirming, Goto, TypeOK, Official
<1>2. Published(p) # None /\ final' = [final EXCEPT ![RunOf[p]] = None]
  BY DEF RenameBack, InterruptedConfirming, MoveBack, CanMoveBack
<1>3. \/ UNCHANGED <<staging, gone, dir>>
      \/ /\ staging' = [staging EXCEPT ![RunOf[p]] = Published(p)]
         /\ gone' = gone \cup ({Staged(p)} \ {None})
         /\ dir' = [dir EXCEPT ![Published(p)].frozen = FALSE]
  BY DEF RenameBack, InterruptedConfirming, MoveBack
<1>4. /\ dir' \in [Promotions -> Directory]
      /\ \A e \in Promotions, v \in Versions :
           SealedTree(dir[e], v) => SealedTree(dir'[e], v)
  <2>1. CASE UNCHANGED dir
    BY <1>0, <2>1 DEF TypeOK
  <2>2. CASE dir' = [dir EXCEPT ![Published(p)].frozen = FALSE]
    BY <1>0, <2>2, ThawedContents
  <2>. QED
    BY <1>3, <2>1, <2>2
<1>5. TypeOK'
  <2>1. pc' \in [Promotions -> Pcs]
    BY <1>0, <1>1 DEF TypeOK, Pcs, RollingBack, Ended
  <2>2. /\ staging' \in [Runs -> Promotions \cup {None}] /\ gone' \subseteq Promotions
        /\ final' \in [Runs -> Promotions \cup {None}]
    BY <1>0, <1>2, <1>3 DEF TypeOK
  <2>. QED
    BY <1>0, <1>1, <1>4, <2>1, <2>2 DEF TypeOK
<1>6. Withdraws(p)
  BY <1>0, <1>1, <1>2, <1>3
     DEF TypeOK, Withdraws, Staged, Published, Official, Publishing, Early
<1>7. \A r \in Runs \ {RunOf[p]} : staging'[r] = staging[r] /\ final'[r] = final[r]
  BY <1>0, <1>2, <1>3 DEF TypeOK
<1>8. \A q \in Promotions \ {p} : pc'[q] = pc[q]
  BY <1>0, <1>1 DEF TypeOK
<1>9. \A r \in Runs : final[r] # None =>
         \A v \in Versions : SealedTree(dir[final[r]], v) => SealedTree(dir'[final[r]], v)
  BY <1>0, <1>4 DEF TypeOK
<1>. QED
  BY <1>1, <1>5, <1>6, <1>7, <1>8, <1>9 DEF Effect, Withdraws, Confirmed, Publishing

LEMMA OverlapSteps == OverlapInv /\ [Next]_vars => OverlapInv'
<1>. SUFFICES ASSUME OverlapInv, [Next]_vars PROVE OverlapInv'
  OBVIOUS
<1>1. ASSUME NEW p \in Promotions, Step(p)
      PROVE  OverlapInv'
  <2>1. TypeOK' /\ Effect(p)
    BY <1>1, QuietStepsOverlap, ThawEffect, InputsEffect, StagingSteps, NamingSteps, MovingBack
       DEF Step, Advance, RollBack, Interruption
  <2>. QED
    BY <2>1, EffectKeepsNames, EffectKeepsPublisher, EffectKeepsSeal DEF OverlapInv
<1>2. ASSUME NEW r \in Runs, SourceRewritten(r)
      PROVE  OverlapInv'
  <2>1. TypeOK'
    BY <1>2, PromotionAssumption DEF OverlapInv, SourceRewritten, TypeOK, Versions
  <2>2. UNCHANGED <<dir, staging, final, pc, snap>>
    BY <1>2 DEF SourceRewritten
  <2>. QED
    BY <2>1, <2>2
       DEF OverlapInv, NamesApart, OnePublishes, ConfirmedIsSealed, Staged, Published
<1>3. CASE UNCHANGED vars
  BY <1>3 DEF vars, OverlapInv, TypeOK, NamesApart, OnePublishes, ConfirmedIsSealed, Staged,
              Published
<1>. QED
  BY <1>1, <1>2, <1>3 DEF Next, Step

(* No directory has a name at first. *)
LEMMA OverlapStarts == Init => OverlapInv
<1>. SUFFICES ASSUME Init PROVE OverlapInv
  OBVIOUS
<1>1. TypeOK
  BY PromotionAssumption
     DEF Init, TypeOK, Versions, Directory, EmptyDirectory, Seals, Pcs
<1>2. NamesApart /\ OnePublishes /\ ConfirmedIsSealed
  BY PromotionAssumption
     DEF Init, NamesApart, Early, Staged, Published, OnePublishes, Publishing, Official,
         ConfirmedIsSealed, Confirmed
<1>. QED
  BY <1>1, <1>2 DEF OverlapInv

(* Directories, names and what the promotions know of them. *)
THEOREM PromotionIsTyped == Spec => []TypeOK
<1>1. OverlapInv => TypeOK
  BY DEF OverlapInv
<1>. QED
  BY <1>1, OverlapStarts, OverlapSteps, PTL DEF Spec

(* A reported publication stays complete and of the version its promotion  *)
(* validated, for any number of promotions of any runs at the same time,   *)
(* with rollbacks that fail and with kills at every step                   *)
(* (rename_staging_to_final, _validate_final_publication,                  *)
(* _rollback_atomic_publish).                                              *)
THEOREM ReportedSuccessStands == Spec => []SuccessStands
<1>1. OverlapInv => SuccessStands
  BY DEF OverlapInv, OnePublishes, ConfirmedIsSealed, Publishing, Confirmed, SuccessStands
<1>. QED
  BY <1>1, OverlapStarts, OverlapSteps, PTL DEF Spec
=============================================================================
