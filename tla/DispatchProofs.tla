----------------------------- MODULE DispatchProofs -----------------------------
(***************************************************************************)
(* The programs that start runs.  HeadlineDispatch for any number of       *)
(* invocations, accounts, slots and authorizations: it is type correct, an *)
(* agent that runs owns every provider account, the receipt log is an      *)
(* exact prefix of the execution order, and the log implements             *)
(* StudyLedger; in a capacity-gated study (Gated) the directory of a       *)
(* recorded slot is the recorded run's, no agent starts behind a failure,  *)
(* an approval is used by one invocation, and what is charged under it is  *)
(* bounded; an earlier protocol promises none of these.                    *)
(* BenchmarkSweep for any tasks, modes, command lines, outcomes and sweeps *)
(* one after the other, killed ones included: what is reported was         *)
(* recorded by a run of this sweep, a clean exit lists every task of every *)
(* mode in order, and a budget is overrun in sequence by less than one     *)
(* run.                                                                    *)
(***************************************************************************)
EXTENDS HeadlineDispatch, BenchmarkSweep, SumTheorems, SequenceTheorems, FiniteSetTheorems, TLAPS

-----------------------------------------------------------------------------
(* Dispatchers: what they own and what they know                             *)

(* Steps at which an invocation has named an authorization.                *)
Bound(d) ==
    pc[d] \in {"accounts", "checking", "preflight", "recheck", "probing",
               "slots", "waiting"} \/ kid[d] # "none"

(* An authorization that is named exists, a child has a slot to run, and   *)
(* before the slot loop waits there is no child.                           *)
Control ==
    \A d \in Invocations :
        /\ Bound(d) => plan[d] \in DOMAIN auths
        /\ kid[d] # "none" => n[d] < NSlots
        /\ kid[d] # "none" => pc[d] \in {"waiting"} \cup Left
        /\ pc[d] = "waiting" => kid[d] # "none"

TypeInv == TypeOK /\ Control

(* Cutting the last batch off at the end of the plan keeps it in the plan. *)
LEMMA BatchEndType ==
    ASSUME NEW start \in 0 .. NSlots
    PROVE  BatchEnd(start) \in start .. NSlots
BY ConstantsAssumption DEF BatchEnd, Lesser

(* The ceiling of a batch is a natural number. *)
LEMMA CeilingType ==
    ASSUME NEW start \in 0 .. NSlots, NEW spent \in Nat
    PROVE  AuthorizedBatchCeiling(start, spent) \in Nat
<1>1. BatchEnd(start) - start \in Nat
  BY BatchEndType, ConstantsAssumption
<1>2. \A x \in Nat : Cap * x \in Nat
  BY ConstantsAssumption
<1>. QED
  BY <1>1, <1>2 DEF AuthorizedBatchCeiling

LEMMA InitTypeInv == Init => TypeInv
<1>. SUFFICES ASSUME Init PROVE TypeInv
  OBVIOUS
<1>. USE DEF Init
<1>1. FileTypes
  <2>1. log \in Seq(Receipt)
    OBVIOUS
  <2>2. auths \in Seq(Authorization) /\ Len(auths) <= MaxAuths
    BY ConstantsAssumption
  <2>3. total \in Nat /\ torn \in BOOLEAN
    OBVIOUS
  <2>4. draft \in [start: 0 .. NSlots, spent: Nat, open: BOOLEAN]
    BY ConstantsAssumption
  <2>5. out \in [Slots -> Invocations \cup {NoOne}]
    OBVIOUS
  <2>. QED
    BY <2>1, <2>2, <2>3, <2>4, <2>5 DEF FileTypes
<1>2. LockTypes
  BY DEF LockTypes
<1>3. LocalTypes
  BY ConstantsAssumption DEF LocalTypes, Pcs
<1>4. ChildTypes /\ HistoryTypes
  BY DEF ChildTypes, HistoryTypes, KidPcs
<1>5. Control
  BY DEF Control, Bound
<1>. QED
  BY <1>1, <1>2, <1>3, <1>4, <1>5 DEF TypeInv, TypeOK
(* Giving both locks back keeps every type. *)
LEMMA LeaveKeepsTypes ==
    ASSUME TypeInv, NEW d \in Invocations, NEW how \in Left,
           kid[d] = "none" \/ pc[d] = "waiting", Leave(d, how)
    PROVE  TypeInv'
<1>. USE DEF TypeInv, TypeOK, Leave
<1>1. FileTypes' /\ ChildTypes' /\ HistoryTypes'
  BY DEF FileTypes, ChildTypes, HistoryTypes, files, child, history
<1>2. LockTypes'
  BY DEF LockTypes, DispatchLockWithout, AccLockWithout
<1>3. LocalTypes'
  BY ConstantsAssumption DEF LocalTypes, Pcs, Left
<1>4. Control'
  BY DEF Control, Bound, Left, LocalTypes, files, child
<1>. QED
  BY <1>1, <1>2, <1>3, <1>4

(* A child that exits keeps the types of the locks and of the local state. *)
LEMMA KidExitsKeepsTypes ==
    ASSUME TypeInv, NEW d \in Invocations, NEW success \in BOOLEAN,
           Alive(d), KidExits(d, success)
    PROVE  LockTypes' /\ LocalTypes' /\ ChildTypes'
<1>. USE DEF TypeInv, TypeOK, KidExits
<1>1. ChildTypes'
  BY DEF ChildTypes, KidPcs
<1>2. LockTypes'
  BY DEF LockTypes, AccLockWithout
<1>3. LocalTypes'
  BY ConstantsAssumption DEF LocalTypes
<1>. QED
  BY <1>1, <1>2, <1>3

(* ... and the child's authorization and slot. *)
LEMMA KidExitsKeepsControl ==
    ASSUME TypeInv, NEW d \in Invocations, NEW success \in BOOLEAN,
           Alive(d), KidExits(d, success), UNCHANGED auths
    PROVE  Control'
BY DEF TypeInv, TypeOK, KidExits, Control, Bound, Alive, ChildTypes, LocalTypes

(* Changing one authorization artifact keeps the others. *)
LEMMA AuthorizationsUpdated ==
    ASSUME TypeInv, NEW a \in DOMAIN auths, NEW e \in Authorization,
           auths' = [auths EXCEPT ![a] = e]
    PROVE  /\ auths' \in Seq(Authorization)
           /\ Len(auths') = Len(auths)
           /\ DOMAIN auths' = DOMAIN auths
BY ExceptSeq, LenProperties DEF TypeInv, TypeOK, FileTypes

(* The capacity_rechecks files are the only field a dispatcher changes. *)
LEMMA RecheckType ==
    ASSUME TypeInv, NEW a \in DOMAIN auths,
           NEW s \in {"started", "accepted", "rejected", "error"}
    PROVE  /\ [auths[a] EXCEPT !.recheck = s] \in Authorization
           /\ [auths EXCEPT ![a].recheck = s] =
                [auths EXCEPT ![a] = [auths[a] EXCEPT !.recheck = s]]
<1>1. auths[a] \in Authorization
  BY ElementOfSeq, LenProperties DEF TypeInv, TypeOK, FileTypes
<1>. QED
  BY <1>1 DEF Authorization

(* A receipt names a slot of the plan and costs a natural number. *)
LEMMA ReceiptFields ==
    ASSUME NEW r \in Receipt
    PROVE  r.cost \in Nat /\ r.slot \in 1 .. NSlots
<1>1. r.cost \in Charges \cup {0} /\ r.slot \in Slots
  BY DEF Receipt
<1>2. \A x \in Charges \cup {0} : x \in Nat
  BY ConstantsAssumption
<1>. QED
  BY <1>1, <1>2 DEF Slots

(* One step of an invocation. *)
LEMMA DispatchKeepsTypes ==
    ASSUME TypeInv, NEW d \in Invocations, Dispatch(d)
    PROVE  TypeInv'
<1>. USE ConstantsAssumption DEF TypeInv, TypeOK
<1>1. CASE DispatchAlreadyActive(d)
  BY <1>1, LeaveKeepsTypes DEF DispatchAlreadyActive, Control, Left
<1>2. CASE LoadClosedPlan(d)
  BY <1>2, LeaveKeepsTypes DEF LoadClosedPlan, Control, Left
<1>3. CASE ProviderAccountBusy(d)
  BY <1>3, LeaveKeepsTypes DEF ProviderAccountBusy, Control, Left
<1>4. CASE RefuseExistingReceipts(d)
  BY <1>4, LeaveKeepsTypes DEF RefuseExistingReceipts, Control, Left
<1>5. CASE PreflightFails(d)
  BY <1>5, LeaveKeepsTypes DEF PreflightFails, Control, Left
<1>6. CASE RefuseCapacityRecheck(d)
  BY <1>6, LeaveKeepsTypes DEF RefuseCapacityRecheck, Control, Left
<1>7. CASE LeaveSlotLoop(d)
  BY <1>7, LeaveKeepsTypes DEF LeaveSlotLoop, Control, Left
<1>8. CASE RefuseRun(d)
  BY <1>8, LeaveKeepsTypes DEF RefuseRun, Control, Left
<1>9. CASE ExclusiveDispatchLock(d)
  <2>. USE <1>9 DEF ExclusiveDispatchLock, Goto
  <2>1. FileTypes' /\ HistoryTypes'
    BY DEF FileTypes, HistoryTypes, files, history
  <2>2. LockTypes'
    BY DEF LockTypes, locks
  <2>3. LocalTypes' /\ ChildTypes'
    BY DEF LocalTypes, ChildTypes, Pcs, KidPcs, local, child, Left
  <2>4. Control'
    BY DEF Control, Bound, LocalTypes, ChildTypes, Left, local, child, files
  <2>. QED
    BY <2>1, <2>2, <2>3, <2>4
<1>10. CASE LockProviderAccount(d)
  <2>. USE <1>10 DEF LockProviderAccount
  <2>1. FileTypes' /\ HistoryTypes'
    BY DEF FileTypes, HistoryTypes, files, history, Accounts
  <2>2. LockTypes'
    BY DEF LockTypes, locks
  <2>3. LocalTypes' /\ ChildTypes'
    BY DEF LocalTypes, ChildTypes, Pcs, KidPcs, local, child, Left, Accounts
  <2>4. Control'
    BY DEF Control, Bound, LocalTypes, ChildTypes, Left, local, child, files, Accounts
  <2>. QED
    BY <2>1, <2>2, <2>3, <2>4
<1>11. CASE AllAccountsLocked(d)
  <2>. USE <1>11 DEF AllAccountsLocked, Goto
  <2>1. FileTypes' /\ HistoryTypes'
    BY DEF FileTypes, HistoryTypes, files, history
  <2>2. LockTypes'
    BY DEF LockTypes, locks
  <2>3. LocalTypes' /\ ChildTypes'
    BY DEF LocalTypes, ChildTypes, Pcs, KidPcs, local, child, Left
  <2>4. Control'
    BY DEF Control, Bound, LocalTypes, ChildTypes, Left, local, child, files
  <2>. QED
    BY <2>1, <2>2, <2>3, <2>4
<1>12. CASE ReadExistingReceipts(d)
  <2>. USE <1>12 DEF ReadExistingReceipts, Goto, ReceiptsAccepted, AuthorizationMatches
  <2>1. FileTypes' /\ HistoryTypes'
    BY DEF FileTypes, HistoryTypes, files, history
  <2>2. LockTypes'
    BY DEF LockTypes, locks
  <2>3. LocalTypes' /\ ChildTypes'
    <3>1. auths[plan[d]] \in Authorization
      BY ElementOfSeq, LenProperties DEF FileTypes, Control, Bound
    <3>. QED
      BY <3>1, LenProperties DEF LocalTypes, ChildTypes, Pcs, child, FileTypes, Authorization
  <2>4. Control'
    BY DEF Control, Bound, LocalTypes, ChildTypes, Left, local, child, files
  <2>. QED
    BY <2>1, <2>2, <2>3, <2>4
<1>13. CASE RunPreflight(d)
  <2>. USE <1>13 DEF RunPreflight, Goto
  <2>1. FileTypes' /\ HistoryTypes'
    BY DEF FileTypes, HistoryTypes, files, history
  <2>2. LockTypes'
    BY DEF LockTypes, locks
  <2>3. LocalTypes' /\ ChildTypes'
    BY DEF LocalTypes, ChildTypes, Pcs, KidPcs, local, child, Left
  <2>4. Control'
    BY DEF Control, Bound, LocalTypes, ChildTypes, Left, local, child, files
  <2>. QED
    BY <2>1, <2>2, <2>3, <2>4
<1>14. CASE StartRunTask(d)
  <2>. USE <1>14 DEF StartRunTask, Goto
  <2>1. FileTypes' /\ HistoryTypes'
    BY DEF FileTypes, HistoryTypes, files, history
  <2>2. LockTypes'
    BY DEF LockTypes, locks
  <2>3. LocalTypes' /\ ChildTypes'
    BY DEF LocalTypes, ChildTypes, Pcs, KidPcs, local, child, Left
  <2>4. Control'
    BY DEF Control, Bound, LocalTypes, ChildTypes, Left, local, child, files
  <2>. QED
    BY <2>1, <2>2, <2>3, <2>4
<1>15. CASE AcceptRun(d)
  <2>. USE <1>15 DEF AcceptRun, Goto, RunAccepted
  <2>1. FileTypes' /\ HistoryTypes'
    BY DEF FileTypes, HistoryTypes, files, history
  <2>2. LockTypes'
    BY DEF LockTypes, locks
  <2>3. LocalTypes' /\ ChildTypes'
    <3>0. Len(log) = n[d] + 1 /\ n[d] + 1 \in Nat \ {0}
      BY DEF LocalTypes
    <3>1. log[Len(log)] \in Receipt
      BY <3>0, ElementOfSeq DEF FileTypes
    <3>2. log[Len(log)].cost \in Nat /\ n[d] + 1 \in 0 .. NSlots
      BY <3>1, ReceiptFields
    <3>. QED
      <4>1. spend[d] + log[Len(log)].cost \in Nat
        BY <3>2 DEF LocalTypes
      <4>2. LocalTypes'
        BY <3>2, <4>1 DEF LocalTypes, Pcs
      <4>. QED
        BY <4>2 DEF ChildTypes, KidPcs
  <2>4. Control'
    BY DEF Control, Bound, LocalTypes, ChildTypes, Left, local, child, files
  <2>. QED
    BY <2>1, <2>2, <2>3, <2>4
<1>16. CASE StartCapacityRecheck(d)
  <2>. USE <1>16 DEF StartCapacityRecheck
  <2>1. PICK e \in Authorization : auths' = [auths EXCEPT ![plan[d]] = e]
    BY RecheckType DEF Control, Bound
  <2>2. FileTypes' /\ DOMAIN auths' = DOMAIN auths
    BY <2>1, AuthorizationsUpdated DEF FileTypes, Control, Bound
  <2>3. LockTypes' /\ HistoryTypes'
    BY DEF LockTypes, HistoryTypes, locks, history, DispatchLockWithout, AccLockWithout
  <2>4. LocalTypes' /\ ChildTypes'
    BY DEF LocalTypes, ChildTypes, Pcs, child, Left, Goto
  <2>5. Control'
    BY <2>2 DEF Control, Bound, LocalTypes, ChildTypes, Left, child, Goto
  <2>. QED
    BY <2>2, <2>3, <2>4, <2>5
<1>17. CASE CapacityAccepted(d)
  <2>. USE <1>17 DEF CapacityAccepted
  <2>1. PICK e \in Authorization : auths' = [auths EXCEPT ![plan[d]] = e]
    BY RecheckType DEF Control, Bound
  <2>2. FileTypes' /\ DOMAIN auths' = DOMAIN auths
    BY <2>1, AuthorizationsUpdated DEF FileTypes, Control, Bound
  <2>3. LockTypes' /\ HistoryTypes'
    BY DEF LockTypes, HistoryTypes, locks, history, DispatchLockWithout, AccLockWithout
  <2>4. LocalTypes' /\ ChildTypes'
    BY DEF LocalTypes, ChildTypes, Pcs, child, Left, Goto
  <2>5. Control'
    BY <2>2 DEF Control, Bound, LocalTypes, ChildTypes, Left, child, Goto
  <2>. QED
    BY <2>2, <2>3, <2>4, <2>5
<1>18. CASE \E verdict \in {"rejected", "error"} : CapacityRefused(d, verdict)
  <2>0. PICK verdict \in {"rejected", "error"} : CapacityRefused(d, verdict)
    BY <1>18
  <2>. USE DEF CapacityRefused
  <2>1. PICK e \in Authorization : auths' = [auths EXCEPT ![plan[d]] = e]
    BY <2>0, RecheckType DEF Control, Bound
  <2>2. FileTypes' /\ DOMAIN auths' = DOMAIN auths
    BY <2>0, <2>1, AuthorizationsUpdated DEF FileTypes, Control, Bound
  <2>3. LockTypes' /\ HistoryTypes'
    BY <2>0 DEF LockTypes, HistoryTypes, locks, history, DispatchLockWithout, AccLockWithout
  <2>4. LocalTypes' /\ ChildTypes'
    BY <2>0 DEF LocalTypes, ChildTypes, Pcs, child, Left, Goto
  <2>5. Control'
    BY <2>0, <2>2 DEF Control, Bound, LocalTypes, ChildTypes, Left, child, Goto
  <2>. QED
    BY <2>2, <2>3, <2>4, <2>5
<1>19. CASE \E a \in AuthIds : LoadDispatchPlan(d, a)
  <2>0. PICK a \in AuthIds : LoadDispatchPlan(d, a)
    BY <1>19
  <2>. USE <2>0 DEF LoadDispatchPlan, Goto
  <2>1. FileTypes' /\ HistoryTypes' /\ LockTypes'
    BY DEF FileTypes, HistoryTypes, LockTypes, files, history, locks
  <2>2. LocalTypes' /\ ChildTypes'
    BY DEF LocalTypes, ChildTypes, Pcs, child, AuthIds
  <2>3. Control'
    BY DEF Control, Bound, LocalTypes, ChildTypes, Left, child, files
  <2>. QED
    BY <2>1, <2>2, <2>3
<1>. QED
  BY <1>1, <1>2, <1>3, <1>4, <1>5, <1>6, <1>7, <1>8, <1>9, <1>10, <1>11, <1>12, <1>13, <1>14, <1>15, <1>16, <1>17, <1>18, <1>19 DEF Dispatch

(* Whatever the provider charges is added to one account of history. *)
LEMMA ChargeKeepsTypes ==
    ASSUME HistoryTypes, NEW d \in Invocations, NEW c \in Nat,
           Charge(d, c), UNCHANGED runBy
    PROVE  HistoryTypes'
<1>1. CASE plan[d] \in AuthIds
  <2>1. charged[plan[d]] + c \in Nat
    BY <1>1 DEF HistoryTypes
  <2>. QED
    BY <2>1 DEF HistoryTypes, Charge
<1>2. CASE plan[d] \notin AuthIds
  BY <1>2 DEF HistoryTypes, Charge
<1>. QED
  BY <1>1, <1>2

(* What a run records is a receipt of its slot. *)
LEMMA RunReceiptsType ==
    ASSUME TypeInv, NEW d \in Invocations, Alive(d),
           NEW c \in Charges, NEW r \in RunReceipts(d, c)
    PROVE  r \in Receipt /\ r.cost \in Nat /\ r.slot = n[d] + 1
<1>1. n[d] + 1 \in Slots
  BY ConstantsAssumption DEF TypeInv, TypeOK, LocalTypes, Control, Alive, Slots
<1>2. r \in [slot: {n[d] + 1}, status: {"valid", "infra_invalid"},
            cost: {c, 0}, within: BOOLEAN, by: {d}]
  BY DEF RunReceipts
<1>3. c \in Nat
  BY ConstantsAssumption
<1>. QED
  BY <1>1, <1>2, <1>3 DEF Receipt

(* One step of a run_task child. *)
LEMMA RunTaskKeepsTypes ==
    ASSUME TypeInv, NEW d \in Invocations, RunTask(d)
    PROVE  TypeInv'
<1>. USE ConstantsAssumption DEF TypeInv, TypeOK
<1>1. CASE ValidateStudyConfig(d)
  <2>. USE <1>1 DEF ValidateStudyConfig
  <2>1. FileTypes' /\ HistoryTypes' /\ LockTypes'
    BY DEF FileTypes, HistoryTypes, LockTypes, files, history, locks
  <2>2. LocalTypes' /\ ChildTypes'
    BY DEF LocalTypes, ChildTypes, KidPcs, local
  <2>3. Control'
    BY DEF Control, Bound, LocalTypes, ChildTypes, local, files
  <2>. QED
    BY <2>1, <2>2, <2>3
<1>2. CASE RefuseStudyConfig(d) \/ KidAccountBusy(d)
  <2>1. FileTypes' /\ HistoryTypes'
    BY <1>2 DEF RefuseStudyConfig, KidAccountBusy, FileTypes, HistoryTypes, files, history
  <2>2. Alive(d) /\ KidExits(d, FALSE) /\ UNCHANGED auths
    BY <1>2 DEF RefuseStudyConfig, KidAccountBusy, Alive, files
  <2>. QED
    BY <2>1, <2>2, KidExitsKeepsTypes, KidExitsKeepsControl
<1>3. CASE KidLocksAccount(d)
  <2>. USE <1>3 DEF KidLocksAccount
  <2>1. FileTypes' /\ HistoryTypes'
    BY DEF FileTypes, HistoryTypes, files, history
  <2>2. LockTypes'
    BY DEF LockTypes, Accounts
  <2>3. LocalTypes' /\ ChildTypes'
    BY DEF LocalTypes, ChildTypes, child
  <2>4. Control'
    BY DEF Control, Bound, child, files
  <2>. QED
    BY <2>1, <2>2, <2>3, <2>4
<1>4. CASE BeginRun(d)
  <2>. USE <1>4 DEF BeginRun
  <2>1. FileTypes'
    BY DEF FileTypes
  <2>2. HistoryTypes' /\ LockTypes'
    BY DEF HistoryTypes, LockTypes, locks
  <2>3. LocalTypes' /\ ChildTypes'
    BY DEF LocalTypes, ChildTypes, KidPcs, local
  <2>4. Control'
    BY DEF Control, Bound, LocalTypes, ChildTypes, local
  <2>. QED
    BY <2>1, <2>2, <2>3, <2>4
<1>5. ASSUME NEW c \in Charges, NEW success \in BOOLEAN, NEW r \in RunReceipts(d, c),
             FinishRun(d, c, r, success)
      PROVE  TypeInv'
  <2>. USE <1>5 DEF FinishRun
  <2>1. Alive(d) /\ KidExits(d, success) /\ UNCHANGED auths
    BY DEF Alive
  <2>2. r \in Receipt /\ r.cost \in Nat
    BY <2>1, RunReceiptsType
  <2>3. FileTypes'
    BY <2>2, AppendProperties DEF FileTypes
  <2>4. HistoryTypes'
    BY ChargeKeepsTypes
  <2>. QED
    BY <2>1, <2>3, <2>4, KidExitsKeepsTypes, KidExitsKeepsControl
<1>6. ASSUME NEW c \in Charges, NEW success \in BOOLEAN,
             FinishWithoutReceipt(d, c, success)
      PROVE  TypeInv'
  <2>. USE <1>6 DEF FinishWithoutReceipt
  <2>1. Alive(d) /\ KidExits(d, success) /\ UNCHANGED auths
    BY DEF Alive, files
  <2>2. FileTypes' /\ HistoryTypes'
    BY ChargeKeepsTypes DEF FileTypes, files
  <2>. QED
    BY <2>1, <2>2, KidExitsKeepsTypes, KidExitsKeepsControl
<1>. QED
  BY <1>1, <1>2, <1>3, <1>4, <1>5, <1>6 DEF RunTask

(* A kill of either process. *)
LEMMA KillKeepsTypes ==
    ASSUME TypeInv, NEW d \in Invocations, Kill(d)
    PROVE  TypeInv'
<1>. USE ConstantsAssumption DEF TypeInv, TypeOK
<1>1. CASE Crash(d)
  <2>. USE <1>1 DEF Crash, Goto
  <2>1. FileTypes' /\ HistoryTypes' /\ ChildTypes'
    BY DEF FileTypes, HistoryTypes, ChildTypes, files, history, child
  <2>2. LockTypes'
    BY DEF LockTypes, DispatchLockWithout, AccLockWithout
  <2>3. LocalTypes'
    BY DEF LocalTypes, Pcs, Left
  <2>4. Control'
    BY DEF Control, Bound, LocalTypes, Left, child, files
  <2>. QED
    BY <2>1, <2>2, <2>3, <2>4
<1>2. ASSUME NEW c \in Charges \cup {0}, NEW tears \in BOOLEAN, KidKilled(d, c, tears)
      PROVE  TypeInv'
  <2>. USE <1>2 DEF KidKilled
  <2>1. FileTypes' /\ HistoryTypes'
    BY ChargeKeepsTypes DEF FileTypes
  <2>. QED
    BY <2>1, KidExitsKeepsTypes, KidExitsKeepsControl
<1>. QED
  BY <1>1, <1>2 DEF Kill

(* build_authorized_plan is over. *)
LEMMA DraftClosed ==
    ASSUME FileTypes
    PROVE  [draft EXCEPT !.open = FALSE] \in [start: 0 .. NSlots, spent: Nat, open: BOOLEAN]
BY DEF FileTypes

(* The operator and the other consumers of the accounts. *)
LEMMA OutsideKeepsTypes ==
    ASSUME TypeInv, Operator \/ OtherConsumer
    PROVE  TypeInv'
<1>. USE ConstantsAssumption DEF TypeInv, TypeOK
<1>1. CASE OtherConsumer
  <2>1. LockTypes'
    BY <1>1 DEF OtherConsumer, ExternalTakes, ExternalReleases, LockTypes
  <2>2. FileTypes' /\ HistoryTypes' /\ LocalTypes' /\ ChildTypes' /\ Control'
    BY <1>1 DEF OtherConsumer, ExternalTakes, ExternalReleases, FileTypes, HistoryTypes,
       LocalTypes, ChildTypes, Control, Bound, files, history, local, child
  <2>. QED
    BY <2>1, <2>2
<1>2. ASSUME FileTypes', DOMAIN auths \subseteq DOMAIN auths',
             UNCHANGED <<locks, local, child, history>>
      PROVE  TypeInv'
  BY <1>2 DEF LockTypes, HistoryTypes, LocalTypes, ChildTypes, Control, Bound,
     locks, local, child, history
<1>3. CASE ReadForAuthorization \/ AuthorizationRefused
  <2>1. Len(log) \in Nat /\ DOMAIN auths = DOMAIN auths
    BY LenProperties DEF FileTypes
  <2>2. draft' \in [start: 0 .. NSlots, spent: Nat, open: BOOLEAN]
    <3>1. CASE ReadForAuthorization
      <4>1. Len(log) \in 0 .. NSlots /\ total \in Nat
        BY <2>1, <3>1 DEF ReadForAuthorization, FileTypes
      <4>. QED
        BY <3>1, <4>1 DEF ReadForAuthorization
    <3>2. CASE AuthorizationRefused
      BY <3>2, DraftClosed DEF AuthorizationRefused
    <3>. QED
      BY <1>3, <3>1, <3>2
  <2>3. FileTypes'
    BY <1>3, <2>2 DEF ReadForAuthorization, AuthorizationRefused, FileTypes
  <2>. QED
    BY <1>3, <1>2, <2>3 DEF ReadForAuthorization, AuthorizationRefused
<1>4. CASE WriteAuthorization
  <2>. DEFINE new == [start |-> draft.start, end |-> BatchEnd(draft.start),
                      ceiling |-> AuthorizedBatchCeiling(draft.start, draft.spent),
                      published |-> FALSE, fresh |-> TRUE, recheck |-> "none"]
  <2>1. draft.start \in 0 .. NSlots /\ draft.spent \in Nat
    BY DEF FileTypes
  <2>2. /\ BatchEnd(draft.start) \in 0 .. NSlots
        /\ AuthorizedBatchCeiling(draft.start, draft.spent) \in 0 .. StudyCeiling
    BY <1>4, <2>1, BatchEndType, CeilingType DEF WriteAuthorization
  <2>3. new \in Authorization
    BY <2>1, <2>2 DEF Authorization
  <2>4. /\ auths' \in Seq(Authorization) /\ Len(auths') = Len(auths) + 1
        /\ DOMAIN auths \subseteq DOMAIN auths'
    <3>1. auths' = Append(auths, new) /\ auths \in Seq(Authorization)
      BY <1>4 DEF WriteAuthorization, FileTypes
    <3>. HIDE DEF new
    <3>. QED
      BY <2>3, <3>1, AppendProperties, LenProperties
  <2>. HIDE DEF new
  <2>5. FileTypes'
    BY <1>4, <2>4, DraftClosed, LenProperties DEF WriteAuthorization, FileTypes
  <2>. QED
    BY <1>2, <1>4, <2>4, <2>5 DEF WriteAuthorization
<1>5. ASSUME NEW a \in AuthIds, Publish(a) \/ Expire(a)
      PROVE  TypeInv'
  <2>1. PICK e \in Authorization : auths' = [auths EXCEPT ![a] = e]
    <3>1. auths[a] \in Authorization
      BY <1>5, ElementOfSeq, LenProperties DEF Publish, Expire, FileTypes
    <3>. QED
      BY <1>5, <3>1 DEF Publish, Expire, Authorization
  <2>2. FileTypes' /\ DOMAIN auths' = DOMAIN auths
    BY <1>5, <2>1, AuthorizationsUpdated DEF Publish, Expire, FileTypes
  <2>. QED
    BY <1>5, <1>2, <2>2 DEF Publish, Expire
<1>. QED
  BY <1>1, <1>3, <1>4, <1>5 DEF Operator

LEMMA NextKeepsTypes == TypeInv /\ [Next]_vars => TypeInv'
<1>. SUFFICES ASSUME TypeInv, [Next]_vars PROVE TypeInv'
  OBVIOUS
<1>1. CASE UNCHANGED vars
  BY <1>1 DEF TypeInv, TypeOK, FileTypes, LockTypes, LocalTypes, ChildTypes, HistoryTypes,
     Control, Bound, vars, files, locks, local, child, history
<1>. QED
  BY <1>1, DispatchKeepsTypes, RunTaskKeepsTypes, KillKeepsTypes, OutsideKeepsTypes DEF Next

(* Every variable keeps its type, for every number of invocations, slots,  *)
(* accounts and authorizations.                                            *)
THEOREM TypeCorrect == Spec => []TypeOK
<1>1. Spec => []TypeInv
  BY InitTypeInv, NextKeepsTypes, PTL DEF Spec
<1>2. TypeInv => TypeOK
  BY DEF TypeInv
<1>. QED
  BY <1>1, <1>2, PTL

-----------------------------------------------------------------------------
(* An agent that runs owns the accounts *)

(* Accounts are locked from the first on, and an agent has them all.       *)
Owned ==
    \A d \in Invocations :
        /\ \A a \in 1 .. held[d] : accLock[a] = d
        /\ kid[d] = "running" => held[d] = NAccounts

LEMMA OwnedKept ==
    ASSUME Owned, UNCHANGED <<accLock, held>>,
           \A e \in Invocations : kid'[e] = "running" => kid[e] = "running"
    PROVE  Owned'
BY DEF Owned

LEMMA OwnedReleased ==
    ASSUME TypeInv, Owned, NEW d \in Invocations,
           accLock' = AccLockWithout(d), held' = [held EXCEPT ![d] = 0],
           \A e \in Invocations : kid'[e] = "running" => kid[e] = "running" /\ e # d
    PROVE  Owned'
<1>1. \A e \in Invocations : held[e] \in 0 .. NAccounts
  BY DEF TypeInv, TypeOK, LocalTypes
<1>2. held \in [Invocations -> 0 .. NAccounts] /\ NAccounts \in Nat
  BY ConstantsAssumption DEF TypeInv, TypeOK, LocalTypes
<1>3. \A e \in Invocations : held'[e] = IF e = d THEN 0 ELSE held[e]
  BY <1>2
<1>4. \A a \in Accounts : accLock'[a] = IF accLock[a] = d THEN NoOne ELSE accLock[a]
  BY DEF AccLockWithout
<1>5. ASSUME NEW e \in Invocations, NEW a \in 1 .. held'[e] PROVE accLock'[a] = e
  <2>1. e # d /\ a \in 1 .. held[e]
    BY <1>3, <1>5
  <2>2. accLock[a] = e /\ a \in Accounts
    BY <1>1, <1>2, <2>1 DEF Owned, Accounts
  <2>. QED
    BY <1>4, <2>1, <2>2
<1>6. \A e \in Invocations : kid'[e] = "running" => held'[e] = NAccounts
  BY <1>3 DEF Owned
<1>. QED
  BY <1>5, <1>6 DEF Owned

LEMMA OwnedTaken ==
    ASSUME TypeInv, Owned, NEW d \in Invocations, kid[d] # "running",
           held[d] < NAccounts, accLock[held[d] + 1] = NoOne,
           accLock' = [accLock EXCEPT ![held[d] + 1] = d],
           held' = [held EXCEPT ![d] = @ + 1], UNCHANGED kid
    PROVE  Owned'
<1>1. \A e \in Invocations : held[e] \in 0 .. NAccounts
  BY DEF TypeInv, TypeOK, LocalTypes
<1>2. \A e \in Invocations : \A a \in 1 .. held[e] : a # held[d] + 1
  BY ConstantsAssumption DEF Owned
<1>3. \A e \in Invocations : \A a \in 1 .. held'[e] : accLock'[a] = e
  BY <1>1, <1>2, ConstantsAssumption
     DEF Owned, Accounts, TypeInv, TypeOK, LocalTypes, LockTypes
<1>. QED
  BY <1>3 DEF Owned, TypeInv, TypeOK, LocalTypes

LEMMA KidExitsKeepsOwned ==
    ASSUME TypeInv, Owned, NEW d \in Invocations, NEW success \in BOOLEAN,
           KidExits(d, success)
    PROVE  Owned'
<1>1. \A e \in Invocations : kid'[e] = "running" => kid[e] = "running" /\ e # d
  BY DEF KidExits, TypeInv, TypeOK, ChildTypes
<1>. QED
  BY <1>1, OwnedKept, OwnedReleased DEF KidExits

LEMMA DispatchKeepsOwned ==
    ASSUME TypeInv, Owned, NEW d \in Invocations, Dispatch(d)
    PROVE  Owned'
<1>1. CASE \/ DispatchAlreadyActive(d) \/ LoadClosedPlan(d) \/ ProviderAccountBusy(d)
           \/ RefuseExistingReceipts(d) \/ PreflightFails(d)
           \/ RefuseCapacityRecheck(d) \/ LeaveSlotLoop(d) \/ RefuseRun(d)
           \/ \E verdict \in {"rejected", "error"} : CapacityRefused(d, verdict)
  <2>1. kid[d] # "running"
    BY <1>1 DEF DispatchAlreadyActive, LoadClosedPlan, ProviderAccountBusy,
       RefuseExistingReceipts, PreflightFails, RefuseCapacityRecheck, LeaveSlotLoop,
       RefuseRun, CapacityRefused, TypeInv, Control, Left
  <2>2. /\ accLock' = AccLockWithout(d) /\ held' = [held EXCEPT ![d] = 0]
        /\ UNCHANGED kid
    BY <1>1 DEF DispatchAlreadyActive, LoadClosedPlan, ProviderAccountBusy,
       RefuseExistingReceipts, PreflightFails, RefuseCapacityRecheck, LeaveSlotLoop,
       RefuseRun, CapacityRefused, Leave, child
  <2>. QED
    BY <2>1, <2>2, OwnedReleased
<1>2. CASE LockProviderAccount(d)
  <2>1. kid[d] # "running"
    BY <1>2 DEF LockProviderAccount, TypeInv, Control, Left
  <2>. QED
    BY <1>2, <2>1, OwnedTaken DEF LockProviderAccount, child
<1>3. CASE \/ ExclusiveDispatchLock(d) \/ AllAccountsLocked(d) \/ ReadExistingReceipts(d)
           \/ RunPreflight(d) \/ StartCapacityRecheck(d) \/ CapacityAccepted(d)
           \/ \E a \in AuthIds : LoadDispatchPlan(d, a)
  BY <1>3, OwnedKept DEF ExclusiveDispatchLock, AllAccountsLocked, ReadExistingReceipts,
     RunPreflight, StartCapacityRecheck, CapacityAccepted, LoadDispatchPlan, child, locks
<1>4. CASE StartRunTask(d) \/ AcceptRun(d)
  <2>1. \A e \in Invocations : kid'[e] = "running" => kid[e] = "running"
    BY <1>4 DEF StartRunTask, AcceptRun, TypeInv, TypeOK, ChildTypes
  <2>. QED
    BY <1>4, <2>1, OwnedKept DEF StartRunTask, AcceptRun, locks
<1>. QED
  BY <1>1, <1>2, <1>3, <1>4 DEF Dispatch

LEMMA RunTaskKeepsOwned ==
    ASSUME TypeInv, Owned, NEW d \in Invocations, RunTask(d)
    PROVE  Owned'
<1>1. CASE ValidateStudyConfig(d)
  <2>1. \A e \in Invocations : kid'[e] = "running" => kid[e] = "running"
    BY <1>1 DEF ValidateStudyConfig, TypeInv, TypeOK, ChildTypes
  <2>. QED
    BY <1>1, <2>1, OwnedKept DEF ValidateStudyConfig, locks, local
<1>2. CASE KidLocksAccount(d)
  BY <1>2, OwnedTaken DEF KidLocksAccount, child
<1>3. CASE BeginRun(d)
  BY <1>3 DEF BeginRun, Owned, locks, local, TypeInv, TypeOK, ChildTypes
<1>4. CASE \/ RefuseStudyConfig(d) \/ KidAccountBusy(d)
           \/ \E c \in Charges, success \in BOOLEAN :
                \E r \in RunReceipts(d, c) : FinishRun(d, c, r, success)
           \/ \E c \in Charges, success \in BOOLEAN : FinishWithoutReceipt(d, c, success)
  <2>1. \E success \in BOOLEAN : KidExits(d, success)
    BY <1>4 DEF RefuseStudyConfig, KidAccountBusy, FinishRun, FinishWithoutReceipt
  <2>. QED
    BY <2>1, KidExitsKeepsOwned
<1>. QED
  BY <1>1, <1>2, <1>3, <1>4 DEF RunTask

LEMMA NextKeepsOwned == TypeInv /\ Owned /\ [Next]_vars => Owned'
<1>. SUFFICES ASSUME TypeInv, Owned, [Next]_vars PROVE Owned'
  OBVIOUS
<1>1. CASE UNCHANGED vars
  BY <1>1, OwnedKept DEF vars, locks, local, child
<1>2. ASSUME NEW d \in Invocations, Kill(d)
      PROVE  Owned'
  <2>1. CASE Crash(d)
    <3>1. CASE Alive(d)
      BY <2>1, <3>1, OwnedKept DEF Crash, child
    <3>2. CASE ~Alive(d)
      BY <2>1, <3>2, OwnedReleased DEF Crash, Alive, child
    <3>. QED
      BY <3>1, <3>2
  <2>2. CASE \E c \in Charges \cup {0}, tears \in BOOLEAN : KidKilled(d, c, tears)
    BY <2>2, KidExitsKeepsOwned DEF KidKilled
  <2>. QED
    BY <1>2, <2>1, <2>2 DEF Kill
<1>3. CASE Operator
  BY <1>3, OwnedKept DEF Operator, ReadForAuthorization, WriteAuthorization,
     AuthorizationRefused, Publish, Expire, locks, local, child
<1>4. CASE OtherConsumer
  <2>. PICK a \in Accounts : ExternalTakes(a) \/ ExternalReleases(a)
    BY <1>4 DEF OtherConsumer
  <2>1. \A e \in Invocations : accLock[a] # e
    BY ConstantsAssumption DEF ExternalTakes, ExternalReleases
  <2>2. \A e \in Invocations : \A b \in 1 .. held[e] : b \in Accounts
    BY ConstantsAssumption DEF TypeInv, TypeOK, LocalTypes, Accounts
  <2>. QED
    BY <2>1, <2>2 DEF ExternalTakes, ExternalReleases, Owned, local, child, TypeInv, TypeOK,
       LockTypes
<1>. QED
  BY <1>1, <1>2, <1>3, <1>4, DispatchKeepsOwned, RunTaskKeepsOwned DEF Next

(* Two agents never share a provider account, whichever dispatchers were   *)
(* killed before them.                                                     *)
THEOREM AccountsOwned == Spec => []AccountsOwnedWhileRunning
<1>1. Init => Owned
  BY ConstantsAssumption DEF Init, Owned
<1>2. Spec => [](TypeInv /\ Owned)
  BY <1>1, InitTypeInv, NextKeepsTypes, NextKeepsOwned, PTL DEF Spec
<1>3. TypeInv /\ Owned => AccountsOwnedWhileRunning
  BY DEF Owned, AccountsOwnedWhileRunning, Accounts
<1>. QED
  BY <1>2, <1>3, PTL

-----------------------------------------------------------------------------
(* The log is the execution order, and implements StudyLedger *)

(* Steps at which an invocation relies on its snapshot of the receipts.    *)
Snapshot(d) ==
    pc[d] \in {"preflight", "recheck", "probing", "slots", "waiting"} \/ kid[d] # "none"

(* A snapshot may be old, since an orphaned child may have appended.  But  *)
(* one that still has the length of the log knows the whole spend, and one *)
(* that is a single receipt short is short by that receipt's cost.         *)
Faithful(d) ==
    /\ n[d] <= Len(log)
    /\ n[d] = Len(log) => AllCompleted /\ spend[d] = total
    /\ Len(log) = n[d] + 1 => total = spend[d] + log[Len(log)].cost

(* ExecutionPrefix says nothing of what the next writer believes; with     *)
(* faithful snapshots, and a child only where the reserve held, it is      *)
(* inductive.                                                              *)
Order ==
    /\ ExecutionPrefix
    /\ \A d \in Invocations : Snapshot(d) => Faithful(d)
    /\ \A d \in Invocations : kid[d] # "none" => spend[d] + Cap <= StudyCeiling

(* Steps that neither record anything nor take, use or extend a snapshot.  *)
Quiet ==
    /\ UNCHANGED <<log, total, n, spend>>
    /\ \A e \in Invocations :
         /\ Snapshot(e)' => Snapshot(e)
         /\ kid'[e] # "none" => kid[e] # "none"

LEMMA QuietKeepsOrder == Order /\ Quiet => Order'
BY DEF Order, Quiet, ExecutionPrefix, Faithful, AllCompleted, Completed

LEMMA DispatchQuiet ==
    ASSUME TypeInv, NEW d \in Invocations, Dispatch(d)
    PROVE  Quiet \/ ReadExistingReceipts(d) \/ StartRunTask(d) \/ AcceptRun(d)
<1>. USE DEF TypeInv, TypeOK, LocalTypes, ChildTypes, Quiet, Snapshot, files, child
<1>1. CASE \/ DispatchAlreadyActive(d) \/ LoadClosedPlan(d) \/ ProviderAccountBusy(d)
           \/ RefuseExistingReceipts(d) \/ PreflightFails(d)
           \/ RefuseCapacityRecheck(d) \/ LeaveSlotLoop(d) \/ RefuseRun(d)
  <2>1. PICK how \in Left : Leave(d, how)
    BY <1>1 DEF DispatchAlreadyActive, LoadClosedPlan, ProviderAccountBusy,
       RefuseExistingReceipts, PreflightFails, RefuseCapacityRecheck, LeaveSlotLoop,
       RefuseRun, Left
  <2>. QED
    BY <2>1 DEF Leave, Left
<1>2. CASE \E verdict \in {"rejected", "error"} : CapacityRefused(d, verdict)
  BY <1>2 DEF CapacityRefused
<1>3. CASE LockProviderAccount(d) \/ AllAccountsLocked(d) \/ ExclusiveDispatchLock(d)
  BY <1>3 DEF LockProviderAccount, AllAccountsLocked, ExclusiveDispatchLock, Goto
<1>4. CASE \E a \in AuthIds : LoadDispatchPlan(d, a)
  BY <1>4 DEF LoadDispatchPlan, Goto
<1>5. CASE RunPreflight(d) \/ StartCapacityRecheck(d) \/ CapacityAccepted(d)
  BY <1>5 DEF RunPreflight, StartCapacityRecheck, CapacityAccepted, Goto
<1>. QED
  BY <1>1, <1>2, <1>3, <1>4, <1>5 DEF Dispatch

LEMMA RunTaskQuiet ==
    ASSUME TypeInv, NEW d \in Invocations, RunTask(d)
    PROVE  \/ Quiet
           \/ \E c \in Charges, success \in BOOLEAN :
                \E r \in RunReceipts(d, c) : FinishRun(d, c, r, success)
<1>. USE DEF TypeInv, TypeOK, LocalTypes, ChildTypes, Quiet, Snapshot, files, local
<1>1. CASE ValidateStudyConfig(d) \/ BeginRun(d) \/ KidLocksAccount(d)
  BY <1>1 DEF ValidateStudyConfig, BeginRun, KidLocksAccount, child
<1>2. CASE \/ RefuseStudyConfig(d) \/ KidAccountBusy(d)
           \/ \E c \in Charges, success \in BOOLEAN : FinishWithoutReceipt(d, c, success)
  BY <1>2 DEF RefuseStudyConfig, KidAccountBusy, FinishWithoutReceipt, KidExits
<1>. QED
  BY <1>1, <1>2 DEF RunTask

LEMMA OtherStepsQuiet ==
    ASSUME TypeInv,
           \/ \E d \in Invocations : Kill(d)
           \/ Operator \/ OtherConsumer \/ UNCHANGED vars
    PROVE  Quiet
<1>. USE DEF TypeInv, TypeOK, LocalTypes, ChildTypes, Quiet, Snapshot, files, local, child
<1>1. ASSUME NEW d \in Invocations, Kill(d)
      PROVE  Quiet
  BY <1>1 DEF Kill, Crash, KidKilled, KidExits, Goto, Alive
<1>2. CASE Operator \/ OtherConsumer \/ UNCHANGED vars
  BY <1>2 DEF Operator, ReadForAuthorization, WriteAuthorization, AuthorizationRefused,
     Publish, Expire, OtherConsumer, ExternalTakes, ExternalReleases, vars
<1>. QED
  BY <1>1, <1>2

(* A run that may append writes the next slot of the order, and the spend  *)
(* its dispatcher reserved against is the spend of the whole log.          *)
LEMMA FinishRunRecords ==
    ASSUME TypeInv, Order, NEW d \in Invocations, NEW c \in Charges,
           NEW success \in BOOLEAN, NEW r \in RunReceipts(d, c),
           FinishRun(d, c, r, success)
    PROVE  /\ r \in Receipt /\ r.slot = Len(log) + 1 /\ r.slot <= NSlots
           /\ n[d] = Len(log) /\ AllCompleted /\ total + Cap <= StudyCeiling
<1>1. Len(log) \in Nat /\ DOMAIN log = 1 .. Len(log) /\ n[d] \in Nat
  BY LenProperties, ConstantsAssumption DEF TypeInv, TypeOK, FileTypes, LocalTypes
<1>2. r \in Receipt /\ r.slot = n[d] + 1 /\ r.slot \in 1 .. NSlots
  BY RunReceiptsType, ReceiptFields DEF FinishRun, Alive
<1>3. Faithful(d) /\ spend[d] + Cap <= StudyCeiling
  BY DEF Order, Snapshot, FinishRun
<1>4. n[d] = Len(log)
  <2>1. \A i \in DOMAIN log : log[i].slot = i /\ log[i].slot # n[d] + 1
    BY DEF FinishRun, AppendRefused, Order, ExecutionPrefix
  <2>2. n[d] <= Len(log)
    BY <1>3 DEF Faithful
  <2>3. n[d] + 1 \notin DOMAIN log
    BY <2>1
  <2>. QED
    BY <1>1, <2>2, <2>3
<1>5. AllCompleted /\ spend[d] = total
  BY <1>3, <1>4 DEF Faithful
<1>6. r.slot <= NSlots
  BY <1>2, ConstantsAssumption
<1>. QED
  BY <1>2, <1>3, <1>4, <1>5, <1>6

LEMMA FinishRunKeepsOrder ==
    ASSUME TypeInv, Order, NEW d \in Invocations, NEW c \in Charges,
           NEW success \in BOOLEAN, NEW r \in RunReceipts(d, c),
           FinishRun(d, c, r, success)
    PROVE  Order'
<1>1. /\ log' = Append(log, r) /\ total' = total + r.cost
      /\ UNCHANGED <<pc, n, spend>>
      /\ \A e \in Invocations : kid'[e] # "none" => kid[e] # "none"
  BY DEF FinishRun, KidExits, TypeInv, TypeOK, ChildTypes
<1>2. /\ r \in Receipt /\ r.slot = Len(log) + 1 /\ AllCompleted
      /\ log \in Seq(Receipt)
  BY FinishRunRecords DEF TypeInv, TypeOK, FileTypes
<1>3. /\ Len(log) \in Nat /\ Len(log') = Len(log) + 1
      /\ DOMAIN log = 1 .. Len(log) /\ DOMAIN log' = 1 .. Len(log) + 1
      /\ log'[Len(log) + 1] = r
      /\ \A i \in 1 .. Len(log) : log'[i] = log[i]
  BY <1>1, <1>2, AppendProperties, LenProperties
<1>4. ExecutionPrefix'
  BY <1>2, <1>3 DEF ExecutionPrefix, Order, AllCompleted
<1>5. ASSUME NEW e \in Invocations, Snapshot(e)'
      PROVE  Faithful(e)'
  <2>1. Faithful(e) /\ n[e] \in Nat
    BY <1>1, <1>5, ConstantsAssumption
       DEF Order, Snapshot, TypeInv, TypeOK, LocalTypes
  <2>. QED
    BY <1>1, <1>3, <2>1 DEF Faithful
<1>. QED
  BY <1>1, <1>4, <1>5 DEF Order

LEMMA NextKeepsOrder == TypeInv /\ Order /\ [Next]_vars => Order'
<1>. SUFFICES ASSUME TypeInv, Order, [Next]_vars PROVE Order'
  OBVIOUS
<1>1. ASSUME NEW d \in Invocations, ReadExistingReceipts(d)
      PROVE  Order'
  <2>1. n[d]' = Len(log) /\ spend[d]' = total /\ AllCompleted
    BY <1>1 DEF ReadExistingReceipts, ReceiptsAccepted, TypeInv, TypeOK, LocalTypes
  <2>2. Len(log) \in Nat
    BY LenProperties DEF TypeInv, TypeOK, FileTypes
  <2>3. /\ UNCHANGED <<log, total, kid>> /\ kid[d] = "none"
        /\ \A e \in Invocations \ {d} : UNCHANGED <<n[e], spend[e], pc[e]>>
    BY <1>1 DEF ReadExistingReceipts, Goto, TypeInv, TypeOK, LocalTypes, Control, Left,
       files, child
  <2>. QED
    BY <2>1, <2>2, <2>3
       DEF Order, Snapshot, Faithful, ExecutionPrefix, AllCompleted, Completed
<1>2. ASSUME NEW d \in Invocations, StartRunTask(d)
      PROVE  Order'
  <2>1. auths[plan[d]] \in Authorization
    BY <1>2, ElementOfSeq, LenProperties
       DEF StartRunTask, TypeInv, TypeOK, FileTypes, Control, Bound
  <2>2. auths[plan[d]].ceiling <= StudyCeiling /\ auths[plan[d]].ceiling \in Nat
    BY <2>1, ConstantsAssumption DEF Authorization
  <2>3. spend[d] + Cap <= StudyCeiling
    BY <1>2, <2>2, ConstantsAssumption
       DEF StartRunTask, ReserveCovered, TypeInv, TypeOK, LocalTypes
  <2>4. /\ UNCHANGED <<log, total, n, spend>> /\ Snapshot(d)
        /\ \A e \in Invocations \ {d} : UNCHANGED <<kid[e], pc[e]>>
    BY <1>2 DEF StartRunTask, Goto, TypeInv, TypeOK, LocalTypes, ChildTypes, files, Snapshot
  <2>. QED
    BY <2>3, <2>4 DEF Order, Snapshot, Faithful, ExecutionPrefix, AllCompleted, Completed
<1>3. ASSUME NEW d \in Invocations, AcceptRun(d)
      PROVE  Order'
  <2>1. /\ Len(log) \in Nat /\ DOMAIN log = 1 .. Len(log)
        /\ Len(log) = n[d] + 1 /\ Completed(log[Len(log)])
        /\ n[d] \in Nat
    BY <1>3, LenProperties, ConstantsAssumption
       DEF AcceptRun, RunAccepted, TypeInv, TypeOK, FileTypes, LocalTypes
  <2>2. total = spend[d] + log[Len(log)].cost
    BY <1>3, <2>1 DEF Order, Snapshot, Faithful, AcceptRun
  <2>3. AllCompleted
    BY <2>1 DEF Order, ExecutionPrefix, AllCompleted
  <2>4. n[d]' = Len(log) /\ spend[d]' = total
    BY <1>3, <2>1, <2>2 DEF AcceptRun, TypeInv, TypeOK, LocalTypes
  <2>5. /\ UNCHANGED <<log, total>> /\ kid[d]' = "none"
        /\ \A e \in Invocations \ {d} : UNCHANGED <<n[e], spend[e], pc[e], kid[e]>>
    BY <1>3 DEF AcceptRun, Goto, TypeInv, TypeOK, LocalTypes, ChildTypes, files
  <2>. QED
    BY <2>1, <2>3, <2>4, <2>5
       DEF Order, Snapshot, Faithful, ExecutionPrefix, AllCompleted, Completed
<1>4. ASSUME NEW d \in Invocations, NEW c \in Charges, NEW success \in BOOLEAN,
             NEW r \in RunReceipts(d, c), FinishRun(d, c, r, success)
      PROVE  Order'
  BY <1>4, FinishRunKeepsOrder
<1>5. CASE Quiet
  BY <1>5, QuietKeepsOrder
<1>. QED
  BY <1>1, <1>2, <1>3, <1>4, <1>5, DispatchQuiet, RunTaskQuiet, OtherStepsQuiet DEF Next

LEMMA SpecOrder == Spec => [](TypeInv /\ Order)
<1>1. Init => Order
  BY DEF Init, Order, ExecutionPrefix, Snapshot
<1>. QED
  BY <1>1, InitTypeInv, NextKeepsTypes, NextKeepsOrder, PTL DEF Spec

(* The receipt log is an exact prefix of the execution order, and only its *)
(* last receipt can be a failure.                                          *)
THEOREM LogIsExecutionPrefix == Spec => []ExecutionPrefix
<1>1. Order => ExecutionPrefix
  BY DEF Order
<1>. QED
  BY <1>1, SpecOrder, PTL

(* Whatever is killed or runs at the same time, the log behaves as the     *)
(* study ledger the dispatcher promises: slots in order, nothing behind a  *)
(* failure, and a whole slot's cap left under the study ceiling each time. *)
THEOREM ImplementsStudyLedger == Spec => LedgerSpec
<1>1. Init => Ledger!Init
  BY DEF Init, Ledger!Init
<1>2. TypeInv /\ Order /\ [Next]_vars => [Ledger!Next]_Ledger!vars
  <2>. SUFFICES ASSUME TypeInv, Order, [Next]_vars PROVE [Ledger!Next]_Ledger!vars
    OBVIOUS
  <2>1. ASSUME UNCHANGED <<log, total>>
        PROVE  [Ledger!Next]_Ledger!vars
    BY <2>1 DEF Ledger!vars
  <2>2. ASSUME NEW d \in Invocations, NEW c \in Charges, NEW success \in BOOLEAN,
               NEW r \in RunReceipts(d, c), FinishRun(d, c, r, success)
        PROVE  Ledger!Next
    <3>1. Ledger!Record(r)
      BY <2>2, FinishRunRecords
         DEF Ledger!Record, Ledger!Completed, AllCompleted, Completed, FinishRun
    <3>. QED
      BY <2>2, <3>1, FinishRunRecords DEF Ledger!Next
  <2>3. ASSUME NEW d \in Invocations,
               ReadExistingReceipts(d) \/ StartRunTask(d) \/ AcceptRun(d)
        PROVE  UNCHANGED <<log, total>>
    BY <2>3 DEF ReadExistingReceipts, StartRunTask, AcceptRun, files
  <2>4. Quiet => UNCHANGED <<log, total>>
    BY DEF Quiet
  <2>. QED
    BY <2>1, <2>2, <2>3, <2>4, DispatchQuiet, RunTaskQuiet, OtherStepsQuiet DEF Next
<1>. QED
  BY <1>1, <1>2, SpecOrder, PTL DEF Spec, LedgerSpec, Ledger!Spec

-----------------------------------------------------------------------------
(* The files                                                               *)

LEMMA ApprovalIds ==
    ASSUME TypeInv
    PROVE  /\ auths \in Seq(Authorization) /\ Len(auths) \in Nat
           /\ DOMAIN auths = 1 .. Len(auths) /\ DOMAIN auths \subseteq AuthIds
           /\ \A a \in DOMAIN auths : auths[a] \in Authorization
<1>1. /\ auths \in Seq(Authorization) /\ Len(auths) <= MaxAuths
      /\ Len(auths) \in Nat /\ DOMAIN auths = 1 .. Len(auths)
  BY LenProperties DEF TypeInv, TypeOK, FileTypes
<1>. QED
  BY <1>1, ElementOfSeq, ConstantsAssumption DEF AuthIds

(* An approval is written behind the ones there are.                       *)
LEMMA ApprovalWritten ==
    ASSUME TypeInv, WriteAuthorization
    PROVE  \E new \in Authorization :
             /\ new.start = draft.start /\ new.end = BatchEnd(draft.start)
             /\ DOMAIN auths' = 1 .. Len(auths) + 1 /\ Len(auths) + 1 \in AuthIds
             /\ auths'[Len(auths) + 1] = new
             /\ \A a \in DOMAIN auths : auths'[a] = auths[a]
<1>. DEFINE new == [start |-> draft.start, end |-> BatchEnd(draft.start),
                    ceiling |-> AuthorizedBatchCeiling(draft.start, draft.spent),
                    published |-> FALSE, fresh |-> TRUE, recheck |-> "none"]
<1>1. draft.start \in 0 .. NSlots /\ draft.spent \in Nat
  BY DEF TypeInv, TypeOK, FileTypes
<1>2. /\ BatchEnd(draft.start) \in 0 .. NSlots
      /\ AuthorizedBatchCeiling(draft.start, draft.spent) \in 0 .. StudyCeiling
  BY <1>1, BatchEndType, CeilingType, ConstantsAssumption DEF WriteAuthorization
<1>3. new \in Authorization
  BY <1>1, <1>2 DEF Authorization
<1>4. new.start = draft.start /\ new.end = BatchEnd(draft.start)
  OBVIOUS
<1>5. auths' = Append(auths, new) /\ Len(auths) < MaxAuths
  BY DEF WriteAuthorization
<1>. HIDE DEF new
<1>6. /\ Len(auths) \in Nat /\ DOMAIN auths = 1 .. Len(auths)
      /\ auths' \in Seq(Authorization) /\ Len(auths') = Len(auths) + 1
      /\ auths'[Len(auths) + 1] = new
      /\ \A a \in 1 .. Len(auths) : auths'[a] = auths[a]
  BY <1>3, <1>5, ApprovalIds, AppendProperties
<1>7. DOMAIN auths' = 1 .. Len(auths) + 1
  BY <1>6, LenProperties
<1>. QED
  BY <1>3, <1>4, <1>5, <1>6, <1>7, ConstantsAssumption DEF AuthIds

-----------------------------------------------------------------------------
(* Gated studies: one approval, one invocation, one batch                  *)
(* The protocols before the capacity gate have none of this: there an      *)
(* orphaned child may append, or run, behind the back of a later one.      *)

(* Steps at which an invocation or its child relies on the accounts.       *)
Working(d) ==
    pc[d] \in {"checking", "preflight", "recheck", "probing", "slots", "waiting"} \/ Alive(d)

(* Steps at which no run of the slot has been recorded.                    *)
Positioned(d) == pc[d] \in {"preflight", "recheck", "probing", "slots"} \/ Alive(d)

(* The accounts are a lock around reading the receipts, the runs and the   *)
(* appends: whoever works holds them all, knows the length of the log, and *)
(* what runs writes in the directory of the next slot.                     *)
Exclusive ==
    \A d \in Invocations :
        /\ Working(d) => held[d] = NAccounts
        /\ Positioned(d) => n[d] = Len(log)
        /\ kid[d] = "running" => out[n[d] + 1] = d

GatedInv == TypeInv /\ Owned /\ Order /\ Exclusive /\ ReceiptDescribesOutput

(* Account 1 has one owner.                                                *)
LEMMA OneWorks ==
    ASSUME TypeInv, Owned, Exclusive, NEW d \in Invocations, NEW e \in Invocations,
           Working(d), Working(e)
    PROVE  d = e
<1>1. 1 \in 1 .. NAccounts
  BY ConstantsAssumption
<1>. QED
  BY <1>1 DEF Owned, Exclusive

(* Steps that neither record nor start a run, nor move an invocation to a  *)
(* step where it relies on more than before.                               *)
Calm ==
    /\ UNCHANGED <<log, out, n>>
    /\ \A e \in Invocations :
         /\ Working(e)' => Working(e) /\ held'[e] = held[e]
         /\ Positioned(e)' => Positioned(e)
         /\ kid'[e] = "running" => kid[e] = "running"

LEMMA CalmKeepsExclusive ==
    ASSUME Exclusive, ReceiptDescribesOutput, Calm
    PROVE  Exclusive' /\ ReceiptDescribesOutput'
BY DEF Exclusive, ReceiptDescribesOutput, Calm

LEMMA DispatchCalm ==
    ASSUME Gated, TypeInv, NEW d \in Invocations, Dispatch(d)
    PROVE  Calm \/ AllAccountsLocked(d) \/ ReadExistingReceipts(d) \/ AcceptRun(d)
<1>. USE DEF TypeInv, TypeOK, LocalTypes, ChildTypes, Calm, Working, Positioned, Alive,
     files, child
<1>1. CASE \/ DispatchAlreadyActive(d) \/ LoadClosedPlan(d) \/ ProviderAccountBusy(d)
           \/ RefuseExistingReceipts(d) \/ PreflightFails(d)
           \/ RefuseCapacityRecheck(d) \/ LeaveSlotLoop(d) \/ RefuseRun(d)
  <2>1. PICK how \in Left : Leave(d, how)
    BY <1>1 DEF DispatchAlreadyActive, LoadClosedPlan, ProviderAccountBusy,
       RefuseExistingReceipts, PreflightFails, RefuseCapacityRecheck, LeaveSlotLoop,
       RefuseRun, Left
  <2>2. ~Alive(d)
    BY <1>1 DEF DispatchAlreadyActive, LoadClosedPlan, ProviderAccountBusy,
       RefuseExistingReceipts, PreflightFails, RefuseCapacityRecheck, LeaveSlotLoop,
       RefuseRun, Left, Control
  <2>. QED
    BY <2>1, <2>2 DEF Leave, Left
<1>2. CASE \E verdict \in {"rejected", "error"} : CapacityRefused(d, verdict)
  <2>1. ~Alive(d)
    BY <1>2 DEF CapacityRefused, Control, Left
  <2>. QED
    BY <1>2, <2>1 DEF CapacityRefused
<1>3. CASE LockProviderAccount(d) \/ ExclusiveDispatchLock(d)
  <2>1. ~Alive(d)
    BY <1>3 DEF LockProviderAccount, ExclusiveDispatchLock, Control, Left
  <2>. QED
    BY <1>3, <2>1 DEF LockProviderAccount, ExclusiveDispatchLock, Goto, locks
<1>4. CASE \E a \in AuthIds : LoadDispatchPlan(d, a)
  BY <1>4 DEF LoadDispatchPlan, Goto
<1>5. CASE RunPreflight(d) \/ StartCapacityRecheck(d) \/ CapacityAccepted(d)
  BY <1>5 DEF RunPreflight, StartCapacityRecheck, CapacityAccepted, Goto
<1>6. CASE StartRunTask(d)
  BY <1>6 DEF StartRunTask, Goto
<1>. QED
  BY <1>1, <1>2, <1>3, <1>4, <1>5, <1>6 DEF Dispatch

LEMMA KidExitsCalm ==
    ASSUME Gated, TypeInv, NEW d \in Invocations, NEW success \in BOOLEAN,
           Alive(d), KidExits(d, success), UNCHANGED <<log, out>>
    PROVE  Calm
BY DEF TypeInv, TypeOK, LocalTypes, ChildTypes, Calm, Working, Positioned, Alive, KidExits

LEMMA RunTaskCalm ==
    ASSUME Gated, TypeInv, NEW d \in Invocations, RunTask(d)
    PROVE  \/ Calm \/ BeginRun(d)
           \/ \E c \in Charges, success \in BOOLEAN :
                \E r \in RunReceipts(d, c) : FinishRun(d, c, r, success)
<1>1. CASE ValidateStudyConfig(d)
  BY <1>1 DEF ValidateStudyConfig, TypeInv, TypeOK, LocalTypes, ChildTypes, Calm, Working,
     Positioned, Alive, files, local
<1>2. CASE KidLocksAccount(d)
  BY <1>2 DEF KidLocksAccount
<1>3. CASE \/ RefuseStudyConfig(d) \/ KidAccountBusy(d)
           \/ \E c \in Charges, success \in BOOLEAN : FinishWithoutReceipt(d, c, success)
  BY <1>3, KidExitsCalm
     DEF RefuseStudyConfig, KidAccountBusy, FinishWithoutReceipt, Alive, files
<1>. QED
  BY <1>1, <1>2, <1>3 DEF RunTask

LEMMA OtherStepsCalm ==
    ASSUME Gated, TypeInv,
           \/ \E d \in Invocations : Kill(d)
           \/ Operator \/ OtherConsumer \/ UNCHANGED vars
    PROVE  Calm
<1>1. ASSUME NEW d \in Invocations, Crash(d)
      PROVE  Calm
  BY <1>1 DEF Crash, Goto, TypeInv, TypeOK, LocalTypes, ChildTypes, Calm, Working,
     Positioned, Alive, files, child
<1>2. ASSUME NEW d \in Invocations, NEW c \in Charges \cup {0}, NEW tears \in BOOLEAN,
             KidKilled(d, c, tears)
      PROVE  Calm
  BY <1>2, KidExitsCalm DEF KidKilled
<1>3. CASE Operator \/ OtherConsumer \/ UNCHANGED vars
  BY <1>3 DEF Operator, ReadForAuthorization, WriteAuthorization, AuthorizationRefused,
     Publish, Expire, OtherConsumer, ExternalTakes, ExternalReleases, vars, Calm, Working,
     Positioned, Alive, files, local, child
<1>. QED
  BY <1>1, <1>2, <1>3 DEF Kill

(* A run begins in the directory of the next slot, which no receipt is of. *)
LEMMA BeginRunKeepsExclusive ==
    ASSUME GatedInv, NEW d \in Invocations, BeginRun(d)
    PROVE  Exclusive' /\ ReceiptDescribesOutput'
<1>1. Working(d) /\ n[d] = Len(log) /\ held[d] = NAccounts
  BY DEF GatedInv, Exclusive, BeginRun, Working, Positioned, Alive
<1>2. \A e \in Invocations : e # d => kid[e] # "running"
  BY <1>1, OneWorks DEF GatedInv, Working, Alive
<1>3. /\ UNCHANGED <<log, n, held, pc>>
      /\ kid' = [kid EXCEPT ![d] = "running"]
      /\ out' = [out EXCEPT ![n[d] + 1] = d]
  BY DEF BeginRun, locks, local
<1>4. Len(log) \in Nat /\ DOMAIN log = 1 .. Len(log) /\ n[d] + 1 \in Slots
  <2>1. log \in Seq(Receipt) /\ n[d] \in 0 .. NSlots /\ n[d] < NSlots
    BY DEF GatedInv, TypeInv, TypeOK, FileTypes, LocalTypes, Control, BeginRun
  <2>2. Len(log) \in Nat /\ DOMAIN log = 1 .. Len(log)
    BY <2>1, LenProperties
  <2>. QED
    BY <2>1, <2>2, ConstantsAssumption DEF Slots
<1>5. \A i \in DOMAIN log : i # n[d] + 1
  BY <1>1, <1>4
<1>6. ReceiptDescribesOutput'
  BY <1>3, <1>5 DEF GatedInv, ReceiptDescribesOutput, TypeInv, TypeOK, FileTypes
<1>7. Exclusive'
  BY <1>1, <1>2, <1>3, <1>4
     DEF GatedInv, Exclusive, Working, Positioned, Alive, TypeInv, TypeOK, FileTypes, ChildTypes
<1>. QED
  BY <1>6, <1>7

(* A receipt is appended by the run whose directory is the slot's.         *)
LEMMA FinishRunKeepsExclusive ==
    ASSUME Gated, GatedInv, NEW d \in Invocations, NEW c \in Charges,
           NEW success \in BOOLEAN, NEW r \in RunReceipts(d, c),
           FinishRun(d, c, r, success)
    PROVE  Exclusive' /\ ReceiptDescribesOutput'
<1>1. Alive(d) /\ Working(d) /\ n[d] = Len(log) /\ out[n[d] + 1] = d /\ r.by = d
  BY DEF GatedInv, Exclusive, FinishRun, Working, Positioned, Alive, RunReceipts
<1>2. \A e \in Invocations : e # d => ~Working(e)
  BY <1>1, OneWorks DEF GatedInv
<1>3. /\ r \in Receipt /\ log \in Seq(Receipt) /\ log' = Append(log, r)
      /\ UNCHANGED <<out, n, pc>>
      /\ kid' = [kid EXCEPT ![d] = "exited"]
  BY <1>1, RunReceiptsType DEF GatedInv, FinishRun, KidExits, TypeInv, TypeOK, FileTypes
<1>4. /\ Len(log) \in Nat /\ DOMAIN log = 1 .. Len(log)
      /\ DOMAIN log' = 1 .. Len(log) + 1 /\ log'[Len(log) + 1] = r
      /\ \A i \in 1 .. Len(log) : log'[i] = log[i]
  BY <1>3, AppendProperties, LenProperties
<1>5. ReceiptDescribesOutput'
  BY <1>1, <1>3, <1>4 DEF GatedInv, ReceiptDescribesOutput
<1>6. pc[d] \in {"waiting"} \cup Left
  BY <1>1 DEF GatedInv, TypeInv, Control, Alive
<1>7. ~Positioned(d)' /\ kid'[d] # "running"
  BY <1>3, <1>6 DEF Positioned, Alive, Left, GatedInv, TypeInv, TypeOK, ChildTypes
<1>8. Working(d)' => held'[d] = NAccounts
  BY <1>1, <1>3 DEF FinishRun, KidExits, GatedInv, Exclusive, Working, Alive, TypeInv, TypeOK,
     ChildTypes
<1>9. ASSUME NEW e \in Invocations, e # d
      PROVE  ~Working(e)' /\ ~Positioned(e)' /\ kid'[e] # "running"
  BY <1>2, <1>3, <1>9 DEF Working, Positioned, Alive, GatedInv, TypeInv, TypeOK, ChildTypes
<1>. QED
  BY <1>5, <1>7, <1>8, <1>9 DEF Exclusive

LEMMA NextKeepsExclusive ==
    Gated /\ GatedInv /\ [Next]_vars => Exclusive' /\ ReceiptDescribesOutput'
<1>. SUFFICES ASSUME Gated, GatedInv, [Next]_vars
              PROVE  Exclusive' /\ ReceiptDescribesOutput'
  OBVIOUS
<1>1. ASSUME NEW d \in Invocations, AllAccountsLocked(d)
      PROVE  Exclusive' /\ ReceiptDescribesOutput'
  BY <1>1 DEF AllAccountsLocked, Goto, GatedInv, Exclusive, ReceiptDescribesOutput, Working,
     Positioned, Alive, TypeInv, TypeOK, LocalTypes, files, child
<1>2. ASSUME NEW d \in Invocations, ReadExistingReceipts(d)
      PROVE  Exclusive' /\ ReceiptDescribesOutput'
  <2>1. kid[d] = "none"
    BY <1>2 DEF ReadExistingReceipts, GatedInv, TypeInv, Control, Left
  <2>. QED
    BY <1>2, <2>1 DEF ReadExistingReceipts, Goto, GatedInv, Exclusive, ReceiptDescribesOutput,
       Working, Positioned, Alive, TypeInv, TypeOK, LocalTypes, files, child
<1>3. ASSUME NEW d \in Invocations, AcceptRun(d)
      PROVE  Exclusive' /\ ReceiptDescribesOutput'
  BY <1>3 DEF AcceptRun, RunAccepted, Goto, GatedInv, Exclusive, ReceiptDescribesOutput,
     Working, Positioned, Alive, TypeInv, TypeOK, LocalTypes, ChildTypes, files
<1>4. CASE Calm
  BY <1>4, CalmKeepsExclusive DEF GatedInv
<1>. QED
  BY <1>1, <1>2, <1>3, <1>4, DispatchCalm, RunTaskCalm, OtherStepsCalm,
     BeginRunKeepsExclusive, FinishRunKeepsExclusive DEF GatedInv, Next

LEMMA SpecGated == ASSUME Gated PROVE Spec => []GatedInv
<1>1. Init => Owned /\ Order /\ Exclusive /\ ReceiptDescribesOutput
  BY ConstantsAssumption
     DEF Init, Owned, Order, Exclusive, ReceiptDescribesOutput, ExecutionPrefix, Snapshot,
         Working, Positioned, Alive
<1>2. Init => GatedInv
  BY <1>1, InitTypeInv DEF GatedInv
<1>3. GatedInv /\ [Next]_vars => GatedInv'
  BY NextKeepsTypes, NextKeepsOwned, NextKeepsOrder, NextKeepsExclusive DEF GatedInv
<1>. QED
  BY <1>2, <1>3, PTL DEF Spec

(* In a gated study the directory of a recorded slot is the one that the   *)
(* recorded run wrote (BeginRun, append_receipt).                          *)
THEOREM OutputIsTheReceipts == ASSUME Gated PROVE Spec => []ReceiptDescribesOutput
<1>1. GatedInv => ReceiptDescribesOutput
  BY DEF GatedInv
<1>. QED
  BY <1>1, SpecGated, PTL

(* ... and no agent starts behind a trial that is not completed: what its  *)
(* dispatcher read is still the whole log.                                 *)
THEOREM FailsClosed == ASSUME Gated PROVE Spec => NoAgentBehindFailure
<1>1. GatedInv /\ [Next]_vars =>
        [\A d \in Invocations :
           kid[d] # "running" /\ kid'[d] = "running" => AllCompleted]_vars
  <2>. SUFFICES ASSUME GatedInv, [Next]_vars, NEW d \in Invocations,
                       kid[d] # "running", kid'[d] = "running"
                PROVE  AllCompleted
    OBVIOUS
  <2>1. ASSUME NEW e \in Invocations, BeginRun(e)
        PROVE  AllCompleted
    BY <2>1 DEF BeginRun, GatedInv, Exclusive, Positioned, Alive, Order, Snapshot, Faithful
  <2>2. ASSUME NEW e \in Invocations,
               AllAccountsLocked(e) \/ ReadExistingReceipts(e) \/ AcceptRun(e)
        PROVE  kid'[d] = "running" => kid[d] = "running"
    BY <2>2 DEF AllAccountsLocked, ReadExistingReceipts, AcceptRun, child, GatedInv, TypeInv,
       TypeOK, ChildTypes
  <2>3. ASSUME NEW e \in Invocations, NEW c \in Charges, NEW success \in BOOLEAN,
               NEW r \in RunReceipts(e, c), FinishRun(e, c, r, success)
        PROVE  kid'[d] = "running" => kid[d] = "running"
    BY <2>3 DEF FinishRun, KidExits, GatedInv, TypeInv, TypeOK, ChildTypes
  <2>4. Calm => (kid'[d] = "running" => kid[d] = "running")
    BY DEF Calm
  <2>. QED
    BY <2>1, <2>2, <2>3, <2>4, DispatchCalm, RunTaskCalm, OtherStepsCalm DEF GatedInv, Next
<1>. QED
  BY <1>1, SpecGated, PTL DEF Spec, NoAgentBehindFailure

-----------------------------------------------------------------------------
(* An approval is for one invocation *)

(* An invocation past the start of the recheck, or its child.              *)
Using(d) == pc[d] \in {"probing", "slots", "waiting"} \/ kid[d] # "none"

Spends(d, a) == plan[d] = a /\ (Using(d) \/ d \in runBy[a])

(* Whoever uses an approval left its started file, so nobody else could:   *)
(* the file is made by the one who finds none, and is never removed.       *)
OneSpends ==
    \A a \in AuthIds :
        /\ \A d \in runBy[a] : plan[d] = a /\ pc[d] \in {"slots", "waiting"} \cup Left
        /\ \A d \in Invocations :
              Spends(d, a) => a \in DOMAIN auths /\ auths[a].recheck # "none"
        /\ \A d, e \in Invocations : Spends(d, a) /\ Spends(e, a) => d = e

(* Steps that name no approval, claim none and start no run.               *)
NoClaim ==
    /\ UNCHANGED <<plan, runBy>>
    /\ \A e \in Invocations :
         /\ Using(e)' => Using(e)
         /\ pc[e] \in {"slots", "waiting"} \cup Left => pc'[e] \in {"slots", "waiting"} \cup Left
    /\ \A a \in DOMAIN auths :
         a \in DOMAIN auths' /\ (auths[a].recheck # "none" => auths'[a].recheck # "none")

LEMMA NoClaimKeepsOneSpends ==
    ASSUME TypeInv, OneSpends, NoClaim
    PROVE  OneSpends'
BY DEF OneSpends, NoClaim, Spends, TypeInv, TypeOK, HistoryTypes

(* What a step may do to the approvals without unclaiming one.             *)
LEMMA RecheckStays ==
    ASSUME TypeInv,
           \/ UNCHANGED auths
           \/ \E d \in Invocations, s \in {"accepted", "rejected", "error"} :
                 pc[d] = "probing" /\ auths' = [auths EXCEPT ![plan[d]].recheck = s]
           \/ WriteAuthorization
           \/ \E a \in AuthIds : Publish(a) \/ Expire(a)
    PROVE  \A a \in DOMAIN auths :
             a \in DOMAIN auths' /\ (auths[a].recheck # "none" => auths'[a].recheck # "none")
<1>0. auths \in Seq(Authorization) /\ \A a \in DOMAIN auths : auths[a] \in Authorization
  BY ApprovalIds
<1>1. ASSUME NEW d \in Invocations, NEW s \in {"accepted", "rejected", "error"},
             auths' = [auths EXCEPT ![plan[d]].recheck = s], NEW a \in DOMAIN auths
      PROVE  a \in DOMAIN auths' /\ (auths[a].recheck # "none" => auths'[a].recheck # "none")
  BY <1>0, <1>1 DEF Authorization
<1>2. ASSUME WriteAuthorization, NEW a \in DOMAIN auths
      PROVE  a \in DOMAIN auths' /\ (auths[a].recheck # "none" => auths'[a].recheck # "none")
  BY <1>2, ApprovalIds, ApprovalWritten
<1>3. ASSUME NEW b \in AuthIds, Publish(b) \/ Expire(b), NEW a \in DOMAIN auths
      PROVE  a \in DOMAIN auths' /\ (auths[a].recheck # "none" => auths'[a].recheck # "none")
  BY <1>0, <1>3 DEF Publish, Expire, Authorization
<1>. QED
  BY <1>1, <1>2, <1>3

LEMMA DispatchNoClaim ==
    ASSUME Gated, TypeInv, NEW d \in Invocations, Dispatch(d)
    PROVE  NoClaim \/ (\E a \in AuthIds : LoadDispatchPlan(d, a)) \/ StartCapacityRecheck(d)
<1>. USE DEF TypeInv, TypeOK, LocalTypes, ChildTypes, NoClaim, Using, files, child, history
<1>1. CASE \/ DispatchAlreadyActive(d) \/ LoadClosedPlan(d) \/ ProviderAccountBusy(d)
           \/ RefuseExistingReceipts(d) \/ PreflightFails(d)
           \/ RefuseCapacityRecheck(d) \/ LeaveSlotLoop(d) \/ RefuseRun(d)
  <2>1. PICK how \in Left : Leave(d, how)
    BY <1>1 DEF DispatchAlreadyActive, LoadClosedPlan, ProviderAccountBusy,
       RefuseExistingReceipts, PreflightFails, RefuseCapacityRecheck, LeaveSlotLoop,
       RefuseRun, Left
  <2>. QED
    BY <2>1 DEF Leave, Left
<1>2. CASE (\E verdict \in {"rejected", "error"} : CapacityRefused(d, verdict))
           \/ CapacityAccepted(d)
  <2>1. \E s \in {"accepted", "rejected", "error"} :
          pc[d] = "probing" /\ auths' = [auths EXCEPT ![plan[d]].recheck = s]
    BY <1>2 DEF CapacityRefused, CapacityAccepted
  <2>2. \A a \in DOMAIN auths :
          a \in DOMAIN auths' /\ (auths[a].recheck # "none" => auths'[a].recheck # "none")
    BY <2>1, RecheckStays
  <2>. QED
    BY <1>2, <2>2 DEF CapacityRefused, CapacityAccepted, Goto, Left
<1>3. CASE LockProviderAccount(d) \/ AllAccountsLocked(d) \/ ExclusiveDispatchLock(d)
  BY <1>3 DEF LockProviderAccount, AllAccountsLocked, ExclusiveDispatchLock, Goto, Left
<1>4. CASE ReadExistingReceipts(d) \/ RunPreflight(d)
  BY <1>4 DEF ReadExistingReceipts, RunPreflight, Goto, locks, Left
<1>5. CASE StartRunTask(d) \/ AcceptRun(d)
  BY <1>5 DEF StartRunTask, AcceptRun, Goto, locks, Left
<1>. QED
  BY <1>1, <1>2, <1>3, <1>4, <1>5 DEF Dispatch

LEMMA RunTaskNoClaim ==
    ASSUME TypeInv, NEW d \in Invocations, RunTask(d)
    PROVE  NoClaim \/ BeginRun(d)
BY DEF RunTask, ValidateStudyConfig, RefuseStudyConfig, KidLocksAccount, KidAccountBusy,
   FinishRun, FinishWithoutReceipt, KidExits, TypeInv, TypeOK, LocalTypes, ChildTypes,
   NoClaim, Using, files, local, child, history

LEMMA OtherStepsNoClaim ==
    ASSUME TypeInv,
           \/ \E d \in Invocations : Kill(d)
           \/ Operator \/ OtherConsumer \/ UNCHANGED vars
    PROVE  NoClaim
<1>. USE DEF TypeInv, TypeOK, LocalTypes, ChildTypes, NoClaim, Using, files, local, child,
     history
<1>1. ASSUME NEW d \in Invocations, Kill(d)
      PROVE  NoClaim
  BY <1>1 DEF Kill, Crash, KidKilled, KidExits, Goto, Alive, Left
<1>2. CASE WriteAuthorization \/ \E a \in AuthIds : Publish(a) \/ Expire(a)
  BY <1>2, RecheckStays DEF WriteAuthorization, Publish, Expire
<1>3. CASE ReadForAuthorization \/ AuthorizationRefused \/ OtherConsumer \/ UNCHANGED vars
  BY <1>3 DEF ReadForAuthorization, AuthorizationRefused, OtherConsumer, ExternalTakes,
     ExternalReleases, vars
<1>. QED
  BY <1>1, <1>2, <1>3 DEF Operator

LEMMA NextKeepsOneSpends ==
    ASSUME Gated, TypeInv, OneSpends, [Next]_vars
    PROVE  OneSpends'
<1>1. ASSUME NEW d \in Invocations, NEW b \in AuthIds, LoadDispatchPlan(d, b)
      PROVE  OneSpends'
  <2>1. /\ pc[d] = "locked" /\ kid[d] = "none"
        /\ \A a \in AuthIds : d \notin runBy[a]
    BY <1>1 DEF LoadDispatchPlan, TypeInv, Control, Left, OneSpends
  <2>2. /\ plan' = [plan EXCEPT ![d] = b] /\ pc' = [pc EXCEPT ![d] = "accounts"]
        /\ UNCHANGED <<auths, kid, runBy>>
    BY <1>1 DEF LoadDispatchPlan, Goto, files, child, history
  <2>3. ~Using(d)' /\ \A a \in AuthIds : ~Spends(d, a)'
    BY <2>1, <2>2 DEF Using, Spends, TypeInv, TypeOK, LocalTypes
  <2>4. \A a \in AuthIds, e \in Invocations : e # d => (Spends(e, a)' <=> Spends(e, a))
    BY <2>2 DEF Using, Spends, TypeInv, TypeOK, LocalTypes
  <2>. QED
    BY <2>1, <2>2, <2>3, <2>4 DEF OneSpends, TypeInv, TypeOK, LocalTypes, HistoryTypes
<1>2. ASSUME NEW d \in Invocations, StartCapacityRecheck(d)
      PROVE  OneSpends'
  <2>1. /\ pc[d] = "recheck" /\ plan[d] \in DOMAIN auths /\ auths[plan[d]].recheck = "none"
        /\ kid[d] = "none"
    BY <1>2 DEF StartCapacityRecheck, RecheckMayStart, TypeInv, Control, Bound, Left
  <2>2. /\ auths' = [auths EXCEPT ![plan[d]].recheck = "started"]
        /\ pc' = [pc EXCEPT ![d] = "probing"]
        /\ UNCHANGED <<plan, kid, runBy>>
    BY <1>2 DEF StartCapacityRecheck, Goto, child, history
  <2>3. \A e \in Invocations : ~Spends(e, plan[d])
    BY <2>1, ApprovalIds DEF OneSpends
  <2>4. \A a \in AuthIds, e \in Invocations : e # d => (Spends(e, a)' <=> Spends(e, a))
    BY <2>2 DEF Using, Spends, TypeInv, TypeOK, LocalTypes
  <2>5. \A a \in AuthIds : Spends(d, a)' => a = plan[d]
    BY <2>2 DEF Spends
  <2>6. /\ DOMAIN auths' = DOMAIN auths /\ auths'[plan[d]].recheck = "started"
        /\ \A a \in DOMAIN auths : a # plan[d] => auths'[a] = auths[a]
    <3>1. auths[plan[d]] \in Authorization /\ auths \in Seq(Authorization)
      BY <2>1, ElementOfSeq, LenProperties DEF TypeInv, TypeOK, FileTypes
    <3>. QED
      BY <2>1, <2>2, <3>1 DEF Authorization
  <2>7. ASSUME NEW a \in AuthIds, NEW e \in runBy'[a]
        PROVE  plan'[e] = a /\ pc'[e] \in {"slots", "waiting"} \cup Left
    BY <2>1, <2>2 DEF OneSpends, TypeInv, TypeOK, LocalTypes, HistoryTypes, Left
  <2>8. ASSUME NEW a \in AuthIds, NEW e \in Invocations, Spends(e, a)'
        PROVE  a \in DOMAIN auths' /\ auths'[a].recheck # "none"
    BY <2>1, <2>4, <2>5, <2>6, <2>8 DEF OneSpends
  <2>9. ASSUME NEW a \in AuthIds, NEW e \in Invocations, NEW f \in Invocations,
               Spends(e, a)', Spends(f, a)'
        PROVE  e = f
    BY <2>3, <2>4, <2>5, <2>9 DEF OneSpends
  <2>. QED
    BY <2>7, <2>8, <2>9 DEF OneSpends
<1>3. ASSUME NEW d \in Invocations, BeginRun(d)
      PROVE  OneSpends'
  <2>1. /\ Using(d) /\ plan[d] \in AuthIds /\ pc[d] \in {"waiting"} \cup Left
    BY <1>3, ApprovalIds DEF BeginRun, Using, TypeInv, Control, Bound
  <2>2. /\ kid' = [kid EXCEPT ![d] = "running"]
        /\ runBy' = [runBy EXCEPT ![plan[d]] = @ \cup {d}]
        /\ UNCHANGED <<auths, plan, pc>>
    BY <1>3 DEF BeginRun, local
  <2>3. \A a \in AuthIds, e \in Invocations : Spends(e, a)' <=> Spends(e, a)
    BY <1>3, <2>1, <2>2 DEF BeginRun, Using, Spends, TypeInv, TypeOK, ChildTypes, HistoryTypes
  <2>. QED
    BY <2>1, <2>2, <2>3 DEF OneSpends, TypeInv, TypeOK, HistoryTypes
<1>4. CASE NoClaim
  BY <1>4, NoClaimKeepsOneSpends
<1>. QED
  BY <1>1, <1>2, <1>3, <1>4, DispatchNoClaim, RunTaskNoClaim, OtherStepsNoClaim DEF Next

LEMMA SpecOneSpends == ASSUME Gated PROVE Spec => [](TypeInv /\ OneSpends)
<1>1. Init => OneSpends
  BY DEF Init, OneSpends, Spends, Using
<1>. QED
  BY <1>1, InitTypeInv, NextKeepsTypes, NextKeepsOneSpends, PTL DEF Spec

(* In a gated study an approval starts the agents of one invocation only,  *)
(* whatever is killed, refused or tried again (_write_recheck_exclusive).  *)
THEOREM ApprovalUsedOnce == ASSUME Gated PROVE Spec => []AuthorizationSingleUse
<1>1. TypeInv /\ OneSpends => AuthorizationSingleUse
  <2>. SUFFICES ASSUME TypeInv, OneSpends, NEW a \in AuthIds
                PROVE  Cardinality(runBy[a]) <= 1
    BY DEF AuthorizationSingleUse
  <2>1. \A d, e \in runBy[a] : d = e
    BY DEF OneSpends, Spends, TypeInv, TypeOK, HistoryTypes
  <2>2. CASE runBy[a] = {}
    BY <2>2, FS_EmptySet
  <2>3. ASSUME NEW d \in runBy[a] PROVE Cardinality(runBy[a]) = 1
    <3>1. runBy[a] = {d}
      BY <2>1
    <3>. QED
      BY <3>1, FS_Singleton
  <2>. QED
    BY <2>2, <2>3
<1>. QED
  BY <1>1, SpecOneSpends, PTL

-----------------------------------------------------------------------------
(* What is charged under an approval *)

(* What k slots of a batch may cost.                                       *)
Reserved(k) == Cap * k

LEMMA ReservedSteps ==
    ASSUME NEW k \in Nat
    PROVE  Reserved(k) \in Nat /\ Reserved(k + 1) = Reserved(k) + Cap
BY ConstantsAssumption DEF Reserved

LEMMA ReservedGrows ==
    ASSUME NEW j \in Nat, NEW k \in Nat, j <= k
    PROVE  Reserved(j) <= Reserved(k)
<1>1. PICK i \in Nat : k = j + i
  <2>1. k - j \in Nat /\ k = j + (k - j)
    OBVIOUS
  <2>. QED
    BY <2>1
<1>2. Cap * (j + i) = Cap * j + Cap * i /\ Cap * i \in Nat /\ Cap * j \in Nat
  BY ConstantsAssumption
<1>. QED
  BY <1>1, <1>2 DEF Reserved

(* How far an invocation is in its batch.                                  *)
Used(d) == n[d] - auths[plan[d]].start

InBatch(d) ==
    /\ auths[plan[d]].start <= n[d] /\ n[d] <= auths[plan[d]].end
    /\ target[d] = auths[plan[d]].end
    /\ kid[d] # "none" => n[d] < auths[plan[d]].end

(* Every run but the last stayed within its cap and said so: while no run  *)
(* of the slot is over, the slots that are done have been charged no more  *)
(* than their caps, and a run that is over and on record was charged what  *)
(* its receipt says.                                                       *)
Accounted ==
    /\ \A a \in AuthIds : runBy[a] = {} => charged[a] = 0
    /\ \A a \in DOMAIN auths : auths[a].start <= auths[a].end
    /\ \A d \in Invocations :
         /\ kid[d] = "running" => d \in runBy[plan[d]]
         /\ Snapshot(d) => InBatch(d)
         /\ pc[d] \in {"probing", "slots"} \/ Alive(d)
              => charged[plan[d]] <= Reserved(Used(d))
         /\ pc[d] = "waiting" /\ kid[d] = "exited" /\ Len(log) = n[d] + 1
               /\ Completed(log[Len(log)])
              => charged[plan[d]] <= Reserved(Used(d)) + log[Len(log)].cost

ChargedInv == GatedInv /\ OneSpends /\ Accounted /\ ChargedWithinApproval

(* Steps at which nothing is read, recorded, charged or counted.           *)
Unbilled ==
    /\ UNCHANGED <<log, n, target, plan, charged, runBy>>
    /\ DOMAIN auths' = DOMAIN auths
    /\ \A a \in DOMAIN auths :
         auths'[a].start = auths[a].start /\ auths'[a].end = auths[a].end
    /\ \A e \in Invocations :
         /\ Snapshot(e)' => Snapshot(e)
         /\ kid'[e] # "none" => kid[e] # "none"
         /\ kid'[e] = "running" => kid[e] = "running"
         /\ (pc[e] \in {"probing", "slots"} \/ Alive(e))'
              => pc[e] \in {"probing", "slots"} \/ Alive(e)
         /\ (pc[e] = "waiting" /\ kid[e] = "exited")' => pc[e] = "waiting" /\ kid[e] = "exited"

LEMMA PlanKnown ==
    ASSUME TypeInv, NEW d \in Invocations, Bound(d)
    PROVE  plan[d] \in DOMAIN auths /\ plan[d] \in AuthIds /\ auths[plan[d]] \in Authorization
BY ApprovalIds DEF TypeInv, Control

LEMMA UnbilledKeepsAccounted ==
    ASSUME TypeInv, Accounted, ChargedWithinApproval, Unbilled
    PROVE  Accounted' /\ ChargedWithinApproval'
<1>1. ASSUME NEW e \in Invocations, Snapshot(e)'
      PROVE  /\ plan[e] \in DOMAIN auths /\ InBatch(e) /\ UNCHANGED Used(e)
             /\ InBatch(e)'
  <2>1. Snapshot(e) /\ Bound(e)
    BY <1>1 DEF Unbilled, Snapshot, Bound
  <2>2. plan[e] \in DOMAIN auths /\ InBatch(e)
    BY <2>1, PlanKnown DEF Accounted
  <2>. QED
    BY <2>2 DEF Unbilled, InBatch, Used
<1>2. \A e \in Invocations :
        (pc[e] \in {"probing", "slots", "waiting"} \/ Alive(e))' => Snapshot(e)'
  BY DEF Snapshot, Alive
<1>3. ChargedWithinApproval'
  BY DEF Unbilled, ChargedWithinApproval
<1>4. Accounted'
  BY <1>1, <1>2 DEF Accounted, Unbilled
<1>. QED
  BY <1>3, <1>4

(* The child of d is over, it was charged c, and there is no record of it. *)
EndsUnrecorded(d, c) ==
    /\ Alive(d) /\ kid' = [kid EXCEPT ![d] = "exited"]
    /\ c \in Charges \cup {0} /\ (kid[d] # "running" => c = 0)
    /\ charged' = [charged EXCEPT ![plan[d]] = @ + c]
    /\ UNCHANGED <<log, auths, pc, n, target, plan, runBy>>

(* The last run of a batch may be charged what it likes, once.             *)
LEMMA LastCharge ==
    ASSUME ChargedInv, NEW d \in Invocations, Alive(d), NEW c \in Charges \cup {0},
           charged' = [charged EXCEPT ![plan[d]] = @ + c], UNCHANGED auths
    PROVE  ChargedWithinApproval'
<1>. SUFFICES ASSUME NEW a \in DOMAIN auths, NEW most \in Charges,
                     \A x \in Charges : x <= most, most >= Cap
              PROVE  charged'[a] + Cap <= Cap * (auths[a].end - auths[a].start) + most
  BY DEF ChargedWithinApproval
<1>1. CASE a # plan[d]
  BY <1>1 DEF ChargedInv, ChargedWithinApproval, GatedInv, TypeInv, TypeOK, HistoryTypes
<1>2. CASE a = plan[d]
  <2>1. /\ InBatch(d) /\ n[d] < auths[a].end
        /\ charged[a] <= Reserved(Used(d)) /\ charged[a] \in Nat
        /\ charged'[a] = charged[a] + c
        /\ auths[a] \in Authorization
    BY <1>2, PlanKnown
       DEF ChargedInv, GatedInv, Accounted, InBatch, Snapshot, Alive, Bound, TypeInv, TypeOK,
           HistoryTypes
  <2>2. /\ Used(d) \in Nat /\ auths[a].end - auths[a].start \in Nat
        /\ Used(d) + 1 <= auths[a].end - auths[a].start
    <3>1. /\ auths[a].start \in 0 .. NSlots /\ auths[a].end \in 0 .. NSlots
          /\ n[d] \in 0 .. NSlots
      BY <2>1 DEF Authorization, ChargedInv, GatedInv, TypeInv, TypeOK, LocalTypes
    <3>. QED
      BY <1>2, <2>1, <3>1, ConstantsAssumption DEF InBatch, Used
  <2>3. Reserved(Used(d)) + Cap <= Reserved(auths[a].end - auths[a].start)
    BY <2>2, ReservedSteps, ReservedGrows
  <2>4. c <= most /\ c \in Nat /\ most \in Nat /\ Cap \in Nat
    BY ConstantsAssumption
  <2>5. Reserved(Used(d)) \in Nat /\ Reserved(auths[a].end - auths[a].start) \in Nat
    BY <2>2, ReservedSteps
  <2>. QED
    BY <2>1, <2>3, <2>4, <2>5 DEF Reserved
<1>. QED
  BY <1>1, <1>2

LEMMA EndsUnrecordedKeepsAccounted ==
    ASSUME ChargedInv, NEW d \in Invocations, NEW c, EndsUnrecorded(d, c)
    PROVE  Accounted' /\ ChargedWithinApproval'
<1>. USE DEF ChargedInv, GatedInv
<1>1. ChargedWithinApproval'
  BY LastCharge DEF EndsUnrecorded
<1>2. n[d] = Len(log) /\ Len(log) \in Nat /\ plan[d] \in AuthIds /\ Spends(d, plan[d])
  BY PlanKnown, LenProperties
     DEF EndsUnrecorded, Exclusive, Positioned, Alive, Bound, Spends, Using, TypeInv, TypeOK,
         FileTypes
<1>3. \A a \in AuthIds : runBy'[a] = {} => charged'[a] = 0
  <2>1. c # 0 => d \in runBy[plan[d]]
    BY DEF EndsUnrecorded, Accounted
  <2>2. charged[plan[d]] \in Nat /\ (c = 0 => charged[plan[d]] + c = charged[plan[d]])
    BY <1>2 DEF TypeInv, TypeOK, HistoryTypes
  <2>. QED
    BY <1>2, <2>1, <2>2 DEF EndsUnrecorded, Accounted, TypeInv, TypeOK, HistoryTypes
<1>4. \A a \in DOMAIN auths' : auths'[a].start <= auths'[a].end
  BY DEF EndsUnrecorded, Accounted
<1>5. ASSUME NEW e \in Invocations, e # d
      PROVE  /\ kid'[e] = kid[e] /\ pc'[e] = pc[e]
             /\ (pc[e] \in {"probing", "slots", "waiting"} \/ Alive(e))
                  => charged'[plan[e]] = charged[plan[e]]
  <2>1. pc[e] \in {"probing", "slots", "waiting"} \/ Alive(e)
          => Spends(e, plan[e]) /\ plan[e] \in AuthIds /\ plan[e] # plan[d]
    BY <1>2, <1>5, PlanKnown DEF OneSpends, Spends, Using, Alive, Bound
  <2>. QED
    BY <1>5, <2>1 DEF EndsUnrecorded, TypeInv, TypeOK, ChildTypes, HistoryTypes
<1>6. \A e \in Invocations : e # d => (Snapshot(e)' <=> Snapshot(e)) /\ (Alive(e)' <=> Alive(e))
  BY <1>5 DEF Snapshot, Alive
<1>7. \A e \in Invocations : UNCHANGED Used(e)
  BY DEF EndsUnrecorded, Used
<1>8. \A e \in Invocations : Snapshot(e)' => InBatch(e)'
  BY <1>5, <1>6 DEF EndsUnrecorded, Accounted, InBatch, Snapshot, Alive
<1>9. ~Alive(d)' /\ pc'[d] \notin {"probing", "slots"} /\ Len(log') # n'[d] + 1 /\ kid'[d] # "running"
  BY <1>2 DEF EndsUnrecorded, Alive, TypeInv, TypeOK, ChildTypes, Control, Left
<1>. QED
  BY <1>1, <1>3, <1>4, <1>5, <1>6, <1>7, <1>8, <1>9 DEF Accounted, EndsUnrecorded

(* A run on record was charged what its receipt says, if it is completed.  *)
LEMMA FinishRunKeepsAccounted ==
    ASSUME Gated, ChargedInv, NEW d \in Invocations, NEW c \in Charges,
           NEW success \in BOOLEAN, NEW r \in RunReceipts(d, c),
           FinishRun(d, c, r, success)
    PROVE  Accounted' /\ ChargedWithinApproval'
<1>. USE DEF ChargedInv, GatedInv
<1>1. /\ Alive(d) /\ kid[d] = "running" /\ kid' = [kid EXCEPT ![d] = "exited"]
      /\ charged' = [charged EXCEPT ![plan[d]] = @ + c]
      /\ UNCHANGED <<auths, pc, n, target, plan, runBy>>
      /\ log' = Append(log, r)
  BY DEF FinishRun, KidExits, Charge, Alive
<1>2. ChargedWithinApproval'
  BY <1>1, LastCharge
<1>3. n[d] = Len(log) /\ plan[d] \in AuthIds /\ Spends(d, plan[d]) /\ d \in runBy[plan[d]]
  BY <1>1, PlanKnown DEF Exclusive, Positioned, Bound, Spends, Using, Accounted
<1>4. /\ r \in Receipt /\ log \in Seq(Receipt)
      /\ Len(log) \in Nat /\ Len(log') = Len(log) + 1 /\ log'[Len(log')] = r
  <2>1. r \in Receipt /\ log \in Seq(Receipt)
    BY <1>1, RunReceiptsType DEF TypeInv, TypeOK, FileTypes
  <2>. QED
    BY <1>1, <2>1, AppendProperties, LenProperties
<1>5. Completed(r) => r.cost = c
  BY DEF Completed, RunReceipts
<1>6. \A a \in AuthIds : runBy'[a] = {} => charged'[a] = 0
  BY <1>1, <1>3 DEF Accounted, TypeInv, TypeOK, HistoryTypes
<1>7. \A a \in DOMAIN auths' : auths'[a].start <= auths'[a].end
  BY <1>1 DEF Accounted
<1>8. ASSUME NEW e \in Invocations, e # d
      PROVE  /\ kid'[e] = kid[e] /\ pc'[e] = pc[e]
             /\ pc[e] \notin {"probing", "slots", "waiting"} /\ ~Alive(e)
             /\ Snapshot(e)' = Snapshot(e)
  BY <1>1, <1>8, OneWorks DEF Working, Snapshot, TypeInv, TypeOK, ChildTypes
<1>9. \A e \in Invocations : UNCHANGED Used(e)
  BY <1>1 DEF Used
<1>10. \A e \in Invocations : Snapshot(e)' => InBatch(e)'
  BY <1>1, <1>8 DEF Accounted, InBatch, Snapshot
<1>11. ~Alive(d)' /\ pc'[d] \notin {"probing", "slots"} /\ kid'[d] # "running"
  BY <1>1 DEF Alive, TypeInv, TypeOK, ChildTypes, Control, Left
<1>12. Completed(r) => charged'[plan'[d]] <= Reserved(Used(d)) + r.cost
  <2>1. charged[plan[d]] <= Reserved(Used(d)) /\ charged[plan[d]] \in Nat
    BY <1>1, <1>3 DEF Accounted, TypeInv, TypeOK, HistoryTypes
  <2>2. charged'[plan'[d]] = charged[plan[d]] + c
    BY <1>1, <1>3 DEF TypeInv, TypeOK, HistoryTypes
  <2>3. Used(d) \in Nat
    <3>1. InBatch(d) /\ auths[plan[d]] \in Authorization
      BY <1>1, PlanKnown DEF Accounted, Snapshot, Bound, Alive
    <3>. QED
      BY <3>1, ConstantsAssumption DEF InBatch, Used, Authorization, TypeInv, TypeOK, LocalTypes
  <2>4. c \in Nat /\ Reserved(Used(d)) \in Nat
    BY <2>3, ReservedSteps, ConstantsAssumption
  <2>. QED
    BY <1>5, <2>1, <2>2, <2>4
<1>13. \A e \in Invocations \ {d} :
         /\ kid'[e] = "running" => e \in runBy'[plan'[e]]
         /\ pc'[e] \notin {"probing", "slots", "waiting"} /\ ~Alive(e)'
  BY <1>1, <1>8 DEF Accounted, Alive
<1>. QED
  BY <1>1, <1>2, <1>3, <1>4, <1>6, <1>7, <1>9, <1>10, <1>11, <1>12, <1>13 DEF Accounted

(* A slot is counted as done when its receipt is within the cap.           *)
LEMMA AcceptRunKeepsAccounted ==
    ASSUME ChargedInv, NEW d \in Invocations, AcceptRun(d)
    PROVE  Accounted' /\ ChargedWithinApproval'
<1>. USE DEF ChargedInv, GatedInv
<1>1. /\ pc[d] = "waiting" /\ kid[d] = "exited"
      /\ n' = [n EXCEPT ![d] = @ + 1]
      /\ pc' = [pc EXCEPT ![d] = "slots"] /\ kid' = [kid EXCEPT ![d] = "none"]
      /\ UNCHANGED <<log, auths, target, plan, charged, runBy>>
      /\ Len(log) = n[d] + 1 /\ Completed(log[Len(log)]) /\ log[Len(log)].cost <= Cap
  BY DEF AcceptRun, RunAccepted, Goto, files, locks, history
<1>2. /\ plan[d] \in AuthIds /\ auths[plan[d]] \in Authorization
      /\ InBatch(d) /\ n[d] < auths[plan[d]].end
      /\ charged[plan[d]] <= Reserved(Used(d)) + log[Len(log)].cost
  BY <1>1, PlanKnown DEF Accounted, Snapshot, Bound, InBatch
<1>3. /\ Used(d) \in Nat /\ Used(d)' = Used(d) + 1 /\ InBatch(d)'
  <2>1. /\ auths[plan[d]].start \in 0 .. NSlots /\ auths[plan[d]].end \in 0 .. NSlots
        /\ n[d] \in 0 .. NSlots /\ n'[d] = n[d] + 1 /\ kid'[d] = "none"
    BY <1>1, <1>2 DEF Authorization, TypeInv, TypeOK, LocalTypes, ChildTypes
  <2>2. /\ auths[plan[d]].start <= n[d] /\ n[d] < auths[plan[d]].end
        /\ target[d] = auths[plan[d]].end
    BY <1>2 DEF InBatch
  <2>3. Used(d) \in Nat /\ Used(d)' = Used(d) + 1
    BY <1>1, <2>1, <2>2, ConstantsAssumption DEF Used
  <2>4. InBatch(d)'
    BY <1>1, <2>1, <2>2, ConstantsAssumption DEF InBatch
  <2>. QED
    BY <2>3, <2>4
<1>4. charged[plan[d]] <= Reserved(Used(d) + 1)
  <2>1. log[Len(log)].cost \in Nat
    <3>1. n[d] + 1 \in Nat \ {0}
      BY ConstantsAssumption DEF TypeInv, TypeOK, LocalTypes
    <3>2. log[Len(log)] \in Receipt
      BY <1>1, <3>1, ElementOfSeq DEF TypeInv, TypeOK, FileTypes
    <3>. QED
      BY <3>2, ReceiptFields
  <2>2. charged[plan[d]] \in Nat /\ Cap \in Nat
    BY <1>2, ConstantsAssumption DEF TypeInv, TypeOK, HistoryTypes
  <2>3. Reserved(Used(d)) \in Nat /\ Reserved(Used(d) + 1) = Reserved(Used(d)) + Cap
    BY <1>3, ReservedSteps
  <2>4. log[Len(log)].cost <= Cap /\ charged[plan[d]] <= Reserved(Used(d)) + log[Len(log)].cost
    BY <1>1, <1>2
  <2>. QED
    BY <2>1, <2>2, <2>3, <2>4
<1>5. \A e \in Invocations \ {d} :
        /\ UNCHANGED <<kid[e], pc[e], n[e], target[e], plan[e]>>
        /\ Snapshot(e)' = Snapshot(e) /\ Alive(e)' = Alive(e) /\ UNCHANGED Used(e)
        /\ InBatch(e)' = InBatch(e)
  BY <1>1 DEF Snapshot, Alive, Used, InBatch, TypeInv, TypeOK, LocalTypes, ChildTypes
<1>6. /\ kid'[d] = "none" /\ pc'[d] = "slots" /\ ~Alive(d)'
  BY <1>1 DEF Alive, TypeInv, TypeOK, LocalTypes, ChildTypes
<1>7. ChargedWithinApproval'
  BY <1>1 DEF ChargedWithinApproval
<1>8. \A a \in AuthIds : runBy'[a] = {} => charged'[a] = 0
  BY <1>1 DEF Accounted
<1>9. \A a \in DOMAIN auths' : auths'[a].start <= auths'[a].end
  BY <1>1 DEF Accounted
<1>10. charged'[plan'[d]] <= Reserved(Used(d))'
  BY <1>1, <1>3, <1>4 DEF Reserved
<1>. QED
  BY <1>1, <1>3, <1>5, <1>6, <1>7, <1>8, <1>9, <1>10 DEF Accounted

(* The receipts are read, and the batch that fits them begins.             *)
LEMMA ReadKeepsAccounted ==
    ASSUME ChargedInv, NEW d \in Invocations, ReadExistingReceipts(d)
    PROVE  Accounted' /\ ChargedWithinApproval'
<1>. USE DEF ChargedInv, GatedInv
<1>1. /\ pc[d] = "checking" /\ kid[d] = "none"
      /\ n' = [n EXCEPT ![d] = Len(log)] /\ target' = [target EXCEPT ![d] = auths[plan[d]].end]
      /\ pc' = [pc EXCEPT ![d] = "preflight"]
      /\ UNCHANGED <<log, auths, plan, charged, runBy, kid>>
      /\ auths[plan[d]].start = Len(log)
  BY DEF ReadExistingReceipts, ReceiptsAccepted, AuthorizationMatches, Goto, files, child,
     history, TypeInv, Control, Left
<1>2. plan[d] \in DOMAIN auths /\ auths[plan[d]] \in Authorization
      /\ auths[plan[d]].start <= auths[plan[d]].end
  BY <1>1, PlanKnown DEF Accounted, Bound
<1>3. InBatch(d)'
  BY <1>1, <1>2, ConstantsAssumption DEF InBatch, Authorization, TypeInv, TypeOK, LocalTypes
<1>4. \A e \in Invocations \ {d} :
        /\ UNCHANGED <<pc[e], n[e], target[e]>>
        /\ Snapshot(e)' = Snapshot(e) /\ Alive(e)' = Alive(e) /\ UNCHANGED Used(e)
        /\ InBatch(e)' = InBatch(e)
  BY <1>1 DEF Snapshot, Alive, Used, InBatch, TypeInv, TypeOK, LocalTypes
<1>5. pc'[d] = "preflight" /\ ~Alive(d)' /\ kid'[d] = "none"
  BY <1>1 DEF Alive, TypeInv, TypeOK, LocalTypes
<1>6. ChargedWithinApproval'
  BY <1>1 DEF ChargedWithinApproval
<1>. QED
  BY <1>1, <1>3, <1>4, <1>5, <1>6 DEF Accounted, Reserved

(* Nothing was ever charged under an approval that nobody claimed.         *)
LEMMA ClaimKeepsAccounted ==
    ASSUME ChargedInv, NEW d \in Invocations, StartCapacityRecheck(d)
    PROVE  Accounted' /\ ChargedWithinApproval'
<1>. USE DEF ChargedInv, GatedInv
<1>1. /\ pc[d] = "recheck" /\ kid[d] = "none"
      /\ auths[plan[d]].recheck = "none"
      /\ auths' = [auths EXCEPT ![plan[d]].recheck = "started"]
      /\ pc' = [pc EXCEPT ![d] = "probing"]
      /\ UNCHANGED <<log, n, target, plan, charged, runBy, kid>>
  BY DEF StartCapacityRecheck, RecheckMayStart, Goto, child, history, TypeInv, Control, Left
<1>2. /\ plan[d] \in DOMAIN auths /\ plan[d] \in AuthIds
      /\ auths[plan[d]] \in Authorization /\ InBatch(d)
  BY <1>1, PlanKnown DEF Accounted, Bound, Snapshot
<1>3. charged[plan[d]] = 0
  <2>1. \A e \in Invocations : e \notin runBy[plan[d]]
    BY <1>1, <1>2 DEF OneSpends, Spends, TypeInv, TypeOK, HistoryTypes
  <2>. QED
    BY <1>2, <2>1 DEF Accounted, TypeInv, TypeOK, HistoryTypes
<1>4. Used(d) \in Nat
  BY <1>2, ConstantsAssumption DEF InBatch, Used, Authorization, TypeInv, TypeOK, LocalTypes
<1>5. /\ DOMAIN auths' = DOMAIN auths
      /\ \A a \in DOMAIN auths :
           auths'[a].start = auths[a].start /\ auths'[a].end = auths[a].end
  BY <1>1, <1>2 DEF Authorization
<1>6. ASSUME NEW e \in Invocations, Snapshot(e)
      PROVE  InBatch(e)' /\ UNCHANGED Used(e)
  BY <1>1, <1>5, <1>6, PlanKnown DEF Accounted, InBatch, Used, Snapshot, Bound
<1>7. \A e \in Invocations \ {d} : UNCHANGED pc[e]
  BY <1>1 DEF TypeInv, TypeOK, LocalTypes
<1>8. \A e \in Invocations : Snapshot(e)' => Snapshot(e)
  BY <1>1, <1>7 DEF Snapshot
<1>9. \A e \in Invocations \ {d} : pc[e] \in {"probing", "slots", "waiting"} \/ Alive(e) => Snapshot(e)
  BY DEF Snapshot, Alive
<1>10. pc'[d] = "probing" /\ ~Alive(d)' /\ Snapshot(d)
  BY <1>1 DEF Alive, Snapshot, TypeInv, TypeOK, LocalTypes
<1>11. charged'[plan'[d]] <= Reserved(Used(d))'
  BY <1>1, <1>3, <1>4, <1>6, <1>10, ReservedSteps DEF Reserved
<1>12. ChargedWithinApproval'
  BY <1>1, <1>5 DEF ChargedWithinApproval
<1>. QED
  BY <1>1, <1>5, <1>6, <1>7, <1>8, <1>9, <1>10, <1>11, <1>12 DEF Accounted, Alive, Reserved

LEMMA StartKeepsAccounted ==
    ASSUME ChargedInv, NEW d \in Invocations, StartRunTask(d) \/ BeginRun(d)
    PROVE  Accounted' /\ ChargedWithinApproval'
<1>. USE DEF ChargedInv, GatedInv
<1>1. CASE StartRunTask(d)
  <2>1. /\ pc[d] = "slots" /\ kid[d] = "none" /\ n[d] < target[d]
        /\ kid' = [kid EXCEPT ![d] = "starting"] /\ pc' = [pc EXCEPT ![d] = "waiting"]
        /\ UNCHANGED <<log, auths, n, target, plan, charged, runBy>>
    BY <1>1 DEF StartRunTask, Goto, files, locks, history, TypeInv, Control, Left
  <2>2. InBatch(d) /\ charged[plan[d]] <= Reserved(Used(d))
    BY <2>1 DEF Accounted, Snapshot
  <2>3. \A e \in Invocations \ {d} :
          /\ UNCHANGED <<kid[e], pc[e]>>
          /\ Snapshot(e)' = Snapshot(e) /\ Alive(e)' = Alive(e) /\ InBatch(e)' = InBatch(e)
    BY <2>1 DEF Snapshot, Alive, InBatch, TypeInv, TypeOK, LocalTypes, ChildTypes
  <2>4. /\ InBatch(d)' /\ kid'[d] = "starting" /\ pc'[d] = "waiting"
        /\ \A e \in Invocations : UNCHANGED Used(e)
    BY <2>1, <2>2 DEF InBatch, Used, TypeInv, TypeOK, LocalTypes, ChildTypes
  <2>5. ChargedWithinApproval'
    BY <2>1 DEF ChargedWithinApproval
  <2>. QED
    BY <2>1, <2>2, <2>3, <2>4, <2>5 DEF Accounted, Reserved
<1>2. CASE BeginRun(d)
  <2>1. /\ Alive(d) /\ kid' = [kid EXCEPT ![d] = "running"]
        /\ runBy' = [runBy EXCEPT ![plan[d]] = @ \cup {d}]
        /\ UNCHANGED <<log, auths, pc, n, target, plan, charged>>
    BY <1>2 DEF BeginRun, local, Alive
  <2>2. plan[d] \in AuthIds
    BY <2>1, PlanKnown DEF Bound, Alive
  <2>3. \A a \in AuthIds : runBy[a] \subseteq runBy'[a]
    BY <2>1, <2>2 DEF TypeInv, TypeOK, HistoryTypes
  <2>4. \A e \in Invocations :
          /\ Snapshot(e)' = Snapshot(e) /\ Alive(e)' = Alive(e)
          /\ InBatch(e)' = InBatch(e) /\ UNCHANGED Used(e)
    BY <2>1 DEF Snapshot, Alive, InBatch, Used, TypeInv, TypeOK, ChildTypes
  <2>5. \A e \in Invocations : kid'[e] = "running" => e \in runBy'[plan[e]]
    <3>1. d \in runBy'[plan[d]]
      BY <2>1, <2>2 DEF TypeInv, TypeOK, HistoryTypes
    <3>2. \A e \in Invocations \ {d} : kid'[e] = "running" => e \in runBy[plan[e]] /\ plan[e] \in AuthIds
      BY <2>1, PlanKnown DEF Accounted, Bound, TypeInv, TypeOK, ChildTypes
    <3>. QED
      BY <2>3, <3>1, <3>2
  <2>6. ChargedWithinApproval'
    BY <2>1 DEF ChargedWithinApproval
  <2>7. \A a \in AuthIds : runBy'[a] = {} => charged'[a] = 0
    BY <2>1, <2>3 DEF Accounted
  <2>8. \A e \in Invocations : kid'[e] = "exited" => kid[e] = "exited"
    BY <2>1 DEF TypeInv, TypeOK, ChildTypes
  <2>. QED
    BY <2>1, <2>4, <2>5, <2>6, <2>7, <2>8 DEF Accounted
<1>. QED
  BY <1>1, <1>2

LEMMA LoadKeepsAccounted ==
    ASSUME ChargedInv, NEW d \in Invocations, NEW b \in AuthIds, LoadDispatchPlan(d, b)
    PROVE  Accounted' /\ ChargedWithinApproval'
<1>. USE DEF ChargedInv, GatedInv
<1>1. /\ pc[d] = "locked" /\ kid[d] = "none"
      /\ plan' = [plan EXCEPT ![d] = b] /\ pc'[d] \in {"accounts", "checking"}
      /\ UNCHANGED <<log, auths, n, target, charged, runBy, kid>>
      /\ \A e \in Invocations \ {d} : UNCHANGED pc[e]
  BY DEF LoadDispatchPlan, Goto, files, child, history, TypeInv, TypeOK, LocalTypes, Control,
     Left
<1>2. ~Snapshot(d)' /\ ~Alive(d)'
  BY <1>1 DEF Snapshot, Alive
<1>3. \A e \in Invocations \ {d} :
        /\ UNCHANGED plan[e] /\ Snapshot(e)' = Snapshot(e) /\ Alive(e)' = Alive(e)
        /\ InBatch(e)' = InBatch(e) /\ UNCHANGED Used(e)
  BY <1>1 DEF Snapshot, Alive, InBatch, Used, TypeInv, TypeOK, LocalTypes
<1>4. ChargedWithinApproval'
  BY <1>1 DEF ChargedWithinApproval
<1>. QED
  BY <1>1, <1>2, <1>3, <1>4 DEF Accounted

(* Nobody has spent under an approval that is being written.               *)
LEMMA WriteKeepsAccounted ==
    ASSUME ChargedInv, WriteAuthorization
    PROVE  Accounted' /\ ChargedWithinApproval'
<1>. USE DEF ChargedInv, GatedInv
<1>. DEFINE last == Len(auths) + 1
<1>1. PICK new \in Authorization :
              /\ new.start = draft.start /\ new.end = BatchEnd(draft.start)
              /\ DOMAIN auths' = 1 .. last /\ last \in AuthIds
              /\ auths'[last] = new /\ \A a \in DOMAIN auths : auths'[a] = auths[a]
  BY ApprovalWritten
<1>2. Len(auths) \in Nat /\ DOMAIN auths = 1 .. Len(auths)
  BY ApprovalIds
<1>3. /\ new.start \in Nat /\ new.end \in Nat /\ new.start <= new.end
  <2>1. draft.start \in 0 .. NSlots
    BY DEF TypeInv, TypeOK, FileTypes
  <2>. QED
    BY <1>1, <2>1, BatchEndType, ConstantsAssumption
<1>4. charged[last] = 0
  <2>1. runBy[last] = {}
    BY <1>1, <1>2 DEF OneSpends, Spends, TypeInv, TypeOK, HistoryTypes
  <2>. QED
    BY <1>1, <2>1 DEF Accounted
<1>5. /\ UNCHANGED <<log, pc, kid, n, target, plan, charged, runBy>>
  BY DEF WriteAuthorization, local, child, history
<1>6. \A e \in Invocations :
        Snapshot(e) => InBatch(e)' = InBatch(e) /\ UNCHANGED Used(e)
  BY <1>1, <1>2, <1>5, PlanKnown DEF Snapshot, Bound, InBatch, Used
<1>7. \A e \in Invocations :
        /\ Snapshot(e)' = Snapshot(e) /\ Alive(e)' = Alive(e)
        /\ pc[e] \in {"probing", "slots", "waiting"} \/ Alive(e) => Snapshot(e)
  BY <1>5 DEF Snapshot, Alive
<1>8. \A a \in DOMAIN auths' : auths'[a].start <= auths'[a].end
  BY <1>1, <1>2, <1>3 DEF Accounted
<1>9. ChargedWithinApproval'
  <2>. SUFFICES ASSUME NEW a \in DOMAIN auths', NEW most \in Charges,
                       \A x \in Charges : x <= most, most >= Cap
                PROVE  charged[a] + Cap <= Cap * (auths'[a].end - auths'[a].start) + most
    BY <1>5 DEF ChargedWithinApproval
  <2>1. CASE a = last
    <3>1. new.end - new.start \in Nat /\ Cap \in Nat /\ most \in Nat
      BY <1>3, ConstantsAssumption
    <3>2. Cap * (new.end - new.start) \in Nat
      BY <3>1, ReservedSteps DEF Reserved
    <3>. QED
      BY <1>1, <1>4, <2>1, <3>1, <3>2
  <2>2. CASE a \in DOMAIN auths
    BY <1>1, <2>2 DEF ChargedWithinApproval
  <2>. QED
    BY <1>1, <1>2, <2>1, <2>2
<1>. HIDE DEF last
<1>. QED
  BY <1>5, <1>6, <1>7, <1>8, <1>9 DEF Accounted, Reserved

LEMMA DispatchUnbilled ==
    ASSUME Gated, TypeInv, NEW d \in Invocations, Dispatch(d)
    PROVE  \/ Unbilled \/ ReadExistingReceipts(d) \/ StartCapacityRecheck(d)
           \/ StartRunTask(d) \/ AcceptRun(d) \/ \E a \in AuthIds : LoadDispatchPlan(d, a)
<1>. USE DEF TypeInv, TypeOK, LocalTypes, ChildTypes, Unbilled, Snapshot, Alive, files, child,
     history
<1>1. CASE \/ DispatchAlreadyActive(d) \/ LoadClosedPlan(d) \/ ProviderAccountBusy(d)
           \/ RefuseExistingReceipts(d) \/ PreflightFails(d)
           \/ RefuseCapacityRecheck(d) \/ LeaveSlotLoop(d) \/ RefuseRun(d)
  <2>1. PICK how \in Left : Leave(d, how)
    BY <1>1 DEF DispatchAlreadyActive, LoadClosedPlan, ProviderAccountBusy,
       RefuseExistingReceipts, PreflightFails, RefuseCapacityRecheck, LeaveSlotLoop,
       RefuseRun, Left
  <2>. QED
    BY <2>1 DEF Leave, Left
<1>2. ASSUME NEW s \in {"accepted", "rejected", "error"},
             auths' = [auths EXCEPT ![plan[d]].recheck = s], pc[d] = "probing"
      PROVE  /\ DOMAIN auths' = DOMAIN auths
             /\ \A a \in DOMAIN auths :
                  auths'[a].start = auths[a].start /\ auths'[a].end = auths[a].end
  <2>1. plan[d] \in DOMAIN auths /\ auths[plan[d]] \in Authorization
    BY <1>2, PlanKnown DEF Bound
  <2>. QED
    BY <1>2, <2>1 DEF Authorization
<1>3. CASE \E verdict \in {"rejected", "error"} : CapacityRefused(d, verdict)
  BY <1>2, <1>3 DEF CapacityRefused
<1>4. CASE CapacityAccepted(d)
  BY <1>2, <1>4 DEF CapacityAccepted, Goto
<1>5. CASE LockProviderAccount(d) \/ AllAccountsLocked(d) \/ ExclusiveDispatchLock(d)
  BY <1>5 DEF LockProviderAccount, AllAccountsLocked, ExclusiveDispatchLock, Goto
<1>6. CASE RunPreflight(d)
  BY <1>6 DEF RunPreflight, Goto
<1>. QED
  BY <1>1, <1>3, <1>4, <1>5, <1>6 DEF Dispatch

LEMMA NextKeepsAccounted ==
    ASSUME Gated, ChargedInv, [Next]_vars
    PROVE  Accounted' /\ ChargedWithinApproval'
<1>. USE DEF ChargedInv, GatedInv
<1>1. ASSUME NEW d \in Invocations, Dispatch(d)
      PROVE  Accounted' /\ ChargedWithinApproval'
  BY <1>1, DispatchUnbilled, UnbilledKeepsAccounted, ReadKeepsAccounted, ClaimKeepsAccounted,
     StartKeepsAccounted, AcceptRunKeepsAccounted, LoadKeepsAccounted
<1>2. ASSUME NEW d \in Invocations, RunTask(d)
      PROVE  Accounted' /\ ChargedWithinApproval'
  <2>1. CASE ValidateStudyConfig(d)
    <3>1. Unbilled
      BY <2>1 DEF ValidateStudyConfig, Unbilled, Snapshot, Alive, files, local, history,
         TypeInv, TypeOK, ChildTypes
    <3>. QED
      BY <3>1, UnbilledKeepsAccounted
  <2>2. CASE RefuseStudyConfig(d) \/ KidAccountBusy(d)
    <3>1. EndsUnrecorded(d, 0)
      <4>1. charged = [charged EXCEPT ![plan[d]] = @ + 0]
        <5>1. plan[d] \in AuthIds
          BY <2>2, PlanKnown DEF RefuseStudyConfig, KidAccountBusy, Bound
        <5>2. charged[plan[d]] + 0 = charged[plan[d]]
          BY <5>1 DEF TypeInv, TypeOK, HistoryTypes
        <5>. QED
          BY <5>1, <5>2 DEF TypeInv, TypeOK, HistoryTypes
      <4>. QED
        BY <2>2, <4>1 DEF RefuseStudyConfig, KidAccountBusy, EndsUnrecorded, KidExits, Alive,
           files, history
    <3>. QED
      BY <3>1, EndsUnrecordedKeepsAccounted
  <2>3. CASE \E c \in Charges, success \in BOOLEAN : FinishWithoutReceipt(d, c, success)
    <3>1. \E c \in Charges : EndsUnrecorded(d, c)
      BY <2>3 DEF FinishWithoutReceipt, EndsUnrecorded, KidExits, Charge, Alive, files
    <3>. QED
      BY <3>1, EndsUnrecordedKeepsAccounted
  <2>4. CASE KidLocksAccount(d)
    BY <2>4 DEF KidLocksAccount
  <2>. QED
    BY <1>2, <2>1, <2>2, <2>3, <2>4, StartKeepsAccounted, FinishRunKeepsAccounted DEF RunTask
<1>3. ASSUME NEW d \in Invocations, Kill(d)
      PROVE  Accounted' /\ ChargedWithinApproval'
  <2>1. CASE Crash(d)
    <3>1. Unbilled
      BY <2>1 DEF Crash, Goto, Unbilled, Snapshot, Alive, files, child, history, TypeInv,
         TypeOK, LocalTypes
    <3>. QED
      BY <3>1, UnbilledKeepsAccounted
  <2>2. ASSUME NEW c \in Charges \cup {0}, NEW tears \in BOOLEAN, KidKilled(d, c, tears)
        PROVE  EndsUnrecorded(d, c)
    BY <2>2 DEF KidKilled, EndsUnrecorded, KidExits, Charge
  <2>. QED
    BY <1>3, <2>1, <2>2, EndsUnrecordedKeepsAccounted DEF Kill
<1>4. CASE Operator \/ OtherConsumer \/ UNCHANGED vars
  <2>1. ASSUME NEW a \in AuthIds, Publish(a) \/ Expire(a)
        PROVE  Unbilled
    <3>1. auths[a] \in Authorization
      BY <2>1, ElementOfSeq, LenProperties DEF Publish, Expire, TypeInv, TypeOK, FileTypes
    <3>2. /\ DOMAIN auths' = DOMAIN auths
          /\ \A b \in DOMAIN auths :
               auths'[b].start = auths[b].start /\ auths'[b].end = auths[b].end
      BY <2>1, <3>1 DEF Publish, Expire, Authorization
    <3>. QED
      BY <2>1, <3>2 DEF Publish, Expire, Unbilled, Snapshot, Alive, local, child, history
  <2>2. CASE ReadForAuthorization \/ AuthorizationRefused \/ OtherConsumer \/ UNCHANGED vars
    <3>1. Unbilled
      BY <2>2 DEF ReadForAuthorization, AuthorizationRefused, OtherConsumer, ExternalTakes,
         ExternalReleases, vars, Unbilled, Snapshot, Alive, files, local, child, history
    <3>. QED
      BY <3>1, UnbilledKeepsAccounted
  <2>. QED
    BY <1>4, <2>1, <2>2, UnbilledKeepsAccounted, WriteKeepsAccounted DEF Operator
<1>. QED
  BY <1>1, <1>2, <1>3, <1>4 DEF Next

(* In a gated study what the provider charges under one approval, recorded *)
(* or not, stays within the approval's reserve plus the overrun of one     *)
(* run, which is the last (_dispatch_headline_study, reserve check).       *)
THEOREM ReserveIsKept == ASSUME Gated PROVE Spec => []ChargedWithinApproval
<1>1. Init => Accounted /\ ChargedWithinApproval
  BY DEF Init, Accounted, ChargedWithinApproval, Snapshot, Alive
<1>2. GatedInv /\ OneSpends /\ [Next]_vars /\ Accounted /\ ChargedWithinApproval
        => Accounted' /\ ChargedWithinApproval'
  BY NextKeepsAccounted DEF ChargedInv
<1>3. Spec => [](Accounted /\ ChargedWithinApproval)
  BY <1>1, <1>2, SpecGated, SpecOneSpends, PTL DEF Spec
<1>. QED
  BY <1>3, PTL

-----------------------------------------------------------------------------
(* Sweeps: what is left to do, and where results lie                        *)

(* The tasks are named once each. *)
LEMMA TasksAre ==
    /\ Tasks \in Seq(Names) /\ Len(Tasks) \in Nat /\ DOMAIN Tasks = 1..Len(Tasks)
    /\ \A i \in DOMAIN Tasks : Tasks[i] \in Names
    /\ \A i, j \in DOMAIN Tasks : Tasks[i] = Tasks[j] => i = j
  BY SweepAssumption DEF Names

Distinct(s) == \A i, j \in DOMAIN s : s[i] = s[j] => i = j

(* A list made of the first N tasks. *)
FromFirst(N) == {s \in Seq(Names) : /\ Distinct(s)
                                   /\ \A i \in DOMAIN s : \E k \in 1..N : s[i] = Tasks[k]}

(* The next task, which the list has not, may be appended to it. *)
LEMMA OneTaskMore ==
    ASSUME NEW N \in 1..Len(Tasks), NEW s \in FromFirst(N - 1)
    PROVE  s \in FromFirst(N) /\ Append(s, Tasks[N]) \in FromFirst(N)
<1>1. s \in Seq(Names) /\ Distinct(s) /\ \A i \in DOMAIN s : \E k \in 1..(N - 1) : s[i] = Tasks[k]
  BY DEF FromFirst
<1>2. N \in Nat /\ N - 1 \in Nat /\ 1..(N - 1) \subseteq 1..N /\ N \in DOMAIN Tasks /\ 1..N \subseteq DOMAIN Tasks
  BY TasksAre
<1>3. s \in FromFirst(N)
  BY <1>1, <1>2 DEF FromFirst
<1>. DEFINE a == Append(s, Tasks[N])
<1>4. /\ a \in Seq(Names) /\ DOMAIN a = 1..Len(s) + 1 /\ DOMAIN s = 1..Len(s) /\ Len(s) \in Nat
      /\ a[Len(s) + 1] = Tasks[N]
      /\ \A i \in 1..Len(s) : a[i] = s[i]
  BY <1>1, <1>2, TasksAre
<1>. HIDE DEF a
<1>5. \A i \in DOMAIN s : s[i] # Tasks[N]
  <2>. SUFFICES ASSUME NEW i \in DOMAIN s, s[i] = Tasks[N] PROVE FALSE
    OBVIOUS
  <2>1. PICK k \in 1..(N - 1) : s[i] = Tasks[k]
    BY <1>1
  <2>2. k \in DOMAIN Tasks /\ k # N
    BY <1>2
  <2>. QED
    BY <1>2, <2>1, <2>2, TasksAre
<1>6. Distinct(a)
  <2>. SUFFICES ASSUME NEW i \in DOMAIN a, NEW j \in DOMAIN a, a[i] = a[j] PROVE i = j
    BY DEF Distinct
  <2>1. (i \in DOMAIN s \/ i = Len(s) + 1) /\ (j \in DOMAIN s \/ j = Len(s) + 1)
    BY <1>4
  <2>2. CASE i \in DOMAIN s /\ j \in DOMAIN s
    BY <1>1, <1>4, <2>2 DEF Distinct
  <2>3. CASE i \in DOMAIN s /\ j = Len(s) + 1
    BY <1>4, <1>5, <2>3
  <2>4. CASE i = Len(s) + 1 /\ j \in DOMAIN s
    BY <1>4, <1>5, <2>4
  <2>. QED
    BY <2>1, <2>2, <2>3, <2>4
<1>7. \A i \in DOMAIN a : \E k \in 1..N : a[i] = Tasks[k]
  <2>. SUFFICES ASSUME NEW i \in DOMAIN a PROVE \E k \in 1..N : a[i] = Tasks[k]
    OBVIOUS
  <2>1. CASE i \in DOMAIN s
    BY <1>1, <1>2, <1>4, <2>1
  <2>2. CASE i = Len(s) + 1
    BY <1>2, <1>4, <2>2
  <2>. QED
    BY <1>4, <2>1, <2>2
<1>8. a \in FromFirst(N)
  BY <1>4, <1>6, <1>7 DEF FromFirst
<1>. QED
  BY <1>3, <1>8 DEF a

(* What is left to do is made of tasks, none of them twice. *)
LEMMA RemainingAre ==
    ASSUME NEW c
    PROVE  FilterCompletedTasks(c) \in Seq(Names) /\ Distinct(FilterCompletedTasks(c))
<1>. DEFINE Step(h, N) == IF N = 0 THEN <<>>
                          ELSE IF c.skip /\ IsTaskCompleted(c, Tasks[N]) THEN h[N - 1]
                          ELSE Append(h[N - 1], Tasks[N])
            Tbl(h, m) == \A N \in 0..m : h[N] = Step(h, N) /\ h[N] \in FromFirst(N)
            Upto(m) == \E h : h = [N \in 0..m |-> h[N]] /\ Tbl(h, m)
            Rem == CHOOSE h : h = [N \in 0..Len(Tasks) |-> Step(h, N)]
<1>0. Len(Tasks) \in Nat
  BY TasksAre
<1>1. Upto(0)
  <2>. DEFINE h == [N \in 0..0 |-> <<>>]
  <2>1. <<>> \in FromFirst(0)
    BY DEF FromFirst, Distinct
  <2>2. h = [N \in 0..0 |-> h[N]] /\ Tbl(h, 0)
    BY <2>1
  <2>. QED
    BY <2>2
<1>2. ASSUME NEW m \in Nat, m < Len(Tasks), Upto(m)
      PROVE  Upto(m + 1)
  <2>0. m \in 0..m /\ m + 1 \in 1..Len(Tasks) /\ (m + 1) - 1 = m
    BY <1>0, <1>2
  <2>1. PICK h : h = [N \in 0..m |-> h[N]] /\ Tbl(h, m)
    BY <1>2
  <2>. DEFINE k == [N \in 0..(m + 1) |-> IF N <= m THEN h[N] ELSE Step(h, N)]
  <2>2. \A N \in 0..m : N \in 0..(m + 1) /\ k[N] = h[N]
    OBVIOUS
  <2>3. k[m + 1] = Step(h, m + 1) /\ h[m] = k[m] /\ k = [N \in 0..(m + 1) |-> k[N]]
    BY <2>2
  <2>. HIDE DEF k
  <2>4. h[m] \in FromFirst(m) /\ m + 1 \in 1..Len(Tasks) /\ (m + 1) - 1 = m
    BY <2>0, <2>1
  <2>5. k[m + 1] \in FromFirst(m + 1) /\ k[m + 1] = Step(k, m + 1)
    <3>1. h[m] \in FromFirst(m + 1) /\ Append(h[m], Tasks[m + 1]) \in FromFirst(m + 1)
      BY <2>4, OneTaskMore
    <3>2. Step(h, m + 1) = Step(k, m + 1) /\ Step(h, m + 1) \in FromFirst(m + 1)
      BY <2>3, <2>4, <3>1
    <3>. QED
      BY <2>3, <3>2
  <2>6. ASSUME NEW N \in 0..m PROVE k[N] = Step(k, N) /\ k[N] \in FromFirst(N)
    <3>1. h[N] = Step(h, N) /\ h[N] \in FromFirst(N)
      BY <2>1
    <3>2. N # 0 => N - 1 \in 0..m
      OBVIOUS
    <3>3. Step(h, N) = Step(k, N)
      BY <2>2, <3>2
    <3>. QED
      BY <2>2, <3>1, <3>3
  <2>7. \A N \in 0..(m + 1) : N \in 0..m \/ N = m + 1
    OBVIOUS
  <2>8. Tbl(k, m + 1)
    BY <2>5, <2>6, <2>7
  <2>. QED
    BY <2>3, <2>8
<1>3. Upto(Len(Tasks))
  <2>. HIDE DEF Upto
  <2>. DEFINE Bad == {m \in Nat : m <= Len(Tasks) /\ ~Upto(m)}
  <2>1. SUFFICES ASSUME Bad # {} PROVE FALSE
    BY <1>0
  <2>2. PICK m \in Bad : \A k \in Bad : m <= k
    BY <2>1, LeastOf
  <2>3. m # 0 /\ m \in Nat /\ m <= Len(Tasks) /\ ~Upto(m)
    BY <1>1
  <2>4. m - 1 \in Nat /\ m - 1 \notin Bad /\ m - 1 < Len(Tasks) /\ (m - 1) + 1 = m
    BY <1>0, <2>2, <2>3
  <2>5. Upto(m - 1)
    BY <1>0, <2>3, <2>4
  <2>6. Upto((m - 1) + 1)
    BY <1>2, <2>4, <2>5
  <2>. QED
    BY <2>3, <2>4, <2>6
<1>4. PICK h : h = [N \in 0..Len(Tasks) |-> h[N]] /\ Tbl(h, Len(Tasks))
  BY <1>3
<1>5. h = [N \in 0..Len(Tasks) |-> Step(h, N)]
  <2>1. \A N \in 0..Len(Tasks) : h[N] = Step(h, N)
    BY <1>4
  <2>. QED
    BY <1>4, <2>1
<1>6. FilterCompletedTasks(c) = Rem[Len(Tasks)]
  BY DEF FilterCompletedTasks
<1>7. Rem = [N \in 0..Len(Tasks) |-> Step(Rem, N)]
  BY <1>5
<1>. HIDE DEF Rem
<1>8. \A N \in 0..Len(Tasks) : Rem[N] = h[N]
  <2>. DEFINE Bad == {N \in Nat : N <= Len(Tasks) /\ Rem[N] # h[N]}
  <2>1. SUFFICES ASSUME Bad # {} PROVE FALSE
    BY <1>0
  <2>2. PICK N \in Bad : \A k \in Bad : N <= k
    BY <2>1, LeastOf
  <2>3. N \in 0..Len(Tasks) /\ Rem[N] # h[N]
    BY <1>0
  <2>4. Rem[N] = Step(Rem, N) /\ h[N] = Step(h, N)
    BY <1>5, <1>7, <2>3
  <2>5. N # 0
    BY <2>3, <2>4
  <2>6. N - 1 \in Nat /\ N - 1 \notin Bad /\ N - 1 <= Len(Tasks)
    BY <1>0, <2>2, <2>3, <2>5
  <2>7. Rem[N - 1] = h[N - 1]
    BY <2>6
  <2>. QED
    BY <2>3, <2>4, <2>7
<1>9. Len(Tasks) \in 0..Len(Tasks)
  BY <1>0
<1>10. FilterCompletedTasks(c) \in FromFirst(Len(Tasks))
  BY <1>4, <1>6, <1>8, <1>9
<1>. QED
  BY <1>10 DEF FromFirst

(* The candidate files of a task, by the place they lie in. *)
PlacesOf(c, m) ==
    IF Len(c.modes) > 1 \/ c.labelled THEN <<"runs">>
    ELSE IF c.modes[m] # "baseline" THEN <<"runs", "local">>
    ELSE <<"runs", "legacy", "local">>

FileAt(p, t) ==
    IF p = "runs" THEN runs[<<t, CurrentSegment>>] ELSE IF p = "legacy" THEN legacy[t] ELSE beside[t]

(* Where a mode's result is looked for. *)
LEMMA PlacesAre ==
    ASSUME NEW c, NEW m
    PROVE  /\ 1 \in DOMAIN PlacesOf(c, m) /\ PlacesOf(c, m)[1] = "runs"
           /\ DOMAIN PlacesOf(c, m) \subseteq Nat \ {0}
           /\ \A i \in DOMAIN PlacesOf(c, m) : PlacesOf(c, m)[i] \in {"runs", "legacy", "local"}
  BY DEF PlacesOf

(* The candidates are read from those places. *)
LEMMA CandidatesAre ==
    ASSUME NEW t
    PROVE  /\ DOMAIN Candidates(t) = DOMAIN PlacesOf(config, mode)
           /\ \A i \in DOMAIN PlacesOf(config, mode) :
                 Candidates(t)[i] = FileAt(PlacesOf(config, mode)[i], t)
           /\ 1 \in DOMAIN Candidates(t) /\ Candidates(t)[1] = runs[<<t, CurrentSegment>>]
<1>. DEFINE r == runs[<<t, CurrentSegment>>]
            g == legacy[t]
            l == beside[t]
<1>1. FileAt("runs", t) = r /\ FileAt("legacy", t) = g /\ FileAt("local", t) = l
  BY DEF FileAt
<1>. HIDE DEF r, g, l
<1>2. CASE MultiMode \/ config.labelled
  <2>1. Candidates(t) = <<r>> /\ PlacesOf(config, mode) = <<"runs">>
    BY <1>2 DEF Candidates, PlacesOf, MultiMode, r
  <2>2. DOMAIN <<r>> = {1} /\ DOMAIN <<"runs">> = {1} /\ <<r>>[1] = r /\ <<"runs">>[1] = "runs"
    OBVIOUS
  <2>. QED
    BY <1>1, <2>1, <2>2 DEF r
<1>3. CASE ~(MultiMode \/ config.labelled) /\ config.modes[mode] # "baseline"
  <2>1. Candidates(t) = <<r, l>> /\ PlacesOf(config, mode) = <<"runs", "local">>
    BY <1>3 DEF Candidates, PlacesOf, MultiMode, r, l
  <2>2. /\ DOMAIN <<r, l>> = {1, 2} /\ <<r, l>>[1] = r /\ <<r, l>>[2] = l
        /\ DOMAIN <<"runs", "local">> = {1, 2} /\ <<"runs", "local">>[1] = "runs"
        /\ <<"runs", "local">>[2] = "local"
    OBVIOUS
  <2>. QED
    BY <1>1, <2>1, <2>2 DEF r
<1>4. CASE ~(MultiMode \/ config.labelled) /\ config.modes[mode] = "baseline"
  <2>1. Candidates(t) = <<r, g, l>> /\ PlacesOf(config, mode) = <<"runs", "legacy", "local">>
    BY <1>4 DEF Candidates, PlacesOf, MultiMode, r, g, l
  <2>2. /\ DOMAIN <<r, g, l>> = {1, 2, 3} /\ <<r, g, l>>[1] = r /\ <<r, g, l>>[2] = g
        /\ <<r, g, l>>[3] = l
        /\ DOMAIN <<"runs", "legacy", "local">> = {1, 2, 3}
        /\ <<"runs", "legacy", "local">>[1] = "runs" /\ <<"runs", "legacy", "local">>[2] = "legacy"
        /\ <<"runs", "legacy", "local">>[3] = "local"
    OBVIOUS
  <2>. QED
    BY <1>1, <2>1, <2>2 DEF r
<1>. QED
  BY <1>2, <1>3, <1>4

(* ... every candidate from one of them. *)
LEMMA CandidatesListed ==
    ASSUME NEW t, runs[<<t, CurrentSegment>>] \in Files, legacy[t] \in Files, beside[t] \in Files
    PROVE  Candidates(t) \in Seq(Files)
<1>. DEFINE r == runs[<<t, CurrentSegment>>]
            g == legacy[t]
            l == beside[t]
<1>1. \/ Candidates(t) = <<r>>
      \/ Candidates(t) = <<r, l>>
      \/ Candidates(t) = <<r, g, l>>
  BY DEF Candidates
<1>. HIDE DEF r, g, l
<1>2. r \in Files /\ g \in Files /\ l \in Files
  BY DEF r, g, l
<1>3. <<r>> \in Seq(Files) /\ <<r, l>> \in Seq(Files) /\ <<r, g, l>> \in Seq(Files)
  BY <1>2
<1>. QED
  BY <1>1, <1>3

(* Division with rest, of what is counted row by row. *)
LEMMA DivMod ==
    ASSUME NEW N \in Nat, N >= 1, NEW q \in Nat, NEW r \in Nat, r < N
    PROVE (N * q + r) % N = r /\ (N * q + r) \div N = q
<1>. DEFINE x == N * q + r
            d == x \div N
            m == x % N
<1>1. x \in Nat /\ d \in Int /\ m \in Int /\ x = N * d + m /\ 0 <= m /\ m < N
  OBVIOUS
<1>2. CASE d < q
  <2>1. N * (q - d) >= N
    <3>. DEFINE e == q - d
    <3>1. e >= 1 /\ e \in Int
      BY <1>1, <1>2
    <3>. HIDE DEF e
    <3>2. N * e >= N
      BY <3>1
    <3>. QED
      BY <3>2 DEF e
  <2>2. N * (q - d) = N * q - N * d
    BY <1>1
  <2>. QED
    BY <1>1, <2>1, <2>2
<1>3. CASE d > q
  <2>1. N * (d - q) >= N
    <3>. DEFINE e == d - q
    <3>1. e >= 1 /\ e \in Int
      BY <1>1, <1>3
    <3>. HIDE DEF e
    <3>2. N * e >= N
      BY <3>1
    <3>. QED
      BY <3>2 DEF e
  <2>2. N * (d - q) = N * d - N * q
    BY <1>1
  <2>. QED
    BY <1>1, <2>1, <2>2
<1>4. CASE d = q
  BY <1>1, <1>4
<1>. QED
  BY <1>1, <1>2, <1>3, <1>4

-----------------------------------------------------------------------------
(* What holds of a sweep at every step                                      *)

LaunchShape == [task : Names, segment : Segments, sweep : 1..MaxSweeps]

SweepTyped ==
    /\ SweepTypeOK
    /\ launches \in Seq(LaunchShape) /\ todo \in Seq(Names) /\ Distinct(todo)
    /\ results \in Seq(Results) /\ before \in [Names -> Seq(Files)]

(* A result is of a run of its own task and segment that this sweep started, or of *)
(* one whose dispatcher was killed.                                                *)
OwnAmong(r, ls, os, current) ==
    r.by # 0 =>
        /\ r.by \in DOMAIN ls /\ ls[r.by].task = r.task
        /\ ls[r.by].segment = r.segment \/ SessionType[r.task] = "chain"
        /\ ls[r.by].sweep = current \/ r.by \in os

OwnResult(r) == OwnAmong(r, launches, orphans, sweeps)

(* A sweep that is under way has something to do, and a child only while tasks are run. *)
SweepPlace ==
    /\ sweepPc # "over" => /\ config \in SweepConfigs /\ todo # <<>>
                           /\ mode \in 1..Len(config.modes) /\ sweeps # 0
    /\ sweepPc # "sweeping" => \A t \in Names : running[t] = 0

(* Every task that was started runs or has its result, and no other has one. *)
StartedTells ==
    sweepPc = "sweeping" =>
        /\ \A i \in 1..started : running[todo[i]] # 0 \/ gathered[todo[i]] # Absent
        /\ \A t \in Names :
              running[t] # 0 \/ gathered[t] # Absent => \E i \in 1..started : t = todo[i]
        /\ \A t \in Names :
              gathered[t] # Absent => /\ running[t] = 0
                                     /\ gathered[t].task = t /\ gathered[t].segment = CurrentSegment

(* Every file that can be read lies where the run that wrote it was to put it. *)
FilesTell ==
    /\ \A t \in Names, s \in Segments : Readable(runs[<<t, s>>]) =>
          LET l == runs[<<t, s>>].by
          IN  l \in DOMAIN launches /\ launches[l].task = t /\ launches[l].segment = s
    /\ \A t \in Names : Readable(beside[t]) =>
          LET l == beside[t].by
          IN  l \in DOMAIN launches /\ launches[l].task = t /\ SessionType[t] = "chain"
    /\ \A t \in Names : Readable(legacy[t]) => legacy[t].by = 0

(* A candidate that changed since the launch was written by the child or by an orphan, *)
(* and the child had written nothing before.                                          *)
ChangedIsOwn(t) ==
    /\ DOMAIN before[t] = DOMAIN PlacesOf(config, mode)
    /\ \A i \in DOMAIN PlacesOf(config, mode) :
          LET f == FileAt(PlacesOf(config, mode)[i], t)
          IN  f # before[t][i] /\ Readable(f) =>
                  PlacesOf(config, mode)[i] = "legacy" \/ f.by = running[t] \/ f.by \in orphans
    /\ Readable(before[t][1]) => before[t][1].by # running[t]

ChildTells(t) ==
    running[t] # 0 =>
        /\ running[t] \in DOMAIN launches /\ launches[running[t]].task = t
        /\ launches[running[t]].segment = CurrentSegment /\ launches[running[t]].sweep = sweeps
        /\ ChangedIsOwn(t)

RunningTells == \A t \in Names : ChildTells(t)

ResultsTell ==
    /\ \A t \in Names : gathered[t] # Absent => OwnResult(gathered[t])
    /\ \A i \in DOMAIN results : OwnResult(results[i])

(* The results of the modes that are over, mode by mode in the order of the tasks. *)
Complete(k) ==
    LET N == Len(todo) IN
    /\ Len(results) = N * k
    /\ \A i \in DOMAIN results :
          /\ results[i].task = todo[((i - 1) % N) + 1]
          /\ results[i].segment = Segment(config, config.modes[((i - 1) \div N) + 1])

SoFar ==
    /\ sweepPc = "sweeping" => Complete(mode - 1)
    /\ sweepPc = "summary" /\ ~exceeded => Complete(Len(config.modes))
    /\ CleanExitIsComplete

SweepInv ==
    /\ SweepTyped /\ SweepPlace /\ StartedTells /\ FilesTell /\ RunningTells /\ ResultsTell /\ SoFar

(* What a file may hold. *)
LEMMA RecordsAre ==
    /\ \A f \in Files : Readable(f) => f \in Records
    /\ \A f \in Records : Readable(f) /\ f \in Files
    /\ \A r \in Results : r # Absent
    /\ Absent \in Files /\ Torn \in Files /\ ~Readable(Absent) /\ ~Readable(Torn)
    /\ \A l \in Nat, o \in Outcomes : Recorded(l, o) \in Records /\ Recorded(l, o).by = l
    /\ \A l \in Nat : Recorded(l, NullOutcome) \in Records /\ Recorded(l, NullOutcome).by = l
    /\ \A l \in Nat : Recorded(l, OldOutcome) \in Records /\ Recorded(l, OldOutcome).by = l
    /\ Costs \subseteq Nat
  BY SweepAssumption, NoFileAssumption DEF Files, Readable, Records, Recorded, NullOutcome, OldOutcome, Costs

(* Before the first sweep there is nothing to tell. *)
LEMMA SweepStarts == SweepInit => SweepInv
<1>. SUFFICES ASSUME SweepInit PROVE SweepInv
  OBVIOUS
<1>1. PICK old \in Legacy :
          legacy = [t \in Names |-> IF t \in old THEN Recorded(0, OldOutcome) ELSE Absent]
  BY DEF SweepInit
<1>2. \A t \in Names : legacy[t] \in Files /\ (Readable(legacy[t]) => legacy[t].by = 0)
  BY <1>1, RecordsAre
<1>3. MaxSweeps \in Nat
  BY SweepAssumption
<1>4. SweepTypeOK
  <2>1. legacy \in [Names -> Files]
    BY <1>1, <1>2
  <2>2. runs \in [Names \X Segments -> Files] /\ beside \in [Names -> Files]
    BY RecordsAre DEF SweepInit
  <2>3. \A i \in DOMAIN launches : launches[i] \in [task : Names, segment : Segments, sweep : 1..MaxSweeps]
    BY DEF SweepInit
  <2>4. /\ orphans \subseteq DOMAIN launches /\ \A i \in DOMAIN todo : todo[i] \in Names
        /\ \A i \in DOMAIN results : results[i] \in Results
        /\ \A t \in Names : \A i \in DOMAIN before[t] : before[t][i] \in Files
    BY DEF SweepInit
  <2>5. Len(todo) = 0 /\ Len(launches) = 0 /\ started \in 0..Len(todo)
    BY DEF SweepInit
  <2>6. running \in [Names -> 0..Len(launches)] /\ gathered \in [Names -> Results \cup {Absent}]
    BY <2>5 DEF SweepInit
  <2>7. /\ sweepPc \in {"over", "sweeping", "summary"} /\ config \in SweepConfigs \cup {Absent}
        /\ exit \in {"none", "clean", "budget", "killed"}
    BY DEF SweepInit
  <2>8. mode \in Nat /\ cumulative \in Nat /\ sweeps \in 0..MaxSweeps
    BY <1>3 DEF SweepInit
  <2>9. exceeded \in BOOLEAN /\ givenUp \in BOOLEAN
    BY DEF SweepInit
  <2>. QED
    BY <2>1, <2>2, <2>3, <2>4, <2>5, <2>6, <2>7, <2>8, <2>9 DEF SweepTypeOK
<1>5. SweepTyped
  BY <1>4 DEF SweepInit, SweepTyped, Distinct
<1>6. SweepPlace /\ StartedTells /\ RunningTells /\ ResultsTell /\ SoFar
  BY DEF SweepInit, SweepPlace, StartedTells, RunningTells, ChildTells, ResultsTell, SoFar, CleanExitIsComplete
<1>7. FilesTell
  BY <1>2, RecordsAre DEF SweepInit, FilesTell
<1>. QED
  BY <1>5, <1>6, <1>7 DEF SweepInv

(* The command line of a sweep that is under way, and the segment of its mode. *)
LEMMA ConfigIs ==
    ASSUME SweepInv, sweepPc # "over"
    PROVE  /\ config \in SweepConfigShape /\ Len(config.modes) \in Nat
           /\ CurrentSegment \in Segments /\ mode \in Nat
           /\ Len(todo) \in Nat /\ Len(todo) # 0 /\ started \in 0..Len(todo)
           /\ DOMAIN todo = 1..Len(todo)
<1>1. config \in SweepConfigs /\ todo # <<>> /\ mode \in 1..Len(config.modes)
  BY DEF SweepInv, SweepPlace
<1>2. config \in SweepConfigShape
  BY <1>1, SweepAssumption
<1>3. config.modes \in Seq(Modes) /\ config.labelled \in BOOLEAN
  BY <1>2 DEF SweepConfigShape
<1>4. config.modes[mode] \in Modes
  BY <1>1, <1>3
<1>5. CurrentSegment \in Segments
  BY <1>3, <1>4 DEF CurrentSegment, Segment, Segments
<1>6. todo \in Seq(Names) /\ started \in 0..Len(todo)
  BY DEF SweepInv, SweepTyped, SweepTypeOK
<1>7. Len(todo) \in Nat /\ Len(todo) # 0 /\ DOMAIN todo = 1..Len(todo)
  BY <1>1, <1>6
<1>. QED
  BY <1>1, <1>2, <1>3, <1>5, <1>6, <1>7

(* What is read at a child's end, of the files at hand. *)
LEMMA FirstChanged ==
    ASSUME NEW t, NEW seen
    PROVE  LET now == Candidates(t)
               f == Load(t, seen)
           IN  \/ /\ f = [scored |-> FALSE, by |-> 0, cost |-> 0]
                  /\ \A i \in DOMAIN now : ~(now[i] # seen[i] /\ Readable(now[i]))
               \/ \E i \in DOMAIN now :
                     /\ now[i] # seen[i] /\ Readable(now[i])
                     /\ f = [scored |-> now[i].scored, by |-> now[i].by, cost |-> now[i].cost]
                     /\ now[1] # seen[1] /\ Readable(now[1]) => i = 1
<1>. DEFINE now == Candidates(t)
            f == Load(t, seen)
            fresh == {i \in DOMAIN now : now[i] # seen[i] /\ Readable(now[i])}
            first == CHOOSE i \in fresh : \A j \in fresh : i <= j
<1>1. DOMAIN now \subseteq Nat \ {0} /\ 1 \in DOMAIN now
  BY CandidatesAre, PlacesAre
<1>2. f = IF fresh = {} THEN [scored |-> FALSE, by |-> 0, cost |-> 0]
          ELSE [scored |-> now[first].scored, by |-> now[first].by, cost |-> now[first].cost]
  BY DEF Load
<1>. HIDE DEF now, f
<1>3. fresh \in SUBSET Nat /\ (1 \in fresh <=> now[1] # seen[1] /\ Readable(now[1]))
  BY <1>1
<1>4. ASSUME fresh # {}
      PROVE  first \in fresh /\ \A j \in fresh : first <= j
  <2>. HIDE DEF fresh
  <2>1. \E i \in fresh : \A j \in fresh : i <= j
    BY <1>3, <1>4, LeastOf
  <2>. QED
    BY <2>1
<1>. HIDE DEF first
<1>5. CASE fresh = {}
  <2>1. f = [scored |-> FALSE, by |-> 0, cost |-> 0]
    BY <1>2, <1>5
  <2>2. \A i \in DOMAIN now : ~(now[i] # seen[i] /\ Readable(now[i]))
    BY <1>5
  <2>. QED
    BY <2>1, <2>2 DEF f, now
<1>6. CASE fresh # {}
  <2>1. f = [scored |-> now[first].scored, by |-> now[first].by, cost |-> now[first].cost]
    BY <1>2, <1>6
  <2>2. first \in fresh /\ \A j \in fresh : first <= j
    BY <1>4, <1>6
  <2>3. first \in DOMAIN now /\ now[first] # seen[first] /\ Readable(now[first])
    BY <2>2
  <2>4. 1 \in fresh => first = 1
    <3>. HIDE DEF fresh
    <3>1. first \in Nat /\ first # 0
      BY <1>1, <2>3
    <3>2. 1 \in fresh => first <= 1
      BY <2>2
    <3>. QED
      BY <3>1, <3>2
  <2>. QED
    BY <1>3, <2>1, <2>3, <2>4 DEF f, now
<1>. QED
  BY <1>5, <1>6

(* A run of task t that this sweep started, or one whose dispatcher was killed. *)
RunOf(l, t) ==
    /\ l \in DOMAIN launches /\ launches[l].task = t
    /\ launches[l].segment = CurrentSegment \/ SessionType[t] = "chain"
    /\ launches[l].sweep = sweeps \/ l \in orphans

Brings(t, f, g) ==
    /\ f.scored \in BOOLEAN /\ f.by \in Nat /\ f.cost \in Costs \cup {0}
    /\ f.by # 0 => RunOf(f.by, t)
    /\ Readable(g) /\ g.by = running[t] => f.cost = g.cost

(* What a child's end brings in. *)
LEMMA LoadIs ==
    ASSUME SweepInv, NEW t \in Names, running[t] # 0
    PROVE  Brings(t, Load(t, before[t]), runs[<<t, CurrentSegment>>])
<1>. DEFINE now == Candidates(t)
            places == PlacesOf(config, mode)
            f == Load(t, before[t])
            g == runs[<<t, CurrentSegment>>]
<1>1. sweepPc = "sweeping" /\ ChangedIsOwn(t) /\ running[t] \in DOMAIN launches
      /\ launches[running[t]].sweep = sweeps
  BY DEF SweepInv, SweepPlace, RunningTells, ChildTells
<1>2. /\ DOMAIN now = DOMAIN places
      /\ \A i \in DOMAIN places : /\ now[i] = FileAt(places[i], t)
                                  /\ places[i] \in {"runs", "legacy", "local"}
      /\ 1 \in DOMAIN now /\ now[1] = g
  BY CandidatesAre, PlacesAre
<1>3. /\ runs \in [Names \X Segments -> Files] /\ legacy \in [Names -> Files]
      /\ beside \in [Names -> Files] /\ CurrentSegment \in Segments
  BY <1>1, ConfigIs DEF SweepInv, SweepTyped, SweepTypeOK
<1>4. Readable(g) /\ g.by = running[t] => now[1] # before[t][1] /\ Readable(now[1])
  BY <1>1, <1>2 DEF ChangedIsOwn
<1>5. \/ /\ f = [scored |-> FALSE, by |-> 0, cost |-> 0]
         /\ \A i \in DOMAIN now : ~(now[i] # before[t][i] /\ Readable(now[i]))
      \/ \E i \in DOMAIN now :
            /\ now[i] # before[t][i] /\ Readable(now[i])
            /\ f = [scored |-> now[i].scored, by |-> now[i].by, cost |-> now[i].cost]
            /\ now[1] # before[t][1] /\ Readable(now[1]) => i = 1
  BY FirstChanged
<1>6. \A i \in DOMAIN places :
         LET h == FileAt(places[i], t)
         IN  h # before[t][i] /\ Readable(h) =>
                 places[i] = "legacy" \/ h.by = running[t] \/ h.by \in orphans
  BY <1>1 DEF ChangedIsOwn
<1>. HIDE DEF now, f, g, places
<1>. SUFFICES Brings(t, f, g)
  BY DEF f, g
<1>7. CASE /\ f = [scored |-> FALSE, by |-> 0, cost |-> 0]
           /\ \A i \in DOMAIN now : ~(now[i] # before[t][i] /\ Readable(now[i]))
  <2>1. ~(Readable(g) /\ g.by = running[t])
    BY <1>2, <1>4, <1>7
  <2>2. f.scored \in BOOLEAN /\ f.by \in Nat /\ f.cost \in Costs \cup {0} /\ f.by = 0
    BY <1>7
  <2>3. ~(Readable(g) /\ g.by = running[t] => f.cost = g.cost) => FALSE
    BY <2>1
  <2>. QED
    BY <2>2, <2>3 DEF Brings
<1>8. ASSUME NEW i \in DOMAIN now, now[i] # before[t][i], Readable(now[i]),
             f = [scored |-> now[i].scored, by |-> now[i].by, cost |-> now[i].cost],
             now[1] # before[t][1] /\ Readable(now[1]) => i = 1
      PROVE  Brings(t, f, g)
  <2>. DEFINE h == now[i]
  <2>1. h = FileAt(places[i], t) /\ places[i] \in {"runs", "legacy", "local"}
    BY <1>2, <1>8
  <2>2. \/ places[i] = "runs" /\ h = runs[<<t, CurrentSegment>>]
        \/ places[i] = "legacy" /\ h = legacy[t]
        \/ places[i] = "local" /\ h = beside[t]
    BY <2>1 DEF FileAt
  <2>3. h \in Files /\ Readable(h)
    BY <1>3, <1>8, <2>2
  <2>4. h \in Records
    BY <2>3, RecordsAre
  <2>5. h.scored \in BOOLEAN /\ h.by \in Nat /\ h.cost \in Costs \cup {0}
    BY <2>4 DEF Records
  <2>6. places[i] = "legacy" \/ h.by = running[t] \/ h.by \in orphans
    BY <1>2, <1>6, <1>8, <2>1
  <2>7. f.scored = h.scored /\ f.by = h.by /\ f.cost = h.cost
    BY <1>8
  <2>8. Readable(g) /\ g.by = running[t] => h = g
    BY <1>2, <1>4, <1>8
  <2>. HIDE DEF h
  <2>9. CASE places[i] = "runs" /\ h = runs[<<t, CurrentSegment>>]
    <3>1. h.by \in DOMAIN launches /\ launches[h.by].task = t /\ launches[h.by].segment = CurrentSegment
      BY <1>3, <2>3, <2>9 DEF SweepInv, FilesTell
    <3>2. launches[h.by].sweep = sweeps \/ h.by \in orphans
      BY <1>1, <2>6, <2>9
    <3>. QED
      BY <2>5, <2>7, <2>8, <3>1, <3>2 DEF RunOf, Brings
  <2>10. CASE places[i] = "legacy" /\ h = legacy[t]
    <3>1. h.by = 0
      BY <2>3, <2>10 DEF SweepInv, FilesTell
    <3>. QED
      BY <2>5, <2>7, <2>8, <3>1 DEF Brings
  <2>11. CASE places[i] = "local" /\ h = beside[t]
    <3>1. h.by \in DOMAIN launches /\ launches[h.by].task = t /\ SessionType[t] = "chain"
      BY <2>3, <2>11 DEF SweepInv, FilesTell
    <3>2. launches[h.by].sweep = sweeps \/ h.by \in orphans
      BY <1>1, <2>6, <2>11
    <3>. QED
      BY <2>5, <2>7, <2>8, <3>1, <3>2 DEF RunOf, Brings
  <2>. QED
    BY <2>2, <2>9, <2>10, <2>11
<1>9. CASE \E i \in DOMAIN now :
            /\ now[i] # before[t][i] /\ Readable(now[i])
            /\ f = [scored |-> now[i].scored, by |-> now[i].by, cost |-> now[i].cost]
            /\ now[1] # before[t][1] /\ Readable(now[1]) => i = 1
  <2>1. PICK i \in DOMAIN now :
            /\ now[i] # before[t][i] /\ Readable(now[i])
            /\ f = [scored |-> now[i].scored, by |-> now[i].by, cost |-> now[i].cost]
            /\ now[1] # before[t][1] /\ Readable(now[1]) => i = 1
    BY <1>9
  <2>. QED
    BY <1>8, <2>1
<1>. QED
  BY <1>5, <1>7, <1>9

-----------------------------------------------------------------------------
(* What steps leave alone                                                    *)

(* What a launch recorded stays its own while files and launches stand. *)
LEMMA StillOwn ==
    ASSUME NEW r, NEW ls, NEW os, NEW current, NEW ls2, NEW os2, OwnAmong(r, ls, os, current),
           DOMAIN ls \subseteq DOMAIN ls2, \A l \in DOMAIN ls : ls2[l] = ls[l], os \subseteq os2
    PROVE  OwnAmong(r, ls2, os2, current)
  BY DEF OwnAmong

(* Steps that touch neither files nor launches. *)
LEMMA FilesStand ==
    ASSUME SweepInv, UNCHANGED <<sweepFiles, launches>>
    PROVE  FilesTell'
  BY DEF SweepInv, FilesTell, sweepFiles, Readable

(* A child runs on while others are launched. *)
LEMMA ChildRunsOn ==
    ASSUME SweepInv, UNCHANGED <<runs, legacy, beside, orphans, config, mode, sweeps>>,
           DOMAIN launches \subseteq DOMAIN launches',
           \A l \in DOMAIN launches : launches'[l] = launches[l],
           NEW t \in Names, running'[t] # 0 => running'[t] = running[t] /\ before'[t] = before[t]
    PROVE  ChildTells(t)'
<1>. SUFFICES ASSUME running'[t] # 0
              PROVE  /\ running'[t] \in DOMAIN launches' /\ launches'[running'[t]].task = t
                     /\ launches'[running'[t]].segment = CurrentSegment'
                     /\ launches'[running'[t]].sweep = sweeps' /\ ChangedIsOwn(t)'
  BY DEF ChildTells
<1>1. running'[t] = running[t] /\ before'[t] = before[t]
  OBVIOUS
<1>2. CurrentSegment' = CurrentSegment
  BY DEF CurrentSegment, Segment
<1>3. /\ running[t] \in DOMAIN launches /\ launches[running[t]].task = t
      /\ launches[running[t]].segment = CurrentSegment /\ launches[running[t]].sweep = sweeps
      /\ ChangedIsOwn(t)
  BY <1>1 DEF SweepInv, RunningTells, ChildTells
<1>4. PlacesOf(config', mode') = PlacesOf(config, mode)
  OBVIOUS
<1>5. \A p : FileAt(p, t)' = FileAt(p, t)
  BY <1>2 DEF FileAt
<1>6. ChangedIsOwn(t)'
  BY <1>1, <1>3, <1>4, <1>5 DEF ChangedIsOwn, Readable
<1>. QED
  BY <1>1, <1>2, <1>3, <1>6

(* Steps of a dispatcher whose children, but for those that ended, run on. *)
LEMMA ChildrenRunOn ==
    ASSUME SweepInv, UNCHANGED <<sweepFiles, sweepHistory, config, mode, sweeps>>,
           \A t \in Names : running'[t] # 0 => running'[t] = running[t] /\ before'[t] = before[t]
    PROVE  RunningTells'
<1>1. UNCHANGED <<runs, legacy, beside, orphans, config, mode, sweeps>> /\ launches' = launches
  BY DEF sweepFiles, sweepHistory
<1>2. DOMAIN launches \subseteq DOMAIN launches' /\ \A l \in DOMAIN launches : launches'[l] = launches[l]
  BY <1>1
<1>3. \A t \in Names : ChildTells(t)'
  BY <1>1, <1>2, ChildRunsOn
<1>. QED
  BY <1>3 DEF RunningTells

(* Where no child is alive there is none to tell of. *)
LEMMA NoChildren ==
    ASSUME \A t \in Names : running'[t] = 0
    PROVE  RunningTells'
  BY DEF RunningTells, ChildTells

(* Steps within a mode add nothing to the results of the modes that are over. *)
LEMMA ModesOverStand ==
    ASSUME SweepInv, sweepPc = "sweeping", UNCHANGED <<sweepPc, config, todo, mode, results>>
    PROVE  SoFar'
<1>1. Complete(mode - 1)
  BY DEF SweepInv, SoFar
<1>2. Complete(mode - 1)'
  BY <1>1 DEF Complete, Segment
<1>. QED
  BY <1>2 DEF SoFar, CleanExitIsComplete

(* The next task to be started has neither a child nor a result. *)
LEMMA NextTaskIs ==
    ASSUME SweepInv, sweepPc = "sweeping", started < Len(todo)
    PROVE  /\ started \in Nat /\ started + 1 \in DOMAIN todo /\ todo[started + 1] \in Names
           /\ DOMAIN todo = 1..Len(todo) /\ Len(todo) \in Nat
           /\ running[todo[started + 1]] = 0 /\ gathered[todo[started + 1]] = Absent
           /\ \A i \in 1..started : todo[i] # todo[started + 1]
<1>1. todo \in Seq(Names) /\ started \in 0..Len(todo) /\ Distinct(todo)
  BY DEF SweepInv, SweepTyped, SweepTypeOK
<1>2. started \in Nat /\ started + 1 \in DOMAIN todo /\ todo[started + 1] \in Names
      /\ DOMAIN todo = 1..Len(todo) /\ Len(todo) \in Nat
  BY <1>1
<1>3. \A i \in 1..started : todo[i] # todo[started + 1]
  <2>. SUFFICES ASSUME NEW i \in 1..started, todo[i] = todo[started + 1] PROVE FALSE
    OBVIOUS
  <2>1. i \in DOMAIN todo /\ i # started + 1
    BY <1>2
  <2>. QED
    BY <1>1, <1>2, <2>1 DEF Distinct
<1>. QED
  BY <1>2, <1>3 DEF SweepInv, StartedTells

-----------------------------------------------------------------------------
(* Every step of a sweep keeps the invariant                                *)

(* A task whose dry run or replay needs no child (main's dry run, run_task's skip). *)
LEMMA PassOverStep == ASSUME SweepInv, PassOver PROVE SweepInv'
<1>0. PICK t : t = todo[started + 1]
  OBVIOUS
<1>. DEFINE r == Unread(t)
<1>1. sweepPc = "sweeping" /\ started < Len(todo)
  BY DEF PassOver, MayStart
<1>2. /\ started \in Nat /\ started + 1 \in DOMAIN todo /\ t \in Names
      /\ DOMAIN todo = 1..Len(todo) /\ Len(todo) \in Nat
      /\ running[t] = 0 /\ gathered[t] = Absent
      /\ \A i \in 1..started : todo[i] # t
  BY <1>0, <1>1, NextTaskIs
<1>3. /\ gathered' = [gathered EXCEPT ![t] = r] /\ started' = started + 1
      /\ exceeded' = (exceeded \/ (~Sequential /\ BudgetReached(cumulative)))
  BY <1>0 DEF PassOver
<1>4. UNCHANGED <<runs, legacy, beside, launches, orphans, sweepPc, config, todo, mode, running, before,
                  results, cumulative, givenUp, exit, sweeps>>
  BY DEF PassOver, sweepFiles, sweepHistory
<1>5. CurrentSegment \in Segments
  BY <1>1, ConfigIs
<1>6. r \in Results /\ r.by = 0 /\ r.task = t /\ r.segment = CurrentSegment /\ r # Absent
  <2>1. r \in Results /\ r.by = 0 /\ r.task = t /\ r.segment = CurrentSegment
    BY <1>2, <1>5 DEF Unread, Results
  <2>. QED
    BY <2>1, RecordsAre
<1>. HIDE DEF r
<1>7. SweepTypeOK /\ launches \in Seq(LaunchShape) /\ todo \in Seq(Names) /\ Distinct(todo)
      /\ results \in Seq(Results) /\ before \in [Names -> Seq(Files)]
  BY DEF SweepInv, SweepTyped
<1>8. gathered \in [Names -> Results \cup {Absent}] /\ running \in [Names -> 0..Len(launches)]
  BY <1>7 DEF SweepTypeOK
<1>9. gathered' \in [Names -> Results \cup {Absent}] /\ started' \in 0..Len(todo')
  BY <1>1, <1>2, <1>3, <1>4, <1>6, <1>8
<1>10. gathered'[t] = r /\ \A u \in Names : u # t => gathered'[u] = gathered[u]
  BY <1>2, <1>3, <1>8
<1>11. SweepTyped'
  <2>1. exceeded' \in BOOLEAN
    BY <1>3
  <2>2. SweepTypeOK'
    BY <1>4, <1>7, <1>9, <2>1 DEF SweepTypeOK
  <2>. QED
    BY <1>4, <1>7, <2>2 DEF SweepTyped, Distinct
<1>12. SweepPlace'
  BY <1>4 DEF SweepInv, SweepPlace
<1>13. CurrentSegment' = CurrentSegment
  BY <1>4 DEF CurrentSegment, Segment
<1>14. StartedTells'
  <2>1. StartedTells
    BY DEF SweepInv
  <2>2. ASSUME NEW i \in 1..started' PROVE running'[todo'[i]] # 0 \/ gathered'[todo'[i]] # Absent
    <3>1. i \in 1..started \/ i = started + 1
      BY <1>2, <1>3
    <3>2. CASE i \in 1..started
      <4>1. todo[i] \in Names
        BY <1>2, <1>7, <3>2
      <4>. QED
        BY <1>1, <1>2, <1>4, <1>10, <2>1, <3>2, <4>1 DEF StartedTells
    <3>3. CASE i = started + 1
      BY <1>0, <1>4, <1>6, <1>10, <3>3
    <3>. QED
      BY <3>1, <3>2, <3>3
  <2>3. ASSUME NEW u \in Names, running'[u] # 0 \/ gathered'[u] # Absent
        PROVE  \E i \in 1..started' : u = todo'[i]
    <3>1. CASE u = t
      <4>1. started + 1 \in 1..started' /\ u = todo[started + 1]
        BY <1>0, <1>2, <1>3, <3>1
      <4>. QED
        BY <1>4, <4>1
    <3>2. CASE u # t
      <4>1. \E i \in 1..started : u = todo[i]
        BY <1>1, <1>4, <1>10, <2>1, <2>3, <3>2 DEF StartedTells
      <4>2. 1..started \subseteq 1..started'
        BY <1>2, <1>3
      <4>. QED
        BY <1>4, <4>1, <4>2
    <3>. QED
      BY <3>1, <3>2
  <2>4. ASSUME NEW u \in Names, gathered'[u] # Absent
        PROVE  running'[u] = 0 /\ gathered'[u].task = u /\ gathered'[u].segment = CurrentSegment'
    BY <1>1, <1>2, <1>4, <1>6, <1>10, <1>13, <2>1, <2>4 DEF StartedTells
  <2>. QED
    BY <2>2, <2>3, <2>4 DEF StartedTells
<1>15. FilesTell' /\ RunningTells' /\ SoFar'
  BY <1>1, <1>4, FilesStand, ChildrenRunOn, ModesOverStand DEF sweepFiles, sweepHistory
<1>16. ResultsTell'
  <2>1. ResultsTell
    BY DEF SweepInv
  <2>2. ASSUME NEW u \in Names, gathered'[u] # Absent PROVE OwnResult(gathered[u])'
    <3>1. CASE u = t
      BY <1>6, <1>10, <3>1 DEF OwnResult, OwnAmong
    <3>2. CASE u # t
      BY <1>4, <1>10, <2>1, <2>2, <3>2 DEF ResultsTell, OwnResult
    <3>. QED
      BY <3>1, <3>2
  <2>. QED
    BY <1>4, <2>1, <2>2 DEF ResultsTell, OwnResult
<1>. QED
  BY <1>11, <1>12, <1>14, <1>15, <1>16 DEF SweepInv

(* A child is started. *)
LEMMA LaunchStep == ASSUME SweepInv, Launch PROVE SweepInv'
<1>0. PICK t : t = todo[started + 1]
  OBVIOUS
<1>. DEFINE e == [task |-> t, segment |-> CurrentSegment, sweep |-> sweeps]
            k == Len(launches) + 1
<1>1. sweepPc = "sweeping" /\ started < Len(todo)
  BY DEF Launch, MayStart
<1>2. /\ started \in Nat /\ started + 1 \in DOMAIN todo /\ t \in Names
      /\ DOMAIN todo = 1..Len(todo) /\ Len(todo) \in Nat
      /\ running[t] = 0 /\ gathered[t] = Absent
      /\ \A i \in 1..started : todo[i] # t
  BY <1>0, <1>1, NextTaskIs
<1>3. /\ launches' = Append(launches, e) /\ running' = [running EXCEPT ![t] = Len(launches')]
      /\ before' = [before EXCEPT ![t] = Candidates(t)] /\ started' = started + 1
  BY <1>0 DEF Launch
<1>4. UNCHANGED <<runs, legacy, beside, orphans, sweepPc, config, todo, mode, gathered,
                  results, cumulative, exceeded, givenUp, exit, sweeps>>
  BY DEF Launch, sweepFiles
<1>5. CurrentSegment \in Segments /\ sweeps \in 1..MaxSweeps
  BY <1>1, ConfigIs DEF SweepInv, SweepPlace, SweepTyped, SweepTypeOK
<1>6. e \in LaunchShape /\ e.task = t /\ e.segment = CurrentSegment /\ e.sweep = sweeps
  BY <1>2, <1>5 DEF LaunchShape
<1>. HIDE DEF e
<1>7. SweepTypeOK /\ launches \in Seq(LaunchShape) /\ todo \in Seq(Names) /\ Distinct(todo)
      /\ results \in Seq(Results)
  BY DEF SweepInv, SweepTyped
<1>8. running \in [Names -> 0..Len(launches)] /\ orphans \subseteq DOMAIN launches
      /\ \A u \in Names : \A i \in DOMAIN before[u] : before[u][i] \in Files
  BY <1>7 DEF SweepTypeOK
<1>9. /\ launches' \in Seq(LaunchShape) /\ Len(launches') = k /\ k \in Nat /\ k # 0
      /\ DOMAIN launches = 1..Len(launches) /\ DOMAIN launches' = 1..k /\ launches'[k] = e
      /\ DOMAIN launches \subseteq DOMAIN launches' /\ k \notin DOMAIN launches
      /\ \A l \in DOMAIN launches : launches'[l] = launches[l]
  BY <1>3, <1>6, <1>7
<1>. HIDE DEF k
<1>10. running'[t] = k /\ \A u \in Names : u # t => running'[u] = running[u]
  BY <1>2, <1>3, <1>8, <1>9
<1>11. \A u \in Names : (u = t /\ before'[u] = Candidates(t)) \/ (u # t /\ before'[u] = before[u])
  <2>1. before \in [Names -> Seq(Files)]
    BY DEF SweepInv, SweepTyped
  <2>. QED
    BY <1>2, <1>3, <2>1
<1>12. Candidates(t) \in Seq(Files) /\ \A i \in DOMAIN Candidates(t) : Candidates(t)[i] \in Files
  <2>1. /\ runs \in [Names \X Segments -> Files] /\ legacy \in [Names -> Files]
        /\ beside \in [Names -> Files]
    BY <1>7 DEF SweepTypeOK
  <2>2. runs[<<t, CurrentSegment>>] \in Files /\ legacy[t] \in Files /\ beside[t] \in Files
    BY <1>2, <1>5, <2>1
  <2>3. Candidates(t) \in Seq(Files)
    BY <2>2, CandidatesListed
  <2>. QED
    BY <2>3
<1>13. SweepTyped'
  <2>1. running' \in [Names -> 0..Len(launches')]
    <3>1. running \in [Names -> 0..k] /\ k \in 0..k
      <4>1. 0..Len(launches) \subseteq 0..k
        BY <1>7, <1>9 DEF k
      <4>. QED
        BY <1>8, <1>9, <4>1
    <3>. QED
      BY <1>2, <1>3, <1>9, <3>1
  <2>2. started' \in 0..Len(todo')
    BY <1>1, <1>2, <1>3, <1>4
  <2>3. \A u \in Names : \A i \in DOMAIN before'[u] : before'[u][i] \in Files
    BY <1>8, <1>11, <1>12
  <2>4. orphans' \subseteq DOMAIN launches'
    BY <1>4, <1>8, <1>9
  <2>5. \A i \in DOMAIN launches' : launches'[i] \in LaunchShape
    BY <1>9
  <2>6. SweepTypeOK'
    BY <1>4, <1>7, <2>1, <2>2, <2>3, <2>4, <2>5 DEF SweepTypeOK, LaunchShape
  <2>7. before' \in [Names -> Seq(Files)]
    BY <1>3, <1>12 DEF SweepInv, SweepTyped
  <2>. QED
    BY <1>4, <1>7, <1>9, <2>6, <2>7 DEF SweepTyped, Distinct
<1>14. SweepPlace'
  BY <1>1, <1>4 DEF SweepInv, SweepPlace
<1>15. StartedTells'
  <2>1. StartedTells
    BY DEF SweepInv
  <2>2. ASSUME NEW i \in 1..started' PROVE running'[todo'[i]] # 0 \/ gathered'[todo'[i]] # Absent
    <3>1. i \in 1..started \/ i = started + 1
      BY <1>2, <1>3
    <3>2. CASE i \in 1..started
      <4>1. todo[i] \in Names
        BY <1>2, <1>7, <3>2
      <4>. QED
        BY <1>1, <1>2, <1>4, <1>10, <2>1, <3>2, <4>1 DEF StartedTells
    <3>3. CASE i = started + 1
      BY <1>0, <1>4, <1>9, <1>10, <3>3
    <3>. QED
      BY <3>1, <3>2, <3>3
  <2>3. ASSUME NEW u \in Names, running'[u] # 0 \/ gathered'[u] # Absent
        PROVE  \E i \in 1..started' : u = todo'[i]
    <3>1. CASE u = t
      <4>1. started + 1 \in 1..started' /\ u = todo[started + 1]
        BY <1>0, <1>2, <1>3, <3>1
      <4>. QED
        BY <1>4, <4>1
    <3>2. CASE u # t
      <4>1. \E i \in 1..started : u = todo[i]
        BY <1>1, <1>4, <1>10, <2>1, <2>3, <3>2 DEF StartedTells
      <4>2. 1..started \subseteq 1..started'
        BY <1>2, <1>3
      <4>. QED
        BY <1>4, <4>1, <4>2
    <3>. QED
      BY <3>1, <3>2
  <2>4. ASSUME NEW u \in Names, gathered'[u] # Absent
        PROVE  running'[u] = 0 /\ gathered'[u].task = u /\ gathered'[u].segment = CurrentSegment'
    <3>1. u # t
      BY <1>2, <1>4, <2>4
    <3>2. CurrentSegment' = CurrentSegment
      BY <1>4 DEF CurrentSegment, Segment
    <3>. QED
      BY <1>1, <1>4, <1>10, <2>1, <2>4, <3>1, <3>2 DEF StartedTells
  <2>. QED
    BY <2>2, <2>3, <2>4 DEF StartedTells
<1>16. FilesTell'
  BY <1>4, <1>9 DEF SweepInv, FilesTell, Readable
<1>17. RunningTells'
  <2>1. ASSUME NEW u \in Names PROVE ChildTells(u)'
    <3>1. CASE u # t
      <4>1. running'[u] = running[u] /\ before'[u] = before[u]
        BY <1>10, <1>11, <3>1
      <4>. QED
        BY <1>4, <1>9, <4>1, ChildRunsOn
    <3>2. CASE u = t
      <4>1. running'[t] = k /\ before'[t] = Candidates(t)
        BY <1>2, <1>10, <1>11
      <4>2. CurrentSegment' = CurrentSegment
        BY <1>4 DEF CurrentSegment, Segment
      <4>3. PlacesOf(config', mode') = PlacesOf(config, mode) /\ \A p : FileAt(p, t)' = FileAt(p, t)
        BY <1>4, <4>2 DEF FileAt
      <4>4. \A i \in DOMAIN PlacesOf(config, mode) : Candidates(t)[i] = FileAt(PlacesOf(config, mode)[i], t)
        BY CandidatesAre
      <4>5. DOMAIN Candidates(t) = DOMAIN PlacesOf(config, mode) /\ Candidates(t)[1] = runs[<<t, CurrentSegment>>]
        BY CandidatesAre
      <4>6. Readable(Candidates(t)[1]) => Candidates(t)[1].by # k
        BY <1>2, <1>5, <1>9, <4>5 DEF SweepInv, FilesTell
      <4>7. ChangedIsOwn(t)'
        BY <4>1, <4>3, <4>4, <4>5, <4>6 DEF ChangedIsOwn, Readable
      <4>. QED
        BY <1>4, <1>6, <1>9, <3>2, <4>1, <4>2, <4>7 DEF ChildTells
    <3>. QED
      BY <3>1, <3>2
  <2>. QED
    BY <2>1 DEF RunningTells
<1>18. ResultsTell'
  <2>1. ASSUME NEW u \in Names, gathered'[u] # Absent PROVE OwnResult(gathered[u])'
    BY <1>4, <1>9, <2>1, StillOwn DEF SweepInv, ResultsTell, OwnResult
  <2>2. ASSUME NEW i \in DOMAIN results' PROVE OwnResult(results[i])'
    BY <1>4, <1>9, <2>2, StillOwn DEF SweepInv, ResultsTell, OwnResult
  <2>. QED
    BY <2>1, <2>2 DEF ResultsTell
<1>19. SoFar'
  BY <1>1, <1>4, ModesOverStand
<1>. QED
  BY <1>13, <1>14, <1>15, <1>16, <1>17, <1>18, <1>19 DEF SweepInv

(* A child is off the list and its result is in. *)
LEMMA TakeInStep ==
    ASSUME SweepInv, NEW t \in Names, running[t] # 0, NEW r \in Results,
           r.task = t, r.segment = CurrentSegment, OwnResult(r), TakeIn(t, r),
           givenUp' \in BOOLEAN
    PROVE  SweepInv'
<1>1. sweepPc = "sweeping"
  BY DEF SweepInv, SweepPlace
<1>2. /\ gathered' = [gathered EXCEPT ![t] = r] /\ running' = [running EXCEPT ![t] = 0]
      /\ before' = [before EXCEPT ![t] = <<>>] /\ cumulative' = cumulative + r.cost
      /\ exceeded' = (exceeded \/ (~Sequential /\ BudgetReached(cumulative + r.cost)))
  BY DEF TakeIn
<1>3. UNCHANGED <<runs, legacy, beside, launches, orphans, sweepPc, config, todo, mode, started,
                  results, exit, sweeps>>
  BY DEF TakeIn, sweepFiles, sweepHistory
<1>4. SweepTypeOK /\ launches \in Seq(LaunchShape) /\ todo \in Seq(Names) /\ Distinct(todo)
      /\ results \in Seq(Results) /\ before \in [Names -> Seq(Files)]
  BY DEF SweepInv, SweepTyped
<1>5. /\ gathered \in [Names -> Results \cup {Absent}] /\ running \in [Names -> 0..Len(launches)]
      /\ cumulative \in Nat /\ r # Absent /\ r.cost \in Nat
  BY <1>4, RecordsAre DEF SweepTypeOK, Results
<1>6. /\ running'[t] = 0 /\ gathered'[t] = r
      /\ \A u \in Names : u # t => running'[u] = running[u] /\ gathered'[u] = gathered[u]
                                   /\ before'[u] = before[u]
  BY <1>2, <1>4, <1>5
<1>7. SweepTyped'
  <2>1. running' \in [Names -> 0..Len(launches')]
    <3>1. 0 \in 0..Len(launches)
      BY <1>4
    <3>. QED
      BY <1>2, <1>3, <1>5, <3>1
  <2>2. gathered' \in [Names -> Results \cup {Absent}] /\ cumulative' \in Nat
    BY <1>2, <1>5
  <2>3. exceeded' \in BOOLEAN
    BY <1>2
  <2>4. before' \in [Names -> Seq(Files)]
    <3>1. <<>> \in Seq(Files)
      OBVIOUS
    <3>. QED
      BY <1>2, <1>4, <3>1
  <2>5. \A u \in Names : \A i \in DOMAIN before'[u] : before'[u][i] \in Files
    BY <2>4
  <2>6. SweepTypeOK'
    BY <1>3, <1>4, <2>1, <2>2, <2>3, <2>5 DEF SweepTypeOK
  <2>. QED
    BY <1>3, <1>4, <2>4, <2>6 DEF SweepTyped, Distinct
<1>8. SweepPlace'
  BY <1>1, <1>3 DEF SweepInv, SweepPlace
<1>9. StartedTells'
  <2>1. StartedTells /\ started \in 0..Len(todo)
    BY <1>4 DEF SweepInv, SweepTypeOK
  <2>2. CurrentSegment' = CurrentSegment
    BY <1>3 DEF CurrentSegment, Segment
  <2>3. ASSUME NEW i \in 1..started' PROVE running'[todo'[i]] # 0 \/ gathered'[todo'[i]] # Absent
    <3>1. todo[i] \in Names /\ i \in 1..started
      BY <1>3, <1>4, <2>1
    <3>. QED
      BY <1>1, <1>3, <1>5, <1>6, <2>1, <3>1 DEF StartedTells
  <2>4. ASSUME NEW u \in Names, running'[u] # 0 \/ gathered'[u] # Absent
        PROVE  \E i \in 1..started' : u = todo'[i]
    <3>1. running[u] # 0 \/ gathered[u] # Absent
      BY <1>6, <2>4
    <3>2. \E i \in 1..started : u = todo[i]
      BY <1>1, <2>1, <3>1 DEF StartedTells
    <3>. QED
      BY <1>3, <3>2
  <2>5. ASSUME NEW u \in Names, gathered'[u] # Absent
        PROVE  running'[u] = 0 /\ gathered'[u].task = u /\ gathered'[u].segment = CurrentSegment'
    BY <1>1, <1>6, <2>1, <2>2, <2>5 DEF StartedTells
  <2>. QED
    BY <2>3, <2>4, <2>5 DEF StartedTells
<1>10. FilesTell' /\ SoFar'
  BY <1>1, <1>3, FilesStand, ModesOverStand DEF sweepFiles
<1>11. RunningTells'
  <2>1. \A u \in Names : running'[u] # 0 => running'[u] = running[u] /\ before'[u] = before[u]
    BY <1>6
  <2>. QED
    BY <1>3, <2>1, ChildrenRunOn DEF sweepFiles, sweepHistory
<1>12. ResultsTell'
  <2>1. ASSUME NEW u \in Names, gathered'[u] # Absent PROVE OwnResult(gathered[u])'
    BY <1>3, <1>6, <2>1 DEF SweepInv, ResultsTell, OwnResult
  <2>2. ASSUME NEW i \in DOMAIN results' PROVE OwnResult(results[i])'
    BY <1>3, <2>2 DEF SweepInv, ResultsTell, OwnResult
  <2>. QED
    BY <2>1, <2>2 DEF ResultsTell
<1>. QED
  BY <1>7, <1>8, <1>9, <1>10, <1>11, <1>12 DEF SweepInv

(* A child returns. *)
LEMMA ChildExitsStep == ASSUME SweepInv, NEW t \in Names, ChildExits(t) PROVE SweepInv'
<1>1. PICK clean \in BOOLEAN : TakeIn(t, ReadBack(t, clean))
  BY DEF ChildExits
<1>2. running[t] # 0 /\ sweepPc = "sweeping"
  BY DEF ChildExits
<1>. DEFINE f == Load(t, before[t])
<1>3. Brings(t, f, runs[<<t, CurrentSegment>>])
  BY <1>2, LoadIs
<1>4. CurrentSegment \in Segments
  BY <1>2, ConfigIs
<1>. HIDE DEF f
<1>5. f.cost \in Nat
  <2>1. f.cost \in Costs \cup {0}
    BY <1>3 DEF Brings
  <2>2. f.cost \in Costs => f.cost \in Nat
    BY RecordsAre
  <2>3. f.cost = 0 => f.cost \in Nat
    OBVIOUS
  <2>. QED
    BY <2>1, <2>2, <2>3
<1>6. PICK r : r = [task |-> t, segment |-> CurrentSegment,
                    completed |-> clean, scored |-> f.scored, by |-> f.by, cost |-> f.cost]
  OBVIOUS
<1>7. r = ReadBack(t, clean)
  BY <1>6 DEF ReadBack, f
<1>8. r \in Results
  <2>1. f.scored \in BOOLEAN /\ f.by \in Nat
    BY <1>3 DEF Brings
  <2>. QED
    BY <1>4, <1>5, <1>6, <2>1 DEF Results
<1>9. r.task = t /\ r.segment = CurrentSegment /\ r.by = f.by
  BY <1>6
<1>10. OwnResult(r)
  BY <1>3, <1>9 DEF Brings, RunOf, OwnResult, OwnAmong
<1>11. TakeIn(t, r) /\ givenUp' \in BOOLEAN
  BY <1>1, <1>7 DEF ChildExits, SweepInv, SweepTyped, SweepTypeOK
<1>. QED
  BY <1>2, <1>8, <1>9, <1>10, <1>11, TakeInStep

(* A child is given up. *)
LEMMA GiveUpStep == ASSUME SweepInv, NEW t \in Names, GiveUp(t) PROVE SweepInv'
<1>1. TakeIn(t, Unread(t)) /\ running[t] # 0 /\ sweepPc = "sweeping" /\ givenUp' = TRUE
  BY DEF GiveUp
<1>2. CurrentSegment \in Segments
  BY <1>1, ConfigIs
<1>3. PICK r : r = Unread(t)
  OBVIOUS
<1>4. r \in Results /\ r.task = t /\ r.segment = CurrentSegment /\ r.by = 0
  BY <1>2, <1>3 DEF Unread, Results
<1>5. OwnResult(r) /\ TakeIn(t, r)
  BY <1>1, <1>3, <1>4 DEF OwnResult, OwnAmong
<1>. QED
  BY <1>1, <1>4, <1>5, TakeInStep

(* The rows a mode adds: those of the tasks it started, in their order. *)
LEMMA RowsAre ==
    ASSUME SweepInv, sweepPc = "sweeping", Live = {}
    PROVE  /\ InTaskOrder(gathered) \in Seq(Results) /\ Len(InTaskOrder(gathered)) = started
           /\ results \o InTaskOrder(gathered) \in Seq(Results)
           /\ Len(results \o InTaskOrder(gathered)) = Len(results) + started
           /\ \A i \in 1..started : /\ gathered[todo[i]].task = todo[i]
                                   /\ gathered[todo[i]].segment = CurrentSegment
                                   /\ OwnResult(gathered[todo[i]])
           /\ \A i \in 1..Len(results) : (results \o InTaskOrder(gathered))[i] = results[i]
           /\ \A i \in 1..started :
                 (results \o InTaskOrder(gathered))[Len(results) + i] = gathered[todo[i]]
<1>. DEFINE rows == InTaskOrder(gathered)
<1>1. /\ todo \in Seq(Names) /\ results \in Seq(Results) /\ started \in 0..Len(todo)
      /\ gathered \in [Names -> Results \cup {Absent}] /\ StartedTells /\ ResultsTell
  BY DEF SweepInv, SweepTyped, SweepTypeOK
<1>2. started \in Nat /\ Len(results) \in Nat
  BY <1>1
<1>3. \A i \in 1..started : todo[i] \in Names /\ gathered[todo[i]] # Absent
  <2>. SUFFICES ASSUME NEW i \in 1..started PROVE todo[i] \in Names /\ gathered[todo[i]] # Absent
    OBVIOUS
  <2>1. todo[i] \in Names
    BY <1>1
  <2>2. running[todo[i]] = 0
    BY <2>1 DEF Live
  <2>. QED
    BY <1>1, <2>1, <2>2 DEF StartedTells
<1>4. rows = [i \in 1..started |-> gathered[todo[i]]]
  BY DEF InTaskOrder
<1>5. rows \in Seq(Results) /\ Len(rows) = started /\ \A i \in 1..started : rows[i] = gathered[todo[i]]
  <2>1. \A i \in 1..started : gathered[todo[i]] \in Results
    BY <1>1, <1>3
  <2>. QED
    BY <1>2, <1>4, <2>1
<1>6. \A i \in 1..started : /\ gathered[todo[i]].task = todo[i]
                           /\ gathered[todo[i]].segment = CurrentSegment
                           /\ OwnResult(gathered[todo[i]])
  BY <1>1, <1>3 DEF StartedTells, ResultsTell
<1>. HIDE DEF rows
<1>7. /\ results \o rows \in Seq(Results) /\ Len(results \o rows) = Len(results) + started
      /\ \A i \in 1..Len(results) : (results \o rows)[i] = results[i]
      /\ \A i \in 1..started : (results \o rows)[Len(results) + i] = rows[i]
  <2>1. /\ results \o rows \in Seq(Results) /\ Len(results \o rows) = Len(results) + Len(rows)
    BY <1>1, <1>5, ConcatProperties
  <2>2. \A i \in 1..Len(results) : (results \o rows)[i] = results[i]
    BY <1>1, <1>5
  <2>3. \A i \in 1..Len(rows) : (results \o rows)[Len(results) + i] = rows[i]
    BY <1>1, <1>2, <1>5
  <2>. QED
    BY <1>5, <2>1, <2>2, <2>3
<1>8. \A i \in 1..started : (results \o rows)[Len(results) + i] = gathered[todo[i]]
  BY <1>5, <1>7
<1>. QED
  BY <1>5, <1>6, <1>7, <1>8 DEF rows

(* With the rows of a mode, every result is still of a run of its own. *)
LEMMA RowsAreOwn ==
    ASSUME SweepInv, sweepPc = "sweeping", Live = {}, results' = results \o InTaskOrder(gathered),
           UNCHANGED <<launches, orphans, sweeps>>
    PROVE  results' \in Seq(Results) /\ \A i \in DOMAIN results' : OwnResult(results[i])'
<1>1. results' \in Seq(Results) /\ Len(results') = Len(results) + started
  BY RowsAre
<1>2. Len(results) \in Nat /\ started \in Nat
  BY DEF SweepInv, SweepTyped, SweepTypeOK
<1>3. ASSUME NEW i \in DOMAIN results' PROVE OwnAmong(results'[i], launches, orphans, sweeps)
  <2>1. i \in 1..(Len(results) + started)
    BY <1>1
  <2>2. CASE i \in 1..Len(results)
    <3>1. results'[i] = results[i] /\ i \in DOMAIN results
      BY <2>2, RowsAre DEF SweepInv, SweepTyped
    <3>. QED
      BY <3>1 DEF SweepInv, ResultsTell, OwnResult
  <2>3. CASE i \notin 1..Len(results)
    <3>1. PICK k \in 1..started : i = Len(results) + k
      <4>1. i - Len(results) \in 1..started /\ i = Len(results) + (i - Len(results))
        BY <1>2, <2>1, <2>3
      <4>. QED
        BY <4>1
    <3>2. results'[i] = gathered[todo[k]]
      BY <3>1, RowsAre
    <3>. QED
      BY <3>2, RowsAre DEF OwnResult
  <2>. QED
    BY <2>2, <2>3
<1>. QED
  BY <1>1, <1>3 DEF OwnResult

(* Steps that only end a mode or a sweep: what stands apart from its results. *)
LEMMA EndsTyped ==
    ASSUME SweepInv, results' \in Seq(Results), exceeded' \in BOOLEAN,
           sweepPc' \in {"over", "sweeping", "summary"},
           exit' \in {"none", "clean", "budget", "killed"},
           mode' \in Nat, started' \in 0..Len(todo), gathered' \in [Names -> Results \cup {Absent}],
           UNCHANGED <<sweepFiles, sweepHistory, config, todo, running, before, cumulative, givenUp,
                       sweeps>>
    PROVE  SweepTyped'
<1>1. UNCHANGED <<runs, legacy, beside, launches, orphans, config, todo, running, before, cumulative,
                  givenUp, sweeps>>
  BY DEF sweepFiles, sweepHistory
<1>2. SweepTypeOK /\ launches \in Seq(LaunchShape) /\ todo \in Seq(Names) /\ Distinct(todo)
      /\ before \in [Names -> Seq(Files)]
  BY DEF SweepInv, SweepTyped
<1>3. \A i \in DOMAIN results' : results'[i] \in Results
  OBVIOUS
<1>4. SweepTypeOK'
  BY <1>1, <1>2, <1>3 DEF SweepTypeOK
<1>. QED
  BY <1>1, <1>2, <1>4 DEF SweepTyped, Distinct

(* The rest of a mode is dropped at the budget. *)
LEMMA StopAtBudgetStep == ASSUME SweepInv, StopAtBudget PROVE SweepInv'
<1>1. /\ sweepPc = "sweeping" /\ Live = {} /\ exceeded' = TRUE /\ sweepPc' = "summary"
      /\ results' = results \o InTaskOrder(gathered)
      /\ UNCHANGED <<sweepFiles, sweepHistory, config, todo, mode, started, running, before,
                     gathered, cumulative, givenUp, exit, sweeps>>
  BY DEF StopAtBudget
<1>2. UNCHANGED <<launches, orphans, legacy, beside, runs>>
  BY <1>1 DEF sweepHistory, sweepFiles
<1>3. results' \in Seq(Results) /\ \A i \in DOMAIN results' : OwnResult(results[i])'
  BY <1>1, <1>2, RowsAreOwn
<1>4. SweepTyped'
  <2>1. exit \in {"none", "clean", "budget", "killed"} /\ mode \in Nat /\ started \in 0..Len(todo)
        /\ gathered \in [Names -> Results \cup {Absent}]
    BY DEF SweepInv, SweepTyped, SweepTypeOK
  <2>. QED
    BY <1>1, <1>3, <2>1, EndsTyped
<1>5. SweepPlace'
  BY <1>1 DEF SweepInv, SweepPlace, Live
<1>6. StartedTells' /\ SoFar'
  BY <1>1 DEF StartedTells, SoFar, CleanExitIsComplete
<1>7. FilesTell' /\ RunningTells'
  BY <1>1, <1>2, FilesStand, ChildrenRunOn
<1>8. ResultsTell'
  <2>1. ASSUME NEW u \in Names, gathered'[u] # Absent PROVE OwnResult(gathered[u])'
    BY <1>1, <1>2, <2>1 DEF SweepInv, ResultsTell, OwnResult
  <2>. QED
    BY <1>3, <2>1 DEF ResultsTell
<1>. QED
  BY <1>4, <1>5, <1>6, <1>7, <1>8 DEF SweepInv

(* A mode that is over has a row for each task, at its place. *)
LEMMA ModeIsComplete ==
    ASSUME SweepInv, sweepPc = "sweeping", started = Len(todo), Live = {},
           results' = results \o InTaskOrder(gathered), UNCHANGED <<todo, config>>
    PROVE  /\ Len(results') = Len(todo) * mode
           /\ \A i \in DOMAIN results' :
                 /\ results'[i].task = todo[((i - 1) % Len(todo)) + 1]
                 /\ results'[i].segment = Segment(config, config.modes[((i - 1) \div Len(todo)) + 1])
<1>. DEFINE N == Len(todo)
            q == mode - 1
<1>1. N \in Nat /\ N >= 1 /\ mode \in Nat /\ mode >= 1 /\ DOMAIN todo = 1..N
  BY ConfigIs DEF SweepInv, SweepPlace
<1>2. Complete(q)
  BY DEF SweepInv, SoFar
<1>3. Len(results) = N * q /\ DOMAIN results = 1..Len(results)
  BY <1>2 DEF Complete, SweepInv, SweepTyped
<1>4. results' \in Seq(Results) /\ Len(results') = Len(results) + N
  BY RowsAre
<1>5. q \in Nat /\ N * q + N = N * mode /\ N * q \in Nat
  BY <1>1
<1>6. Len(results') = N * mode
  BY <1>3, <1>4, <1>5
<1>7. ASSUME NEW i \in DOMAIN results'
      PROVE  /\ results'[i].task = todo[((i - 1) % N) + 1]
             /\ results'[i].segment = Segment(config, config.modes[((i - 1) \div N) + 1])
  <2>1. i \in 1..(Len(results) + N)
    BY <1>4
  <2>2. CASE i \in 1..Len(results)
    <3>1. results'[i] = results[i] /\ i \in DOMAIN results
      BY <1>3, <2>2, RowsAre
    <3>. QED
      BY <1>2, <3>1 DEF Complete
  <2>3. CASE i \notin 1..Len(results)
    <3>1. PICK k \in 1..N : i = N * q + k
      <4>1. i - N * q \in 1..N /\ i = N * q + (i - N * q)
        BY <1>1, <1>3, <1>5, <2>1, <2>3
      <4>. QED
        BY <4>1
    <3>2. results'[i] = gathered[todo[k]]
      BY <1>3, <3>1, RowsAre
    <3>3. results'[i].task = todo[k] /\ results'[i].segment = CurrentSegment
      BY <3>2, RowsAre
    <3>4. k - 1 \in Nat /\ k - 1 < N /\ i - 1 = N * q + (k - 1)
      BY <1>1, <1>5, <3>1
    <3>5. (i - 1) % N = k - 1 /\ (i - 1) \div N = q
      <4>1. \A r \in Nat : r < N => (N * q + r) % N = r /\ (N * q + r) \div N = q
        BY <1>1, <1>5, DivMod
      <4>2. (N * q + (k - 1)) % N = k - 1 /\ (N * q + (k - 1)) \div N = q
        BY <3>4, <4>1
      <4>. QED
        BY <3>4, <4>2
    <3>6. (k - 1) + 1 = k /\ q + 1 = mode
      BY <1>1, <3>1
    <3>7. ((i - 1) % N) + 1 = k /\ ((i - 1) \div N) + 1 = mode
      BY <3>5, <3>6
    <3>. QED
      BY <3>3, <3>7 DEF CurrentSegment
  <2>. QED
    BY <2>2, <2>3
<1>. QED
  BY <1>6, <1>7

(* The next mode begins. *)
LEMMA NextModeStep == ASSUME SweepInv, NextMode PROVE SweepInv'
<1>1. /\ sweepPc = "sweeping" /\ started = Len(todo) /\ Live = {}
      /\ results' = results \o InTaskOrder(gathered)
      /\ UNCHANGED <<sweepFiles, sweepHistory, config, todo, running, before, cumulative, exceeded,
                     givenUp, exit, sweeps>>
      /\ \/ /\ mode < Len(config.modes) /\ ~exceeded
            /\ mode' = mode + 1 /\ FreshMode /\ UNCHANGED sweepPc
         \/ /\ ~(mode < Len(config.modes) /\ ~exceeded)
            /\ sweepPc' = "summary" /\ UNCHANGED <<mode, started, gathered>>
  BY DEF NextMode
<1>2. UNCHANGED <<launches, orphans, legacy, beside, runs>>
  BY <1>1 DEF sweepHistory, sweepFiles
<1>3. results' \in Seq(Results) /\ \A i \in DOMAIN results' : OwnResult(results[i])'
  BY <1>1, <1>2, RowsAreOwn
<1>4. /\ exit \in {"none", "clean", "budget", "killed"} /\ mode \in Nat /\ started \in 0..Len(todo)
      /\ gathered \in [Names -> Results \cup {Absent}] /\ todo \in Seq(Names) /\ exceeded \in BOOLEAN
      /\ mode \in 1..Len(config.modes) /\ Len(config.modes) \in Nat /\ Len(todo) \in Nat
  BY <1>1, ConfigIs DEF SweepInv, SweepTyped, SweepTypeOK, SweepPlace
<1>5. \A t \in Names : running'[t] = 0
  BY <1>1 DEF Live
<1>6. FilesTell' /\ RunningTells'
  BY <1>1, <1>2, <1>5, FilesStand, NoChildren
<1>7. /\ Len(results') = Len(todo) * mode
      /\ \A i \in DOMAIN results' :
            /\ results'[i].task = todo[((i - 1) % Len(todo)) + 1]
            /\ results'[i].segment = Segment(config, config.modes[((i - 1) \div Len(todo)) + 1])
  BY <1>1, ModeIsComplete
<1>8. CASE /\ mode < Len(config.modes) /\ ~exceeded
           /\ mode' = mode + 1 /\ FreshMode /\ UNCHANGED sweepPc
  <2>1. started' = 0 /\ gathered' = [t \in Names |-> Absent]
    BY <1>8 DEF FreshMode
  <2>2. SweepTyped'
    <3>1. gathered' \in [Names -> Results \cup {Absent}] /\ started' \in 0..Len(todo) /\ mode' \in Nat
      BY <1>4, <1>8, <2>1
    <3>. QED
      BY <1>1, <1>3, <1>4, <1>8, <3>1, EndsTyped
  <2>3. SweepPlace'
    <3>1. mode' \in 1..Len(config'.modes)
      BY <1>1, <1>4, <1>8
    <3>. QED
      BY <1>1, <1>5, <1>8, <3>1 DEF SweepInv, SweepPlace
  <2>4. StartedTells' /\ ResultsTell'
    BY <1>3, <1>5, <2>1 DEF StartedTells, ResultsTell
  <2>5. PICK k : k = mode
    OBVIOUS
  <2>6. SoFar'
    <3>1. mode' - 1 = k /\ sweepPc' = "sweeping"
      BY <1>1, <1>4, <1>8, <2>5
    <3>2. Complete(k)'
      BY <1>1, <1>7, <2>5 DEF Complete, Segment
    <3>. QED
      BY <3>1, <3>2 DEF SoFar, CleanExitIsComplete, Complete
  <2>. QED
    BY <1>6, <2>2, <2>3, <2>4, <2>6 DEF SweepInv
<1>9. CASE /\ ~(mode < Len(config.modes) /\ ~exceeded)
           /\ sweepPc' = "summary" /\ UNCHANGED <<mode, started, gathered>>
  <2>1. SweepTyped'
    BY <1>1, <1>3, <1>4, <1>9, EndsTyped
  <2>2. SweepPlace'
    BY <1>1, <1>5, <1>9 DEF SweepInv, SweepPlace
  <2>3. StartedTells'
    BY <1>9 DEF StartedTells
  <2>4. ResultsTell'
    <3>1. ASSUME NEW u \in Names, gathered'[u] # Absent PROVE OwnResult(gathered[u])'
      BY <1>1, <1>2, <1>9, <3>1 DEF SweepInv, ResultsTell, OwnResult
    <3>. QED
      BY <1>3, <3>1 DEF ResultsTell
  <2>5. ~exceeded' => Complete(Len(config.modes))'
    <3>. SUFFICES ASSUME ~exceeded' PROVE Complete(Len(config.modes))'
      OBVIOUS
    <3>1. Len(config'.modes) = mode
      BY <1>1, <1>4, <1>9
    <3>. QED
      BY <1>1, <1>7, <3>1 DEF Complete, Segment
  <2>6. SoFar'
    BY <1>9, <2>5 DEF SoFar, CleanExitIsComplete
  <2>. QED
    BY <1>6, <2>1, <2>2, <2>3, <2>4, <2>6 DEF SweepInv
<1>. QED
  BY <1>1, <1>8, <1>9

(* The sweep exits, cleanly or not. *)
LEMMA SummarizeStep == ASSUME SweepInv, Summarize PROVE SweepInv'
<1>1. /\ sweepPc = "summary" /\ sweepPc' = "over" /\ exit' = IF exceeded THEN "budget" ELSE "clean"
      /\ UNCHANGED <<sweepFiles, sweepHistory, config, todo, progress, sweeps>>
  BY DEF Summarize
<1>2. UNCHANGED <<launches, orphans, mode, started, running, before, gathered, results, cumulative, exceeded,
                  givenUp>>
  BY <1>1 DEF sweepHistory, progress
<1>3. SweepTyped'
  <2>1. exit' \in {"none", "clean", "budget", "killed"}
    BY <1>1
  <2>2. /\ mode \in Nat /\ started \in 0..Len(todo) /\ exceeded \in BOOLEAN
        /\ gathered \in [Names -> Results \cup {Absent}] /\ results \in Seq(Results)
    BY DEF SweepInv, SweepTyped, SweepTypeOK
  <2>. QED
    BY <1>1, <1>2, <2>1, <2>2, EndsTyped
<1>4. SweepPlace' /\ StartedTells'
  BY <1>1, <1>2 DEF SweepInv, SweepPlace, StartedTells
<1>5. FilesTell' /\ RunningTells'
  BY <1>1, <1>2, FilesStand, ChildrenRunOn
<1>6. ResultsTell'
  BY <1>1, <1>2 DEF SweepInv, ResultsTell, OwnResult
<1>7. SoFar'
  <2>1. CASE exceeded
    BY <1>1, <2>1 DEF SoFar, CleanExitIsComplete
  <2>2. CASE ~exceeded
    <3>1. Complete(Len(config.modes))
      BY <1>1, <2>2 DEF SweepInv, SoFar
    <3>. QED
      BY <1>1, <1>2, <3>1 DEF SoFar, CleanExitIsComplete, Complete, Segment
  <2>. QED
    BY <2>1, <2>2
<1>. QED
  BY <1>3, <1>4, <1>5, <1>6, <1>7 DEF SweepInv

(* The dispatcher is killed; its children live on. *)
LEMMA KillSweepStep == ASSUME SweepInv, KillSweep PROVE SweepInv'
<1>1. /\ orphans' = orphans \cup {running[t] : t \in Live}
      /\ sweepPc' = "over" /\ exit' = "killed"
      /\ running' = [t \in Names |-> 0] /\ before' = [t \in Names |-> <<>>]
      /\ UNCHANGED <<sweepFiles, launches, config, todo, mode, started, gathered, results,
                     cumulative, exceeded, givenUp, sweeps>>
  BY DEF KillSweep
<1>2. SweepTypeOK /\ launches \in Seq(LaunchShape) /\ todo \in Seq(Names) /\ Distinct(todo)
      /\ results \in Seq(Results)
  BY DEF SweepInv, SweepTyped
<1>3. SweepTyped'
  <2>1. UNCHANGED <<runs, legacy, beside>>
    BY <1>1 DEF sweepFiles
  <2>2. orphans' \subseteq DOMAIN launches'
    <3>1. \A t \in Live : running[t] \in DOMAIN launches
      BY DEF SweepInv, RunningTells, ChildTells, Live
    <3>2. orphans \subseteq DOMAIN launches
      BY <1>2 DEF SweepTypeOK
    <3>. QED
      BY <1>1, <3>1, <3>2
  <2>3. running' \in [Names -> 0..Len(launches')]
    BY <1>1, <1>2
  <2>4. before' \in [Names -> Seq(Files)] /\ \A u \in Names : \A i \in DOMAIN before'[u] : before'[u][i] \in Files
    BY <1>1
  <2>5. SweepTypeOK'
    BY <1>1, <1>2, <2>1, <2>2, <2>3, <2>4 DEF SweepTypeOK
  <2>. QED
    BY <1>1, <1>2, <2>4, <2>5 DEF SweepTyped, Distinct
<1>4. \A t \in Names : running'[t] = 0
  BY <1>1
<1>5. SweepPlace' /\ StartedTells' /\ SoFar'
  BY <1>1, <1>4 DEF SweepPlace, StartedTells, SoFar, CleanExitIsComplete
<1>6. FilesTell' /\ RunningTells'
  BY <1>1, <1>4, FilesStand, NoChildren
<1>7. ResultsTell'
  <2>1. orphans \subseteq orphans'
    BY <1>1
  <2>2. ASSUME NEW u \in Names, gathered'[u] # Absent PROVE OwnResult(gathered[u])'
    BY <1>1, <2>1, <2>2, StillOwn DEF SweepInv, ResultsTell, OwnResult
  <2>3. ASSUME NEW i \in DOMAIN results' PROVE OwnResult(results[i])'
    BY <1>1, <2>1, <2>3, StillOwn DEF SweepInv, ResultsTell, OwnResult
  <2>. QED
    BY <2>2, <2>3 DEF ResultsTell
<1>. QED
  BY <1>3, <1>5, <1>6, <1>7 DEF SweepInv

(* A worker is killed: what is still to come is an error, and the children live on. *)
LEMMA PoolBreaksStep == ASSUME SweepInv, PoolBreaks PROVE SweepInv'
<1>. DEFINE pending == {t \in Names : gathered[t] = Absent /\ \E i \in DOMAIN todo : t = todo[i]}
<1>1. /\ sweepPc = "sweeping" /\ started' = Len(todo)
      /\ gathered' = [t \in Names |-> IF t \in pending THEN Unread(t) ELSE gathered[t]]
      /\ orphans' = orphans \cup {running[t] : t \in Live}
      /\ running' = [t \in Names |-> 0] /\ before' = [t \in Names |-> <<>>]
      /\ exceeded' = (exceeded \/ BudgetReached(cumulative))
      /\ UNCHANGED <<sweepFiles, launches, sweepPc, config, todo, mode, results, cumulative, givenUp,
                     exit, sweeps>>
  BY DEF PoolBreaks
<1>2. SweepTypeOK /\ launches \in Seq(LaunchShape) /\ todo \in Seq(Names) /\ Distinct(todo)
      /\ results \in Seq(Results)
  BY DEF SweepInv, SweepTyped
<1>3. CurrentSegment \in Segments
  BY <1>1, ConfigIs
<1>4. \A t \in Names : /\ Unread(t) \in Results /\ Unread(t) # Absent /\ Unread(t).by = 0
                       /\ Unread(t).task = t /\ Unread(t).segment = CurrentSegment
  <2>1. \A t \in Names : /\ Unread(t) \in Results /\ Unread(t).by = 0
                         /\ Unread(t).task = t /\ Unread(t).segment = CurrentSegment
    BY <1>3 DEF Unread, Results
  <2>. QED
    BY <2>1, RecordsAre
<1>5. /\ gathered \in [Names -> Results \cup {Absent}] /\ orphans \subseteq DOMAIN launches
      /\ DOMAIN todo = 1..Len(todo) /\ Len(todo) \in Nat /\ started \in 0..Len(todo)
  BY <1>2 DEF SweepTypeOK
<1>6. \A t \in Names : gathered'[t] = IF t \in pending THEN Unread(t) ELSE gathered[t]
  BY <1>1
<1>7. \A t \in Names : running'[t] = 0
  BY <1>1
<1>8. SweepTyped'
  <2>1. UNCHANGED <<runs, legacy, beside>>
    BY <1>1 DEF sweepFiles
  <2>2. orphans' \subseteq DOMAIN launches'
    <3>1. \A t \in Live : running[t] \in DOMAIN launches
      BY DEF SweepInv, RunningTells, ChildTells, Live
    <3>. QED
      BY <1>1, <1>5, <3>1
  <2>3. running' \in [Names -> 0..Len(launches')] /\ started' \in 0..Len(todo')
    BY <1>1, <1>2, <1>5
  <2>4. before' \in [Names -> Seq(Files)] /\ \A u \in Names : \A i \in DOMAIN before'[u] : before'[u][i] \in Files
    BY <1>1
  <2>5. gathered' \in [Names -> Results \cup {Absent}]
    <3>1. \A t \in Names : gathered'[t] \in Results \cup {Absent}
      BY <1>4, <1>5, <1>6
    <3>. QED
      BY <1>1, <3>1
  <2>6. exceeded' \in BOOLEAN
    BY <1>1
  <2>7. SweepTypeOK'
    BY <1>1, <1>2, <2>1, <2>2, <2>3, <2>4, <2>5, <2>6 DEF SweepTypeOK
  <2>. QED
    BY <1>1, <1>2, <2>4, <2>7 DEF SweepTyped, Distinct
<1>9. SweepPlace'
  BY <1>1, <1>7 DEF SweepInv, SweepPlace
<1>10. StartedTells'
  <2>1. StartedTells
    BY DEF SweepInv
  <2>2. CurrentSegment' = CurrentSegment
    BY <1>1 DEF CurrentSegment, Segment
  <2>3. ASSUME NEW i \in 1..started' PROVE gathered'[todo'[i]] # Absent
    <3>1. i \in DOMAIN todo /\ todo[i] \in Names /\ todo' = todo
      BY <1>1, <1>2, <1>5
    <3>. QED
      BY <1>4, <1>6, <3>1
  <2>4. ASSUME NEW u \in Names, gathered'[u] # Absent
        PROVE  \E i \in 1..started' : u = todo'[i]
    <3>1. CASE u \in pending
      BY <1>1, <1>5, <3>1
    <3>2. CASE u \notin pending
      <4>1. PICK i \in 1..started : u = todo[i]
        BY <1>1, <1>6, <2>1, <2>4, <3>2 DEF StartedTells
      <4>2. i \in 1..started'
        BY <1>1, <1>5
      <4>. QED
        BY <1>1, <4>1, <4>2
    <3>. QED
      BY <3>1, <3>2
  <2>5. ASSUME NEW u \in Names, gathered'[u] # Absent
        PROVE  gathered'[u].task = u /\ gathered'[u].segment = CurrentSegment'
    BY <1>1, <1>4, <1>6, <2>1, <2>2, <2>5 DEF StartedTells
  <2>. QED
    BY <1>7, <2>3, <2>4, <2>5 DEF StartedTells
<1>11. FilesTell' /\ RunningTells'
  BY <1>1, <1>7, FilesStand, NoChildren
<1>12. SoFar'
  BY <1>1, ModesOverStand
<1>13. ResultsTell'
  <2>1. orphans \subseteq orphans'
    BY <1>1
  <2>2. ASSUME NEW u \in Names, gathered'[u] # Absent PROVE OwnResult(gathered[u])'
    <3>1. CASE u \in pending
      BY <1>4, <1>6, <3>1 DEF OwnResult, OwnAmong
    <3>2. CASE u \notin pending
      BY <1>1, <1>6, <2>1, <2>2, <3>2, StillOwn DEF SweepInv, ResultsTell, OwnResult
    <3>. QED
      BY <3>1, <3>2
  <2>3. ASSUME NEW i \in DOMAIN results' PROVE OwnResult(results[i])'
    BY <1>1, <2>1, <2>3, StillOwn DEF SweepInv, ResultsTell, OwnResult
  <2>. QED
    BY <2>2, <2>3 DEF ResultsTell
<1>. QED
  BY <1>8, <1>9, <1>10, <1>11, <1>12, <1>13 DEF SweepInv

(* Another sweep begins over the same tree. *)
LEMMA StartSweepStep == ASSUME SweepInv, StartSweep PROVE SweepInv'
<1>1. PICK c \in SweepConfigs : config' = c /\ todo' = FilterCompletedTasks(c)
  BY DEF StartSweep
<1>2. /\ sweepPc = "over" /\ sweeps < MaxSweeps /\ sweeps' = sweeps + 1
      /\ mode' = 1 /\ started' = 0 /\ gathered' = [t \in Names |-> Absent]
      /\ results' = <<>> /\ cumulative' = 0 /\ exceeded' = FALSE /\ givenUp' = FALSE
      /\ running' = [t \in Names |-> 0] /\ before' = [t \in Names |-> <<>>]
      /\ UNCHANGED <<sweepFiles, sweepHistory>>
      /\ \/ todo' = <<>> /\ sweepPc' = "over" /\ exit' = "clean"
         \/ todo' # <<>> /\ sweepPc' = "sweeping" /\ exit' = "none"
  BY DEF StartSweep, FreshMode
<1>3. UNCHANGED <<runs, legacy, beside, launches, orphans>>
  BY <1>2 DEF sweepFiles, sweepHistory
<1>4. SweepTypeOK /\ launches \in Seq(LaunchShape)
  BY DEF SweepInv, SweepTyped
<1>5. todo' \in Seq(Names) /\ Distinct(todo)'
  <2>1. FilterCompletedTasks(c) \in Seq(Names) /\ Distinct(FilterCompletedTasks(c))
    BY RemainingAre
  <2>. QED
    BY <1>1, <2>1 DEF Distinct
<1>6. SweepTyped'
  <2>1. sweeps' \in 0..MaxSweeps /\ sweeps' # 0 /\ Len(todo') \in Nat
    BY <1>2, <1>4, <1>5, SweepAssumption DEF SweepTypeOK
  <2>2. /\ started' \in 0..Len(todo') /\ running' \in [Names -> 0..Len(launches')]
        /\ gathered' \in [Names -> Results \cup {Absent}] /\ before' \in [Names -> Seq(Files)]
        /\ \A u \in Names : \A i \in DOMAIN before'[u] : before'[u][i] \in Files
    <3>1. Len(launches) \in Nat
      BY <1>4
    <3>. QED
      BY <1>2, <1>3, <2>1, <3>1
  <2>3. /\ results' \in Seq(Results) /\ \A i \in DOMAIN results' : results'[i] \in Results
        /\ \A i \in DOMAIN todo' : todo'[i] \in Names
    BY <1>2, <1>5
  <2>4. /\ sweepPc' \in {"over", "sweeping", "summary"} /\ config' \in SweepConfigs \cup {Absent}
        /\ exit' \in {"none", "clean", "budget", "killed"}
    BY <1>1, <1>2
  <2>5. mode' \in Nat /\ cumulative' \in Nat /\ exceeded' \in BOOLEAN /\ givenUp' \in BOOLEAN
    BY <1>2
  <2>6. SweepTypeOK'
    BY <1>3, <1>4, <2>1, <2>2, <2>3, <2>4, <2>5 DEF SweepTypeOK
  <2>. QED
    BY <1>3, <1>4, <1>5, <2>2, <2>3, <2>6 DEF SweepTyped
<1>7. \A t \in Names : running'[t] = 0 /\ gathered'[t] = Absent
  BY <1>2
<1>8. SweepPlace'
  <2>1. Len(c.modes) \in Nat /\ Len(c.modes) # 0
    BY SweepAssumption DEF SweepConfigShape
  <2>2. mode' \in 1..Len(config'.modes) /\ config' \in SweepConfigs
    BY <1>1, <1>2, <2>1
  <2>3. sweeps' # 0
    BY <1>2, <1>4 DEF SweepTypeOK
  <2>. QED
    BY <1>2, <1>7, <2>2, <2>3 DEF SweepPlace
<1>9. StartedTells' /\ ResultsTell'
  <2>1. \A i \in 1..started' : FALSE
    BY <1>2
  <2>2. \A i \in DOMAIN results' : FALSE
    BY <1>2
  <2>. QED
    BY <1>7, <2>1, <2>2 DEF StartedTells, ResultsTell
<1>10. FilesTell' /\ RunningTells'
  BY <1>2, <1>3, <1>7, FilesStand, NoChildren
<1>11. SoFar'
  <2>1. CASE todo' = <<>> /\ sweepPc' = "over" /\ exit' = "clean"
    BY <2>1 DEF SoFar, CleanExitIsComplete
  <2>2. CASE todo' # <<>> /\ sweepPc' = "sweeping" /\ exit' = "none"
    <3>1. Len(results') = 0 /\ Len(todo') * (mode' - 1) = 0 /\ \A i \in DOMAIN results' : FALSE
      BY <1>2, <1>5
    <3>. QED
      BY <2>2, <3>1 DEF SoFar, CleanExitIsComplete, Complete
  <2>. QED
    BY <1>2, <2>1, <2>2
<1>. QED
  BY <1>6, <1>8, <1>9, <1>10, <1>11 DEF SweepInv

(* Nothing happens. *)
LEMMA SweepStutters == ASSUME SweepInv, UNCHANGED sweepVars PROVE SweepInv'
<1>1. UNCHANGED <<runs, legacy, beside, launches, orphans, sweepPc, config, todo, mode, started, running,
                  before, gathered, results, cumulative, exceeded, givenUp, exit, sweeps>>
  BY DEF sweepVars, sweepFiles, sweepHistory, progress
<1>2. SweepTyped'
  BY <1>1 DEF SweepInv, SweepTyped, SweepTypeOK, Distinct
<1>3. SweepPlace' /\ ResultsTell'
  BY <1>1 DEF SweepInv, SweepPlace, ResultsTell, OwnResult
<1>4. StartedTells'
  BY <1>1 DEF SweepInv, StartedTells, CurrentSegment, Segment
<1>5. FilesTell' /\ RunningTells'
  BY <1>1, FilesStand, ChildrenRunOn DEF sweepFiles, sweepHistory
<1>6. SoFar'
  BY <1>1 DEF SweepInv, SoFar, CleanExitIsComplete, Complete, Segment
<1>. QED
  BY <1>2, <1>3, <1>4, <1>5, <1>6 DEF SweepInv

(* A child that writes, and the run whose record it may write over. *)
LEMMA ChildWritesStep == ASSUME SweepInv, ChildWrites PROVE SweepInv'
<1>1. PICK l \in Writers : SingleWrites(l) \/ ChainWrites(l)
  BY DEF ChildWrites
<1>2. UNCHANGED <<launches, orphans, sweepPc, config, todo, mode, started, running, before, gathered,
                  results, cumulative, exceeded, givenUp, exit, sweeps>>
  BY DEF ChildWrites, sweepHistory, progress
<1>. DEFINE u == launches[l].task
            s == launches[l].segment
<1>3. l \in DOMAIN launches /\ l \in Nat /\ u \in Names /\ s \in Segments
  <2>1. l \in DOMAIN launches
    BY DEF Writers, Live, SweepInv, RunningTells, ChildTells, SweepTyped, SweepTypeOK
  <2>2. launches \in Seq(LaunchShape)
    BY DEF SweepInv, SweepTyped
  <2>3. launches[l] \in LaunchShape /\ l \in Nat
    BY <2>1, <2>2
  <2>. QED
    BY <2>1, <2>3 DEF LaunchShape
<1>4. \A t \in Names : running[t] # 0 => launches[running[t]].task = t
  BY DEF SweepInv, RunningTells, ChildTells
<1>5. \A t \in Names : u = t => l = running[t] \/ l \in orphans
  BY <1>4 DEF Writers, Live
<1>6. /\ runs \in [Names \X Segments -> Files] /\ legacy \in [Names -> Files]
      /\ beside \in [Names -> Files]
  BY DEF SweepInv, SweepTyped, SweepTypeOK
(* What changes: one file, and it tells who wrote it. *)
<1>7. /\ runs' \in [Names \X Segments -> Files] /\ beside' \in [Names -> Files] /\ legacy' = legacy
      /\ \A t \in Names, r \in Segments :
            runs'[<<t, r>>] = runs[<<t, r>>]
            \/ (t = u /\ r = s /\ (Readable(runs'[<<t, r>>]) => runs'[<<t, r>>].by = l))
      /\ \A t \in Names :
            beside'[t] = beside[t]
            \/ (t = u /\ SessionType[t] = "chain" /\ (Readable(beside'[t]) => beside'[t].by = l))
  <2>1. CASE SingleWrites(l)
    <3>1. PICK f \in {Recorded(l, o) : o \in Outcomes} \cup {Torn} : runs' = [runs EXCEPT ![<<u, s>>] = f]
      BY <2>1 DEF SingleWrites
    <3>2. legacy' = legacy /\ beside' = beside
      BY <2>1 DEF SingleWrites
    <3>3. f \in Files /\ (Readable(f) => f.by = l)
      <4>1. CASE f = Torn
        BY <4>1, RecordsAre
      <4>2. CASE f # Torn
        <5>1. PICK o \in Outcomes : f = Recorded(l, o)
          BY <3>1, <4>2
        <5>. QED
          BY <1>3, <5>1, RecordsAre
      <4>. QED
        BY <4>1, <4>2
    <3>4. <<u, s>> \in Names \X Segments
      BY <1>3
    <3>5. \A x \in Names \X Segments : runs'[x] = IF x = <<u, s>> THEN f ELSE runs[x]
      BY <1>6, <3>1
    <3>6. \A t \in Names, r \in Segments : <<t, r>> \in Names \X Segments /\ (<<t, r>> = <<u, s>> => t = u /\ r = s)
      OBVIOUS
    <3>. HIDE DEF u, s
    <3>7. \A t \in Names, r \in Segments :
             runs'[<<t, r>>] = runs[<<t, r>>]
             \/ (t = u /\ r = s /\ (Readable(runs'[<<t, r>>]) => runs'[<<t, r>>].by = l))
      BY <3>3, <3>5, <3>6
    <3>8. runs' \in [Names \X Segments -> Files]
      BY <1>6, <3>1, <3>3, <3>4
    <3>. QED
      BY <1>6, <3>2, <3>7, <3>8
  <2>2. CASE ChainWrites(l)
    <3>1. PICK f \in {Absent, Recorded(l, NullOutcome)} : beside' = [beside EXCEPT ![u] = f]
      BY <2>2 DEF ChainWrites
    <3>2. legacy' = legacy /\ runs' = runs /\ SessionType[u] = "chain"
      BY <2>2 DEF ChainWrites
    <3>3. f \in Files /\ (Readable(f) => f.by = l)
      <4>1. CASE f = Absent
        BY <4>1, RecordsAre
      <4>2. CASE f = Recorded(l, NullOutcome)
        BY <1>3, <4>2, RecordsAre
      <4>. QED
        BY <3>1, <4>1, <4>2
    <3>. HIDE DEF u, s
    <3>4. \A t \in Names : beside'[t] = IF t = u THEN f ELSE beside[t]
      BY <1>6, <3>1
    <3>5. beside' \in [Names -> Files]
      BY <1>3, <1>6, <3>1, <3>3
    <3>. QED
      BY <1>6, <3>2, <3>3, <3>4, <3>5
  <2>. QED
    BY <1>1, <2>1, <2>2
<1>8. SweepTyped'
  <2>1. SweepTypeOK'
    BY <1>2, <1>6, <1>7 DEF SweepInv, SweepTyped, SweepTypeOK
  <2>. QED
    BY <1>2, <2>1 DEF SweepInv, SweepTyped, Distinct
<1>9. SweepPlace' /\ ResultsTell'
  BY <1>2 DEF SweepInv, SweepPlace, ResultsTell, OwnResult
<1>10. StartedTells'
  BY <1>2 DEF SweepInv, StartedTells, CurrentSegment, Segment
<1>11. SoFar'
  BY <1>2 DEF SweepInv, SoFar, CleanExitIsComplete, Complete, Segment
<1>. HIDE DEF u, s
<1>12. FilesTell'
  <2>1. ASSUME NEW t \in Names, NEW r \in Segments, Readable(runs'[<<t, r>>])
        PROVE  LET k == runs'[<<t, r>>].by
               IN  k \in DOMAIN launches /\ launches[k].task = t /\ launches[k].segment = r
    <3>1. CASE runs'[<<t, r>>] = runs[<<t, r>>]
      BY <2>1, <3>1 DEF SweepInv, FilesTell
    <3>2. CASE t = u /\ r = s /\ runs'[<<t, r>>].by = l
      BY <1>3, <3>2 DEF u, s
    <3>. QED
      BY <1>7, <2>1, <3>1, <3>2
  <2>2. ASSUME NEW t \in Names, Readable(beside'[t])
        PROVE  LET k == beside'[t].by
               IN  k \in DOMAIN launches /\ launches[k].task = t /\ SessionType[t] = "chain"
    <3>1. CASE beside'[t] = beside[t]
      BY <2>2, <3>1 DEF SweepInv, FilesTell
    <3>2. CASE t = u /\ SessionType[t] = "chain" /\ beside'[t].by = l
      BY <1>3, <3>2 DEF u
    <3>. QED
      BY <1>7, <2>2, <3>1, <3>2
  <2>3. \A t \in Names : Readable(legacy'[t]) => legacy'[t].by = 0
    BY <1>7 DEF SweepInv, FilesTell
  <2>. QED
    BY <1>2, <2>1, <2>2, <2>3 DEF FilesTell, Readable
<1>13. RunningTells'
  <2>. SUFFICES ASSUME NEW t \in Names, running'[t] # 0
                PROVE  /\ running'[t] \in DOMAIN launches' /\ launches'[running'[t]].task = t
                       /\ launches'[running'[t]].segment = CurrentSegment'
                       /\ launches'[running'[t]].sweep = sweeps' /\ ChangedIsOwn(t)'
    BY DEF RunningTells, ChildTells
  <2>1. CurrentSegment' = CurrentSegment
    BY <1>2 DEF CurrentSegment, Segment
  <2>2. /\ running[t] \in DOMAIN launches /\ launches[running[t]].task = t
        /\ launches[running[t]].segment = CurrentSegment /\ launches[running[t]].sweep = sweeps
        /\ ChangedIsOwn(t)
    BY <1>2 DEF SweepInv, RunningTells, ChildTells
  <2>3. CurrentSegment \in Segments
    BY <1>2, ConfigIs DEF SweepInv, SweepPlace
  <2>4. PlacesOf(config', mode') = PlacesOf(config, mode)
    BY <1>2
  <2>5. ASSUME NEW p PROVE FileAt(p, t)' = FileAt(p, t) \/ (Readable(FileAt(p, t)') => FileAt(p, t)'.by = running[t] \/ FileAt(p, t)'.by \in orphans)
    BY <1>5, <1>7, <2>1, <2>3 DEF FileAt
  <2>6. ChangedIsOwn(t)'
    BY <1>2, <2>2, <2>4, <2>5 DEF ChangedIsOwn, Readable
  <2>. QED
    BY <1>2, <2>1, <2>2, <2>6
<1>. QED
  BY <1>8, <1>9, <1>10, <1>11, <1>12, <1>13 DEF SweepInv

(* The invariant is inductive. *)
LEMMA SweepSteps == ASSUME SweepInv, [SweepNext]_sweepVars PROVE SweepInv'
<1>1. CASE StartSweep
  BY <1>1, StartSweepStep
<1>2. CASE PassOver
  BY <1>2, PassOverStep
<1>3. CASE Launch
  BY <1>3, LaunchStep
<1>4. CASE StopAtBudget
  BY <1>4, StopAtBudgetStep
<1>5. CASE NextMode
  BY <1>5, NextModeStep
<1>6. CASE Summarize
  BY <1>6, SummarizeStep
<1>7. CASE Collect
  BY <1>7, ChildExitsStep, GiveUpStep DEF Collect
<1>8. CASE KillSweep
  BY <1>8, KillSweepStep
<1>9. CASE ChildWrites
  BY <1>9, ChildWritesStep
<1>10. CASE PoolBreaks
  BY <1>10, PoolBreaksStep
<1>11. CASE UNCHANGED sweepVars
  BY <1>11, SweepStutters
<1>. QED
  BY <1>1, <1>2, <1>3, <1>4, <1>5, <1>6, <1>7, <1>8, <1>9, <1>10, <1>11 DEF SweepNext, Dispatcher

(* The inductive invariant holds of every sweep (main). *)
THEOREM SweepInvHolds == SweepSpec => []SweepInv
<1>1. SweepInit => SweepInv
  BY SweepStarts
<1>2. SweepInv /\ [SweepNext]_sweepVars => SweepInv'
  BY SweepSteps
<1>. QED
  BY <1>1, <1>2, PTL DEF SweepSpec

(* Whatever outcome a sweep reports of a task was recorded by a run of that  *)
(* task in that mode (a chain saves all modes alike) which this sweep started *)
(* or a killed one left behind: never a record that lay there from before     *)
(* (_result_file_state, _load_task_result).                                 *)
THEOREM ResultsAreOwn == SweepSpec => []ReportedIsOwn
<1>1. SweepInv => ReportedIsOwn
  BY DEF SweepInv, ResultsTell, OwnResult, OwnAmong, ReportedIsOwn
<1>. QED
  BY <1>1, SweepInvHolds, PTL

(* A sweep that exits with 0 has a result for each task that was left to do *)
(* of each of its modes, in order (main, filter_completed_tasks).           *)
THEOREM CleanExitsAreComplete == SweepSpec => []CleanExitIsComplete
<1>1. SweepInv => CleanExitIsComplete
  BY DEF SweepInv, SoFar
<1>. QED
  BY <1>1, SweepInvHolds, PTL

-----------------------------------------------------------------------------
(* What a sweep in sequence spends                                          *)

CostOf(l) ==
    LET f == runs[<<launches[l].task, launches[l].segment>>]
    IN  IF Readable(f) /\ f.by = l THEN f.cost ELSE 0

Tally == [l \in DOMAIN launches |-> CostOf(l)]
Own == {l \in DOMAIN launches : launches[l].sweep = sweeps}

(* The runs of this sweep whose cost is counted. *)
Counted == Own \ {running[t] : t \in Live}

AtMost(f, S, money) == SumOf(f, S) <= money

Overrun(money, budget) == money = 0 \/ \E c \in Costs : money < budget + c

BudgetKept ==
    config # Absent /\ config.budget # Absent /\ Sequential /\ ~givenUp /\ orphans = {}

(* One child at a time, started below the budget; all that others recorded is spent. *)
Spending ==
    /\ \A t, u \in Live : t = u
    /\ Live # {} => cumulative < config.budget
    /\ Overrun(cumulative, config.budget)
    /\ AtMost(Tally, Counted, cumulative)

BudgetInv ==
    /\ \A l \in DOMAIN launches : launches[l].sweep <= sweeps
    /\ BudgetKept => Spending

(* What every launch has recorded is an amount. *)
LEMMA TallyIs ==
    ASSUME SweepInv
    PROVE  /\ IsFiniteSet(DOMAIN launches) /\ Own \subseteq DOMAIN launches
           /\ IsFiniteSet(Own) /\ IsFiniteSet(Counted)
           /\ \A l \in DOMAIN launches : Tally[l] = CostOf(l) /\ Tally[l] \in Nat /\ Tally[l] \in Costs \cup {0}
<1>1. launches \in Seq(LaunchShape) /\ runs \in [Names \X Segments -> Files]
  BY DEF SweepInv, SweepTyped, SweepTypeOK
<1>2. IsFiniteSet(DOMAIN launches)
  <2>1. DOMAIN launches = 1..Len(launches) /\ Len(launches) \in Nat
    BY <1>1
  <2>. QED
    BY <2>1, FS_Interval
<1>3. Own \subseteq DOMAIN launches /\ Counted \subseteq DOMAIN launches
  BY DEF Own, Counted
<1>4. ASSUME NEW l \in DOMAIN launches
      PROVE  CostOf(l) \in Nat /\ CostOf(l) \in Costs \cup {0}
  <2>. DEFINE f == runs[<<launches[l].task, launches[l].segment>>]
  <2>1. f \in Files
    <3>1. launches[l] \in LaunchShape
      BY <1>1
    <3>2. launches[l].task \in Names /\ launches[l].segment \in Segments
      BY <3>1 DEF LaunchShape
    <3>. QED
      BY <1>1, <3>2
  <2>. HIDE DEF f
  <2>2. CASE Readable(f) /\ f.by = l
    <3>1. f \in Records
      BY <2>1, <2>2, RecordsAre
    <3>2. f.cost \in Costs \cup {0}
      BY <3>1 DEF Records
    <3>3. f.cost \in Costs => f.cost \in Nat
      BY RecordsAre
    <3>4. f.cost = 0 => f.cost \in Nat
      OBVIOUS
    <3>. QED
      BY <2>2, <3>2, <3>3, <3>4 DEF CostOf, f
  <2>3. CASE ~(Readable(f) /\ f.by = l)
    BY <2>3 DEF CostOf, f
  <2>. QED
    BY <2>2, <2>3
<1>. QED
  BY <1>2, <1>3, <1>4, FS_Subset DEF Tally

(* The amount billed is the sum over the launches of this sweep. *)
LEMMA BilledIs == ASSUME SweepInv PROVE Billed = SumOf(Tally, Own)
<1>. DEFINE Tbl(it) == it = [s \in SUBSET Own |->
                              IF s = {} THEN 0 ELSE CostOf(First(s)) + it[s \ {First(s)}]]
            It == CHOOSE it : Tbl(it)
<1>1. Billed = It[Own]
  BY DEF Billed, MapThenSumSet, MapThenFoldSet, First, CostOf, Own
<1>2. IsFiniteSet(Own) /\ Own \subseteq DOMAIN launches /\ \A x \in Own : Tally[x] = CostOf(x) /\ Tally[x] \in Nat
  BY TallyIs
<1>3. \A s \in SUBSET Own : s # {} => Tally[First(s)] = CostOf(First(s))
  BY <1>2, FirstIsIn
<1>4. ASSUME NEW it PROVE Tbl(it) <=> Tabulates(it, Tally, Own)
  BY <1>3 DEF Tabulates
<1>5. \E it : Tbl(it)
  BY <1>2, <1>4, TableExists
<1>6. Tbl(It)
  BY <1>5
<1>. HIDE DEF It, Tbl
<1>7. Tabulates(It, Tally, Own)
  BY <1>4, <1>6
<1>8. It[Own] = SumOf(Tally, Own)
  BY <1>2, <1>7, TabledIsSum
<1>. QED
  BY <1>1, <1>8

(* With the one child that may be alive, the overrun is less than what it recorded. *)
LEMMA SpendingBounds ==
    ASSUME SweepInv, BudgetKept, Spending
    PROVE  Billed = 0 \/ \E c \in Costs : Billed < config.budget + c
<1>1. Billed = SumOf(Tally, Own)
  BY BilledIs
<1>2. IsFiniteSet(Own) /\ IsFiniteSet(Counted) /\ Own \subseteq DOMAIN launches /\ Counted \subseteq Own
      /\ \A l \in Own : Tally[l] \in Nat /\ Tally[l] \in Costs \cup {0}
  BY TallyIs DEF Counted
<1>3. SumOf(Tally, Own) \in Nat /\ SumOf(Tally, Counted) \in Nat
  BY <1>2, SumIsNat
<1>4. config.budget \in Nat /\ cumulative \in Nat /\ \A c \in Costs : c \in Nat
  BY SweepAssumption, RecordsAre DEF BudgetKept, SweepConfigShape, SweepInv, SweepTyped, SweepTypeOK
<1>5. SumOf(Tally, Counted) <= cumulative
  BY DEF Spending, AtMost
<1>6. CASE Counted = Own
  BY <1>1, <1>3, <1>4, <1>5, <1>6 DEF Spending, Overrun
<1>7. CASE Counted # Own
  <2>1. PICK t \in Live : running[t] \in Own
    BY <1>7 DEF Counted
  <2>2. Counted = Own \ {running[t]}
    BY <2>1 DEF Counted, Spending
  <2>3. SumOf(Tally, Own) = Tally[running[t]] + SumOf(Tally, Counted)
    BY <1>2, <2>1, <2>2, SumWithout
  <2>4. cumulative < config.budget
    BY <2>1 DEF Spending
  <2>. DEFINE c == Tally[running[t]]
  <2>5. c \in Nat /\ c \in Costs \cup {0}
    BY <1>2, <2>1
  <2>. HIDE DEF c
  <2>6. SumOf(Tally, Own) < config.budget + c
    BY <1>3, <1>4, <1>5, <2>3, <2>4, <2>5 DEF c
  <2>7. CASE c \in Costs
    BY <1>1, <2>6, <2>7
  <2>8. CASE c = 0
    <3>1. SumOf(Tally, Own) = SumOf(Tally, Counted)
      BY <1>3, <2>3, <2>8 DEF c
    <3>. QED
      BY <1>1, <1>3, <1>4, <1>5, <3>1 DEF Spending, Overrun
  <2>. QED
    BY <2>5, <2>7, <2>8
<1>. QED
  BY <1>6, <1>7

(* Steps that neither write a file nor start or end a child. *)
LEMMA QuietStep ==
    ASSUME SweepInv, BudgetInv, UNCHANGED <<runs, launches, config, cumulative, sweeps>>,
           BudgetKept' => /\ ~givenUp /\ orphans = {}
                          /\ \A t \in Names : running'[t] = running[t]
    PROVE  BudgetInv'
<1>1. \A l \in DOMAIN launches' : launches'[l].sweep <= sweeps'
  BY DEF BudgetInv
<1>2. ASSUME BudgetKept' PROVE Spending'
  <2>1. BudgetKept
    BY <1>2 DEF BudgetKept, Sequential
  <2>2. Live' = Live /\ Tally' = Tally /\ Counted' = Counted
    <3>1. Live' = Live /\ {running'[t] : t \in Live} = {running[t] : t \in Live}
      BY <1>2 DEF Live
    <3>2. Tally' = Tally
      BY DEF Tally, CostOf, Readable
    <3>. QED
      BY <3>1, <3>2 DEF Counted, Own
  <2>3. Spending
    BY <2>1 DEF BudgetInv
  <2>. QED
    BY <2>2, <2>3 DEF Spending
<1>. QED
  BY <1>1, <1>2 DEF BudgetInv

(* A task without a child costs nothing, nor does the end of a mode, nor the summary. *)
LEMMA IdleSpends ==
    ASSUME SweepInv, BudgetInv,
           PassOver \/ StopAtBudget \/ NextMode \/ Summarize \/ UNCHANGED sweepVars
    PROVE  BudgetInv'
<1>1. UNCHANGED <<runs, launches, config, cumulative, sweeps, orphans, running, givenUp>>
  BY DEF PassOver, StopAtBudget, NextMode, Summarize, sweepVars, progress, sweepFiles, sweepHistory
<1>. QED
  BY <1>1, QuietStep DEF BudgetKept

(* A kill leaves no budget to keep, or no orphan. *)
LEMMA KillSpends == ASSUME SweepInv, BudgetInv, KillSweep \/ PoolBreaks PROVE BudgetInv'
<1>1. /\ UNCHANGED <<runs, launches, config, cumulative, sweeps, givenUp>>
      /\ orphans' = orphans \cup {running[t] : t \in Live} /\ running' = [t \in Names |-> 0]
  BY DEF KillSweep, PoolBreaks, sweepFiles
<1>2. BudgetKept' => ~givenUp /\ orphans = {} /\ \A t \in Names : running'[t] = running[t]
  <2>. SUFFICES ASSUME BudgetKept'
                PROVE  ~givenUp /\ orphans = {} /\ \A t \in Names : running'[t] = running[t]
    OBVIOUS
  <2>1. orphans' = {} /\ ~givenUp
    BY <1>1 DEF BudgetKept
  <2>2. orphans = {} /\ Live = {}
    BY <1>1, <2>1
  <2>. QED
    BY <1>1, <2>1, <2>2 DEF Live
<1>. QED
  BY <1>1, <1>2, QuietStep

(* A child is started below the budget, alone. *)
LEMMA LaunchSpends == ASSUME SweepInv, BudgetInv, Launch PROVE BudgetInv'
<1>0. PICK t : t = todo[started + 1]
  OBVIOUS
<1>. DEFINE e == [task |-> t, segment |-> CurrentSegment, sweep |-> sweeps]
<1>1. /\ UNCHANGED <<runs, config, cumulative, sweeps, orphans, givenUp>>
      /\ launches' = Append(launches, e) /\ running' = [running EXCEPT ![t] = Len(launches')]
      /\ sweepPc = "sweeping" /\ started < Len(todo)
      /\ Sequential => Live = {} /\ ~BudgetReached(cumulative)
  BY <1>0 DEF Launch, MayStart, sweepFiles
<1>2. t \in Names
  BY <1>0, <1>1, NextTaskIs
<1>3. /\ running \in [Names -> 0..Len(launches)] /\ launches \in Seq(LaunchShape) /\ sweeps \in Nat
      /\ cumulative \in Nat
  BY SweepAssumption DEF SweepInv, SweepTyped, SweepTypeOK
<1>4. e.sweep = sweeps
  OBVIOUS
<1>. HIDE DEF e
<1>5. PICK k : k = Len(launches) + 1
  OBVIOUS
<1>6. /\ k \in Nat /\ k # 0 /\ DOMAIN launches = 1..Len(launches) /\ DOMAIN launches' = 1..k
      /\ launches'[k] = e /\ Len(launches') = k /\ k \notin DOMAIN launches
      /\ DOMAIN launches' = DOMAIN launches \cup {k}
      /\ \A l \in DOMAIN launches : launches'[l] = launches[l]
  BY <1>1, <1>3, <1>5
<1>7. \A l \in DOMAIN launches' : launches'[l].sweep <= sweeps'
  BY <1>1, <1>3, <1>4, <1>6 DEF BudgetInv
<1>8. ASSUME BudgetKept' PROVE Spending'
  <2>1. BudgetKept
    BY <1>1, <1>8 DEF BudgetKept, Sequential
  <2>2. Live = {} /\ ~(cumulative >= config.budget) /\ Spending
    BY <1>1, <2>1 DEF BudgetKept, BudgetReached, BudgetInv
  <2>3. config.budget \in Nat
    BY <2>1, SweepAssumption DEF BudgetKept, SweepConfigShape, SweepInv, SweepTyped, SweepTypeOK
  <2>4. \A u \in Names : running'[u] = IF u = t THEN k ELSE 0
    BY <1>1, <1>3, <1>6, <2>2 DEF Live
  <2>5. Live' = {t}
    BY <1>2, <1>6, <2>4 DEF Live
  <2>6. Counted' = Own
    <3>1. Own' = Own \cup {k}
      BY <1>1, <1>4, <1>6 DEF Own
    <3>2. {running'[u] : u \in Live'} = {k}
      BY <1>2, <2>4, <2>5
    <3>3. k \notin Own
      BY <1>6 DEF Own
    <3>. QED
      BY <3>1, <3>2, <3>3 DEF Counted
  <2>7. Counted = Own
    BY <2>2 DEF Counted
  <2>8. \A l \in Own : Tally'[l] = Tally[l]
    BY <1>1, <1>6 DEF Tally, CostOf, Own, Readable
  <2>9. SumOf(Tally', Own) = SumOf(Tally, Own)
    <3>1. PICK f : f = Tally'
      OBVIOUS
    <3>2. SumOf(Tally, Own) = SumOf(f, Own)
      BY <2>8, <3>1, TallyIs, SameSum
    <3>. QED
      BY <3>1, <3>2
  <2>10. AtMost(Tally', Counted', cumulative')
    BY <1>1, <2>2, <2>6, <2>7, <2>9 DEF Spending, AtMost
  <2>11. cumulative' < config'.budget
    BY <1>1, <1>3, <2>2, <2>3
  <2>. QED
    BY <1>1, <2>2, <2>5, <2>10, <2>11 DEF Spending
<1>. QED
  BY <1>7, <1>8 DEF BudgetInv

(* What a child recorded is counted when it is off the list. *)
LEMMA TakeInSpends ==
    ASSUME SweepInv, BudgetInv, NEW t \in Names, running[t] # 0, NEW r, r.cost \in Costs \cup {0},
           running[t] \in DOMAIN launches /\ CostOf(running[t]) # 0 => r.cost = CostOf(running[t]),
           TakeIn(t, r), UNCHANGED givenUp
    PROVE  BudgetInv'
<1>1. /\ UNCHANGED <<runs, launches, config, sweeps, orphans, givenUp>>
      /\ running' = [running EXCEPT ![t] = 0]
      /\ cumulative' = cumulative + r.cost
  BY DEF TakeIn, sweepFiles, sweepHistory
<1>2. /\ running \in [Names -> 0..Len(launches)]
      /\ cumulative \in Nat /\ sweepPc = "sweeping" /\ running[t] \in DOMAIN launches
      /\ launches[running[t]].sweep = sweeps
  BY DEF SweepInv, SweepTyped, SweepTypeOK, SweepPlace, RunningTells, ChildTells
<1>3. r.cost \in Nat
  <2>1. r.cost \in Costs => r.cost \in Nat
    BY RecordsAre
  <2>2. r.cost = 0 => r.cost \in Nat
    OBVIOUS
  <2>. QED
    BY <2>1, <2>2
<1>4. \A l \in DOMAIN launches' : launches'[l].sweep <= sweeps'
  BY <1>1 DEF BudgetInv
<1>5. ASSUME BudgetKept' PROVE Spending'
  <2>3. BudgetKept
    BY <1>1, <1>5 DEF BudgetKept, Sequential
  <2>4. Spending /\ t \in Live /\ cumulative < config.budget
    BY <2>3 DEF BudgetInv, Spending, Live
  <2>5. Live = {t}
    BY <2>4 DEF Spending
  <2>6. Live' = {}
    BY <1>1, <1>2, <2>5 DEF Live
  <2>7. config.budget \in Nat
    BY <2>3, SweepAssumption DEF BudgetKept, SweepConfigShape, SweepInv, SweepTyped, SweepTypeOK
  <2>8. PICK k : k = running[t]
    OBVIOUS
  <2>9. Counted = Own \ {k} /\ k \in Own /\ Counted' = Own /\ Tally' = Tally
    BY <1>1, <1>2, <2>5, <2>6, <2>8 DEF Counted, Own, Tally, CostOf, Readable
  <2>10. SumOf(Tally, Own) = Tally[k] + SumOf(Tally, Counted)
    BY <2>9, TallyIs, SumWithout
  <2>11. Tally[k] <= r.cost /\ Tally[k] \in Nat
    BY <1>2, <1>3, <2>8, TallyIs
  <2>12. SumOf(Tally, Counted) \in Nat
    BY TallyIs, SumIsNat DEF Counted, Own
  <2>13. AtMost(Tally, Own, cumulative')
    BY <1>1, <1>2, <1>3, <2>4, <2>10, <2>11, <2>12 DEF Spending, AtMost
  <2>14. Overrun(cumulative', config'.budget)
    <3>1. CASE r.cost \in Costs
      <4>1. cumulative' < config'.budget + r.cost
        BY <1>1, <1>2, <1>3, <2>4, <2>7
      <4>. QED
        BY <3>1, <4>1 DEF Overrun
    <3>2. CASE r.cost = 0
      <4>1. cumulative' = cumulative
        BY <1>1, <1>2, <3>2
      <4>. QED
        BY <1>1, <2>4, <4>1 DEF Spending, Overrun
    <3>. QED
      BY <3>1, <3>2
  <2>. QED
    BY <2>6, <2>9, <2>13, <2>14 DEF Spending
<1>. QED
  BY <1>4, <1>5 DEF BudgetInv

(* A child's cost is in the results when it returns. *)
LEMMA ChildExitsSpends ==
    ASSUME SweepInv, BudgetInv, NEW t \in Names, ChildExits(t) PROVE BudgetInv'
<1>1. PICK clean \in BOOLEAN : TakeIn(t, ReadBack(t, clean))
  BY DEF ChildExits
<1>2. running[t] # 0
  BY DEF ChildExits
<1>3. PICK r : r = ReadBack(t, clean)
  OBVIOUS
<1>. DEFINE f == Load(t, before[t])
            g == runs[<<t, CurrentSegment>>]
<1>4. Brings(t, f, g)
  BY <1>2, LoadIs
<1>5. r.cost = f.cost
  BY <1>3 DEF ReadBack
<1>6. running[t] \in DOMAIN launches /\ launches[running[t]].task = t
      /\ launches[running[t]].segment = CurrentSegment
  BY <1>2 DEF SweepInv, RunningTells, ChildTells
<1>7. CostOf(running[t]) = IF Readable(g) /\ g.by = running[t] THEN g.cost ELSE 0
  BY <1>6 DEF CostOf
<1>. HIDE DEF f, g
<1>8. r.cost \in Costs \cup {0} /\ (CostOf(running[t]) # 0 => r.cost = CostOf(running[t]))
  BY <1>4, <1>5, <1>7 DEF Brings
<1>9. TakeIn(t, r) /\ UNCHANGED givenUp
  BY <1>1, <1>3 DEF ChildExits
<1>. QED
  BY <1>2, <1>8, <1>9, TakeInSpends

(* Of a child that is given up no cost is known, and nothing is promised. *)
LEMMA GiveUpSpends ==
    ASSUME SweepInv, BudgetInv, NEW t \in Names, GiveUp(t) PROVE BudgetInv'
<1>1. UNCHANGED <<launches, sweeps>> /\ givenUp' = TRUE
  BY DEF GiveUp, TakeIn, sweepHistory
<1>. QED
  BY <1>1 DEF BudgetInv, BudgetKept

(* A new sweep has spent nothing. *)
LEMMA StartSpends == ASSUME SweepInv, BudgetInv, StartSweep PROVE BudgetInv'
<1>1. /\ UNCHANGED <<runs, launches>> /\ cumulative' = 0 /\ running' = [t \in Names |-> 0]
      /\ sweeps' = sweeps + 1
  BY DEF StartSweep, sweepFiles, sweepHistory
<1>2. launches \in Seq(LaunchShape) /\ sweeps \in Nat
  BY SweepAssumption DEF SweepInv, SweepTyped, SweepTypeOK
<1>3. ASSUME NEW l \in DOMAIN launches PROVE launches[l].sweep <= sweeps' /\ launches[l].sweep # sweeps'
  <2>1. launches[l] \in LaunchShape
    BY <1>2
  <2>2. launches[l].sweep \in Nat
    BY <2>1, SweepAssumption DEF LaunchShape
  <2>. QED
    BY <1>1, <1>2, <2>2 DEF BudgetInv
<1>4. Live' = {} /\ Own' = {} /\ Counted' = {}
  BY <1>1, <1>3 DEF Live, Own, Counted
<1>5. AtMost(Tally', Counted', cumulative')
  <2>1. PICK f : f = Tally'
    OBVIOUS
  <2>2. SumOf(f, {}) = 0
    BY SumOfNothing
  <2>. QED
    BY <1>1, <1>4, <2>1, <2>2 DEF AtMost
<1>6. Spending'
  BY <1>1, <1>4, <1>5 DEF Spending, Overrun
<1>. QED
  BY <1>1, <1>3, <1>6 DEF BudgetInv

(* A record that is written over is that of an earlier run at the same place. *)
LEMMA ChildWritesSpends == ASSUME SweepInv, BudgetInv, ChildWrites PROVE BudgetInv'
<1>1. PICK l \in Writers : SingleWrites(l) \/ ChainWrites(l)
  BY DEF ChildWrites
<1>2. UNCHANGED <<launches, orphans, sweepPc, config, todo, mode, started, running, before, gathered,
                  results, cumulative, exceeded, givenUp, exit, sweeps>>
  BY DEF ChildWrites, sweepHistory, progress
<1>3. \A k \in DOMAIN launches' : launches'[k].sweep <= sweeps'
  BY <1>2 DEF BudgetInv
<1>4. ASSUME BudgetKept' PROVE Spending'
  <2>1. BudgetKept
    BY <1>2, <1>4 DEF BudgetKept, Sequential
  <2>2. Spending
    BY <2>1 DEF BudgetInv
  <2>3. l \in {running[t] : t \in Live}
    BY <2>1 DEF BudgetKept, Writers
  <2>4. Live' = Live /\ Counted' = Counted /\ l \notin Counted
    BY <1>2, <2>3 DEF Live, Counted, Own
  <2>5. SweepInv' /\ DOMAIN launches' = DOMAIN launches
    BY <1>2, ChildWritesStep
  <2>6. ASSUME NEW k \in Counted PROVE CostOf(k)' = CostOf(k) \/ CostOf(k)' = 0
    <3>. DEFINE x == <<launches[k].task, launches[k].segment>>
    <3>1. runs'[x] = runs[x] \/ (Readable(runs'[x]) => runs'[x].by = l)
      <4>1. runs \in [Names \X Segments -> Files] /\ x \in Names \X Segments
        <5>1. launches \in Seq(LaunchShape) /\ k \in DOMAIN launches
          BY DEF SweepInv, SweepTyped, Counted, Own
        <5>2. launches[k] \in LaunchShape
          BY <5>1
        <5>. QED
          BY <5>2 DEF LaunchShape, SweepInv, SweepTyped, SweepTypeOK
      <4>2. CASE SingleWrites(l)
        <5>1. PICK f \in {Recorded(l, o) : o \in Outcomes} \cup {Torn} :
                 runs' = [runs EXCEPT ![<<launches[l].task, launches[l].segment>>] = f]
          BY <4>2 DEF SingleWrites
        <5>2. Readable(f) => f.by = l
          BY <5>1, RecordsAre DEF Recorded
        <5>3. runs'[x] = runs[x] \/ runs'[x] = f
          BY <4>1, <5>1
        <5>. QED
          BY <5>2, <5>3
      <4>3. CASE ChainWrites(l)
        BY <4>3 DEF ChainWrites
      <4>. QED
        BY <1>1, <4>2, <4>3
    <3>2. k # l /\ launches' = launches
      BY <1>2, <2>4
    <3>3. CASE runs'[x] = runs[x]
      BY <3>2, <3>3 DEF CostOf, Readable
    <3>4. CASE Readable(runs'[x]) => runs'[x].by = l
      BY <3>2, <3>4 DEF CostOf, Readable
    <3>. QED
      BY <3>1, <3>3, <3>4
  <2>7. PICK f, S : f = Tally' /\ S = Counted
    OBVIOUS
  <2>8. S = Counted' /\ IsFiniteSet(S)
    BY <2>4, <2>7, TallyIs
  <2>9. ASSUME NEW k \in S
        PROVE  Tally[k] \in Nat /\ f[k] \in Nat /\ f[k] <= Tally[k]
    <3>1. k \in DOMAIN launches
      BY <2>7 DEF Counted, Own
    <3>2. Tally[k] = CostOf(k) /\ Tally[k] \in Nat
      BY <3>1, TallyIs
    <3>3. f[k] = CostOf(k)'
      BY <1>2, <2>7, <3>1 DEF Tally
    <3>. QED
      BY <2>6, <2>7, <3>2, <3>3
  <2>10. SumOf(f, S) <= SumOf(Tally, S)
    BY <2>8, <2>9, SumGrows
  <2>11. SumOf(f, S) \in Nat /\ SumOf(Tally, S) \in Nat /\ cumulative \in Nat
    BY <2>8, <2>9, SumIsNat DEF SweepInv, SweepTyped, SweepTypeOK
  <2>12. SumOf(Tally, S) <= cumulative
    BY <2>2, <2>7 DEF Spending, AtMost
  <2>13. AtMost(Tally', Counted', cumulative')
    BY <1>2, <2>7, <2>8, <2>10, <2>11, <2>12 DEF AtMost
  <2>. QED
    BY <1>2, <2>2, <2>4, <2>13 DEF Spending
<1>. QED
  BY <1>3, <1>4 DEF BudgetInv

(* The two invariants are inductive together. *)
LEMMA BudgetSteps ==
    ASSUME SweepInv, BudgetInv, [SweepNext]_sweepVars PROVE BudgetInv'
<1>1. CASE StartSweep
  BY <1>1, StartSpends
<1>2. CASE PassOver \/ StopAtBudget \/ NextMode \/ Summarize \/ UNCHANGED sweepVars
  BY <1>2, IdleSpends
<1>3. CASE Launch
  BY <1>3, LaunchSpends
<1>4. CASE Collect
  BY <1>4, ChildExitsSpends, GiveUpSpends DEF Collect
<1>5. CASE KillSweep \/ PoolBreaks
  BY <1>5, KillSpends
<1>6. CASE ChildWrites
  BY <1>6, ChildWritesSpends
<1>. QED
  BY <1>1, <1>2, <1>3, <1>4, <1>5, <1>6 DEF SweepNext, Dispatcher

(* What is spent stays below the budget while a child lives (main's loop). *)
THEOREM BudgetInvHolds == SweepSpec => [](SweepInv /\ BudgetInv)
<1>1. SweepInit => SweepInv /\ BudgetInv
  <2>. SUFFICES ASSUME SweepInit PROVE SweepInv /\ BudgetInv
    OBVIOUS
  <2>1. SweepInv
    BY SweepStarts
  <2>2. launches = <<>> /\ config = Absent
    BY DEF SweepInit
  <2>. QED
    BY <2>1, <2>2 DEF BudgetInv, BudgetKept
<1>2. SweepInv /\ BudgetInv /\ [SweepNext]_sweepVars => (SweepInv /\ BudgetInv)'
  BY SweepSteps, BudgetSteps
<1>. QED
  BY <1>1, <1>2, PTL DEF SweepSpec

(* In sequence, without a child that was given up or left behind, the runs  *)
(* of a sweep are billed nothing, or less than its budget and one more run  *)
(* (main's budget check before each task).                                  *)
THEOREM BudgetIsKept == SweepSpec => []BudgetBoundsBilled
<1>1. SweepInv /\ BudgetInv => BudgetBoundsBilled
  BY SpendingBounds DEF BudgetInv, BudgetKept, BudgetBoundsBilled
<1>. QED
  BY <1>1, BudgetInvHolds, PTL
=================================================================================
