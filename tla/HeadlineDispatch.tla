--------------------------- MODULE HeadlineDispatch ---------------------------
(***************************************************************************)
(* The paid dispatcher of the frozen headline studies and everything it    *)
(* shares with the outside: concurrent `--execute` invocations, the        *)
(* run_task child each of them starts per slot, the operator who           *)
(* authorizes and publishes batches, other consumers of the provider       *)
(* accounts, and the files and advisory locks between them.  Invocations   *)
(* and children may be killed at any step.                                 *)
(*                                                                         *)
(* Sources: scripts/orchestration/headline_study_dispatch.py,              *)
(* headline_dispatch_policy.py, headline_provider_capacity.py, run_task.py *)
(* (_run_task_with_provider_locks, _save_results), study_run.py and        *)
(* scripts/studies/authorize_headline_v3_batch.py.                         *)
(***************************************************************************)
EXTENDS Naturals, Sequences, FiniteSets

CONSTANTS
    Invocations,    \* dispatcher processes, one per `--execute` command
    NoOne,          \* the owner of a free lock, the runner of an unused directory
    External,       \* any other consumer of a provider account
    NAccounts,      \* provider accounts of the study, locked in sorted order
    NSlots,         \* slots of the frozen execution order
    Arms,           \* arms of the study: slots come in complete task groups
    Batch,          \* max_slots_per_dispatch, frozen by the protocol
    Cap,            \* outer_spend_hard_cap_per_slot_usd
    StudyCeiling,   \* frozen whole-study spend ceiling
    Charges,        \* what the provider may charge for one run
    MaxAuths,       \* bound: authorization artifacts an operator creates
    Gated           \* TRUE for the capacity-gated protocols (v4 and later)

Slots == 1 .. NSlots
Accounts == 1 .. NAccounts
AuthIds == 1 .. MaxAuths

ASSUME ConstantsAssumption ==
    /\ NSlots \in Nat /\ NAccounts \in Nat \ {0} /\ Arms \in Nat \ {0}
    /\ Batch \in Nat \ {0} /\ Cap \in Nat /\ StudyCeiling \in Nat
    /\ Charges \subseteq Nat /\ MaxAuths \in Nat /\ Gated \in BOOLEAN
    /\ NoOne \notin Invocations /\ External \notin Invocations
    /\ NoOne # External

(* One line of receipts.jsonl. `within` stands for the evidence checks on  *)
(* top of the status: agent and judge each inside their own provider       *)
(* budget, and zero-cache isolation.  `by` is the invocation whose child   *)
(* wrote it.  A run that never reached the provider records cost 0.        *)
Receipt == [slot: Slots, status: {"valid", "infra_invalid"},
            cost: Charges \cup {0}, within: BOOLEAN, by: Invocations]

(* One authorization artifact: the exact pending batch and its ceiling,    *)
(* whether it is on origin/main, whether its capacity telemetry is younger *)
(* than V4_CAPACITY_MAX_AGE_SECONDS, and its capacity_rechecks files.      *)
Authorization == [start: 0 .. NSlots, end: 0 .. NSlots, ceiling: 0 .. StudyCeiling,
                  published: BOOLEAN, fresh: BOOLEAN,
                  recheck: {"none", "started", "accepted", "rejected", "error"}]

Left == {"done", "failed", "crashed"}
Pcs == {"new", "locked", "accounts", "checking", "preflight", "recheck",
        "probing", "slots", "waiting"} \cup Left
KidPcs == {"none", "starting", "validated", "running", "exited"}

VARIABLES
    (* files *)
    log,            \* receipts.jsonl, oldest line first
    total,          \* what the receipts in log add up to
    torn,           \* the log ends in a half-written line
    auths,          \* authorization artifacts, in order of creation
    draft,          \* build_authorized_plan between reading receipts and writing
    out,            \* which invocation's child last wrote a slot's output directory
    (* advisory locks *)
    dispatchLock,   \* flock on the canonical dispatch_plan.json
    accLock,        \* flock on each account's lock file: owner of the descriptor
    (* one dispatcher invocation *)
    pc, plan, held, \* step, loaded authorization, accounts locked so far
    n, spend, target, \* len(receipts), spend, end of the batch: local snapshots
    (* its run_task child *)
    kid, ok,        \* step of the child, whether it exited with status 0
    (* history *)
    runBy,          \* the invocations that started an agent under an authorization
    charged         \* what the provider charged under an authorization

files == <<log, total, torn, auths, draft, out>>
locks == <<dispatchLock, accLock>>
local == <<pc, plan, held, n, spend, target>>
child == <<kid, ok>>
history == <<runBy, charged>>
vars == <<files, locks, local, child, history>>

FileTypes ==
    /\ log \in Seq(Receipt) /\ total \in Nat /\ torn \in BOOLEAN
    /\ auths \in Seq(Authorization) /\ Len(auths) <= MaxAuths
    /\ draft \in [start: 0 .. NSlots, spent: Nat, open: BOOLEAN]
    /\ out \in [Slots -> Invocations \cup {NoOne}]

LockTypes ==
    /\ dispatchLock \in Invocations \cup {NoOne}
    /\ accLock \in [Accounts -> Invocations \cup {NoOne, External}]

LocalTypes ==
    /\ pc \in [Invocations -> Pcs]
    /\ plan \in [Invocations -> 0 .. MaxAuths]
    /\ held \in [Invocations -> 0 .. NAccounts]
    /\ n \in [Invocations -> 0 .. NSlots] /\ spend \in [Invocations -> Nat]
    /\ target \in [Invocations -> 0 .. NSlots]

ChildTypes == kid \in [Invocations -> KidPcs] /\ ok \in [Invocations -> BOOLEAN]

HistoryTypes ==
    runBy \in [AuthIds -> SUBSET Invocations] /\ charged \in [AuthIds -> Nat]

TypeOK == FileTypes /\ LockTypes /\ LocalTypes /\ ChildTypes /\ HistoryTypes

Init ==
    /\ log = <<>> /\ total = 0 /\ torn = FALSE
    /\ auths = <<>> /\ draft = [start |-> 0, spent |-> 0, open |-> FALSE]
    /\ out = [s \in Slots |-> NoOne]
    /\ dispatchLock = NoOne /\ accLock = [a \in Accounts |-> NoOne]
    /\ pc = [d \in Invocations |-> "new"]
    /\ plan = [d \in Invocations |-> 0] /\ held = [d \in Invocations |-> 0]
    /\ n = [d \in Invocations |-> 0] /\ spend = [d \in Invocations |-> 0]
    /\ target = [d \in Invocations |-> 0]
    /\ kid = [d \in Invocations |-> "none"] /\ ok = [d \in Invocations |-> FALSE]
    /\ runBy = [a \in AuthIds |-> {}] /\ charged = [a \in AuthIds |-> 0]

-----------------------------------------------------------------------------
(* Shared conditions and lock bookkeeping *)

Completed(r) == r.status = "valid" /\ r.within

(* Every slot before the next one has a receipt the dispatcher accepts.    *)
AllCompleted == \A i \in DOMAIN log : Completed(log[i])

Alive(d) == kid[d] \in {"starting", "validated", "running"}

Lesser(x, y) == IF x <= y THEN x ELSE y

BatchEnd(start) == Lesser(start + Batch, NSlots)

DispatchLockWithout(d) == IF dispatchLock = d THEN NoOne ELSE dispatchLock

AccLockWithout(d) == [a \in Accounts |-> IF accLock[a] = d THEN NoOne ELSE accLock[a]]

(* The descriptor of the dispatch lock outlives the `with` block. *)
LeaveKeepingDispatchLock(d, how) ==
    /\ pc' = [pc EXCEPT ![d] = how]
    /\ accLock' = AccLockWithout(d)
    /\ held' = [held EXCEPT ![d] = 0]
    /\ UNCHANGED <<files, dispatchLock, plan, n, spend, target, child, history>>

(* A failed exclusive_provider_account_locks keeps the accounts it got. *)
LeaveKeepingAccounts(d, how) ==
    /\ pc' = [pc EXCEPT ![d] = how]
    /\ dispatchLock' = DispatchLockWithout(d)
    /\ UNCHANGED <<files, accLock, held, plan, n, spend, target, child, history>>

(* Leaving the `with` blocks, normally or by an exception: both locks are  *)
(* given back.                                                             *)
Leave(d, how) ==
    /\ pc' = [pc EXCEPT ![d] = how]
    /\ dispatchLock' = DispatchLockWithout(d)
    /\ accLock' = AccLockWithout(d)
    /\ held' = [held EXCEPT ![d] = 0]
    /\ UNCHANGED <<files, plan, n, spend, target, child, history>>

Goto(d, where) == pc' = [pc EXCEPT ![d] = where]

-----------------------------------------------------------------------------
(* One `--execute` invocation *)

ExclusiveDispatchLock(d) ==
    /\ pc[d] = "new" /\ dispatchLock = NoOne
    /\ dispatchLock' = d
    /\ Goto(d, "locked")
    /\ UNCHANGED <<files, accLock, plan, held, n, spend, target, child, history>>

DispatchAlreadyActive(d) ==
    /\ pc[d] = "new" /\ dispatchLock # NoOne
    /\ Leave(d, "failed")

(* The operator names one authorization artifact on the command line.      *)
LoadDispatchPlan(d, a) ==
    /\ pc[d] = "locked" /\ a \in DOMAIN auths
    /\ plan' = [plan EXCEPT ![d] = a]
    /\ Goto(d, IF Gated THEN "accounts" ELSE "checking")
    /\ UNCHANGED <<files, locks, held, n, spend, target, child, history>>

(* A closed plan: paid_dispatch_authorized is false.                       *)
LoadClosedPlan(d) == pc[d] = "locked" /\ Leave(d, "failed")

(* exclusive_provider_account_locks: one non-blocking flock after another, *)
(* in sorted order.                                                        *)
LockProviderAccount(d) ==
    /\ pc[d] = "accounts" /\ held[d] < NAccounts
    /\ accLock[held[d] + 1] = NoOne
    /\ accLock' = [accLock EXCEPT ![held[d] + 1] = d]
    /\ held' = [held EXCEPT ![d] = @ + 1]
    /\ UNCHANGED <<files, dispatchLock, pc, plan, n, spend, target, child, history>>

ProviderAccountBusy(d) ==
    /\ pc[d] = "accounts" /\ held[d] < NAccounts
    /\ accLock[held[d] + 1] # NoOne
    /\ Leave(d, "failed")

AllAccountsLocked(d) ==
    /\ pc[d] = "accounts" /\ held[d] = NAccounts
    /\ Goto(d, "checking")
    /\ UNCHANGED <<files, locks, plan, held, n, spend, target, child, history>>

AuthorizationMatches(auth) ==
    /\ auth.published
    /\ auth.start = Len(log)
    /\ auth.end = BatchEnd(Len(log))
    /\ total + Cap * (auth.end - auth.start) <= auth.ceiling

(* validate_committed_authorization, _existing_receipts and the checks of  *)
(* _dispatch_headline_study against the receipts just read.                *)
ReceiptsAccepted(auth) ==
    /\ ~torn
    /\ AllCompleted
    /\ Len(log) % Arms = 0
    /\ AuthorizationMatches(auth)

ReadExistingReceipts(d) ==
    /\ pc[d] = "checking" /\ ReceiptsAccepted(auths[plan[d]])
    /\ n' = [n EXCEPT ![d] = Len(log)]
    /\ spend' = [spend EXCEPT ![d] = total]
    /\ target' = [target EXCEPT ![d] = auths[plan[d]].end]
    /\ Goto(d, "preflight")
    /\ UNCHANGED <<files, locks, plan, held, child, history>>

RefuseExistingReceipts(d) ==
    /\ pc[d] = "checking" /\ ~ReceiptsAccepted(auths[plan[d]])
    /\ Leave(d, "failed")

(* With no receipts yet the output root has to be empty.                   *)
OutputRootAcceptable(d) == n[d] = 0 => \A s \in Slots : out[s] = NoOne

RunPreflight(d) ==
    /\ pc[d] = "preflight" /\ OutputRootAcceptable(d)
    /\ Goto(d, IF Gated THEN "recheck" ELSE "slots")
    /\ UNCHANGED <<files, locks, plan, held, n, spend, target, child, history>>

(* A dirty root, or any of the live probes of the preflight.               *)
PreflightFails(d) == pc[d] = "preflight" /\ Leave(d, "failed")

(* The started file overwrites an older one. *)
RecheckMayRestart(auth) == auth.fresh

(* The started file is created with mode "x": one batch hash, one start.   *)
RecheckMayStart(auth) == auth.fresh /\ auth.recheck = "none"

StartCapacityRecheck(d) ==
    /\ pc[d] = "recheck" /\ RecheckMayStart(auths[plan[d]])
    /\ auths' = [auths EXCEPT ![plan[d]].recheck = "started"]
    /\ Goto(d, "probing")
    /\ UNCHANGED <<log, total, torn, draft, out, locks, plan, held, n, spend,
                   target, child, history>>

RefuseCapacityRecheck(d) ==
    /\ pc[d] = "recheck" /\ ~RecheckMayStart(auths[plan[d]])
    /\ Leave(d, "failed")

CapacityAccepted(d) ==
    /\ pc[d] = "probing"
    /\ auths' = [auths EXCEPT ![plan[d]].recheck = "accepted"]
    /\ Goto(d, "slots")
    /\ UNCHANGED <<log, total, torn, draft, out, locks, plan, held, n, spend,
                   target, child, history>>

CapacityRefused(d, verdict) ==
    /\ pc[d] = "probing" /\ verdict \in {"rejected", "error"}
    /\ auths' = [auths EXCEPT ![plan[d]].recheck = verdict]
    /\ pc' = [pc EXCEPT ![d] = "failed"]
    /\ dispatchLock' = DispatchLockWithout(d)
    /\ accLock' = AccLockWithout(d)
    /\ held' = [held EXCEPT ![d] = 0]
    /\ UNCHANGED <<log, total, torn, draft, out, plan, n, spend, target, child,
                   history>>

(* The reserve check in front of every slot.                               *)
ReserveCovered(d) == spend[d] + Cap <= auths[plan[d]].ceiling

StartRunTask(d) ==
    /\ pc[d] = "slots" /\ n[d] < target[d] /\ ReserveCovered(d)
    /\ kid' = [kid EXCEPT ![d] = "starting"]
    /\ Goto(d, "waiting")
    /\ UNCHANGED <<files, locks, plan, held, n, spend, target, ok, history>>

(* The batch is complete, or the reserve is short.                         *)
LeaveSlotLoop(d) ==
    /\ pc[d] = "slots" /\ (n[d] = target[d] \/ ~ReserveCovered(d))
    /\ Leave(d, IF n[d] = target[d] THEN "done" ELSE "failed")

(* The loop goes on after any receipt inside the ceiling. *)
RunAcceptedWhateverItsStatus(d) ==
    /\ ~torn
    /\ Len(log) = n[d] + 1
    /\ log[Len(log)].slot = n[d] + 1

(* Everything the loop demands of the log and of the child's exit status.  *)
RunAccepted(d) ==
    /\ ~torn
    /\ Len(log) = n[d] + 1
    /\ LET r == log[Len(log)] IN
        /\ r.slot = n[d] + 1
        /\ Completed(r)
        /\ r.cost <= Cap
        /\ spend[d] + r.cost <= auths[plan[d]].ceiling
    /\ ok[d]

AcceptRun(d) ==
    /\ pc[d] = "waiting" /\ kid[d] = "exited" /\ RunAccepted(d)
    /\ n' = [n EXCEPT ![d] = @ + 1]
    /\ spend' = [spend EXCEPT ![d] = @ + log[Len(log)].cost]
    /\ kid' = [kid EXCEPT ![d] = "none"]
    /\ Goto(d, "slots")
    /\ UNCHANGED <<files, locks, plan, held, target, ok, history>>

RefuseRun(d) ==
    /\ pc[d] = "waiting" /\ kid[d] = "exited" /\ ~RunAccepted(d)
    /\ Leave(d, "failed")

-----------------------------------------------------------------------------
(* The run_task child of invocation d, running slot n[d] + 1 *)

(* The child's descriptors close when it exits.  A gated child shares its  *)
(* parent's open file descriptions, so an account lock is free once both   *)
(* are gone; an ungated child took the locks itself.                       *)
KidExits(d, success) ==
    /\ kid' = [kid EXCEPT ![d] = "exited"]
    /\ ok' = [ok EXCEPT ![d] = success]
    /\ IF Gated /\ pc[d] # "crashed"
         THEN UNCHANGED <<accLock, held>>
         ELSE accLock' = AccLockWithout(d) /\ held' = [held EXCEPT ![d] = 0]
    /\ UNCHANGED <<dispatchLock, pc, plan, n, spend, target>>

(* TaskRunConfig.__post_init__ reads the log before anything else.         *)
ValidateStudyConfig(d) ==
    /\ kid[d] = "starting" /\ ~torn
    /\ kid' = [kid EXCEPT ![d] = "validated"]
    /\ UNCHANGED <<files, locks, local, ok, history>>

RefuseStudyConfig(d) ==
    /\ kid[d] = "starting" /\ torn
    /\ KidExits(d, FALSE)
    /\ UNCHANGED <<files, history>>

(* Without inherited descriptors the child locks the accounts for itself.  *)
KidLocksAccount(d) ==
    /\ kid[d] = "validated" /\ ~Gated /\ held[d] < NAccounts
    /\ accLock[held[d] + 1] = NoOne
    /\ accLock' = [accLock EXCEPT ![held[d] + 1] = d]
    /\ held' = [held EXCEPT ![d] = @ + 1]
    /\ UNCHANGED <<files, dispatchLock, pc, plan, n, spend, target, child, history>>

KidAccountBusy(d) ==
    /\ kid[d] = "validated" /\ ~Gated /\ held[d] < NAccounts
    /\ accLock[held[d] + 1] # NoOne
    /\ KidExits(d, FALSE)
    /\ UNCHANGED <<files, history>>

(* run_task starts: the slot's output directory is created or reused, and  *)
(* from here on the provider charges.                                      *)
BeginRun(d) ==
    /\ kid[d] = "validated" /\ held[d] = NAccounts
    /\ kid' = [kid EXCEPT ![d] = "running"]
    /\ out' = [out EXCEPT ![n[d] + 1] = d]
    /\ runBy' = [runBy EXCEPT ![plan[d]] = @ \cup {d}]
    /\ UNCHANGED <<log, total, torn, auths, draft, locks, local, ok, charged>>

Charge(d, c) == charged' = [charged EXCEPT ![plan[d]] = @ + c]

(* append_receipt refuses a log it cannot parse and a trial it has seen.   *)
AppendRefused(d) ==
    torn \/ \E i \in DOMAIN log : log[i].slot = n[d] + 1

(* What build_receipt can make of a run the provider charged c for: a      *)
(* valid trial carries its authoritative usage, an invalid one may have    *)
(* none.  `within` is only looked at for valid receipts.                   *)
RunReceipts(d, c) ==
    {r \in [slot: {n[d] + 1}, status: {"valid", "infra_invalid"},
            cost: {c, 0}, within: BOOLEAN, by: {d}] :
        /\ r.cost # c => r.status = "infra_invalid"
        /\ r.within => r.status = "valid" /\ r.cost <= Cap}

(* _save_results appends the receipt.  A run that is not valid exits with  *)
(* a non-zero status; a valid one may still fail while cleaning up.        *)
FinishRun(d, c, r, success) ==
    /\ kid[d] = "running" /\ ~AppendRefused(d)
    /\ success => r.status = "valid"
    /\ log' = Append(log, r)
    /\ total' = total + r.cost
    /\ KidExits(d, success)
    /\ Charge(d, c)
    /\ UNCHANGED <<torn, auths, draft, out, runBy>>

(* The append is refused, or run_task raises before it gets there.  A run  *)
(* that had already set success keeps exit status 0.                       *)
FinishWithoutReceipt(d, c, success) ==
    /\ kid[d] = "running"
    /\ KidExits(d, success)
    /\ Charge(d, c)
    /\ UNCHANGED <<files, runBy>>

-----------------------------------------------------------------------------
(* Kills, the operator, and other consumers of the accounts *)

(* SIGKILL of the child; in the middle of append_receipt it leaves half a  *)
(* line behind.                                                            *)
KidKilled(d, c, tears) ==
    /\ Alive(d)
    /\ kid[d] # "running" => c = 0 /\ ~tears
    /\ torn' = (torn \/ tears)
    /\ KidExits(d, FALSE)
    /\ Charge(d, c)
    /\ UNCHANGED <<log, total, auths, draft, out, runBy>>

(* A child that does not inherit the descriptors of the account locks. *)
CrashDroppingAccounts(d) ==
    /\ pc[d] \notin Left \cup {"new"}
    /\ Goto(d, "crashed")
    /\ dispatchLock' = DispatchLockWithout(d)
    /\ accLock' = AccLockWithout(d)
    /\ UNCHANGED <<files, held, plan, n, spend, target, child, history>>

(* SIGKILL of the dispatcher.  Its child is not killed with it, does not   *)
(* inherit the dispatch lock, and keeps the account locks it shares.       *)
Crash(d) ==
    /\ pc[d] \notin Left \cup {"new"}
    /\ Goto(d, "crashed")
    /\ dispatchLock' = DispatchLockWithout(d)
    /\ IF Alive(d) THEN UNCHANGED <<accLock, held>>
                   ELSE accLock' = AccLockWithout(d) /\ held' = [held EXCEPT ![d] = 0]
    /\ UNCHANGED <<files, plan, n, spend, target, child, history>>

(* build_authorized_plan reads the receipts ...                            *)
ReadForAuthorization ==
    /\ ~draft.open /\ Len(auths) < MaxAuths
    /\ ~torn /\ AllCompleted /\ Len(log) < NSlots
    /\ draft' = [start |-> Len(log), spent |-> total, open |-> TRUE]
    /\ UNCHANGED <<log, total, torn, auths, out, locks, local, child, history>>

AuthorizedBatchCeiling(start, spent) == spent + Cap * (BatchEnd(start) - start)

(* ... and writes a new artifact, probing capacity under the account locks *)
(* when the study is gated.                                                *)
WriteAuthorization ==
    /\ draft.open /\ Len(auths) < MaxAuths
    /\ AuthorizedBatchCeiling(draft.start, draft.spent) <= StudyCeiling
    /\ Gated => \A a \in Accounts : accLock[a] = NoOne
    /\ auths' = Append(auths,
         [start |-> draft.start, end |-> BatchEnd(draft.start),
          ceiling |-> AuthorizedBatchCeiling(draft.start, draft.spent),
          published |-> FALSE, fresh |-> TRUE, recheck |-> "none"])
    /\ draft' = [draft EXCEPT !.open = FALSE]
    /\ UNCHANGED <<log, total, torn, out, locks, local, child, history>>

AuthorizationRefused ==
    /\ draft.open
    /\ draft' = [draft EXCEPT !.open = FALSE]
    /\ UNCHANGED <<log, total, torn, auths, out, locks, local, child, history>>

Publish(a) ==
    /\ a \in DOMAIN auths /\ ~auths[a].published
    /\ auths' = [auths EXCEPT ![a].published = TRUE]
    /\ UNCHANGED <<log, total, torn, draft, out, locks, local, child, history>>

(* The capacity telemetry bound to the artifact ages out.                  *)
Expire(a) ==
    /\ a \in DOMAIN auths /\ auths[a].fresh
    /\ auths' = [auths EXCEPT ![a].fresh = FALSE]
    /\ UNCHANGED <<log, total, torn, draft, out, locks, local, child, history>>

ExternalTakes(a) ==
    /\ accLock[a] = NoOne
    /\ accLock' = [accLock EXCEPT ![a] = External]
    /\ UNCHANGED <<files, dispatchLock, local, child, history>>

ExternalReleases(a) ==
    /\ accLock[a] = External
    /\ accLock' = [accLock EXCEPT ![a] = NoOne]
    /\ UNCHANGED <<files, dispatchLock, local, child, history>>

-----------------------------------------------------------------------------
Dispatch(d) ==
    \/ ExclusiveDispatchLock(d) \/ DispatchAlreadyActive(d)
    \/ \E a \in AuthIds : LoadDispatchPlan(d, a)
    \/ LoadClosedPlan(d)
    \/ LockProviderAccount(d) \/ ProviderAccountBusy(d) \/ AllAccountsLocked(d)
    \/ ReadExistingReceipts(d) \/ RefuseExistingReceipts(d)
    \/ RunPreflight(d) \/ PreflightFails(d)
    \/ StartCapacityRecheck(d) \/ RefuseCapacityRecheck(d)
    \/ CapacityAccepted(d)
    \/ \E verdict \in {"rejected", "error"} : CapacityRefused(d, verdict)
    \/ StartRunTask(d) \/ LeaveSlotLoop(d)
    \/ AcceptRun(d) \/ RefuseRun(d)

RunTask(d) ==
    \/ ValidateStudyConfig(d) \/ RefuseStudyConfig(d)
    \/ KidLocksAccount(d) \/ KidAccountBusy(d)
    \/ BeginRun(d)
    \/ \E c \in Charges, success \in BOOLEAN :
         \E r \in RunReceipts(d, c) : FinishRun(d, c, r, success)
    \/ \E c \in Charges, success \in BOOLEAN : FinishWithoutReceipt(d, c, success)

Kill(d) ==
    \/ Crash(d)
    \/ \E c \in Charges \cup {0}, tears \in BOOLEAN : KidKilled(d, c, tears)

Operator ==
    \/ ReadForAuthorization \/ WriteAuthorization \/ AuthorizationRefused
    \/ \E a \in AuthIds : Publish(a) \/ Expire(a)

OtherConsumer == \E a \in Accounts : ExternalTakes(a) \/ ExternalReleases(a)

Next ==
    \/ \E d \in Invocations : Dispatch(d) \/ RunTask(d) \/ Kill(d)
    \/ Operator
    \/ OtherConsumer

Spec == Init /\ [][Next]_vars

(* Every call of the dispatcher and of run_task is bounded by a timeout    *)
(* and no lock request blocks, so a live process keeps taking steps.       *)
Fairness == \A d \in Invocations : WF_vars(Dispatch(d)) /\ WF_vars(RunTask(d))

FairSpec == Spec /\ Fairness

-----------------------------------------------------------------------------
(* Safety *)

(* The log is an exact prefix of the execution order, and only its last    *)
(* line can be anything but a completed trial -- whoever wrote the lines,  *)
(* and whatever was killed in between.  (_existing_receipts)               *)
ExecutionPrefix ==
    \A i \in DOMAIN log :
        /\ log[i].slot = i
        /\ i < Len(log) => Completed(log[i])

(* While a run_task child may spend on the accounts it owns both account   *)
(* locks, even after its dispatcher was killed, so two agents never share  *)
(* an account.  (exclusive_provider_account_locks, inherited descriptors)  *)
AccountsOwnedWhileRunning ==
    \A d \in Invocations :
        kid[d] = "running" => \A a \in Accounts : accLock[a] = d

(* An authorization artifact pays for the agents of one invocation only:   *)
(* it cannot be replayed after a failure or a crash.                       *)
AuthorizationSingleUse ==
    \A a \in AuthIds : Cardinality(runBy[a]) <= 1

(* What the provider charges under one approval, recorded or not, stays    *)
(* within the reserve the approval names plus the overrun of a single run: *)
(* the first run that breaks its cap or leaves no receipt is the last.     *)
ChargedWithinApproval ==
    \A a \in DOMAIN auths : \A most \in Charges :
        (\A c \in Charges : c <= most) /\ most >= Cap =>
            charged[a] + Cap <= Cap * (auths[a].end - auths[a].start) + most

(* The artifacts in a recorded slot's output directory are those of the    *)
(* run the receipt describes: no later run overwrote them.                 *)
ReceiptDescribesOutput ==
    \A i \in DOMAIN log : out[i] = log[i].by

(* Fail closed: no agent starts while the log holds a trial that is not    *)
(* completed.                                                              *)
NoAgentBehindFailure ==
    [][\A d \in Invocations :
         kid[d] # "running" /\ kid'[d] = "running" => AllCompleted]_vars

(* The log together with its total is a StudyLedger.                       *)
Ledger == INSTANCE StudyLedger WITH ledger <- log, spent <- total

LedgerSpec == Ledger!Spec

-----------------------------------------------------------------------------
(* Liveness *)

(* A study is never locked for good: whoever holds the dispatch lock gives *)
(* it back, and so does every holder of an account lock, whatever refuses, *)
(* fails or is killed on the way.                                          *)
LocksReturned ==
    /\ \A d \in Invocations : dispatchLock = d ~> dispatchLock # d
    /\ \A d \in Invocations, a \in Accounts : accLock[a] = d ~> accLock[a] # d
=============================================================================
