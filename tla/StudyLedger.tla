----------------------------- MODULE StudyLedger -----------------------------
(***************************************************************************)
(* What the paid dispatcher promises about a study's receipt log, without  *)
(* saying how: the log is the execution order of the frozen plan, written  *)
(* one slot at a time, nothing is ever added behind a slot that failed,    *)
(* and no slot is recorded unless the study still had a full slot's hard   *)
(* cap left when its turn came.  HeadlineDispatch implements this.         *)
(***************************************************************************)
EXTENDS Naturals, Sequences

CONSTANTS
    NSlots,         \* slots of the frozen execution order
    Cap,            \* outer_spend_hard_cap_per_slot_usd
    StudyCeiling,   \* whole-study outer spend ceiling
    Receipt         \* the receipts that can be recorded

VARIABLES
    ledger,         \* the receipts recorded so far, oldest first
    spent           \* the outer cost they add up to

vars == <<ledger, spent>>

(* A receipt that lets the study go on: valid, and within every cap. *)
Completed(r) == r.status = "valid" /\ r.within

Init == ledger = <<>> /\ spent = 0

Record(r) ==
    /\ r.slot = Len(ledger) + 1
    /\ r.slot <= NSlots
    /\ \A i \in DOMAIN ledger : Completed(ledger[i])
    /\ spent + Cap <= StudyCeiling
    /\ ledger' = Append(ledger, r)
    /\ spent' = spent + r.cost

Next == \E r \in Receipt : Record(r)

Spec == Init /\ [][Next]_vars
=============================================================================
