------------------------------ MODULE Publication ------------------------------
(***************************************************************************)
(* What promoting a run promises, without saying how: the official         *)
(* directory of a run appears complete, all at once, never changes while   *)
(* it is there, and is only taken back while no promotion of that run has  *)
(* reported success; a promotion that reports failure leaves nothing of    *)
(* its own behind.  Promotion implements this.                             *)
(***************************************************************************)
CONSTANTS
    Promotions,     \* invocations of the orchestrator
    Runs,           \* the runs they promote
    RunOf,          \* which one each promotes
    Sealed,         \* contents of a complete, sealed publication
    None            \* nothing published

VARIABLES
    official,       \* the publication of each run: its promotion and content
    outcome         \* what each promotion has reported

vars == <<official, outcome>>

Init ==
    /\ official = [r \in Runs |-> None]
    /\ outcome = [p \in Promotions |-> "running"]

Publish(r) ==
    /\ official[r] = None
    /\ \E p \in Promotions, c \in Sealed :
            /\ RunOf[p] = r
            /\ official' = [official EXCEPT ![r] = [by |-> p, content |-> c]]
    /\ UNCHANGED outcome

Withdraw(r) ==
    /\ official[r] # None
    /\ \A p \in Promotions : RunOf[p] = r => outcome[p] # "succeeded"
    /\ official' = [official EXCEPT ![r] = None]
    /\ UNCHANGED outcome

Succeed(p) ==
    /\ outcome[p] = "running"
    /\ official[RunOf[p]] # None
    /\ official[RunOf[p]].by = p
    /\ outcome' = [outcome EXCEPT ![p] = "succeeded"]
    /\ UNCHANGED official

Fail(p) ==
    /\ outcome[p] = "running"
    /\ official[RunOf[p]] # None => official[RunOf[p]].by # p
    /\ outcome' = [outcome EXCEPT ![p] = "failed"]
    /\ UNCHANGED official

Next ==
    \/ \E r \in Runs : Publish(r) \/ Withdraw(r)
    \/ \E p \in Promotions : Succeed(p) \/ Fail(p)

Spec == Init /\ [][Next]_vars
=============================================================================
