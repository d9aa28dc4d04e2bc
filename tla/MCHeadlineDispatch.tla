-------------------------- MODULE MCHeadlineDispatch --------------------------
(***************************************************************************)
(* Model-checking instances of HeadlineDispatch: studies of three or four  *)
(* slots with a cap of 2 per slot, in batches of two slots, by invocations  *)
(* that are interchangeable in the safety runs.  A study keeps to the       *)
(* protocol it was approved under: with the capacity gate (v4 and later) or *)
(* without it (v3).                                                         *)
(***************************************************************************)
EXTENDS HeadlineDispatch, TLC

CONSTANT Protocols

VARIABLE protocol

V3 == INSTANCE HeadlineDispatch WITH Gated <- FALSE

MCCharges == {1, 3}     \* one run inside its cap of 2, one that overruns it

Symmetry == Permutations(Invocations)

MCInit == Init /\ protocol \in Protocols

MCNext ==
    \/ protocol = "v4" /\ Next /\ UNCHANGED protocol
    \/ protocol = "v3" /\ V3!Next /\ UNCHANGED protocol

MCVars == <<vars, protocol>>

MCSpec == MCInit /\ [][MCNext]_MCVars

\* Every live process keeps taking steps, as in FairSpec.
MCFairSpec ==
    /\ MCSpec
    /\ \A d \in Invocations :
          /\ WF_MCVars(protocol = "v4" /\ Dispatch(d) /\ UNCHANGED protocol)
          /\ WF_MCVars(protocol = "v3" /\ V3!Dispatch(d) /\ UNCHANGED protocol)
          /\ WF_MCVars(protocol = "v4" /\ RunTask(d) /\ UNCHANGED protocol)
          /\ WF_MCVars(protocol = "v3" /\ V3!RunTask(d) /\ UNCHANGED protocol)
=============================================================================
