------------------------------- MODULE MCResults -------------------------------
(***************************************************************************)
(* What makes results and what publishes them, explored side by side: two  *)
(* sweeps of a task of run_task and of a session chain, or one that is      *)
(* passed over, by BenchmarkSweep; or three promotions of one run, one     *)
(* after the other, by Promotion.  The two share no file.                  *)
(***************************************************************************)
EXTENDS Promotion, BenchmarkSweep, TLC

CONSTANTS p1, p2, p3, r1, s1, ch

VARIABLE part

MCRunOf == [p \in Promotions |-> r1]

MCTasks == <<s1, ch>>
MCSessionType == (s1 :> "single") @@ (ch :> "chain")

\* A success and a failure, at the same price.
MCOutcomes == {[success |-> b, scored |-> b, cost |-> 2] : b \in BOOLEAN}

Line(modes, skip, labelled, dry, workers, budget) ==
    [mode |-> "baseline", modes |-> modes, skip |-> skip, labelled |-> labelled,
     dry |-> dry, workers |-> workers, budget |-> budget]

MCSweepConfigs ==
    {Line(<<"baseline">>, TRUE, FALSE, FALSE, 1, 2),
     Line(<<"baseline", "mcp_only">>, TRUE, FALSE, FALSE, 1, 2),
     Line(<<"baseline">>, FALSE, TRUE, FALSE, 2, 2),
     Line(<<"baseline">>, FALSE, FALSE, TRUE, 2, Absent)}

Sweeping(A)  == part = "sweep" /\ A /\ UNCHANGED <<part, vars>>
Promoting(A) == part = "promotion" /\ A /\ UNCHANGED <<part, sweepVars>>

MCInit ==
    /\ part \in {"sweep", "promotion"}
    /\ Init /\ SweepInit
    /\ part = "promotion" => legacy = [t \in Names |-> Absent]

MCNext ==
    \/ part = "sweep" /\ SweepNext /\ UNCHANGED <<part, vars>>
    \/ part = "promotion" /\ Next /\ UNCHANGED <<part, sweepVars>>

MCVars == <<part, vars, sweepVars>>

\* The dispatcher computes on, no child outlives subprocess.run's timeout, and
\* a promotion that can go on does.
MCSpec ==
    /\ MCInit /\ [][MCNext]_MCVars
    /\ WF_MCVars(Sweeping(Dispatcher))
    /\ \A t \in Names : WF_MCVars(Sweeping(GiveUp(t)))
    /\ \A p \in Promotions : WF_MCVars(Promoting(Advance(p) \/ RollBack(p)))

(* Neither a publication nor a sweep that is not killed stays half done:    *)
(* a run that is official is entered in the registry or withdrawn, and      *)
(* every child ends or is ended, so that the sweep comes to its summary.    *)
ResultsSettle == PublicationSettles /\ SweepSettles
=============================================================================
