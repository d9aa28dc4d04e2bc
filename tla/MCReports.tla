------------------------------ MODULE MCReports ------------------------------
(* What runs of one task leave behind, and the trees that were there before. *)
EXTENDS AttemptReports

CONSTANTS tk, m1, m2

Left(place, file, score, traced, at) ==
    [task |-> tk, mode |-> m1, place |-> place, file |-> file, label |-> NoLabel,
     score |-> score, clock |-> NoClock, trace |-> traced, stamp |-> at]

MCRuns ==
    {Left("runs", "scored", 1, TRUE, 1), Left("runs", "scored", 0, FALSE, NoStamp),
     Left("runs", "absent", 0, TRUE, 1), Left("runs", "invalid", 1, TRUE, 2),
     Left("batch", "scored", 1, TRUE, 2), Left("batch", "torn", 0, TRUE, 1),
     Left("batch", "confounded", 1, TRUE, 1), Left("smoke", "scored", 1, TRUE, 1),
     Left("rep", "unscored", 0, TRUE, 1),
     [Left("rep", "scored", 1, TRUE, 1) EXCEPT !.mode = m2],
     [Left("rep", "invalid", 0, TRUE, 1) EXCEPT !.label = "variant", !.mode = m2],
     [Left("runs", "scored", 1, TRUE, 1) EXCEPT !.label = "variant"]}

\* Two results from before the clock, or one and one whose clock is corrupt;
\* a first attempt that is scored low and one that is not.
MCCorpora ==
    {<<Left("runs", "unstamped", 0, TRUE, 2), Left("batch", "unstamped", 1, TRUE, 2)>>,
     <<Left("runs", "scored", 1, TRUE, 2),
       [Left("batch", "scored", 1, TRUE, 1) EXCEPT !.clock = Corrupt]>>,
     <<[Left("batch", "scored", 0, TRUE, NoStamp) EXCEPT !.clock = 1],
       [Left("runs", "scored", 1, TRUE, 1) EXCEPT !.clock = 2, !.mode = m2]>>}
=============================================================================
