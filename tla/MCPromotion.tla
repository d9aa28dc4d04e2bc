------------------------------ MODULE MCPromotion ------------------------------
(* Small instances of Promotion for TLC: which run each invocation is for. *)
EXTENDS Promotion, TLC

CONSTANTS p1, p2, p3, p4, r1, r2

(* Two promotions of one run and one of another. *)
MCRunOf == [p \in Promotions |-> IF p = p4 THEN r2 ELSE r1]

(* Promotions of one run are interchangeable. *)
Symmetry == Permutations({p1, p2, p3})
=============================================================================
