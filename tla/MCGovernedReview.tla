-------------------------- MODULE MCGovernedReview --------------------------
(* Values for the constants of GovernedReview in TLC's runs. *)
EXTENDS GovernedReview, TLC

CONSTANTS p, q, r

Undated == [from |-> 0, to |-> 9]
UndatedOnly == {Undated}
Symmetry == Permutations(Objects)
=============================================================================
