-------------------------- MODULE MCWritePipeline --------------------------
(* Values for the constants of WritePipeline in TLC's runs. *)
EXTENDS WritePipeline, TLC

CONSTANTS p, q, r

Horizon == 9
Undated == [from |-> 0, to |-> Horizon]
UndatedOnly == {Undated}
\* Two windows that touch, and one that is apart from the first.
DatedWindows == {[from |-> 1, to |-> 3], [from |-> 3, to |-> 5],
                 [from |-> 5, to |-> Horizon]}
OneSource == {"blank", "s1"}
Symmetry == Permutations(Objects)
=============================================================================
