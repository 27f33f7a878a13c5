------------------------ MODULE MCConcurrentRequests ------------------------
(* Values for the constants of ConcurrentRequests in TLC's runs. *)
EXTENDS ConcurrentRequests, TLC

CONSTANTS w1, w2, p, q

Undated == [from |-> 0, to |-> 9]
UndatedOnly == {Undated}
Alike == Permutations(Workers) \cup Permutations(Objects)

\* The state without the histories and without provenance, which no step asks to
\* decide what it does next: the view of the run on overlapping requests.
Onward ==
  <<rows, links, held, graph, linkEdges, pending, searchable, qvars, faults,
    [w \in Workers |-> IF At(w, "idle") THEN Idle ELSE [req[w] EXCEPT !.due = {}]]>>
=============================================================================
