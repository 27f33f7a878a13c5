------------------------- MODULE MCPolicyAdaptation -------------------------
(* Values for the constants of PolicyAdaptation in TLC's runs. *)
EXTENDS PolicyAdaptation

Fit == [base |-> 0, adverse |-> 1, discount |-> 1, tauL |-> 2, tauH |-> 4]

Ordinary == [adverse |-> 1, discount |-> 0, check |-> "pass", attributed |-> TRUE,
             authoritative |-> FALSE, recoverable |-> FALSE, gold |-> "accept",
             consequential |-> FALSE, corrupts |-> FALSE]
\* A write that damages the store and only a reviewer should let in, the same with a
\* discount, and one whose miss matters though committing it damages nothing.
Corrupting == [Ordinary EXCEPT !.adverse = 2, !.gold = "review", !.corrupts = TRUE,
                               !.check = "soft"]
Discounted == [Corrupting EXCEPT !.discount = 1]
Doubtful == [Ordinary EXCEPT !.adverse = 3, !.discount = 1, !.gold = "review",
                             !.consequential = TRUE, !.check = "soft"]
\* A correction by an authority, and a mild write that fails a mandatory check.
Correction == [Ordinary EXCEPT !.adverse = 3, !.authoritative = TRUE,
                 !.recoverable = TRUE, !.gold = "supersede", !.consequential = TRUE]
Failing == [Ordinary EXCEPT !.adverse = 0, !.check = "mandatory", !.gold = "review",
                            !.authoritative = TRUE, !.recoverable = TRUE]

Adjudicated ==
  {[write |-> Ordinary, escalate |-> FALSE], [write |-> Ordinary, escalate |-> TRUE],
   [write |-> Corrupting, escalate |-> TRUE], [write |-> Correction, escalate |-> FALSE]}
Canary == <<Corrupting, Discounted, Doubtful, Doubtful, Correction, Ordinary, Failing>>
Gradients ==
  [base : {-1, 0}, adverse : {-1, 0}, discount : {-1, 1}]
=============================================================================
