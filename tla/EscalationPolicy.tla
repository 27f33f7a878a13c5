-------------------------- MODULE EscalationPolicy --------------------------
(***************************************************************************)
(* The transparent escalation policy: a linear score over typed features,  *)
(* the guards no parameter reaches, and the routing rule with its two      *)
(* thresholds.  One coefficient stands for those of the features that add  *)
(* risk and one for the displayed discounts; the logistic function is any  *)
(* nondecreasing one, here the score clamped to the thresholds' scale.     *)
(***************************************************************************)
EXTENDS Integers, FiniteSets

CONSTANTS
  Scale,         \* thresholds and risks are 0..Scale
  MissCeiling,   \* mcr_ceiling, in percent
  TauRadius      \* trust region of a threshold

ASSUME PolicyConstants ==
  /\ Scale \in Nat \ {0} /\ MissCeiling \in Nat /\ TauRadius \in Nat

Taus == 0..Scale
Tiers == {"accept", "supersede", "review", "reject"}
Checks == {"pass", "soft", "mandatory", "prohibited"}

AnyParams == [base : Int, adverse : Int, discount : Int, tauL : Int, tauH : Int]

\* The admissible set B: nonnegative coefficients but the intercept, and ordered
\* thresholds on the scale.
Admissible ==
  {p \in AnyParams : p.adverse >= 0 /\ p.discount >= 0
                     /\ 0 <= p.tauL /\ p.tauL < p.tauH /\ p.tauH <= Scale}

\* A write as the policy sees it, with what a reviewer would have said of it.
Cases ==
  [adverse : Nat, discount : Nat, check : Checks, attributed : BOOLEAN,
   authoritative : BOOLEAN, recoverable : BOOLEAN, gold : Tiers,
   consequential : BOOLEAN, corrupts : BOOLEAN]

Clamp(n) == IF n < 0 THEN 0 ELSE IF n > Scale THEN Scale ELSE n

\* Mutant of Positive: a coefficient may change its sign.
AnySign(n) == n

Positive(n) == IF n < 0 THEN 0 ELSE n

\* Thresholds that meet are pulled one notch apart.
Project(p) ==
  LET l == Clamp(p.tauL)
      h == Clamp(p.tauH)
      ordered == CASE l < h     -> <<l, h>>
                   [] l = Scale -> <<Scale - 1, Scale>>
                   [] OTHER     -> <<l, l + 1>>
  IN  [base |-> p.base, adverse |-> Positive(p.adverse),
       discount |-> Positive(p.discount), tauL |-> ordered[1], tauH |-> ordered[2]]

WithThresholds(p, t) == [p EXCEPT !.tauL = t[1], !.tauH = t[2]]

\* Malformed, prohibited or unattributed; a failed mandatory check; an
\* authoritative, temporally resolved correction of a recoverable incumbent.
RejectGuard(c) == ~c.attributed \/ c.check = "prohibited"
MandatoryGuard(c) == c.check \in {"mandatory", "prohibited"}
AuthorityGuard(c) == c.authoritative /\ c.recoverable /\ ~MandatoryGuard(c)

Score(p, c) == p.base + p.adverse * c.adverse - p.discount * c.discount
Risk(p, c) == Clamp(Score(p, c))

\* A cleared write that displaces a recoverable value commits as a supersession.
Route(p, c) ==
  IF RejectGuard(c) THEN "reject"
  ELSE IF Risk(p, c) < p.tauL /\ ~MandatoryGuard(c)
  THEN IF c.recoverable THEN "supersede" ELSE "accept"
  ELSE IF AuthorityGuard(c) /\ Risk(p, c) < p.tauH THEN "supersede"
  ELSE "review"

Commits(p, c) == Route(p, c) \in {"accept", "supersede"}

-----------------------------------------------------------------------------
(* Retuning the thresholds on a sequence of cases. *)

Worthy(cases) == {i \in DOMAIN cases : cases[i].gold = "review"}
Escalated(p, cases) == {i \in DOMAIN cases : Route(p, cases[i]) = "review"}
Consequential(cases) == {i \in DOMAIN cases : cases[i].consequential}

\* A consequential case whose autonomous transition is wrong.
Missed(p, cases) ==
  {i \in Consequential(cases) : Route(p, cases[i]) \notin {"review", cases[i].gold}}

Misses(p, cases) == Cardinality(Missed(p, cases))

\* The entry of a policy in the search.  F2 is 5 tp over 4 worthy + escalated.
Entry(p, cases) ==
  [tp |-> Cardinality(Worthy(cases) \cap Escalated(p, cases)),
   base |-> 4 * Cardinality(Worthy(cases)) + Cardinality(Escalated(p, cases)),
   misses |-> Misses(p, cases), tauL |-> p.tauL, tauH |-> p.tauH]

F2Above(e, f) == e.tp * f.base > f.tp * e.base
SameF2(e, f) == e.tp * f.base = f.tp * e.base
HigherTaus(e, f) == e.tauL > f.tauL \/ (e.tauL = f.tauL /\ e.tauH > f.tauH)

\* Higher F2, then fewer misses, then the higher thresholds, which commit more.
Preferred(e, f) ==
  \/ F2Above(e, f)
  \/ SameF2(e, f) /\ e.misses < f.misses
  \/ SameF2(e, f) /\ e.misses = f.misses /\ HigherTaus(e, f)

\* Where no pair meets the ceiling: fewest misses, then F2, then the first pair.
SecondBest(e, f) ==
  \/ e.misses < f.misses
  \/ e.misses = f.misses /\ F2Above(e, f)
  \/ e.misses = f.misses /\ SameF2(e, f) /\ HigherTaus(f, e)

MeetsCeiling(e, cases) ==
  100 * e.misses <= MissCeiling * Cardinality(Consequential(cases))

\* Mutant of Reach: a threshold may move twice as far.
ReachTooFar(tau) == {t \in Taus : t - tau <= 2 * TauRadius /\ tau - t <= 2 * TauRadius}

\* Thresholds a retuning may move to.
Reach(tau) == {t \in Taus : t - tau <= TauRadius /\ tau - t <= TauRadius}
Lattice(p) == {t \in Reach(p.tauL) \X Reach(p.tauH) : t[1] < t[2]}

\* The thresholds the search ends on: of those that meet the ceiling the preferred
\* ones, of all the second best where none does.
Retunings(p, cases) ==
  LET entries == {Entry(WithThresholds(p, t), cases) : t \in Lattice(p)}
      feasible == {e \in entries : MeetsCeiling(e, cases)}
      best == IF feasible # {}
              THEN {e \in feasible : \A f \in feasible : e = f \/ Preferred(e, f)}
              ELSE {e \in entries : \A f \in entries : e = f \/ SecondBest(e, f)}
  IN  {WithThresholds(p, <<e.tauL, e.tauH>>) : e \in best}
=============================================================================
