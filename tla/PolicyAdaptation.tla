-------------------------- MODULE PolicyAdaptation --------------------------
(***************************************************************************)
(* Bounded adaptation of the escalation policy from reviewers' feedback:   *)
(* blocks of adjudicated writes propose a parameter step, a trust region   *)
(* and a fixed canary gate decide whether it is deployed, and a deployed   *)
(* version can be rolled back.  The router keeps a policy of its own,      *)
(* which is replaced when a block deploys.  A version id is a position in  *)
(* the history; the first is the fitted policy.                            *)
(***************************************************************************)
EXTENDS EscalationPolicy, Sequences

CONSTANTS
  InitialParams,   \* the fitted policy
  Feedback,        \* adjudicated writes reviewers produce
  BlockSize,       \* adjudicated writes per block
  Steps,           \* coefficient steps of a gradient, clipped to the trust region
  BetaRadius,      \* trust region of the coefficients
  CanaryCases,     \* the canary partition: a fixed sequence of cases
  DvrTolerance, McrTolerance, RrTolerance,   \* in canary cases
  Frozen,          \* the frozen condition: no updater
  Gated,           \* a canary gate is installed
  MaxVersions      \* bound: versions a run may record

ASSUME AdaptationConstants ==
  /\ InitialParams \in AnyParams
  /\ BlockSize \in Nat \ {0} /\ BetaRadius \in Nat
  /\ DvrTolerance \in Nat /\ McrTolerance \in Nat /\ RrTolerance \in Nat
  /\ Steps \subseteq [base : -BetaRadius..BetaRadius, adverse : -BetaRadius..BetaRadius,
                     discount : -BetaRadius..BetaRadius]
  /\ \A fb \in Feedback : fb.write \in Cases
  /\ CanaryCases \in Seq(Cases)
  /\ Frozen \in BOOLEAN /\ Gated \in BOOLEAN /\ MaxVersions \in Nat

VARIABLES
  versions,    \* every proposal with its fate: [params, parent, accepted]
  current,     \* the deployed parameters
  currentId,   \* the version they are
  waiting,     \* feedback of the block being filled
  router       \* the parameters the router decides with

avars == <<versions, current, currentId, waiting, router>>

\* Building the condition projects the fitted parameters for router and registry.
AdaptationInit ==
  /\ versions = <<[params |-> Project(InitialParams), parent |-> 0, accepted |-> TRUE]>>
  /\ current = Project(InitialParams)
  /\ currentId = 1
  /\ waiting = <<>>
  /\ router = Project(InitialParams)

-----------------------------------------------------------------------------
(* The canary gate. *)

\* Canary cases that a policy commits though committing them damages the store.
Damage(p) == Cardinality({i \in DOMAIN CanaryCases :
                            CanaryCases[i].corrupts /\ Commits(p, CanaryCases[i])})
CanaryMisses(p) == Misses(p, CanaryCases)
Reviews(p) == Cardinality(Escalated(p, CanaryCases))

\* Mutant of CanaryPasses: the damage a candidate does is not compared.
CanaryIgnoresDamage(candidate, deployed) ==
  /\ CanaryMisses(candidate) - CanaryMisses(deployed) <= McrTolerance
  /\ Reviews(candidate) - Reviews(deployed) <= RrTolerance

\* Mutant of CanaryPasses: the misses of a candidate are not compared.
CanaryIgnoresMisses(candidate, deployed) ==
  /\ Damage(candidate) - Damage(deployed) <= DvrTolerance
  /\ Reviews(candidate) - Reviews(deployed) <= RrTolerance

\* A candidate is measured against what is deployed, not against the first policy.
CanaryPasses(candidate, deployed) ==
  /\ Damage(candidate) - Damage(deployed) <= DvrTolerance
  /\ CanaryMisses(candidate) - CanaryMisses(deployed) <= McrTolerance
  /\ Reviews(candidate) - Reviews(deployed) <= RrTolerance

-----------------------------------------------------------------------------
(* The bounded updater. *)

\* A reviewer who would have escalated a write makes it a case of gold review.
AsCase(fb) == IF fb.escalate THEN [fb.write EXCEPT !.gold = "review"] ELSE fb.write
Block(records) == [i \in DOMAIN records |-> AsCase(records[i])]

Stepped(p, d) ==
  [p EXCEPT !.base = @ + d.base, !.adverse = Positive(@ + d.adverse),
            !.discount = Positive(@ + d.discount)]

Near(a, b, radius) == a - b <= radius /\ b - a <= radius

WithinTrustRegion(p, q) ==
  /\ Near(p.base, q.base, BetaRadius)
  /\ Near(p.adverse, q.adverse, BetaRadius)
  /\ Near(p.discount, q.discount, BetaRadius)
  /\ Near(p.tauL, q.tauL, TauRadius) /\ Near(p.tauH, q.tauH, TauRadius)

\* The step, projected, then its thresholds retuned on the block.
Proposals(p, d, records) ==
  {Project(q) : q \in Retunings(Project(Stepped(p, d)), Block(records))}

-----------------------------------------------------------------------------
Accepts(candidate) ==
  /\ WithinTrustRegion(candidate, current)
  /\ Gated => CanaryPasses(candidate, current)

\* A full block is recorded as a version, deployed or not; the router is given the
\* new policy only when it is deployed.
SubmitBlock(records) ==
  /\ Len(versions) < MaxVersions
  /\ \E d \in Steps : \E candidate \in Proposals(current, d, records) :
       /\ versions' = Append(versions, [params |-> candidate, parent |-> currentId,
                                        accepted |-> Accepts(candidate)])
       /\ IF Accepts(candidate)
          THEN current' = candidate /\ currentId' = Len(versions) + 1 /\ router' = candidate
          ELSE UNCHANGED <<current, currentId, router>>

\* Mutant of ObserveFeedback: the block is submitted and stays in the queue.
ObserveWithoutEmptying(fb) ==
  /\ ~Frozen
  /\ waiting' = IF Len(waiting) >= BlockSize THEN waiting ELSE Append(waiting, fb)
  /\ IF Len(waiting') < BlockSize THEN UNCHANGED <<versions, current, currentId, router>>
     ELSE SubmitBlock(waiting')

\* One adjudicated write.
ObserveFeedback(fb) ==
  /\ ~Frozen
  /\ LET filled == Append(waiting, fb) IN
     IF Len(filled) < BlockSize
     THEN waiting' = filled /\ UNCHANGED <<versions, current, currentId, router>>
     ELSE waiting' = <<>> /\ SubmitBlock(filled)

\* A version that was never deployed is refused.
RollbackTargets == {v \in DOMAIN versions : versions[v].accepted}

\* The parent of the deployed version, the first version having none.
DefaultTarget ==
  IF versions[currentId].parent = 0 THEN 1 ELSE versions[currentId].parent

\* The registry goes back to a version; feedback waiting for the old one is kept, and
\* the router is not told.
Rollback(v) ==
  /\ v \in RollbackTargets
  /\ current' = versions[v].params
  /\ currentId' = v
  /\ UNCHANGED <<versions, waiting, router>>

AdaptationNext ==
  \/ \E fb \in Feedback : ObserveFeedback(fb)
  \/ Rollback(DefaultTarget)
  \/ \E v \in DOMAIN versions : Rollback(v)

AdaptationSpec == AdaptationInit /\ [][AdaptationNext]_avars

-----------------------------------------------------------------------------
Fitted == versions[1].params

\* Deployments between the fitted policy and version k.
Depth ==
  LET depth[k \in DOMAIN versions] ==
        IF versions[k].parent = 0 THEN 0 ELSE 1 + depth[versions[k].parent]
  IN  depth

AdaptationTypeOK ==
  /\ \A k \in DOMAIN versions :
       /\ versions[k].params \in Admissible
       /\ versions[k].parent \in 0..(k - 1) /\ (versions[k].parent = 0 <=> k = 1)
  /\ currentId \in DOMAIN versions /\ current = versions[currentId].params
  /\ waiting \in Seq(Feedback) /\ Len(waiting) < BlockSize
  /\ router \in Admissible

\* adaptation.py:16-19, eq. (9): whatever blocks reviewers feed and whatever is rolled
\* back, neither the registry nor the router serves a policy that does more damage to
\* the canary cases than the fitted one.
NeverMoreDamage ==
  Damage(current) <= Damage(Fitted) /\ Damage(router) <= Damage(Fitted)

\* A policy drifts from the fitted one no faster than a trust region and a canary
\* tolerance per deployment; its distance is not bounded, its pace is.
DriftIsPaced ==
  LET n == Depth[currentId] IN
  /\ Near(current.base, Fitted.base, n * BetaRadius)
  /\ Near(current.adverse, Fitted.adverse, n * BetaRadius)
  /\ Near(current.discount, Fitted.discount, n * BetaRadius)
  /\ Near(current.tauL, Fitted.tauL, n * TauRadius)
  /\ CanaryMisses(current) - CanaryMisses(Fitted) <= n * McrTolerance

\* Every proposal, also one that is discarded, is within the trust region of the
\* policy it was proposed for: neither the projections nor the retuning leave it.
ProposalsStayNear ==
  \A k \in 2..Len(versions) :
    WithinTrustRegion(versions[k].params, versions[versions[k].parent].params)

\* The writes of the run, and every pair of them that differs in risk alone.
Writes == {fb.write : fb \in Feedback}
            \cup {CanaryCases[i] : i \in DOMAIN CanaryCases}
Riskier(c, d) ==
  /\ c.adverse >= d.adverse /\ c.discount <= d.discount
  /\ [c EXCEPT !.adverse = d.adverse, !.discount = d.discount] = d

\* policy.py:150-152: no adaptation makes a riskier write the one that commits
\* without a reviewer while the less risky one is held.
RiskIsMonotone ==
  \A k \in DOMAIN versions : \A c, d \in Writes :
    Riskier(c, d) /\ Commits(versions[k].params, c) => Commits(versions[k].params, d)
=============================================================================
