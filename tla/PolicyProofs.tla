---------------------------- MODULE PolicyProofs ----------------------------
(***************************************************************************)
(* What bounded adaptation keeps, for every policy, feedback, canary set,  *)
(* trust region and gradient.                                              *)
(***************************************************************************)
EXTENDS PolicyAdaptation, FiniteSetTheorems, TLAPS

-----------------------------------------------------------------------------
(* The policy. *)

\* Projection lands in the admissible set, and leaves a policy that is in it.
LEMMA ProjectAdmissible ==
  ASSUME NEW p \in AnyParams
  PROVE  /\ Project(p) \in Admissible
         /\ Project(p).base = p.base
         /\ Project(p).adverse = Positive(p.adverse)
         /\ Project(p).discount = Positive(p.discount)
         /\ 0 <= p.tauL /\ p.tauL < p.tauH /\ p.tauH <= Scale
              => Project(p).tauL = p.tauL /\ Project(p).tauH = p.tauH
  <1>. DEFINE l == Clamp(p.tauL)
              h == Clamp(p.tauH)
              o == CASE l < h     -> <<l, h>>
                     [] l = Scale -> <<Scale - 1, Scale>>
                     [] OTHER     -> <<l, l + 1>>
  <1>1. /\ p.base \in Int /\ p.adverse \in Int /\ p.discount \in Int
        /\ p.tauL \in Int /\ p.tauH \in Int /\ Scale \in Nat /\ Scale > 0
    BY PolicyConstants DEF AnyParams
  <1>2. l \in 0..Scale /\ h \in 0..Scale
    BY <1>1 DEF Clamp
  <1>3. /\ o[1] \in Int /\ o[2] \in Int /\ 0 <= o[1] /\ o[1] < o[2] /\ o[2] <= Scale
        /\ 0 <= p.tauL /\ p.tauL < p.tauH /\ p.tauH <= Scale
              => o[1] = p.tauL /\ o[2] = p.tauH
    <2>1. 0 <= p.tauL /\ p.tauL < p.tauH /\ p.tauH <= Scale => l = p.tauL /\ h = p.tauH
      BY <1>1 DEF Clamp
    <2>. HIDE DEF l, h
    <2>. QED BY <1>1, <1>2, <2>1
  <1>4. Project(p) = [base |-> p.base, adverse |-> Positive(p.adverse),
                      discount |-> Positive(p.discount), tauL |-> o[1], tauH |-> o[2]]
    BY DEF Project
  <1>. HIDE DEF o
  <1>5. /\ Positive(p.adverse) \in Int /\ Positive(p.adverse) >= 0
        /\ Positive(p.discount) \in Int /\ Positive(p.discount) >= 0
    BY <1>1 DEF Positive
  <1>. QED BY <1>1, <1>3, <1>4, <1>5 DEF Admissible, AnyParams

\* A policy with nonnegative coefficients that commits a write without a reviewer
\* commits every write that differs from it in risk alone and is less risky.
LEMMA LessRiskyCommits ==
  ASSUME NEW p \in Admissible, NEW c \in Cases, NEW d \in Cases,
         Riskier(c, d), Commits(p, c)
  PROVE  Commits(p, d)
  <1>1. /\ p.base \in Int /\ p.adverse \in Int /\ p.discount \in Int
        /\ p.adverse >= 0 /\ p.discount >= 0 /\ p.tauL \in Int /\ p.tauH \in Int
        /\ Scale \in Nat
    BY PolicyConstants DEF Admissible, AnyParams
  <1>2. /\ c.adverse \in Nat /\ d.adverse \in Nat /\ c.discount \in Nat /\ d.discount \in Nat
        /\ c.adverse >= d.adverse /\ c.discount <= d.discount
    BY DEF Cases, Riskier
  <1>3. /\ d.attributed = c.attributed /\ d.check = c.check
        /\ d.authoritative = c.authoritative /\ d.recoverable = c.recoverable
    <2>1. d = [c EXCEPT !.adverse = d.adverse, !.discount = d.discount]
      BY DEF Riskier
    <2>. QED BY <2>1 DEF Cases
  <1>4. \A k \in Nat, m \in Nat, x \in Int : m <= k /\ x >= 0 => x * m <= x * k
    OBVIOUS
  <1>5. p.adverse * d.adverse <= p.adverse * c.adverse
    BY <1>1, <1>2, <1>4
  <1>6. p.discount * c.discount <= p.discount * d.discount
    BY <1>1, <1>2, <1>4
  <1>7. /\ p.adverse * d.adverse \in Int /\ p.adverse * c.adverse \in Int
        /\ p.discount * c.discount \in Int /\ p.discount * d.discount \in Int
    BY <1>1, <1>2
  <1>8. Score(p, d) <= Score(p, c) /\ Score(p, d) \in Int /\ Score(p, c) \in Int
    BY <1>1, <1>5, <1>6, <1>7 DEF Score
  <1>9. Risk(p, d) <= Risk(p, c) /\ Risk(p, d) \in Int /\ Risk(p, c) \in Int
    BY <1>1, <1>8 DEF Risk, Clamp
  <1>. QED BY <1>1, <1>3, <1>9 DEF Commits, Route, RejectGuard, MandatoryGuard, AuthorityGuard

\* What adaptation proposes is admissible and within the trust region.
LEMMA ProposalsNear ==
  ASSUME NEW p \in Admissible, NEW d \in Steps, NEW records,
         NEW q \in Proposals(p, d, records)
  PROVE  q \in Admissible /\ WithinTrustRegion(q, p)
  <1>. DEFINE s == Stepped(p, d)
  <1>1. /\ p.base \in Int /\ p.adverse \in Int /\ p.discount \in Int
        /\ p.adverse >= 0 /\ p.discount >= 0 /\ p.tauL \in Int /\ p.tauH \in Int
        /\ 0 <= p.tauL /\ p.tauL < p.tauH /\ p.tauH <= Scale
        /\ p \in AnyParams
    BY DEF Admissible, AnyParams
  <1>2. /\ d.base \in -BetaRadius..BetaRadius /\ d.adverse \in -BetaRadius..BetaRadius
        /\ d.discount \in -BetaRadius..BetaRadius /\ BetaRadius \in Nat /\ TauRadius \in Nat
        /\ Scale \in Nat
    BY AdaptationConstants, PolicyConstants
  <1>3. /\ s \in AnyParams /\ s.base = p.base + d.base
        /\ s.adverse = Positive(p.adverse + d.adverse)
        /\ s.discount = Positive(p.discount + d.discount)
        /\ s.tauL = p.tauL /\ s.tauH = p.tauH
    <2>1. /\ p.base + d.base \in Int /\ Positive(p.adverse + d.adverse) \in Int
          /\ Positive(p.discount + d.discount) \in Int
      BY <1>1, <1>2 DEF Positive
    <2>. QED BY <1>1, <2>1 DEF AnyParams, Stepped
  <1>. HIDE DEF s
  <1>. DEFINE r == Project(s)
  <1>4. /\ r \in Admissible /\ r.base = p.base + d.base
        /\ r.adverse = Positive(s.adverse) /\ r.discount = Positive(s.discount)
        /\ r.tauL = p.tauL /\ r.tauH = p.tauH
    BY <1>1, <1>3, ProjectAdmissible
  <1>. HIDE DEF r
  <1>5. PICK e : /\ \E t \in Lattice(r) : e = Entry(WithThresholds(r, t), Block(records))
                 /\ q = Project(WithThresholds(r, <<e.tauL, e.tauH>>))
    BY DEF Proposals, Retunings, r, s
  <1>6. PICK t \in Lattice(r) : e = Entry(WithThresholds(r, t), Block(records))
    BY <1>5
  <1>7. e.tauL = t[1] /\ e.tauH = t[2]
    BY <1>4, <1>6 DEF Entry, WithThresholds, Admissible, AnyParams
  <1>8. /\ t[1] \in 0..Scale /\ t[2] \in 0..Scale /\ t[1] < t[2]
        /\ Near(t[1], p.tauL, TauRadius) /\ Near(t[2], p.tauH, TauRadius)
    BY <1>4, <1>6 DEF Lattice, Reach, Taus, Near
  <1>. DEFINE u == WithThresholds(r, <<e.tauL, e.tauH>>)
  <1>9. /\ u \in AnyParams /\ u.base = r.base /\ u.adverse = r.adverse
        /\ u.discount = r.discount /\ u.tauL = t[1] /\ u.tauH = t[2]
    <2>1. t[1] \in Int /\ t[2] \in Int
      BY <1>2, <1>8
    <2>. QED BY <1>4, <1>7, <2>1 DEF WithThresholds, Admissible, AnyParams
  <1>. HIDE DEF u
  <1>10. /\ q \in Admissible /\ q.base = r.base /\ q.adverse = Positive(r.adverse)
         /\ q.discount = Positive(r.discount) /\ q.tauL = t[1] /\ q.tauH = t[2]
    <2>1. q = Project(u)
      BY <1>5 DEF u
    <2>. QED BY <1>2, <1>8, <1>9, <2>1, ProjectAdmissible
  <1>11. /\ Near(q.base, p.base, BetaRadius) /\ Near(q.adverse, p.adverse, BetaRadius)
         /\ Near(q.discount, p.discount, BetaRadius)
    BY <1>1, <1>2, <1>3, <1>4, <1>10 DEF Near, Positive
  <1>. QED BY <1>8, <1>10, <1>11 DEF WithinTrustRegion

-----------------------------------------------------------------------------
(* The registry. *)

\* What is deployed, or was, or decides in the router, passed the gate; nothing that
\* did does more damage to the canary than the fitted policy.
NoneDeployedIsWorse ==
  /\ versions[currentId].accepted
  /\ \A k \in DOMAIN versions :
       versions[k].accepted => Damage(versions[k].params) <= Damage(Fitted)
  /\ \E k \in DOMAIN versions : versions[k].accepted /\ router = versions[k].params

StrictGate == Gated /\ DvrTolerance = 0

Versions == [params : AnyParams, parent : Nat, accepted : BOOLEAN]

AdaptationInv ==
  /\ versions \in Seq(Versions) /\ Len(versions) >= 1
  /\ AdaptationTypeOK
  /\ ProposalsStayNear
  /\ StrictGate => NoneDeployedIsWorse

LEMMA DamageType ==
  ASSUME NEW p
  PROVE  Damage(p) \in Nat
  <1>. DEFINE D == {i \in DOMAIN CanaryCases :
                      CanaryCases[i].corrupts /\ Commits(p, CanaryCases[i])}
  <1>1. DOMAIN CanaryCases = 1..Len(CanaryCases) /\ Len(CanaryCases) \in Nat
    BY AdaptationConstants
  <1>2. IsFiniteSet(1..Len(CanaryCases))
    BY <1>1, FS_Interval
  <1>3. IsFiniteSet(D)
    BY <1>1, <1>2, FS_Subset
  <1>. QED BY <1>3, FS_CardinalityType DEF Damage

LEMMA AdaptationInvInit == AdaptationInit => AdaptationInv
  <1>. SUFFICES ASSUME AdaptationInit
                PROVE  AdaptationInv
    OBVIOUS
  <1>. DEFINE f == Project(InitialParams)
              v == [params |-> f, parent |-> 0, accepted |-> TRUE]
  <1>1. f \in Admissible /\ f \in AnyParams
    BY AdaptationConstants, ProjectAdmissible DEF Admissible
  <1>. HIDE DEF f
  <1>2. v \in Versions /\ v.params = f /\ v.parent = 0 /\ v.accepted = TRUE
    BY <1>1 DEF Versions
  <1>3. versions = <<v>> /\ current = f /\ currentId = 1 /\ waiting = <<>> /\ router = f
    BY DEF AdaptationInit, f
  <1>. HIDE DEF v
  <1>4. /\ versions \in Seq(Versions) /\ Len(versions) = 1 /\ DOMAIN versions = 1..1
        /\ versions[1] = v
    BY <1>2, <1>3
  <1>5. AdaptationTypeOK
    <2>1. waiting \in Seq(Feedback) /\ Len(waiting) < BlockSize
      BY <1>3, AdaptationConstants
    <2>. QED BY <1>1, <1>2, <1>3, <1>4, <2>1 DEF AdaptationTypeOK
  <1>6. ProposalsStayNear
    BY <1>4 DEF ProposalsStayNear
  <1>7. NoneDeployedIsWorse
    BY <1>2, <1>3, <1>4, DamageType DEF NoneDeployedIsWorse, Fitted
  <1>. QED BY <1>4, <1>5, <1>6, <1>7 DEF AdaptationInv

LEMMA AdaptationInvAlways == AdaptationSpec => []AdaptationInv
  <1>1. AdaptationInit => AdaptationInv
    BY AdaptationInvInit
  <1>2. AdaptationInv /\ [AdaptationNext]_avars => AdaptationInv'
    <2>. SUFFICES ASSUME AdaptationInv, [AdaptationNext]_avars
                  PROVE  AdaptationInv'
      OBVIOUS
    <2>. USE DEF AdaptationInv
    <2>1. /\ versions \in [1..Len(versions) -> Versions] /\ Len(versions) \in Nat
          /\ DOMAIN versions = 1..Len(versions)
          /\ currentId \in 1..Len(versions) /\ current = versions[currentId].params
          /\ current \in Admissible /\ router \in Admissible
          /\ waiting \in Seq(Feedback) /\ Len(waiting) < BlockSize
          /\ BlockSize \in Nat \ {0}
      BY AdaptationConstants DEF AdaptationTypeOK
    <2>2. ASSUME NEW records, SubmitBlock(records), waiting' = <<>>
          PROVE  AdaptationInv'
      <3>1. PICK q :
              /\ \E d \in Steps : q \in Proposals(current, d, records)
              /\ versions' = Append(versions, [params |-> q, parent |-> currentId,
                                               accepted |-> Accepts(q)])
              /\ IF Accepts(q)
                 THEN current' = q /\ currentId' = Len(versions) + 1 /\ router' = q
                 ELSE UNCHANGED <<current, currentId, router>>
        BY <2>2 DEF SubmitBlock
      <3>. DEFINE n == Len(versions) + 1
                  v == [params |-> q, parent |-> currentId, accepted |-> Accepts(q)]
      <3>2. q \in Admissible /\ WithinTrustRegion(q, current) /\ q \in AnyParams
        BY <2>1, <3>1, ProposalsNear DEF Admissible
      <3>3. v \in Versions /\ v.params = q /\ v.parent = currentId /\ v.accepted = Accepts(q)
        <4>1. Accepts(q) \in BOOLEAN
          BY DEF Accepts
        <4>. QED BY <2>1, <3>2, <4>1 DEF Versions
      <3>. HIDE DEF v
      <3>4. /\ versions' \in Seq(Versions) /\ Len(versions') = n /\ n \in Nat
            /\ DOMAIN versions' = 1..n /\ versions'[n] = v
            /\ \A k \in 1..Len(versions) : versions'[k] = versions[k]
        BY <2>1, <3>1, <3>3 DEF v
      <3>5. AdaptationTypeOK'
        <4>1. \A k \in 1..n : /\ versions'[k].params \in Admissible
                              /\ versions'[k].parent \in 0..(k - 1)
                              /\ (versions'[k].parent = 0 <=> k = 1)
          BY <2>1, <3>2, <3>3, <3>4 DEF AdaptationTypeOK
        <4>2. currentId' \in 1..n /\ current' = versions'[currentId'].params
              /\ router' \in Admissible
          BY <2>1, <3>1, <3>2, <3>3, <3>4
        <4>. QED BY <2>1, <2>2, <3>4, <4>1, <4>2 DEF AdaptationTypeOK
      <3>6. ProposalsStayNear'
        <4>1. ASSUME NEW k \in 2..n
              PROVE  WithinTrustRegion(versions'[k].params,
                                       versions'[versions'[k].parent].params)
          <5>1. CASE k = n
            BY <2>1, <3>2, <3>3, <3>4, <5>1
          <5>2. CASE k # n
            <6>1. k \in 2..Len(versions) /\ versions'[k] = versions[k]
              BY <2>1, <3>4, <5>2
            <6>2. versions[k].parent \in 1..Len(versions)
              BY <2>1, <6>1 DEF AdaptationTypeOK
            <6>. QED BY <3>4, <6>1, <6>2 DEF ProposalsStayNear
          <5>. QED BY <5>1, <5>2
        <4>. QED BY <3>4, <4>1 DEF ProposalsStayNear
      <3>7. StrictGate => NoneDeployedIsWorse'
        <4>. SUFFICES ASSUME StrictGate
                      PROVE  NoneDeployedIsWorse'
          OBVIOUS
        <4>1. Fitted' = Fitted
          BY <2>1, <3>4 DEF Fitted
        <4>2. Accepts(q) => Damage(q) <= Damage(current)
          BY DamageType DEF Accepts, CanaryPasses, StrictGate
        <4>3. Damage(current) <= Damage(Fitted)
          BY <2>1 DEF NoneDeployedIsWorse
        <4>4. Accepts(q) => Damage(q) <= Damage(Fitted)
          BY <4>2, <4>3, DamageType
        <4>5. \A p : Damage(p)' = Damage(p)
          BY DEF Damage
        <4>6. \A k \in 1..n : versions'[k].accepted => Damage(versions'[k].params) <= Damage(Fitted)
          BY <2>1, <3>3, <3>4, <4>4 DEF NoneDeployedIsWorse
        <4>7. versions'[currentId'].accepted
          BY <2>1, <3>1, <3>3, <3>4 DEF NoneDeployedIsWorse
        <4>8. \E k \in 1..n : versions'[k].accepted /\ router' = versions'[k].params
          BY <2>1, <3>1, <3>3, <3>4 DEF NoneDeployedIsWorse
        <4>. QED BY <3>4, <4>1, <4>6, <4>7, <4>8 DEF NoneDeployedIsWorse
      <3>. QED BY <3>4, <3>5, <3>6, <3>7 DEF StrictGate
    <2>3. ASSUME UNCHANGED <<versions, current, currentId, router>>,
                 waiting' \in Seq(Feedback), Len(waiting') < BlockSize
          PROVE  AdaptationInv'
      BY <2>3 DEF AdaptationTypeOK, ProposalsStayNear, NoneDeployedIsWorse, Fitted, StrictGate
    <2>4. ASSUME NEW fb \in Feedback, ObserveFeedback(fb)
          PROVE  AdaptationInv'
      <3>. DEFINE filled == Append(waiting, fb)
      <3>1. filled \in Seq(Feedback)
        BY <2>1
      <3>. HIDE DEF filled
      <3>2. \/ /\ Len(filled) < BlockSize /\ waiting' = filled
               /\ UNCHANGED <<versions, current, currentId, router>>
            \/ waiting' = <<>> /\ SubmitBlock(filled)
        BY <2>4 DEF ObserveFeedback, filled
      <3>. QED BY <2>2, <2>3, <3>1, <3>2
    <2>5. ASSUME NEW k \in DOMAIN versions, Rollback(k)
          PROVE  AdaptationInv'
      BY <2>1, <2>5 DEF Rollback, RollbackTargets, AdaptationTypeOK, ProposalsStayNear,
        NoneDeployedIsWorse, Fitted, StrictGate
    <2>6. DefaultTarget \in DOMAIN versions
      BY <2>1 DEF DefaultTarget, AdaptationTypeOK
    <2>7. CASE UNCHANGED avars
      BY <2>1, <2>3, <2>7 DEF avars
    <2>. QED BY <2>4, <2>5, <2>6, <2>7 DEF AdaptationNext
  <1>. QED BY <1>1, <1>2, PTL DEF AdaptationSpec

\* The deployed parameters are a recorded version's, and admissible, as are those the
\* router decides with: no block, gate verdict or rollback leads out of the set.
THEOREM AdaptationIsTyped == AdaptationSpec => []AdaptationTypeOK
  <1>1. AdaptationInv => AdaptationTypeOK
    BY DEF AdaptationInv
  <1>. QED BY <1>1, AdaptationInvAlways, PTL

\* No proposal leaves the trust region of the policy it was made for, so the check
\* that would discard it never fires.
THEOREM ProposalsAlwaysNear == AdaptationSpec => []ProposalsStayNear
  <1>1. AdaptationInv => ProposalsStayNear
    BY DEF AdaptationInv
  <1>. QED BY <1>1, AdaptationInvAlways, PTL

\* Behind a gate with no tolerance, no sequence of blocks and rollbacks makes the
\* registry or the router serve a policy that damages more than the fitted one.
THEOREM GateBoundsDamage ==
  ASSUME StrictGate
  PROVE  AdaptationSpec => []NeverMoreDamage
  <1>1. AdaptationInv => NeverMoreDamage
    BY DEF AdaptationInv, AdaptationTypeOK, NoneDeployedIsWorse, NeverMoreDamage
  <1>. QED BY <1>1, AdaptationInvAlways, PTL

\* In every version, deployed or not, a riskier write is never the one let through.
THEOREM RiskIsAlwaysMonotone == AdaptationSpec => []RiskIsMonotone
  <1>1. AdaptationInv => RiskIsMonotone
    <2>1. Writes \subseteq Cases
      BY AdaptationConstants DEF Writes
    <2>. QED BY <2>1, LessRiskyCommits DEF AdaptationInv, AdaptationTypeOK, RiskIsMonotone
  <1>. QED BY <1>1, AdaptationInvAlways, PTL

-----------------------------------------------------------------------------
(* The pace of drift. *)

\* A policy at most n deployments away from the fitted one.
PacedBy(p, n) ==
  /\ Near(p.base, Fitted.base, n * BetaRadius)
  /\ Near(p.adverse, Fitted.adverse, n * BetaRadius)
  /\ Near(p.discount, Fitted.discount, n * BetaRadius)
  /\ Near(p.tauL, Fitted.tauL, n * TauRadius)
  /\ CanaryMisses(p) - CanaryMisses(Fitted) <= n * McrTolerance

\* The equation that Depth solves.
IsDepth(f) ==
  f = [k \in DOMAIN versions |->
         IF versions[k].parent = 0 THEN 0 ELSE 1 + f[versions[k].parent]]

\* Of every version that was deployed, not only of the deployed one: a rollback may
\* go back to any of them.  The equation has a solution, which no proof by induction
\* over versions need supply: each new version extends it.
PacedInv ==
  /\ AdaptationInv
  /\ versions[currentId].accepted
  /\ \E f : IsDepth(f)
  /\ \A f : IsDepth(f) =>
       \A k \in DOMAIN versions :
         versions[k].accepted => f[k] \in Nat /\ PacedBy(versions[k].params, f[k])

LEMMA MissesType ==
  ASSUME NEW p
  PROVE  CanaryMisses(p) \in Nat
  <1>. DEFINE M == Missed(p, CanaryCases)
  <1>1. DOMAIN CanaryCases = 1..Len(CanaryCases) /\ Len(CanaryCases) \in Nat
    BY AdaptationConstants
  <1>2. IsFiniteSet(1..Len(CanaryCases))
    BY <1>1, FS_Interval
  <1>3. M \subseteq 1..Len(CanaryCases)
    BY <1>1 DEF Missed, Consequential
  <1>4. IsFiniteSet(M)
    BY <1>2, <1>3, FS_Subset
  <1>. QED BY <1>4, FS_CardinalityType DEF CanaryMisses, Misses

\* One deployment more, one step further at most.
LEMMA OneStepFurther ==
  ASSUME NEW p \in Admissible, NEW q \in Admissible, Fitted \in Admissible, NEW n \in Nat,
         PacedBy(p, n), WithinTrustRegion(q, p),
         CanaryMisses(q) - CanaryMisses(p) <= McrTolerance
  PROVE  PacedBy(q, n + 1)
  <1>1. \A m \in Nat, r \in Nat : (m + 1) * r = m * r + r /\ m * r \in Nat
    OBVIOUS
  <1>2. BetaRadius \in Nat /\ TauRadius \in Nat /\ McrTolerance \in Nat
    BY AdaptationConstants, PolicyConstants
  <1>3. \A a, b, c, t \in Int, r \in Nat :
          Near(a, b, r) /\ Near(b, c, t) => Near(a, c, t + r)
    BY DEF Near
  <1>4. /\ (n + 1) * BetaRadius = n * BetaRadius + BetaRadius /\ n * BetaRadius \in Int
        /\ (n + 1) * TauRadius = n * TauRadius + TauRadius /\ n * TauRadius \in Int
        /\ (n + 1) * McrTolerance = n * McrTolerance + McrTolerance
        /\ n * McrTolerance \in Int
    BY <1>1, <1>2
  <1>5. ASSUME NEW x \in Admissible
        PROVE  /\ x.base \in Int /\ x.adverse \in Int /\ x.discount \in Int
               /\ x.tauL \in Int /\ x.tauH \in Int
    BY DEF Admissible, AnyParams
  <1>6. /\ Near(q.base, Fitted.base, (n + 1) * BetaRadius)
        /\ Near(q.adverse, Fitted.adverse, (n + 1) * BetaRadius)
        /\ Near(q.discount, Fitted.discount, (n + 1) * BetaRadius)
        /\ Near(q.tauL, Fitted.tauL, (n + 1) * TauRadius)
    BY <1>2, <1>3, <1>4, <1>5 DEF PacedBy, WithinTrustRegion
  <1>7. CanaryMisses(q) - CanaryMisses(Fitted) <= (n + 1) * McrTolerance
    BY <1>2, <1>4, MissesType DEF PacedBy
  <1>. QED BY <1>6, <1>7 DEF PacedBy

\* A version recorded after the others leaves their depths alone.
LEMMA DepthGrows ==
  ASSUME AdaptationInv, NEW v \in Versions, NEW from \in DOMAIN versions,
         v.parent = from,
         versions' = Append(versions, v), NEW n, n = Len(versions) + 1
  PROVE  /\ \A f : IsDepth(f) =>
              IsDepth([k \in 1..n |-> IF k = n THEN 1 + f[from] ELSE f[k]])'
         /\ \A g : IsDepth(g)' =>
              /\ IsDepth([k \in DOMAIN versions |-> g[k]])
              /\ g[n] = 1 + g[from]
  <1>1. /\ Len(versions) \in Nat /\ DOMAIN versions = 1..Len(versions)
        /\ DOMAIN versions' = 1..n /\ n \in Nat /\ n \notin DOMAIN versions
        /\ versions'[n] = v /\ \A k \in DOMAIN versions : versions'[k] = versions[k]
        /\ v.parent = from /\ from # 0 /\ from # n
    BY DEF AdaptationInv
  <1>2. \A k \in DOMAIN versions :
          versions[k].parent # 0 => versions[k].parent \in DOMAIN versions
    BY <1>1 DEF AdaptationInv, AdaptationTypeOK
  <1>3. ASSUME NEW f, IsDepth(f)
        PROVE  IsDepth([k \in 1..n |-> IF k = n THEN 1 + f[from] ELSE f[k]])'
    <2>. DEFINE g == [k \in 1..n |-> IF k = n THEN 1 + f[from] ELSE f[k]]
    <2>1. \A k \in DOMAIN versions : g[k] = f[k] /\ k \in 1..n /\ k # n
      BY <1>1
    <2>2. g[n] = 1 + g[from]
      BY <1>1, <2>1
    <2>3. \A k \in DOMAIN versions :
            f[k] = IF versions[k].parent = 0 THEN 0 ELSE 1 + f[versions[k].parent]
      BY <1>3 DEF IsDepth
    <2>. HIDE DEF g
    <2>4. \A k \in 1..n :
            g[k] = IF versions'[k].parent = 0 THEN 0 ELSE 1 + g[versions'[k].parent]
      BY <1>1, <1>2, <2>1, <2>2, <2>3
    <2>5. g = [k \in 1..n |-> g[k]]
      BY DEF g
    <2>6. IsDepth(g)'
      BY <1>1, <2>4, <2>5 DEF IsDepth
    <2>. QED BY <2>6 DEF g
  <1>4. ASSUME NEW g, IsDepth(g)'
        PROVE  /\ IsDepth([k \in DOMAIN versions |-> g[k]])
               /\ g[n] = 1 + g[from]
    <2>1. \A k \in 1..n :
            g[k] = IF versions'[k].parent = 0 THEN 0 ELSE 1 + g[versions'[k].parent]
      BY <1>1, <1>4 DEF IsDepth
    <2>2. \A k \in DOMAIN versions :
            g[k] = IF versions[k].parent = 0 THEN 0 ELSE 1 + g[versions[k].parent]
      BY <1>1, <2>1
    <2>. QED BY <1>1, <1>2, <2>1, <2>2 DEF IsDepth
  <1>. QED BY <1>3, <1>4

LEMMA PacedStep ==
  ASSUME Gated, PacedInv, [AdaptationNext]_avars, AdaptationInv'
  PROVE  PacedInv'
  <1>1. /\ AdaptationInv /\ Len(versions) \in Nat /\ DOMAIN versions = 1..Len(versions)
        /\ 1 \in DOMAIN versions /\ versions \in Seq(Versions)
        /\ currentId \in DOMAIN versions /\ current = versions[currentId].params
        /\ \A k \in DOMAIN versions : versions[k].params \in Admissible
        /\ Fitted \in Admissible
    BY DEF PacedInv, AdaptationInv, AdaptationTypeOK, Fitted
  <1>2. ASSUME NEW records, SubmitBlock(records)
        PROVE  PacedInv'
    <2>0. PICK n, from : n = Len(versions) + 1 /\ from = currentId
      OBVIOUS
    <2>1. PICK q :
            /\ \E d \in Steps : q \in Proposals(current, d, records)
            /\ versions' = Append(versions, [params |-> q, parent |-> currentId,
                                             accepted |-> Accepts(q)])
            /\ IF Accepts(q)
               THEN current' = q /\ currentId' = Len(versions) + 1 /\ router' = q
               ELSE UNCHANGED <<current, currentId, router>>
      BY <1>2 DEF SubmitBlock
    <2>. DEFINE v == [params |-> q, parent |-> currentId, accepted |-> Accepts(q)]
    <2>2. q \in Admissible /\ WithinTrustRegion(q, current) /\ q \in AnyParams
      BY <1>1, <2>1, ProposalsNear DEF Admissible
    <2>3. v \in Versions /\ v.params = q /\ v.parent = currentId /\ v.accepted = Accepts(q)
      <3>1. Accepts(q) \in BOOLEAN
        BY DEF Accepts
      <3>. QED BY <1>1, <2>2, <3>1 DEF Versions
    <2>. HIDE DEF v
    <2>4. /\ DOMAIN versions' = 1..n /\ n \in Nat /\ n \notin DOMAIN versions
          /\ versions'[n] = v
          /\ \A k \in DOMAIN versions : k \in 1..n /\ versions'[k] = versions[k]
      BY <1>1, <2>0, <2>1, <2>3 DEF v
    <2>5. /\ \A f : IsDepth(f) =>
                IsDepth([k \in 1..n |-> IF k = n THEN 1 + f[from] ELSE f[k]])'
          /\ \A g : IsDepth(g)' =>
                /\ IsDepth([k \in DOMAIN versions |-> g[k]])
                /\ g[n] = 1 + g[from]
      <3>1. versions' = Append(versions, v)
        BY <2>1 DEF v
      <3>2. AdaptationInv /\ v \in Versions /\ v.parent = from /\ from \in DOMAIN versions
        BY <1>1, <2>0, <2>3
      <3>. QED BY <2>0, <3>1, <3>2, DepthGrows
    <2>6. Fitted' = Fitted /\ \A p, m : PacedBy(p, m)' <=> PacedBy(p, m)
      <3>1. Fitted' = Fitted
        BY <1>1, <2>4 DEF Fitted
      <3>. QED BY <3>1 DEF PacedBy
    <2>7. \E g : IsDepth(g)'
      BY <2>5 DEF PacedInv
    <2>8. versions'[currentId'].accepted
      BY <1>1, <2>0, <2>1, <2>3, <2>4 DEF PacedInv
    <2>9. ASSUME NEW g, IsDepth(g)', NEW k \in 1..n, versions'[k].accepted
          PROVE  g[k] \in Nat /\ PacedBy(versions'[k].params, g[k])
      <3>. DEFINE f == [i \in DOMAIN versions |-> g[i]]
      <3>1. IsDepth(f) /\ g[n] = 1 + f[from] /\ \A i \in DOMAIN versions : f[i] = g[i]
        <4>1. IsDepth(f) /\ g[n] = 1 + g[from]
          BY <2>5, <2>9
        <4>2. \A i \in DOMAIN versions : f[i] = g[i]
          OBVIOUS
        <4>. QED BY <1>1, <2>0, <4>1, <4>2
      <3>. HIDE DEF f
      <3>2. \A i \in DOMAIN versions :
              versions[i].accepted => f[i] \in Nat /\ PacedBy(versions[i].params, f[i])
        BY <3>1 DEF PacedInv
      <3>3. CASE k \in DOMAIN versions
        BY <2>4, <2>9, <3>1, <3>2, <3>3
      <3>4. CASE k = n
        <4>1. f[from] \in Nat /\ PacedBy(current, f[from])
          BY <1>1, <2>0, <3>2 DEF PacedInv
        <4>2. CanaryMisses(q) - CanaryMisses(current) <= McrTolerance
          BY <2>3, <2>4, <2>9, <3>4 DEF Accepts, CanaryPasses
        <4>3. PacedBy(q, f[from] + 1)
          BY <1>1, <2>2, <4>1, <4>2, OneStepFurther
        <4>. QED BY <2>3, <2>4, <3>1, <3>4, <4>1, <4>3
      <3>. QED BY <1>1, <2>0, <2>4, <3>3, <3>4
    <2>. QED BY <2>4, <2>6, <2>7, <2>8, <2>9 DEF PacedInv
  <1>3. ASSUME UNCHANGED versions, versions[currentId'].accepted
        PROVE  PacedInv'
    <2>1. Fitted' = Fitted /\ \A p, m : PacedBy(p, m)' <=> PacedBy(p, m)
      BY <1>3 DEF Fitted, PacedBy
    <2>2. \A f : IsDepth(f)' <=> IsDepth(f)
      BY <1>3 DEF IsDepth
    <2>. QED BY <1>3, <2>1, <2>2 DEF PacedInv
  <1>4. ASSUME NEW fb \in Feedback, ObserveFeedback(fb)
        PROVE  PacedInv'
    <2>1. CASE UNCHANGED <<versions, current, currentId, router>>
      BY <1>3, <2>1 DEF PacedInv
    <2>. QED BY <1>2, <1>4, <2>1 DEF ObserveFeedback
  <1>5. ASSUME NEW k, Rollback(k)
        PROVE  PacedInv'
    BY <1>3, <1>5 DEF Rollback, RollbackTargets
  <1>6. CASE UNCHANGED avars
    BY <1>3, <1>6 DEF avars, PacedInv
  <1>. QED BY <1>4, <1>5, <1>6 DEF AdaptationNext

LEMMA PacedInit == AdaptationInit => PacedInv
  <1>. SUFFICES ASSUME AdaptationInit
                PROVE  PacedInv
    OBVIOUS
  <1>. DEFINE v == [params |-> Project(InitialParams), parent |-> 0, accepted |-> TRUE]
  <1>1. AdaptationInv
    BY AdaptationInvInit
  <1>2. /\ versions = <<v>> /\ currentId = 1 /\ v.parent = 0 /\ v.accepted /\ v.params = Fitted
    BY DEF AdaptationInit, Fitted
  <1>. HIDE DEF v
  <1>3. DOMAIN versions = {1} /\ versions[1] = v
    BY <1>2
  <1>4. \A f : IsDepth(f) <=> f = [k \in {1} |-> 0]
    BY <1>2, <1>3 DEF IsDepth
  <1>5. PacedBy(Fitted, 0)
    <2>0. Fitted \in Admissible
      BY <1>1, <1>3 DEF AdaptationInv, AdaptationTypeOK, Fitted
    <2>1. /\ Fitted.base \in Int /\ Fitted.adverse \in Int /\ Fitted.discount \in Int
          /\ Fitted.tauL \in Int
      BY <2>0 DEF Admissible, AnyParams
    <2>2. BetaRadius \in Nat /\ TauRadius \in Nat /\ McrTolerance \in Nat
      BY AdaptationConstants, PolicyConstants
    <2>. QED BY <2>1, <2>2, MissesType DEF PacedBy, Near
  <1>6. IsDepth([k \in {1} |-> 0])
    BY <1>4
  <1>7. ASSUME NEW f, IsDepth(f), NEW k \in DOMAIN versions
        PROVE  f[k] = 0 /\ versions[k].params = Fitted
    BY <1>2, <1>3, <1>4, <1>7
  <1>. QED BY <1>1, <1>2, <1>3, <1>5, <1>6, <1>7 DEF PacedInv

\* Behind a canary, drift is paced by the deployments: however blocks and rollbacks
\* alternate, the deployed policy is no farther from the fitted one, and misses no more
\* canary cases, than its depth in the version tree times what one deployment may move.
THEOREM DriftIsAlwaysPaced ==
  ASSUME Gated
  PROVE  AdaptationSpec => []DriftIsPaced
  <1>1. AdaptationInv /\ PacedInv /\ [AdaptationNext]_avars /\ AdaptationInv' => PacedInv'
    BY PacedStep
  <1>2. PacedInv => DriftIsPaced
    <2>. SUFFICES ASSUME PacedInv
                  PROVE  DriftIsPaced
      OBVIOUS
    <2>1. IsDepth(Depth)
      <3>1. Depth = CHOOSE f : IsDepth(f)
        BY DEF Depth, IsDepth
      <3>. QED BY <3>1 DEF PacedInv
    <2>2. currentId \in DOMAIN versions /\ current = versions[currentId].params
      BY DEF PacedInv, AdaptationInv, AdaptationTypeOK
    <2>3. PacedBy(current, Depth[currentId])
      BY <2>1, <2>2 DEF PacedInv
    <2>. QED BY <2>3 DEF DriftIsPaced, PacedBy
  <1>. QED BY <1>1, <1>2, PacedInit, AdaptationInvAlways, PTL DEF AdaptationSpec
=============================================================================
