CONSTANTS
  Scale = 6
  MissCeiling = 2
  TauRadius = 1
  InitialParams <- Fit
  Feedback <- Adjudicated
  BlockSize = 2
  Steps <- Gradients
  BetaRadius = 1
  CanaryCases <- Canary
  DvrTolerance = 0
  McrTolerance = 1
  RrTolerance = 2
  Frozen = FALSE
  Gated = TRUE
  MaxVersions = 4
SPECIFICATION AdaptationSpec
INVARIANTS
  AdaptationTypeOK
  NeverMoreDamage
  DriftIsPaced
  ProposalsStayNear
  RiskIsMonotone
