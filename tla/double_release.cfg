CONSTANTS
  Slots = {"slot"}
  SingleValued = {"slot"}
  StatusSlots = {}
  p = p
  q = q
  r = r
  Objects = {p, q, r}
  Confidences = {85}
  Windows <- UndatedOnly
  Intents = {"new_fact", "update"}
  Sources = {"s1"}
  Blank = "blank"
  Threshold = 80
  Margin = 10
  EvidenceMin = 1
  AuthoritativeUpdate = FALSE
  Policy = "gate"
  MaxRows = 4
  MaxHeld = 2
  PersistentVectors = TRUE
SPECIFICATION GovernedSpec
SYMMETRY Symmetry
INVARIANT OneValuePerSlot
