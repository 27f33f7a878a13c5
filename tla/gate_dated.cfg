CONSTANTS
  Slots = {"assignee", "reference"}
  SingleValued = {"assignee"}
  StatusSlots = {}
  p = p
  q = q
  r = r
  Objects = {p, q}
  Confidences = {85, 97}
  Windows <- DatedWindows
  Intents = {"new_fact", "correction"}
  Sources = {"s1"}
  Blank = "blank"
  Threshold = 80
  Margin = 10
  EvidenceMin = 1
  AuthoritativeUpdate = FALSE
  Policy = "gate"
  MaxRows = 3
  MaxHeld = 0
  PersistentVectors = TRUE
SPECIFICATION Spec
SYMMETRY Symmetry
INVARIANTS
  NoHighClash
PROPERTIES
  ImplementsGovernedMemory
