CONSTANTS
  Slots = {"s", "t"}
  SingleValued = {"s"}
  StatusSlots = {}
  p = p
  q = q
  r = r
  Objects = {p, q}
  Confidences = {50, 85}
  Windows <- UndatedOnly
  Intents = {"new_fact"}
  Sources <- OneSource
  Blank = "blank"
  Threshold = 80
  Margin = 10
  EvidenceMin = 1
  AuthoritativeUpdate = FALSE
  Policy = "latest_value"
  MaxRows = 4
  MaxHeld = 1
  PersistentVectors = TRUE
SPECIFICATION Spec
SYMMETRY Symmetry
INVARIANTS
  OneValuePerSlot
  AcceptedRowsAreEdges
PROPERTIES
  SlotKeepsValue
