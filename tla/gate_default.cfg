CONSTANTS
  Slots = {"slot"}
  SingleValued = {"slot"}
  StatusSlots = {}
  p = p
  q = q
  r = r
  Objects = {p, q, r}
  Confidences = {50, 85, 99}
  Windows <- UndatedOnly
  Intents = {"new_fact", "correction"}
  Sources <- OneSource
  Blank = "blank"
  Threshold = 80
  Margin = 10
  EvidenceMin = 1
  AuthoritativeUpdate = FALSE
  Policy = "gate"
  MaxRows = 5
  MaxHeld = 1
  PersistentVectors = TRUE
SPECIFICATION Spec
SYMMETRY Symmetry
INVARIANTS
  TypeOK
  EdgesAreAcceptedRows
  OneHighValue
  SupersededIsLinked
  SearchableIsAccepted
PROPERTIES
  DisplacedOnlyByStronger
  RestartKeepsValues
