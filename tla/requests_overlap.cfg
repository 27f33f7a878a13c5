CONSTANTS
  Slots = {"slot"}
  SingleValued = {"slot"}
  StatusSlots = {}
  p = p
  q = q
  Objects = {p, q}
  Confidences = {99}
  Windows <- UndatedOnly
  Intents = {"update"}
  Sources = {"s1"}
  Blank = "blank"
  Threshold = 80
  Margin = 10
  EvidenceMin = 1
  AuthoritativeUpdate = TRUE
  Policy = "gate"
  MaxRows = 3
  MaxHeld = 1
  PersistentVectors = TRUE
  w1 = w1
  w2 = w2
  Workers = {w1, w2}
  MaxFaults = 1
SPECIFICATION RequestsSpec
SYMMETRY Alike
INVARIANTS
  RequestTypeOK
  EdgesAreAcceptedOrLeaving
  LinkedIsReplaced
VIEW Onward
