CONSTANTS
  Slots = {"slot"}
  SingleValued = {"slot"}
  StatusSlots = {}
  Objects = {"p", "q", "r"}
  Confidences = {50, 85, 99}
  Windows <- UndatedOnly
  Intents = {"new_fact", "correction"}
  Sources = {"s1"}
  Blank = "blank"
  Threshold = 80
  Margin = 10
  EvidenceMin = 1
  AuthoritativeUpdate = FALSE
  Policy = "gate"
  MaxRows = 3
  MaxHeld = 1
  PersistentVectors = TRUE
  w1 = w1
  p = "p"
  q = "q"
  w2 = w2
  Workers = {w1}
  MaxFaults = 1
SPECIFICATION RequestsSpec
INVARIANTS
  AloneOneHighValue
  AloneReadsAreFresh
  AloneVectorsAccountedFor
PROPERTIES
  ImplementsSerialPipeline
  EveryRequestEnds
