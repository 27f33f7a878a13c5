CONSTANTS
  Tasks = {"t"}
  Decisions = {"d"}
  Events = {"v"}
  Documents = {"w"}
  Floor = 1
  Sayings <- MCSayings
  Backings <- AtMostOneBacking
  Slots <- MCSlots
  SingleValued <- MCStatusSlots
  StatusSlots <- MCStatusSlots
  Objects <- MCObjects
  Confidences = {95}
  Windows <- AnyTime
  Intents = {"new_fact", "update", "correction"}
  Sources = {"s1"}
  Blank = "blank"
  Threshold = 80
  Margin = 10
  EvidenceMin = 1
  AuthoritativeUpdate = FALSE
  Policy = "gate"
  MaxRows = 3
  MaxHeld = 1
  PersistentVectors = TRUE

SPECIFICATION LifecycleSpec
INVARIANTS
  LifecycleTypeOK
  OneStatusButOrphans
  AttributeAgreesButOrphans
  StatusIsSupported
  KeptRowsAreEdges
PROPERTIES
  ChangesArePermitted
  RestartKeepsKeptEdges
VIEW Onward
