CONSTANTS
  Tasks = {}
  Decisions = {"d"}
  Events = {}
  Documents = {"w"}
  Floor = 1
  Sayings <- MCSayings
  Backings <- AtMostOneBacking
  Slots <- MCSlots
  SingleValued <- MCStatusSlots
  StatusSlots <- MCStatusSlots
  Objects <- MCObjects
  Confidences = {95}
  Windows <- AnyTime
  Intents = {"new_fact", "update", "correction"}
  Sources = {"s1"}
  Blank = "blank"
  Threshold = 80
  Margin = 10
  EvidenceMin = 1
  AuthoritativeUpdate = FALSE
  Policy = "gate"
  MaxRows = 4
  MaxHeld = 1
  PersistentVectors = TRUE

SPECIFICATION LifecycleSpec
PROPERTY RestartKeepsEdges
