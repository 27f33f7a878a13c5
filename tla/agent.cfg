CONSTANTS
  Slots <- TaskIds
  SingleValued <- TaskIds
  StatusSlots = {}
  Objects = {"p", "q", "r"}
  Confidences = {50, 85, 99}
  Windows <- UndatedOnly
  Intents = {"new_fact", "correction"}
  Sources = {"s1"}
  Blank = "blank"
  Threshold = 80
  Margin = 10
  EvidenceMin = 1
  AuthoritativeUpdate = FALSE
  Policy = "gate"
  MaxRows = 4
  MaxHeld = 2
  PersistentVectors = TRUE
  Names = {"T1", "T01", "Deploy"}
  Near <- AlikeNames
  Texts <- SomeTexts
  NoName = "none"
  Inactive = {"r"}
  MaxNodes = 4
  TopK = 2
SPECIFICATION AgentSpec
INVARIANTS
  
  QuestionsAreServed
PROPERTIES
  FreshSubjectsWait
