SPECIFICATION Spec
CONSTANTS
  None = None
  Edited = Edited
  Specs <- SmfSpecs
  ConfigNames = {"c1", "c2"}
  ConfigValues <- SmfOneConfig
  NADs = {"n4"}
  Reports <- Running
  UserOps = {"CreateNF", "SetConfig"}
  MaxOps = 2
  MaxFaults = 0
  MaxCrashes = 0
  MaxConditions = 9
  PromptWatch = TRUE
PROPERTIES
  MissingReferenceRerun
CHECK_DEADLOCK FALSE
