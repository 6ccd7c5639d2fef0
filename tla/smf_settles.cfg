SPECIFICATION Spec
CONSTANTS
  None = None
  Edited = Edited
  Specs <- SmfEdits
  ConfigNames = {"c1", "c2"}
  ConfigValues <- SmfOneConfig
  NADs = {"n4"}
  Reports <- Running
  UserOps = {"CreateNF", "EditSpec", "AddNAD", "RemoveNAD", "Report"}
  MaxOps = 3
  MaxFaults = 0
  MaxCrashes = 1
  MaxConditions = 9
  PromptWatch = TRUE
INVARIANTS
  QuietConfigured
  QuietBuilt
  QuietServed
CHECK_DEADLOCK FALSE
