SPECIFICATION FairSpec
CONSTANTS
  None = None
  Edited = Edited
  Specs <- SmfSpecs
  ConfigNames = {"c1", "c2"}
  ConfigValues <- SmfConfigs
  NADs = {"n4"}
  Reports <- Running
  UserOps = {"CreateNF", "EditSpec", "SetConfig"}
  MaxOps = 2
  MaxFaults = 0
  MaxCrashes = 0
  MaxConditions = 9
  PromptWatch = TRUE
PROPERTIES
  Recovers
CHECK_DEADLOCK FALSE
