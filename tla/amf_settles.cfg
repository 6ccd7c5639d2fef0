SPECIFICATION Spec
CONSTANTS
  None = None
  Edited = Edited
  Specs <- AmfSpecs
  ConfigNames = {}
  ConfigValues = {}
  NADs = {"n2"}
  Reports <- Running
  UserOps = {"CreateNF", "EditSpec", "EditConfigMap", "DeleteConfigMap", "EditDeployment", "StripDeployment", "DeleteDeployment", "AddNAD", "RemoveNAD"}
  MaxOps = 3
  MaxFaults = 0
  MaxCrashes = 0
  MaxConditions = 9
  PromptWatch = TRUE
INVARIANTS
  TypeOK
  QuietConfigured
  QuietServed
PROPERTIES
  RollKeepsEdits
CHECK_DEADLOCK FALSE
