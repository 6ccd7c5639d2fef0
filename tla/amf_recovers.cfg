SPECIFICATION FairSpec
CONSTANTS
  None = None
  Edited = Edited
  Specs <- AmfOne
  ConfigNames = {}
  ConfigValues = {}
  NADs = {"n2"}
  Reports <- Running
  UserOps = {"CreateNF", "EditConfigMap", "DeleteConfigMap", "StripDeployment", "DeleteDeployment"}
  MaxOps = 3
  MaxFaults = 1
  MaxCrashes = 1
  MaxConditions = 9
  PromptWatch = FALSE
PROPERTIES
  Recovers
  CreatedComplete
