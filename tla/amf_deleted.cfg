SPECIFICATION Spec
CONSTANTS
  None = None
  Edited = Edited
  Specs <- AmfOne
  ConfigNames = {}
  ConfigValues = {}
  NADs = {"n2"}
  Reports <- Running
  UserOps = {"CreateNF", "DeleteNF", "MarkDeploymentDeleted", "DeleteService"}
  MaxOps = 2
  MaxFaults = 1
  MaxCrashes = 1
  MaxConditions = 9
  PromptWatch = TRUE
INVARIANTS
  NothingLeftBehind
  DeploymentOwned
PROPERTIES
  ImplementsLifecycle
CHECK_DEADLOCK FALSE
