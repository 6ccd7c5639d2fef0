SPECIFICATION Spec
CONSTANTS
  None = None
  Edited = Edited
  Specs <- AmfOne
  ConfigNames = {}
  ConfigValues = {}
  NADs = {"n2"}
  Reports <- Running
  UserOps = {"CreateNF", "DeleteNF"}
  MaxOps = 3
  MaxFaults = 0
  MaxCrashes = 0
  MaxConditions = 9
  PromptWatch = TRUE
INVARIANTS
  QuietConfigured
CHECK_DEADLOCK FALSE
