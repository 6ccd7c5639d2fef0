SPECIFICATION Spec
CONSTANTS
  None = None
  Edited = Edited
  Specs <- AmfOne
  ConfigNames = {}
  ConfigValues = {}
  NADs = {"n2"}
  Reports <- Failing
  UserOps = {"CreateNF", "Report"}
  MaxOps = 3
  MaxFaults = 0
  MaxCrashes = 0
  MaxConditions = 4
  PromptWatch = TRUE
INVARIANTS
  LastConditionReported
CHECK_DEADLOCK FALSE
