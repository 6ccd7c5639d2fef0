SPECIFICATION Spec
CONSTANTS
  None = None
  Edited = Edited
  Specs <- UpfOne
  ConfigNames = {}
  ConfigValues = {}
  NADs = {"n3", "n4", "n6"}
  Reports <- Running
  UserOps = {"CreateNF", "DeleteNF"}
  MaxOps = 2
  MaxFaults = 0
  MaxCrashes = 0
  MaxConditions = 9
  PromptWatch = TRUE
INVARIANTS
  NothingLeftBehind
CHECK_DEADLOCK FALSE
