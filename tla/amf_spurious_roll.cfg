SPECIFICATION Spec
CONSTANTS
  None = None
  Edited = Edited
  Specs <- AmfOne
  ConfigNames = {}
  ConfigValues = {}
  NADs = {"n2"}
  Reports <- Running
  UserOps = {"CreateNF"}
  MaxOps = 1
  MaxFaults = 0
  MaxCrashes = 0
  MaxConditions = 9
  PromptWatch = TRUE
PROPERTIES
  RollsFollowUpdates
