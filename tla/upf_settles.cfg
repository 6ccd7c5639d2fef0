SPECIFICATION FairSpec
CONSTANTS
  None = None
  Edited = Edited
  Specs <- UpfSpecs
  ConfigNames = {}
  ConfigValues = {}
  NADs = {"n3", "n4", "n6"}
  Reports <- Failing
  UserOps = {"CreateNF", "EditSpec", "AddNAD", "Report"}
  MaxOps = 3
  MaxFaults = 0
  MaxCrashes = 0
  MaxConditions = 4
  PromptWatch = TRUE
INVARIANTS
  QuietConfigured
  QuietBuilt
PROPERTIES
  ComesToRest
  CreatedComplete
  StatusFollows
  ImplementsLifecycle
CHECK_DEADLOCK FALSE
