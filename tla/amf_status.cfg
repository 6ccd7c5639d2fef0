SPECIFICATION Spec
CONSTANTS
  None = None
  Edited = Edited
  Specs <- AmfSpecs
  ConfigNames = {}
  ConfigValues = {}
  NADs = {"n2"}
  Reports <- Failing
  UserOps = {"CreateNF", "EditSpec", "Report"}
  MaxOps = 4
  MaxFaults = 0
  MaxCrashes = 0
  MaxConditions = 4
  PromptWatch = TRUE
INVARIANTS
  QuietReported
  OnlyStalledRepeats
PROPERTIES
  StatusOnlyGrows
CHECK_DEADLOCK FALSE
