SPECIFICATION Spec
CONSTANTS
  None = None
  Interfaces <- SomeInterfaces
  Instances <- SomeInstances
  Capacity <- SomeCapacity
  Peers <- OtherUpfs
  References <- SomeReferences
  MaxEntries = 5
INVARIANTS
  ConfiguredIsAttached
  PeersAgree
  CompleteSpecBuilds
  OneNodePerReference
  SmfBuildsFromUpf
