SPECIFICATION RecordSpec
CONSTANTS
  NoName = NoName
  Suffix = "mig-1"
  OldSuffixes = {"mig-0"}
  Order <- MCOrder
  Disk <- MCDisk
  Given <- MCGiven
  Templated = {"v1"}
  Plain <- MCPlain
  KubeVirts <- MCKubeVirts
  RecordEnv = {"stopped", "unfit", "kubevirt", "storageClass", "error", "listError", "addVM"}
  MaxMigs = 1
  MaxChanges = 2
INVARIANTS DisksTogether TargetsFixed Settles
PROPERTIES SwapsItsSources
CHECK_DEADLOCK FALSE
