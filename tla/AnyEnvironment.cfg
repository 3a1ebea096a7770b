SPECIFICATION Spec
CONSTANTS
  VMs = {v1}
  Migs = {1}
  DeleteSource = FALSE
  NoVM = NoVM
  Env = {"create", "delete", "stop", "start", "evacuate", "vmimFail", "waitForFirstConsumer", "unfit", "error", "planError"}
INVARIANTS SourceKept CancelInv
PROPERTIES TargetDeletedAfterRevert
CHECK_DEADLOCK FALSE
