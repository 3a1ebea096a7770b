SPECIFICATION Spec
CONSTANTS
  VMs = {v1}
  Migs = {1}
  DeleteSource = FALSE
  NoVM = NoVM
  Env = {"delete"}
INVARIANT CancelRestores
CHECK_DEADLOCK FALSE
