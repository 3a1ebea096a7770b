SPECIFICATION Spec
CONSTANTS
  VMs = {v1}
  Migs = {1}
  DeleteSource = TRUE
  NoVM = NoVM
  Env = {"stop"}
INVARIANT DataSafe
CHECK_DEADLOCK FALSE
