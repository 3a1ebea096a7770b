SPECIFICATION Spec
CONSTANTS
  VMs = {v1}
  Migs = {1}
  DeleteSource = FALSE
  NoVM = NoVM
  Env = {}
INVARIANT CompletesWork
CHECK_DEADLOCK FALSE
