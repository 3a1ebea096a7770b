SPECIFICATION Spec
CONSTANTS
  VMs = {v1,v2}
  Migs = {1}
  DeleteSource = TRUE
  NoVM = NoVM
  Env = {"create", "start", "vmimFail", "error", "restart", "deletePlan"}
INVARIANTS TypeOK DataSafe CompletedOnTarget SwapAccounted PlanOutlivesSwaps
PROPERTIES SourcesNotWiped KeepsLifecycle
SYMMETRY Symmetry
CHECK_DEADLOCK FALSE
