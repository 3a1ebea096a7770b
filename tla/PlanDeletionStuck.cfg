SPECIFICATION FairSpec
CONSTANTS
  VMs = {v1}
  Migs = {1}
  DeleteSource = FALSE
  NoVM = NoVM
  Env = {"deletePlan"}
PROPERTY PlanDeletionEnds
CHECK_DEADLOCK FALSE
