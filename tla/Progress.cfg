SPECIFICATION FairSpec
CONSTANTS
  VMs = {v1,v2}
  Migs = {1}
  DeleteSource = FALSE
  NoVM = NoVM
  Env = {"create", "delete", "restart", "vmimFail"}
INVARIANTS CancelledOnSource
PROPERTIES CancelMovesOn KeepsLifecycle EventuallyOver DeletedGoesAway
CHECK_DEADLOCK FALSE
