SPECIFICATION PlanFanSpec
CONSTANTS
  Namespaces = {n1, n2}
  Parents = {p1, p2}
  User = User
  Nobody = Nobody
  LiveParents = 1
  PlanEnv = {"delete", "userCreate", "edit"}
  MaxFaults = 2
SYMMETRY PlanFanSymmetry
INVARIANTS PlanFanTypeOK NoOrphanPlansInv
PROPERTIES LiveChildPlanKept PlanOwnership
CHECK_DEADLOCK FALSE
