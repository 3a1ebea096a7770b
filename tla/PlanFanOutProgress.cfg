SPECIFICATION PlanFanFairSpec
CONSTANTS
  Namespaces = {n1, n2}
  Parents = {p1}
  User = User
  Nobody = Nobody
  LiveParents = 1
  PlanEnv = {"delete", "userCreate", "userDelete", "edit", "namespace"}
  MaxFaults = 2
INVARIANTS QuiescentSynced
PROPERTIES PlanFanOutEnds DeletedPlanGoes
CHECK_DEADLOCK FALSE
