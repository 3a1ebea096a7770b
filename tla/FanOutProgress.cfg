SPECIFICATION FanOutFairSpec
CONSTANTS
  Namespaces = {n1, n2}
  Parents = {p1, p2}
  User = User
  Nobody = Nobody
  LiveParents = 1
  FanOutEnv = {"delete"}
  MaxFaults = 0
PROPERTIES FanOutEnds DeletedParentGoes
CHECK_DEADLOCK FALSE
