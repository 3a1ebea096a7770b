SPECIFICATION FanOutSpec
CONSTANTS
  Namespaces = {n1, n2}
  Parents = {p1, p2}
  User = User
  Nobody = Nobody
  LiveParents = 1
  FanOutEnv = {"delete", "user"}
  MaxFaults = 2
SYMMETRY FanOutSymmetry
INVARIANTS FanOutTypeOK NoOrphansInv
PROPERTIES LiveChildKept FanOutOwnership
CHECK_DEADLOCK FALSE
