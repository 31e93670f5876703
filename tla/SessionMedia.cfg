SPECIFICATION Spec
CONSTANTS
  Client = {c1, c2}
  Request = {r1, r2, r3, r4}
  Types <- MediaTypes
  None = None
SYMMETRY Symmetry
INVARIANTS Tracked Owned OnlyOwn DeadIsExplained DeadSessionIsEmpty
PROPERTIES OrphansAreBornSo CloseSparesOthers CrashHasCause ImplementsMediaObjects
CHECK_DEADLOCK FALSE
