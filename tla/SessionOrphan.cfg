SPECIFICATION Spec
CONSTANTS
  Client = {c1}
  Request = {1, 2}
  Types <- MediaTypes
  None = None
INVARIANT NoOrphans
CHECK_DEADLOCK FALSE
