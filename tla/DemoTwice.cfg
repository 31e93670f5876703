SPECIFICATION Spec
CONSTANTS
  MaxCalls = 2
  Slots = {"producer"}
  MaxPending = 3
INVARIANT OneObject
CHECK_DEADLOCK FALSE
