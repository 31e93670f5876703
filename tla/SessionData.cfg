SPECIFICATION FairSpec
CONSTANTS
  Client = {c1}
  Request = {1, 2, 3, 4}
  Types <- DataTypes
  None = None
CONSTRAINT InOrder
INVARIANT IInv
PROPERTIES SinksFollowSources
CHECK_DEADLOCK FALSE
