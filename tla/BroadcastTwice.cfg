SPECIFICATION Spec
CONSTANTS
  MaxConnections = 3
  ReplyType <- ExpectedServer
INVARIANT OneSubprocess
CHECK_DEADLOCK FALSE
