SPECIFICATION FairSpec
CONSTANTS
  MaxConnections = 2
  ReplyType <- SignallingServer
PROPERTIES BroadcastStarts
CHECK_DEADLOCK FALSE
