SPECIFICATION FairSpec
CONSTANTS
  MaxConnections = 3
  ReplyType <- ExpectedServer
INVARIANTS AnswerIsForState StreamIsExpected IInv
PROPERTIES LetGoByStaleClose BroadcastStarts
CHECK_DEADLOCK FALSE
