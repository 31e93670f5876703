SPECIFICATION FairSpec
CONSTANTS
  Key = {k1, k2}
  Settings <- ShortLists
INVARIANTS AnswerIsForHead SendersReachTheirProducer SetUpInOrder KeyIsOfFirst IInv
PROPERTIES EndsSetUp
CHECK_DEADLOCK FALSE
