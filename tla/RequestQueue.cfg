SPECIFICATION FairSpec
CONSTANTS
  Request = {r1, r2, r3, r4}
  None = None
INVARIANTS TimerGuardsCurrent StaleEntriesTimedOut
PROPERTIES ImplementsRequestReply ResolvesOnOwnAnswer
CHECK_DEADLOCK FALSE
