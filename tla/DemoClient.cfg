SPECIFICATION Spec
CONSTANTS
  MaxCalls = 2
  Slots = {"producer", "consumer", "dataProducer", "dataConsumer"}
  MaxPending = 4
INVARIANTS IInv OwnAnswers NoLeak OneOpenObject
PROPERTIES DestroysItsOwn
CHECK_DEADLOCK FALSE
