SPECIFICATION FairBrokerSpec
CONSTANTS
  Worker = {w1, w2}
  Queue = {q1}
  Payload = {p1}
  MAX_RETRIES = 2
  MaxPublished = 1
  MaxFaults = 2
INVARIANTS
  Ownership
  NoTaskLost
  DuplicationBounded
  DropOnlyAfterAllRetries
PROPERTIES
  ImplementsLifecycle
  QueueDrains
CHECK_DEADLOCK FALSE
