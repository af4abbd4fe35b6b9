SPECIFICATION BreakerFairSpec
CONSTANTS
  Caller = {c1, c2, c3}
  Extractor = {c3}
  FAILURE_THRESHOLD = 3
  RESET_TIMEOUT = 2
  MaxFailures = 6
INVARIANTS
  OpensAfterConsecutiveFailures
PROPERTIES
  OpensOnlyAfterConsecutiveFailures
  NoCallWhileOpen
  ClosesOnlyRecovered
  OpenIsLeft
