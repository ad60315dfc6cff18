SPECIFICATION FairSpec
CONSTANTS
  Orders = {1}
  Workers = {w1, w2}
  BatchSize = 1
  MaxAttempts = 2
  MaxCancelRetries = 3
  Long = {1}
  Broken = {}
  Faults = {"publish", "session", "cancel", "store"}
  MaxFaults = 1
  Foreign <- MCForeign
INVARIANTS
  NothingLost
PROPERTIES
  NeverEarly
  EventuallySettled
CHECK_DEADLOCK FALSE
