SPECIFICATION FairSpec
CONSTANTS
  Orders = {1}
  Workers = {w1}
  BatchSize = 2
  MaxAttempts = 2
  MaxCancelRetries = 3
  Long = {}
  Broken = {1}
  Faults = {}
  MaxFaults = 0
  Foreign <- NoForeign
PROPERTIES
  PoisonDeadLettered
CHECK_DEADLOCK FALSE
