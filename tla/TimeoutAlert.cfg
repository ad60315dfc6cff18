SPECIFICATION Spec
CONSTANTS
  Orders = {1, 2}
  Workers = {w1}
  BatchSize = 2
  MaxAttempts = 2
  MaxCancelRetries = 3
  Long = {}
  Broken = {}
  Faults = {"publish"}
  MaxFaults = 2
  Foreign <- NoForeign
INVARIANTS
  AbandonedIsAlerted
CHECK_DEADLOCK FALSE
