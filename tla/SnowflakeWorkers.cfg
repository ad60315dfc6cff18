SPECIFICATION Spec
CONSTANTS
  Instances = {1, 2}
  MaxWorkerID = 1
  MaxSequence = 1
  Tolerance = 1
  MaxTime = 4
  MaxBack = 2
  MaxRestarts = 2
  Worker <- DefaultWorkers
INVARIANTS
  UniqueIds
CHECK_DEADLOCK FALSE
