SPECIFICATION ProcessSpec
CONSTANTS
  Instances = {1}
  MaxWorkerID = 1
  MaxSequence = 1
  Tolerance = 1
  MaxTime = 3
  MaxBack = 2
  MaxRestarts = 2
  Worker <- DefaultWorkers
  Products = {1, 2, 3}
  Orders = {1, 2}
  Keys = {k1}
  Transactions = {t1, t2, t3}
  Contents <- MCContents
  Carts <- MCCarts
INVARIANTS
  Increasing
  NoWaitCycle
SYMMETRY MCSymmetry
