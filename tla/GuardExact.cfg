SPECIFICATION Spec
CONSTANTS
  Products = {1, 2}
  Keys = {k1, k2}
  MaxHandlers = 2
  Repairers = {}
  Additions = {1}
  Opened = {1, 2}
  Opening = 1
  AutoFix = FALSE
  Faults = {"stop"}
  MaxOrders = 3
  MaxInflow = 2
  MaxFaults = 2
  Requests <- MCRequests
INVARIANTS
  TypeOK
  GuardExact
  NoReservationLeaks
  NeverOverstates
PROPERTIES
  ReturnsOnlyUnsold
CHECK_DEADLOCK FALSE
