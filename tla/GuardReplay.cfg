SPECIFICATION Spec
CONSTANTS
  Products = {1, 2}
  Keys = {k1, k2}
  MaxHandlers = 2
  Repairers = {}
  Additions = {1}
  Opened = {1, 2}
  Opening = 1
  AutoFix = FALSE
  Faults = {}
  MaxOrders = 3
  MaxInflow = 2
  MaxFaults = 0
  Requests <- MCRequests
PROPERTIES
  ReplayAnswered
CHECK_DEADLOCK FALSE
