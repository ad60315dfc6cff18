SPECIFICATION FairSpec
CONSTANTS
  Products = {1}
  Keys = {k1, k2}
  MaxHandlers = 2
  Repairers = {"worker", "admin"}
  Additions = {1}
  Opened = {}
  Opening = 1
  AutoFix = TRUE
  Faults = {"stop", "reply", "commit", "redis"}
  MaxOrders = 2
  MaxInflow = 2
  MaxFaults = 1
  Requests <- MCRequests
PROPERTIES
  ImplementsContract
  GuardHeals
CHECK_DEADLOCK FALSE
