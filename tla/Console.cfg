SPECIFICATION Spec
CONSTANTS
  Start <- MCStart
  PageSize = 2
  IsAdmin = TRUE
  FirstPages = {"orders", "products", "inventory", "stockLogs"}
  MaxEvents = 3
INVARIANTS
  ReadYourWrites
  LastAskedIsShown
  InventoryOfSelection
  ReportNotFromBefore
  PageInRange
  RepeatOnlyAfterAnother
  DashboardCountsWrites
PROPERTIES
  SpinnerStops
CHECK_DEADLOCK FALSE
