SPECIFICATION Spec
CONSTANTS
  Users = {u1, u2}
  Keys = {k1}
  p1 = p1
  p2 = p2
  Products = {p1, p2}
  NoUser = NoUser
  Handlers = {h1, h2}
  Requests <- MCRequests
  Quantities = {0, 2}
  MaxOrders = 2
  MaxInflow = 2
INVARIANTS
  TypeOK
  StockConservation
  LockedMatchesPending
  SoldMatchesPaid
  LedgerReconciles
  RollbackExactlyOnce
  OneOrderPerKey
PROPERTIES
  StatusTransitions
  ImplementsContract
SYMMETRY MCSymmetry
CHECK_DEADLOCK FALSE
