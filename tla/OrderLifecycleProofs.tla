------------------------ MODULE OrderLifecycleProofs ------------------------
EXTENDS OrderLifecycle, TotalsProofs

(* What a handler that has read its row carries. *)
LEMMA CallKinds ==
  ASSUME TypeOK, NEW h \in Handlers
  PROVE  /\ act[h].op = "create" =>
              act[h].user \in Users /\ act[h].key \in Keys /\ act[h].request \in Requests
         /\ act[h].op \in {"pay", "finish", "cancel", "expire"} =>
              act[h].order \in OrderIds /\ act[h].user \in Users
         /\ act[h].op = "init" => act[h].product \in Products /\ act[h].quantity \in Nat
<1>1. act[h] \in {Idle} \union CreateCalls \union OrderCalls \union InitCalls
  BY DEF TypeOK
<1>2. CASE act[h] = Idle
  BY <1>2 DEF Idle
<1>3. CASE act[h] \in OrderCalls
  BY <1>3 DEF OrderCalls
<1>4. CASE act[h] \in InitCalls
  BY <1>4, LifecycleAssumption DEF InitCalls
<1>5. CASE act[h] \in CreateCalls
  BY <1>5 DEF CreateCalls
<1> QED BY <1>1, <1>2, <1>3, <1>4, <1>5

(* The type invariant is inductive by itself. *)
LEMMA TypeStep == TypeOK /\ [Next]_vars => TypeOK'
<1> USE LifecycleAssumption DEF inventories, orders, history
<1> SUFFICES ASSUME TypeOK, [Next]_vars PROVE TypeOK'
  OBVIOUS
<1>1. ASSUME NEW h \in Handlers, CommitCreate(h) PROVE TypeOK'
  <2>0. PICK u \in Users, k \in Keys, r \in Requests :
          u = act[h].user /\ k = act[h].key /\ r = act[h].request
    BY <1>1, CallKinds DEF CommitCreate
  <2>1. r \in [Products -> Nat]
    OBVIOUS
  <2>2. stock' \in [Products -> Nat] /\ locked' \in [Products -> Nat]
    <3>1. \A p \in Products : r[p] <= stock[p]
      BY <1>1, <2>0, <2>1 DEF TypeOK, CommitCreate, ReserveInventory, Lines
    <3>2. \A p \in Products : stock[p] - r[p] \in Nat /\ locked[p] + r[p] \in Nat
      BY <2>1, <3>1 DEF TypeOK
    <3> QED BY <1>1, <2>0, <3>2 DEF CommitCreate, ReserveInventory
  <2>3. PICK o \in OrderIds :
          /\ status' = [status EXCEPT ![o] = "pending"]
          /\ owner' = [owner EXCEPT ![o] = u]
          /\ items' = [items EXCEPT ![o] = r]
          /\ LogItems("order_deduct", o, r, -1)
          /\ idem' = [idem EXCEPT ![<<u, k>>] = [order |-> o, request |-> r]]
          /\ outbox' = outbox \union {o}
          /\ answers' = [answers EXCEPT ![<<u, k>>] = @ \union {o}]
    BY <1>1, <2>0 DEF CommitCreate, CompleteOrderIdempotencyKey
  <2>4. status' \in [OrderIds -> Statuses]
    BY <2>3 DEF TypeOK, Statuses
  <2>5. owner' \in [OrderIds -> Users \union {NoUser}]
    BY <2>3 DEF TypeOK
  <2>6. items' \in [OrderIds -> [Products -> Nat]]
    BY <2>1, <2>3 DEF TypeOK
  <2>7. idem' \in [Users \X Keys -> [order : 0..MaxOrders, request : [Products -> Nat]]]
    BY <2>1, <2>3 DEF TypeOK, OrderIds
  <2>8. stockLogs' \in [Products -> Seq(LogRows)]
    <3> SUFFICES ASSUME NEW p \in Products PROVE stockLogs'[p] \in Seq(LogRows)
      BY <2>3 DEF LogItems
    <3>1. CASE p \in Lines(r)
      <4>1. LogEntry("order_deduct", o, -1 * r[p], stock[p]) \in LogRows
        <5>1. r[p] \in Nat /\ stock[p] \in Nat /\ r[p] <= stock[p]
          BY <1>1, <2>0, <2>1, <3>1 DEF TypeOK, CommitCreate, ReserveInventory
        <5> QED BY <5>1 DEF LogEntry, LogRows, Biz, OrderIds
      <4> QED BY <2>3, <3>1, <4>1 DEF TypeOK, LogItems
    <3>2. CASE p \notin Lines(r)
      BY <2>3, <3>2 DEF TypeOK, LogItems
    <3> QED BY <3>1, <3>2
  <2>9. answers' \in [Users \X Keys -> SUBSET OrderIds] /\ outbox' \subseteq OrderIds
    BY <2>3 DEF TypeOK
  <2> QED BY <1>1, <2>2, <2>4, <2>5, <2>6, <2>7, <2>8, <2>9
          DEF TypeOK, CommitCreate, ReserveInventory
<1>1a. ASSUME NEW h \in Handlers, NEW u \in Users, NEW k \in Keys, NEW r \in Requests,
              BeginCreate(h, u, k, r)
       PROVE  TypeOK'
  <2>1. [op |-> "create", user |-> u, key |-> k, request |-> r] \in CreateCalls
    BY DEF CreateCalls
  <2> QED BY <1>1a, <2>1 DEF TypeOK, BeginCreate
<1>2. ASSUME NEW u \in Users, NEW k \in Keys, NEW r \in Requests, ReplayOrder(u, k, r)
      PROVE  TypeOK'
  BY <1>2 DEF TypeOK, ReplayOrder
<1>3. ASSUME NEW h \in Handlers, NEW u \in Users, NEW o \in OrderIds,
             \/ BeginPay(h, u, o) \/ BeginFinish(h, u, o)
             \/ BeginCancel(h, u, o) \/ BeginCancelExpired(h, u, o)
      PROVE  TypeOK'
  <2>1. PICK op \in {"pay", "finish", "cancel", "expire"}, from \in Statuses :
          Begin(h, op, u, o, from)
    BY <1>3 DEF BeginPay, BeginFinish, BeginCancel, BeginCancelExpired, Statuses
  <2>2. [op |-> op, user |-> u, order |-> o] \in OrderCalls
    BY DEF OrderCalls
  <2> QED BY <2>1, <2>2 DEF TypeOK, Begin
<1>4. ASSUME NEW h \in Handlers, CommitPay(h) PROVE TypeOK'
  <2> DEFINE o == act[h].order
  <2>1. o \in OrderIds
    BY <1>4, CallKinds DEF CommitPay
  <2>2. items[o] \in [Products -> Nat]
    BY <2>1 DEF TypeOK
  <2>3. locked' \in [Products -> Nat] /\ sold' \in [Products -> Nat]
    <3>1. \A p \in Products : items[o][p] <= locked[p]
      BY <1>4, <2>2 DEF TypeOK, CommitPay, ConsumeLockedInventory, Lines
    <3>2. \A p \in Products : locked[p] - items[o][p] \in Nat /\ sold[p] + items[o][p] \in Nat
      BY <2>2, <3>1 DEF TypeOK
    <3> QED BY <1>4, <3>2 DEF CommitPay, ConsumeLockedInventory
  <2>4. status' \in [OrderIds -> Statuses]
    BY <1>4, <2>1 DEF TypeOK, CommitPay, PatchOrderStatus, Statuses
  <2> QED BY <1>4, <2>3, <2>4
          DEF TypeOK, CommitPay, PatchOrderStatus, ConsumeLockedInventory
<1>5. ASSUME NEW h \in Handlers, CommitFinish(h) PROVE TypeOK'
  BY <1>5 DEF TypeOK, CommitFinish, PatchOrderStatus, Statuses
<1>6. ASSUME NEW h \in Handlers, CommitCancel(h) PROVE TypeOK'
  <2> DEFINE o == act[h].order
  <2>1. o \in OrderIds
    BY <1>6, CallKinds DEF CommitCancel
  <2>2. items[o] \in [Products -> Nat]
    BY <2>1 DEF TypeOK
  <2>3. stock' \in [Products -> Nat] /\ locked' \in [Products -> Nat]
    <3>1. \A p \in Products : items[o][p] <= locked[p]
      BY <1>6, <2>2 DEF TypeOK, CommitCancel, ReleaseLockedInventory, Lines
    <3>2. \A p \in Products : stock[p] + items[o][p] \in Nat /\ locked[p] - items[o][p] \in Nat
      BY <2>2, <3>1 DEF TypeOK
    <3> QED BY <1>6, <3>2 DEF CommitCancel, ReleaseLockedInventory
  <2>4. status' \in [OrderIds -> Statuses]
    BY <1>6, <2>1 DEF TypeOK, CommitCancel, PatchOrderStatus, Statuses
  <2>5. stockLogs' \in [Products -> Seq(LogRows)]
    <3> SUFFICES ASSUME NEW p \in Products PROVE stockLogs'[p] \in Seq(LogRows)
      BY <1>6 DEF CommitCancel, LogItems
    <3>1. LogEntry("order_rollback", o, 1 * items[o][p], stock[p]) \in LogRows
      <4>1. items[o][p] \in Nat /\ stock[p] \in Nat
        BY <2>2 DEF TypeOK
      <4>2. o \in 0..MaxOrders
        BY <2>1 DEF OrderIds
      <4> HIDE DEF o
      <4> QED BY <4>1, <4>2 DEF LogEntry, LogRows, Biz
    <3> QED BY <1>6, <3>1 DEF TypeOK, CommitCancel, LogItems
  <2> QED BY <1>6, <2>3, <2>4, <2>5
          DEF TypeOK, CommitCancel, PatchOrderStatus, ReleaseLockedInventory
<1>7. ASSUME NEW h \in Handlers, CommitInitInventory(h) PROVE TypeOK'
  <2> DEFINE p == act[h].product
             q == act[h].quantity
  <2>1. p \in Products /\ q \in Nat
    BY <1>7, CallKinds DEF CommitInitInventory
  <2>2. LogEntry("init", 0, q, stock[p]) \in LogRows
    BY <2>1 DEF TypeOK, LogEntry, LogRows, Biz
  <2>3. stockLogs' \in [Products -> Seq(LogRows)]
    BY <1>7, <2>1, <2>2 DEF TypeOK, CommitInitInventory, LogProduct
  <2>4. stock' \in [Products -> Nat] /\ inflow' \in [Products -> Nat]
    BY <1>7, <2>1 DEF TypeOK, CommitInitInventory
  <2>5. initialized' \subseteq Products
    BY <1>7, <2>1 DEF TypeOK, CommitInitInventory
  <2>6. act' = [act EXCEPT ![h] = Idle]
    BY <1>7 DEF CommitInitInventory
  <2>7. UNCHANGED <<onSale, locked, status, owner, items, idem, outbox, due, sold, answers>>
    BY <1>7 DEF CommitInitInventory, orders
  <2> QED BY <2>3, <2>4, <2>5, <2>6, <2>7 DEF TypeOK
<1>8. ASSUME NEW h \in Handlers, Abort(h) PROVE TypeOK'
  BY <1>8 DEF TypeOK, Abort
<1>9. ASSUME NEW h \in Handlers, NEW p \in Products, NEW q \in Quantities,
             BeginInitInventory(h, p, q)
      PROVE  TypeOK'
  BY <1>9 DEF TypeOK, BeginInitInventory, InitCalls
<1>10. ASSUME NEW p \in Products, NEW q \in Quantities, AddInventory(p, q)
       PROVE  TypeOK'
  <2>1. LogEntry("manual_add", 0, q, stock[p]) \in LogRows
    BY DEF TypeOK, LogEntry, LogRows, Biz
  <2>2. stockLogs' \in [Products -> Seq(LogRows)]
    BY <1>10, <2>1 DEF TypeOK, AddInventory, LogProduct
  <2>3. stock' \in [Products -> Nat] /\ inflow' \in [Products -> Nat]
    BY <1>10 DEF TypeOK, AddInventory
  <2> QED BY <1>10, <2>2, <2>3 DEF TypeOK, AddInventory
<1>11. ASSUME NEW p \in Products, OnSaleProduct(p) \/ OffSaleProduct(p) PROVE TypeOK'
  BY <1>11 DEF TypeOK, OnSaleProduct, OffSaleProduct
<1>12. ASSUME NEW o \in OrderIds, Deadline(o) PROVE TypeOK'
  BY <1>12 DEF TypeOK, Deadline
<1>13. CASE UNCHANGED vars
  BY <1>13 DEF TypeOK, vars
<1> QED BY <1>1, <1>1a, <1>2, <1>3, <1>4, <1>5, <1>6, <1>7, <1>8, <1>9, <1>10,
           <1>11, <1>12, <1>13 DEF Next

(* Every behaviour of the tables is well typed; in particular the counters *)
(* of the inventories table never become negative (its CHECK constraints). *)
THEOREM TypeCorrect == Spec => []TypeOK
<1>1. Init => TypeOK
  <2>1. NoItems \in [Products -> Nat]
    BY DEF NoItems
  <2> QED BY <2>1, LifecycleAssumption
          DEF Init, TypeOK, NoKey, Statuses, Idle
<1> QED BY <1>1, TypeStep, PTL DEF Spec

-----------------------------------------------------------------------------
(* What a step can do to the tables.  Each invariant below is preserved by *)
(* each of these six effects. *)

Quiet ==
  /\ UNCHANGED <<initialized, stock, locked, status, owner, items, idem, stockLogs,
                 inflow, sold>>
  /\ \A uk \in Users \X Keys :
       answers'[uk] = answers[uk] \/ answers'[uk] = answers[uk] \union {idem[uk].order}

Created(u, k, r, o) ==
  /\ idem[<<u, k>>] = NoKey
  /\ status[o] = "none"
  /\ \A p \in Products : r[p] <= stock[p] /\ (r[p] > 0 => p \in initialized)
  /\ status' = [status EXCEPT ![o] = "pending"]
  /\ owner' = [owner EXCEPT ![o] = u]
  /\ items' = [items EXCEPT ![o] = r]
  /\ stock' = [p \in Products |-> stock[p] - r[p]]
  /\ locked' = [p \in Products |-> locked[p] + r[p]]
  /\ idem' = [idem EXCEPT ![<<u, k>>] = [order |-> o, request |-> r]]
  /\ answers' = [answers EXCEPT ![<<u, k>>] = @ \union {o}]
  /\ LogItems("order_deduct", o, r, -1)
  /\ UNCHANGED <<initialized, inflow, sold>>

Paid(o) ==
  /\ status[o] = "pending"
  /\ \A p \in Products : items[o][p] <= locked[p]
  /\ status' = [status EXCEPT ![o] = "paid"]
  /\ locked' = [p \in Products |-> locked[p] - items[o][p]]
  /\ sold' = [p \in Products |-> sold[p] + items[o][p]]
  /\ UNCHANGED <<initialized, stock, owner, items, idem, stockLogs, inflow, answers>>

Finished(o) ==
  /\ status[o] = "paid"
  /\ status' = [status EXCEPT ![o] = "finished"]
  /\ UNCHANGED <<initialized, stock, locked, owner, items, idem, stockLogs, inflow,
                 sold, answers>>

Cancelled(o) ==
  /\ status[o] = "pending"
  /\ \A p \in Products : /\ items[o][p] <= locked[p]
                         /\ items[o][p] > 0 => p \in initialized
  /\ status' = [status EXCEPT ![o] = "cancelled"]
  /\ stock' = [p \in Products |-> stock[p] + items[o][p]]
  /\ locked' = [p \in Products |-> locked[p] - items[o][p]]
  /\ LogItems("order_rollback", o, items[o], 1)
  /\ UNCHANGED <<initialized, owner, items, idem, inflow, sold, answers>>

Received(p, q, biz) ==
  /\ \/ biz = "init" /\ p \notin initialized /\ stock' = [stock EXCEPT ![p] = q]
     \/ biz = "manual_add" /\ p \in initialized /\ stock' = [stock EXCEPT ![p] = @ + q]
  /\ initialized' = initialized \union {p}
  /\ inflow' = [inflow EXCEPT ![p] = @ + q]
  /\ LogProduct(biz, p, q)
  /\ UNCHANGED <<locked, status, owner, items, idem, sold, answers>>

LEMMA Effects ==
  ASSUME TypeOK, [Next]_vars
  PROVE  \/ Quiet
         \/ \E u \in Users, k \in Keys, r \in [Products -> Nat], o \in OrderIds :
              Created(u, k, r, o)
         \/ \E o \in OrderIds : Paid(o) \/ Finished(o) \/ Cancelled(o)
         \/ \E p \in Products, q \in Nat, biz \in {"init", "manual_add"} : Received(p, q, biz)
<1> USE LifecycleAssumption DEF inventories, orders, history
<1>1. ASSUME NEW h \in Handlers, CommitCreate(h)
      PROVE  \E u \in Users, k \in Keys, r \in [Products -> Nat], o \in OrderIds :
               Created(u, k, r, o)
  <2> DEFINE u == act[h].user
             k == act[h].key
             r == act[h].request
  <2>0. u \in Users /\ k \in Keys /\ r \in Requests
    BY <1>1, CallKinds DEF CommitCreate
  <2>1. r \in [Products -> Nat]
    BY <2>0
  <2>2. \A p \in Products : r[p] <= stock[p] /\ (r[p] > 0 => p \in initialized)
    <3> TAKE p \in Products
    <3>1. r[p] > 0 => r[p] <= stock[p] /\ p \in initialized
      BY <1>1, <2>1 DEF CommitCreate, ReserveInventory, Lines
    <3>2. r[p] \in Nat /\ stock[p] \in Nat
      BY <2>1 DEF TypeOK
    <3> QED BY <3>1, <3>2
  <2>3. /\ stock' = [p \in Products |-> stock[p] - r[p]]
        /\ locked' = [p \in Products |-> locked[p] + r[p]]
        /\ idem[<<u, k>>] = NoKey /\ UNCHANGED <<initialized, inflow, sold>>
    BY <1>1 DEF CommitCreate, ReserveInventory, CompleteOrderIdempotencyKey, AcquireKey
  <2>4. PICK o \in OrderIds :
          /\ status[o] = "none" /\ status' = [status EXCEPT ![o] = "pending"]
          /\ owner' = [owner EXCEPT ![o] = u] /\ items' = [items EXCEPT ![o] = r]
          /\ LogItems("order_deduct", o, r, -1)
          /\ idem' = [idem EXCEPT ![<<u, k>>] = [order |-> o, request |-> r]]
          /\ answers' = [answers EXCEPT ![<<u, k>>] = @ \union {o}]
    BY <1>1 DEF CommitCreate, CompleteOrderIdempotencyKey
  <2>5. Created(u, k, r, o)
    BY <2>2, <2>3, <2>4 DEF Created
  <2> QED BY <2>0, <2>1, <2>5
<1>1a. ASSUME NEW h \in Handlers, NEW u \in Users, NEW k \in Keys, NEW r \in Requests,
              BeginCreate(h, u, k, r)
       PROVE  Quiet
  BY <1>1a DEF BeginCreate, Quiet
<1>2. ASSUME NEW u \in Users, NEW k \in Keys, NEW r \in Requests, ReplayOrder(u, k, r)
      PROVE  Quiet
  BY <1>2 DEF TypeOK, ReplayOrder, Quiet
<1>3. ASSUME NEW h \in Handlers, NEW u \in Users, NEW o \in OrderIds,
             \/ BeginPay(h, u, o) \/ BeginFinish(h, u, o)
             \/ BeginCancel(h, u, o) \/ BeginCancelExpired(h, u, o)
      PROVE  Quiet
  BY <1>3 DEF BeginPay, BeginFinish, BeginCancel, BeginCancelExpired, Begin, Quiet
<1>4. ASSUME NEW h \in Handlers, CommitPay(h) PROVE \E o \in OrderIds : Paid(o)
  <2>1. act[h].order \in OrderIds
    BY <1>4, CallKinds DEF CommitPay
  <2>2. \A p \in Products : items[act[h].order][p] <= locked[p]
    BY <1>4, <2>1 DEF TypeOK, CommitPay, ConsumeLockedInventory, Lines
  <2>3. Paid(act[h].order)
    BY <1>4, <2>2 DEF CommitPay, PatchOrderStatus, ConsumeLockedInventory, Paid
  <2> QED BY <2>1, <2>3
<1>5. ASSUME NEW h \in Handlers, CommitFinish(h) PROVE \E o \in OrderIds : Finished(o)
  <2>1. act[h].order \in OrderIds
    BY <1>5, CallKinds DEF CommitFinish
  <2>2. Finished(act[h].order)
    BY <1>5 DEF CommitFinish, PatchOrderStatus, Finished
  <2> QED BY <2>1, <2>2
<1>6. ASSUME NEW h \in Handlers, CommitCancel(h) PROVE \E o \in OrderIds : Cancelled(o)
  <2>1. act[h].order \in OrderIds
    BY <1>6, CallKinds DEF CommitCancel
  <2>2. \A p \in Products : /\ items[act[h].order][p] <= locked[p]
                            /\ items[act[h].order][p] > 0 => p \in initialized
    BY <1>6, <2>1 DEF TypeOK, CommitCancel, ReleaseLockedInventory, Lines
  <2>3. Cancelled(act[h].order)
    BY <1>6, <2>2 DEF CommitCancel, PatchOrderStatus, ReleaseLockedInventory, Cancelled
  <2> QED BY <2>1, <2>3
<1>7. ASSUME NEW h \in Handlers, CommitInitInventory(h)
      PROVE  \E p \in Products, q \in Nat : Received(p, q, "init")
  <2>1. act[h].product \in Products /\ act[h].quantity \in Nat
    BY <1>7, CallKinds DEF CommitInitInventory
  <2>2. Received(act[h].product, act[h].quantity, "init")
    BY <1>7 DEF CommitInitInventory, Received
  <2> QED BY <2>1, <2>2
<1>8. ASSUME NEW h \in Handlers, Abort(h) PROVE Quiet
  BY <1>8 DEF Abort, Quiet
<1>9. ASSUME NEW h \in Handlers, NEW p \in Products, NEW q \in Quantities,
             BeginInitInventory(h, p, q)
      PROVE  Quiet
  BY <1>9 DEF BeginInitInventory, Quiet
<1>10. ASSUME NEW p \in Products, NEW q \in Quantities, AddInventory(p, q)
       PROVE  q \in Nat /\ Received(p, q, "manual_add")
  <2>1. initialized' = initialized \union {p}
    BY <1>10 DEF AddInventory
  <2> QED BY <1>10, <2>1 DEF AddInventory, Received
<1>11. ASSUME NEW p \in Products, OnSaleProduct(p) \/ OffSaleProduct(p) PROVE Quiet
  BY <1>11 DEF OnSaleProduct, OffSaleProduct, Quiet
<1>12. ASSUME NEW o \in OrderIds, Deadline(o) PROVE Quiet
  BY <1>12 DEF Deadline, Quiet
<1>13. CASE UNCHANGED vars
  BY <1>13 DEF vars, Quiet
<1> QED BY <1>1, <1>1a, <1>2, <1>3, <1>4, <1>5, <1>6, <1>7, <1>8, <1>9, <1>10,
           <1>11, <1>12, <1>13 DEF Next

-----------------------------------------------------------------------------
(* The stock log. *)

(* Appending an entry that starts at the current stock keeps the account   *)
(* of one product unbroken. *)
Account(logs, quantity) ==
  /\ logs = <<>> => quantity = 0
  /\ logs # <<>> => logs[1].before = 0 /\ logs[Len(logs)].after = quantity
  /\ \A i \in 1..Len(logs) - 1 : logs[i + 1].before = logs[i].after

LEMMA AccountAppend ==
  ASSUME NEW logs \in Seq(LogRows), NEW quantity \in Nat,
         Account(logs, quantity),
         NEW row, row.before = quantity
  PROVE  Account(Append(logs, row), row.after)
<1> DEFINE new == Append(logs, row)
<1>1. /\ Len(new) = Len(logs) + 1
      /\ new[Len(new)] = row
      /\ \A i \in 1..Len(logs) : new[i] = logs[i]
      /\ new # <<>>
      /\ Len(logs) \in Nat
  OBVIOUS
<1>2. new[1].before = 0
  <2>1. CASE logs = <<>>
    BY <2>1, <1>1 DEF Account
  <2>2. CASE logs # <<>>
    <3>1. 1 \in 1..Len(logs)
      BY <2>2
    <3> QED BY <3>1, <2>2, <1>1 DEF Account
  <2> QED BY <2>1, <2>2
<1>3. ASSUME NEW i \in 1..Len(new) - 1 PROVE new[i + 1].before = new[i].after
  <2>1. CASE i = Len(logs)
    <3>1. logs # <<>> /\ new[i] = logs[i] /\ new[i + 1] = row
      BY <2>1, <1>1
    <3> QED BY <2>1, <3>1 DEF Account
  <2>2. CASE i \in 1..Len(logs) - 1
    <3>1. new[i] = logs[i] /\ new[i + 1] = logs[i + 1]
      BY <2>2, <1>1
    <3> QED BY <2>2, <3>1 DEF Account
  <2> QED BY <1>1, <2>1, <2>2
<1> HIDE DEF new
<1>4. Account(new, row.after)
  BY <1>1, <1>2, <1>3 DEF Account
<1> QED BY <1>4 DEF new

Good(p) == /\ (stockLogs[p] = <<>>) <=> (p \notin initialized)
           /\ Account(stockLogs[p], stock[p])

LEMMA LedgerIsAccount == LedgerReconciles <=> \A p \in Products : Good(p)
BY DEF LedgerReconciles, Good, Account

LEMMA LedgerStep == TypeOK /\ LedgerReconciles /\ [Next]_vars => LedgerReconciles'
<1> SUFFICES ASSUME TypeOK, LedgerReconciles, [Next]_vars, NEW p \in Products
             PROVE  Good(p)'
  BY DEF Good, LedgerReconciles, Account
<1>1. /\ Account(stockLogs[p], stock[p])
      /\ (stockLogs[p] = <<>>) <=> (p \notin initialized)
      /\ stockLogs[p] \in Seq(LogRows) /\ stock[p] \in Nat
  BY LedgerIsAccount DEF TypeOK, Good
<1>2. CASE Quiet
  BY <1>1, <1>2 DEF Quiet, Good
<1>3. ASSUME NEW u \in Users, NEW k \in Keys, NEW r \in [Products -> Nat], NEW o \in OrderIds,
             Created(u, k, r, o)
      PROVE  Good(p)'
  <2>1. CASE r[p] = 0
    <3>1. stockLogs'[p] = stockLogs[p] /\ stock'[p] = stock[p] /\ initialized' = initialized
      BY <1>3, <1>1, <2>1 DEF Created, LogItems, Lines
    <3> QED BY <3>1, <1>1 DEF Good
  <2>2. CASE r[p] > 0
    <3> DEFINE row == LogEntry("order_deduct", o, -1 * r[p], stock[p])
    <3>1. row.before = stock[p] /\ row.after = stock[p] - r[p]
      BY <1>1 DEF LogEntry
    <3>2. stockLogs'[p] = Append(stockLogs[p], row) /\ stock'[p] = stock[p] - r[p]
      BY <1>3, <2>2 DEF Created, LogItems, Lines
    <3>3. p \in initialized'
      BY <1>3, <2>2 DEF Created
    <3> HIDE DEF row
    <3>4. Account(Append(stockLogs[p], row), row.after)
      BY <1>1, <3>1, AccountAppend
    <3>5. Append(stockLogs[p], row) # <<>>
      BY <1>1
    <3>6. row.after = stock'[p]
      BY <3>1, <3>2
    <3> QED BY <3>2, <3>3, <3>4, <3>5, <3>6 DEF Good
  <2> QED BY <2>1, <2>2
<1>4. ASSUME NEW o \in OrderIds, Paid(o) \/ Finished(o)
      PROVE  Good(p)'
  BY <1>4, <1>1 DEF Paid, Finished, Good
<1>5. ASSUME NEW o \in OrderIds, Cancelled(o)
      PROVE  Good(p)'
  <2>0. items[o][p] \in Nat
    BY DEF TypeOK
  <2>1. CASE items[o][p] = 0
    <3>1. stockLogs'[p] = stockLogs[p] /\ stock'[p] = stock[p] /\ initialized' = initialized
      BY <1>5, <1>1, <2>1 DEF Cancelled, LogItems, Lines
    <3> QED BY <3>1, <1>1 DEF Good
  <2>2. CASE items[o][p] > 0
    <3> DEFINE row == LogEntry("order_rollback", o, 1 * items[o][p], stock[p])
    <3>1. row.before = stock[p] /\ row.after = stock[p] + items[o][p]
      BY <1>1, <2>0 DEF LogEntry
    <3>2. stockLogs'[p] = Append(stockLogs[p], row) /\ stock'[p] = stock[p] + items[o][p]
      BY <1>5, <2>2 DEF Cancelled, LogItems, Lines
    <3>3. p \in initialized'
      BY <1>5, <2>2 DEF Cancelled
    <3> HIDE DEF row
    <3>4. Account(Append(stockLogs[p], row), row.after)
      BY <1>1, <3>1, AccountAppend
    <3> QED BY <3>1, <3>2, <3>3, <3>4 DEF Good
  <2> QED BY <2>0, <2>1, <2>2
<1>6. ASSUME NEW pp \in Products, NEW q \in Nat, NEW biz \in {"init", "manual_add"},
             Received(pp, q, biz)
      PROVE  Good(p)'
  <2>1. CASE pp # p
    <3>1. /\ stockLogs'[p] = stockLogs[p] /\ stock'[p] = stock[p]
          /\ (p \in initialized') <=> (p \in initialized)
      BY <1>6, <2>1 DEF TypeOK, Received, LogProduct
    <3> QED BY <3>1, <1>1 DEF Good
  <2>2. CASE pp = p
    <3> DEFINE row == LogEntry(biz, 0, q, stock[p])
    <3>1. row.before = stock[p] /\ row.after = stock[p] + q
      BY DEF LogEntry
    <3>2. stockLogs'[p] = Append(stockLogs[p], row)
      BY <1>6, <2>2 DEF TypeOK, Received, LogProduct
    <3>3. stock'[p] = stock[p] + q
      <4>1. p \notin initialized => stock[p] = 0
        BY <1>1 DEF Account
      <4> QED BY <1>6, <2>2, <4>1 DEF TypeOK, Received
    <3>4. p \in initialized'
      BY <1>6, <2>2 DEF Received
    <3> HIDE DEF row
    <3>5. Account(Append(stockLogs[p], row), row.after)
      BY <1>1, <3>1, AccountAppend
    <3>6. stock'[p] = row.after
      BY <3>1, <3>3
    <3>7. Account(stockLogs'[p], stock'[p])
      BY <3>2, <3>5, <3>6
    <3>8. stockLogs'[p] # <<>>
      BY <1>1, <3>2
    <3> QED BY <3>4, <3>7, <3>8 DEF Good
  <2> QED BY <2>1, <2>2
<1> QED BY <1>2, <1>3, <1>4, <1>5, <1>6, Effects

(* The stock log of a product is an unbroken account of its stock, in      *)
(* every state the order and inventory services can reach. *)
THEOREM LedgerCorrect == Spec => []LedgerReconciles
<1>1. Init => LedgerReconciles
  BY DEF Init, LedgerReconciles, NoItems
<1> QED BY <1>1, LedgerStep, TypeCorrect, PTL DEF Spec

-----------------------------------------------------------------------------
(* The counters. *)

LEMMA ConservationStep ==
  TypeOK /\ LedgerReconciles /\ StockConservation /\ [Next]_vars => StockConservation'
<1> SUFFICES ASSUME TypeOK, LedgerReconciles, StockConservation, [Next]_vars,
                    NEW p \in Products
             PROVE  (stock[p] + locked[p] + sold[p] = inflow[p])'
  BY DEF StockConservation
<1>1. /\ stock[p] \in Nat /\ locked[p] \in Nat /\ sold[p] \in Nat /\ inflow[p] \in Nat
      /\ stock[p] + locked[p] + sold[p] = inflow[p]
      /\ p \notin initialized => stock[p] = 0
  BY DEF TypeOK, StockConservation, LedgerReconciles
<1>2. CASE Quiet
  BY <1>1, <1>2 DEF Quiet
<1>3. ASSUME NEW u \in Users, NEW k \in Keys, NEW r \in [Products -> Nat], NEW o \in OrderIds,
             Created(u, k, r, o)
      PROVE  (stock[p] + locked[p] + sold[p] = inflow[p])'
  BY <1>1, <1>3 DEF Created
<1>4. ASSUME NEW o \in OrderIds, Paid(o) \/ Finished(o) \/ Cancelled(o)
      PROVE  (stock[p] + locked[p] + sold[p] = inflow[p])'
  <2>1. items[o][p] \in Nat
    BY DEF TypeOK
  <2> QED BY <1>1, <1>4, <2>1 DEF Paid, Finished, Cancelled
<1>5. ASSUME NEW pp \in Products, NEW q \in Nat, NEW biz \in {"init", "manual_add"},
             Received(pp, q, biz)
      PROVE  (stock[p] + locked[p] + sold[p] = inflow[p])'
  <2>1. locked' = locked /\ sold' = sold
    BY <1>5 DEF Received
  <2>2. CASE pp # p
    <3>1. stock'[p] = stock[p] /\ inflow'[p] = inflow[p]
      BY <1>5, <2>2 DEF TypeOK, Received
    <3> QED BY <1>1, <2>1, <3>1
  <2>3. CASE pp = p
    <3>1. stock'[p] = stock[p] + q
      BY <1>1, <1>5, <2>3 DEF TypeOK, Received
    <3>2. inflow'[p] = inflow[p] + q
      BY <1>5, <2>3 DEF TypeOK, Received
    <3> QED BY <1>1, <2>1, <3>1, <3>2
  <2> QED BY <2>2, <2>3
<1> QED BY <1>2, <1>3, <1>4, <1>5, Effects

(* Whatever creations, payments, cancellations and timeouts race, no goods *)
(* appear or disappear: stock + locked + sold is what came in. *)
THEOREM Conservation == Spec => []StockConservation
<1>1. Init => StockConservation
  BY DEF Init, StockConservation, NoItems
<1> QED BY <1>1, ConservationStep, TypeCorrect, LedgerCorrect, PTL DEF Spec

LEMMA QuantityType ==
  ASSUME TypeOK, NEW S, NEW p \in Products
  PROVE  QuantityIn(S, p) \in [1..MaxOrders -> Nat]
BY DEF TypeOK, QuantityIn, OrderIds

(* How the sum over the orders with a status in S changes with a new order. *)
LEMMA QuantityPlaced ==
  ASSUME TypeOK, NEW S, NEW p \in Products, NEW o \in OrderIds, NEW r \in [Products -> Nat],
         status' = [status EXCEPT ![o] = "pending"], items' = [items EXCEPT ![o] = r]
  PROVE  Total(QuantityIn(S, p)', MaxOrders) =
           Total(QuantityIn(S, p), MaxOrders)
             - (IF status[o] \in S THEN items[o][p] ELSE 0)
             + (IF "pending" \in S THEN r[p] ELSE 0)
<1> DEFINE f == QuantityIn(S, p)
           v == IF "pending" \in S THEN r[p] ELSE 0
<1>1. f \in [1..MaxOrders -> Nat] /\ MaxOrders \in Nat /\ o \in 1..MaxOrders /\ v \in Nat
  BY QuantityType, LifecycleAssumption DEF OrderIds, TypeOK
<1>2. f' = [f EXCEPT ![o] = v]
  BY <1>1 DEF QuantityIn, TypeOK
<1>3. f[o] = IF status[o] \in S THEN items[o][p] ELSE 0
  BY DEF QuantityIn
<1> HIDE DEF f, v
<1>4. Total([f EXCEPT ![o] = v], MaxOrders) = Total(f, MaxOrders) - f[o] + v
  BY <1>1, TotalUpdate
<1> QED BY <1>2, <1>3, <1>4 DEF f, v

(* How it changes when an order moves to another status. *)
LEMMA QuantityMoved ==
  ASSUME TypeOK, NEW S, NEW p \in Products, NEW o \in OrderIds, NEW to,
         status' = [status EXCEPT ![o] = to], UNCHANGED items
  PROVE  Total(QuantityIn(S, p)', MaxOrders) =
           Total(QuantityIn(S, p), MaxOrders)
             - (IF status[o] \in S THEN items[o][p] ELSE 0)
             + (IF to \in S THEN items[o][p] ELSE 0)
<1> DEFINE f == QuantityIn(S, p)
           v == IF to \in S THEN items[o][p] ELSE 0
<1>1. f \in [1..MaxOrders -> Nat] /\ MaxOrders \in Nat /\ o \in 1..MaxOrders /\ v \in Nat
  BY QuantityType, LifecycleAssumption DEF OrderIds, TypeOK
<1>2. f' = [f EXCEPT ![o] = v]
  BY <1>1 DEF QuantityIn, TypeOK
<1>3. f[o] = IF status[o] \in S THEN items[o][p] ELSE 0
  BY DEF QuantityIn
<1> HIDE DEF f, v
<1>4. Total([f EXCEPT ![o] = v], MaxOrders) = Total(f, MaxOrders) - f[o] + v
  BY <1>1, TotalUpdate
<1> QED BY <1>2, <1>3, <1>4 DEF f, v

LEMMA LockedStep == TypeOK /\ LockedMatchesPending /\ [Next]_vars => LockedMatchesPending'
<1> DEFINE S == {"pending"}
<1> SUFFICES ASSUME TypeOK, LockedMatchesPending, [Next]_vars, NEW p \in Products
             PROVE  locked'[p] = Total(QuantityIn(S, p)', MaxOrders)
  BY DEF LockedMatchesPending
<1>1. locked[p] = Total(QuantityIn(S, p), MaxOrders) /\ locked[p] \in Nat
  BY DEF LockedMatchesPending, TypeOK
<1>2. ASSUME UNCHANGED <<status, items, locked>>
      PROVE  locked'[p] = Total(QuantityIn(S, p)', MaxOrders)
  BY <1>1, <1>2 DEF QuantityIn
<1>3. ASSUME NEW u \in Users, NEW k \in Keys, NEW r \in [Products -> Nat], NEW o \in OrderIds,
             Created(u, k, r, o)
      PROVE  locked'[p] = Total(QuantityIn(S, p)', MaxOrders)
  <2>1. /\ status' = [status EXCEPT ![o] = "pending"] /\ status[o] = "none"
        /\ items' = [items EXCEPT ![o] = r]
    BY <1>3 DEF Created
  <2>2. Total(QuantityIn(S, p)', MaxOrders) =
          Total(QuantityIn(S, p), MaxOrders)
            - (IF status[o] \in S THEN items[o][p] ELSE 0)
            + (IF "pending" \in S THEN r[p] ELSE 0)
    <3> HIDE DEF S
    <3> QED BY <2>1, QuantityPlaced
  <2> QED BY <1>1, <1>3, <2>1, <2>2 DEF Created
<1>4. ASSUME NEW o \in OrderIds, NEW to \in {"paid", "finished", "cancelled"},
             \/ to = "paid" /\ Paid(o)
             \/ to = "finished" /\ Finished(o)
             \/ to = "cancelled" /\ Cancelled(o)
      PROVE  locked'[p] = Total(QuantityIn(S, p)', MaxOrders)
  <2>1. items[o][p] \in Nat
    BY DEF TypeOK
  <2>2. status' = [status EXCEPT ![o] = to] /\ UNCHANGED items
    BY <1>4 DEF Paid, Finished, Cancelled
  <2>3. Total(QuantityIn(S, p)', MaxOrders) =
          Total(QuantityIn(S, p), MaxOrders)
            - (IF status[o] \in S THEN items[o][p] ELSE 0)
            + (IF to \in S THEN items[o][p] ELSE 0)
    <3> HIDE DEF S
    <3> QED BY <2>1, <2>2, QuantityMoved
  <2>4. CASE to = "paid" /\ Paid(o)
    BY <1>1, <2>1, <2>3, <2>4 DEF Paid
  <2>5. CASE to = "finished" /\ Finished(o)
    BY <1>1, <2>1, <2>3, <2>5 DEF Finished
  <2>6. CASE to = "cancelled" /\ Cancelled(o)
    BY <1>1, <2>1, <2>3, <2>6 DEF Cancelled
  <2> QED BY <1>4, <2>4, <2>5, <2>6
<1>5. CASE Quiet
  BY <1>2, <1>5 DEF Quiet
<1>6. ASSUME NEW pp \in Products, NEW q \in Nat, NEW biz \in {"init", "manual_add"},
             Received(pp, q, biz)
      PROVE  locked'[p] = Total(QuantityIn(S, p)', MaxOrders)
  BY <1>2, <1>6 DEF Received
<1> QED BY <1>3, <1>4, <1>5, <1>6, Effects

LEMMA SoldStep == TypeOK /\ SoldMatchesPaid /\ [Next]_vars => SoldMatchesPaid'
<1> DEFINE S == {"paid", "finished"}
<1> SUFFICES ASSUME TypeOK, SoldMatchesPaid, [Next]_vars, NEW p \in Products
             PROVE  sold'[p] = Total(QuantityIn(S, p)', MaxOrders)
  BY DEF SoldMatchesPaid
<1>1. sold[p] = Total(QuantityIn(S, p), MaxOrders) /\ sold[p] \in Nat
  BY DEF SoldMatchesPaid, TypeOK
<1>2. ASSUME UNCHANGED <<status, items, sold>>
      PROVE  sold'[p] = Total(QuantityIn(S, p)', MaxOrders)
  BY <1>1, <1>2 DEF QuantityIn
<1>3. ASSUME NEW u \in Users, NEW k \in Keys, NEW r \in [Products -> Nat], NEW o \in OrderIds,
             Created(u, k, r, o)
      PROVE  sold'[p] = Total(QuantityIn(S, p)', MaxOrders)
  <2>1. /\ status' = [status EXCEPT ![o] = "pending"] /\ status[o] = "none"
        /\ items' = [items EXCEPT ![o] = r]
    BY <1>3 DEF Created
  <2>2. Total(QuantityIn(S, p)', MaxOrders) =
          Total(QuantityIn(S, p), MaxOrders)
            - (IF status[o] \in S THEN items[o][p] ELSE 0)
            + (IF "pending" \in S THEN r[p] ELSE 0)
    <3> HIDE DEF S
    <3> QED BY <2>1, QuantityPlaced
  <2> QED BY <1>1, <1>3, <2>1, <2>2 DEF Created
<1>4. ASSUME NEW o \in OrderIds, NEW to \in {"paid", "finished", "cancelled"},
             \/ to = "paid" /\ Paid(o)
             \/ to = "finished" /\ Finished(o)
             \/ to = "cancelled" /\ Cancelled(o)
      PROVE  sold'[p] = Total(QuantityIn(S, p)', MaxOrders)
  <2>1. items[o][p] \in Nat
    BY DEF TypeOK
  <2>2. status' = [status EXCEPT ![o] = to] /\ UNCHANGED items
    BY <1>4 DEF Paid, Finished, Cancelled
  <2>3. Total(QuantityIn(S, p)', MaxOrders) =
          Total(QuantityIn(S, p), MaxOrders)
            - (IF status[o] \in S THEN items[o][p] ELSE 0)
            + (IF to \in S THEN items[o][p] ELSE 0)
    <3> HIDE DEF S
    <3> QED BY <2>1, <2>2, QuantityMoved
  <2>4. CASE to = "paid" /\ Paid(o)
    BY <1>1, <2>1, <2>3, <2>4 DEF Paid
  <2>5. CASE to = "finished" /\ Finished(o)
    BY <1>1, <2>1, <2>3, <2>5 DEF Finished
  <2>6. CASE to = "cancelled" /\ Cancelled(o)
    BY <1>1, <2>1, <2>3, <2>6 DEF Cancelled
  <2> QED BY <1>4, <2>4, <2>5, <2>6
<1>5. CASE Quiet
  BY <1>2, <1>5 DEF Quiet
<1>6. ASSUME NEW pp \in Products, NEW q \in Nat, NEW biz \in {"init", "manual_add"},
             Received(pp, q, biz)
      PROVE  sold'[p] = Total(QuantityIn(S, p)', MaxOrders)
  BY <1>2, <1>6 DEF Received
<1> QED BY <1>3, <1>4, <1>5, <1>6, Effects

LEMMA NothingOrdered ==
  ASSUME Init, NEW S, "none" \notin S, NEW p \in Products
  PROVE  Total(QuantityIn(S, p), MaxOrders) = 0
<1>1. QuantityIn(S, p) \in [1..MaxOrders -> Nat]
  BY DEF Init, QuantityIn, OrderIds, NoItems
<1>2. \A o \in 1..MaxOrders : QuantityIn(S, p)[o] = 0
  BY DEF Init, QuantityIn, OrderIds, NoItems
<1> QED BY <1>1, <1>2, TotalZero, LifecycleAssumption

(* locked_quantity is the sum of the quantities of the pending orders. *)
THEOREM LockedCorrect == Spec => []LockedMatchesPending
<1>1. Init => LockedMatchesPending
  <2> SUFFICES ASSUME Init, NEW p \in Products
               PROVE  locked[p] = Total(QuantityIn({"pending"}, p), MaxOrders)
    BY DEF LockedMatchesPending
  <2>1. "none" \notin {"pending"}
    OBVIOUS
  <2> QED BY <2>1, NothingOrdered DEF Init, NoItems
<1> QED BY <1>1, LockedStep, TypeCorrect, PTL DEF Spec

(* What payments consumed is the sum of the quantities of the orders that  *)
(* are paid or finished. *)
THEOREM SoldCorrect == Spec => []SoldMatchesPaid
<1>1. Init => SoldMatchesPaid
  <2> SUFFICES ASSUME Init, NEW p \in Products
               PROVE  sold[p] = Total(QuantityIn({"paid", "finished"}, p), MaxOrders)
    BY DEF SoldMatchesPaid
  <2>1. "none" \notin {"paid", "finished"}
    OBVIOUS
  <2> QED BY <2>1, NothingOrdered DEF Init, NoItems
<1> QED BY <1>1, SoldStep, TypeCorrect, PTL DEF Spec

(* The conditional updates of a payment or a cancellation never fail for   *)
(* want of locked stock: the pending order's quantity is there. *)
THEOREM PendingIsReleasable ==
  ASSUME TypeOK, LockedMatchesPending, NEW o \in OrderIds, status[o] = "pending",
         NEW p \in Products
  PROVE  items[o][p] <= locked[p]
<1>1. QuantityIn({"pending"}, p) \in [1..MaxOrders -> Nat]
  BY QuantityType
<1>2. QuantityIn({"pending"}, p)[o] = items[o][p]
  BY DEF QuantityIn
<1>3. QuantityIn({"pending"}, p)[o] <= Total(QuantityIn({"pending"}, p), MaxOrders)
  BY <1>1, TotalBounds, LifecycleAssumption DEF OrderIds
<1> QED BY <1>2, <1>3 DEF LockedMatchesPending

-----------------------------------------------------------------------------
(* Idempotency keys. *)

(* A key that is not NoKey names an order that exists.  OneOrderPerKey is  *)
(* not inductive without it: a new order could take the id a key names. *)
KeysNameOrders ==
  \A uk \in Users \X Keys :
    /\ idem[uk].order = 0 => idem[uk] = NoKey
    /\ idem[uk].order # 0 => status[idem[uk].order] # "none"

LEMMA KeysNameOrdersStep == TypeOK /\ KeysNameOrders /\ [Next]_vars => KeysNameOrders'
<1> SUFFICES ASSUME TypeOK, KeysNameOrders, [Next]_vars, NEW uk \in Users \X Keys
             PROVE  /\ idem'[uk].order = 0 => idem'[uk] = NoKey
                    /\ idem'[uk].order # 0 => status'[idem'[uk].order] # "none"
  BY DEF KeysNameOrders, NoKey, NoItems
<1>1. /\ idem[uk].order = 0 => idem[uk] = NoKey
      /\ idem[uk].order # 0 => status[idem[uk].order] # "none" /\ idem[uk].order \in OrderIds
  BY LifecycleAssumption DEF KeysNameOrders, TypeOK, OrderIds
<1>2. CASE Quiet
  BY <1>1, <1>2 DEF Quiet
<1>3. ASSUME NEW u \in Users, NEW k \in Keys, NEW r \in [Products -> Nat], NEW o \in OrderIds,
             Created(u, k, r, o)
      PROVE  /\ idem'[uk].order = 0 => idem'[uk] = NoKey
             /\ idem'[uk].order # 0 => status'[idem'[uk].order] # "none"
  <2>1. o # 0 /\ o \in OrderIds
    BY LifecycleAssumption DEF OrderIds
  <2>2. CASE uk = <<u, k>>
    BY <1>3, <2>1, <2>2 DEF Created, TypeOK
  <2>3. CASE uk # <<u, k>>
    BY <1>1, <1>3, <2>1, <2>3 DEF Created, TypeOK
  <2> QED BY <2>2, <2>3
<1>4. ASSUME NEW o \in OrderIds, Paid(o) \/ Finished(o) \/ Cancelled(o)
      PROVE  /\ idem'[uk].order = 0 => idem'[uk] = NoKey
             /\ idem'[uk].order # 0 => status'[idem'[uk].order] # "none"
  BY <1>1, <1>4 DEF Paid, Finished, Cancelled, TypeOK
<1>5. ASSUME NEW p \in Products, NEW q \in Nat, NEW biz \in {"init", "manual_add"},
             Received(p, q, biz)
      PROVE  /\ idem'[uk].order = 0 => idem'[uk] = NoKey
             /\ idem'[uk].order # 0 => status'[idem'[uk].order] # "none"
  BY <1>1, <1>5 DEF Received
<1> QED BY <1>2, <1>3, <1>4, <1>5, Effects

(* The key of an order. *)
KeyOf(o, uk) == /\ idem[uk] = [order |-> o, request |-> items[o]]
                /\ uk[1] = owner[o]
                /\ \A vk \in Users \X Keys : idem[vk].order = o => vk = uk

LEMMA OneOrderPerKeyStep ==
  TypeOK /\ KeysNameOrders /\ OneOrderPerKey /\ [Next]_vars => OneOrderPerKey'
<1> SUFFICES ASSUME TypeOK, KeysNameOrders, OneOrderPerKey, [Next]_vars
             PROVE  OneOrderPerKey'
  OBVIOUS
<1>1. ASSUME UNCHANGED <<idem, items, owner, answers>>,
             \A o \in OrderIds : status'[o] # "none" => status[o] # "none"
      PROVE  OneOrderPerKey'
  BY <1>1 DEF OneOrderPerKey
<1>2. CASE Quiet
  BY <1>2 DEF Quiet, OneOrderPerKey
<1>3. ASSUME NEW u \in Users, NEW k \in Keys, NEW r \in [Products -> Nat], NEW o \in OrderIds,
             Created(u, k, r, o)
      PROVE  OneOrderPerKey'
  <2>0. o # 0 /\ <<u, k>> \in Users \X Keys
    BY LifecycleAssumption DEF OrderIds
  <2>1. \A vk \in Users \X Keys : idem[vk].order # o
    BY <1>3, <2>0 DEF Created, KeysNameOrders
  <2>2. \A vk \in Users \X Keys : vk # <<u, k>> => idem'[vk] = idem[vk]
    BY <1>3, <2>0 DEF Created, TypeOK
  <2>3. idem'[<<u, k>>] = [order |-> o, request |-> r]
    BY <1>3, <2>0 DEF Created, TypeOK
  <2>4. ASSUME NEW oo \in OrderIds, status'[oo] # "none"
        PROVE  \E uk \in Users \X Keys : KeyOf(oo, uk)'
    <3>1. CASE oo = o
      <4>1. items'[o] = r /\ owner'[o] = u
        BY <1>3 DEF Created, TypeOK
      <4>2. KeyOf(o, <<u, k>>)'
        BY <2>1, <2>2, <2>3, <4>1 DEF KeyOf
      <4> QED BY <2>0, <3>1, <4>2
    <3>2. CASE oo # o
      <4>1. status[oo] # "none" /\ items'[oo] = items[oo] /\ owner'[oo] = owner[oo]
        BY <1>3, <2>4, <3>2 DEF Created, TypeOK
      <4>2. PICK uk \in Users \X Keys : KeyOf(oo, uk)
        BY <4>1 DEF OneOrderPerKey, KeyOf
      <4>3. uk # <<u, k>>
        <5>1. idem[uk].order = oo /\ oo # 0
          BY <4>2, LifecycleAssumption DEF KeyOf, OrderIds
        <5>2. idem[<<u, k>>].order = 0
          BY <1>3 DEF Created, NoKey
        <5> QED BY <5>1, <5>2
      <4>4. KeyOf(oo, uk)'
        BY <2>2, <2>3, <3>2, <4>1, <4>2, <4>3 DEF KeyOf
      <4> QED BY <4>4
    <3> QED BY <3>1, <3>2
  <2>5. ASSUME NEW uk \in Users \X Keys
        PROVE  answers'[uk] \subseteq {idem'[uk].order}
    <3>1. CASE uk = <<u, k>>
      <4>1. answers[uk] \subseteq {0} /\ answers[uk] \subseteq OrderIds
        BY <1>3, <3>1 DEF Created, NoKey, OneOrderPerKey, TypeOK
      <4>2. answers[uk] = {}
        BY <4>1, LifecycleAssumption DEF OrderIds
      <4> QED BY <1>3, <2>3, <3>1, <4>2 DEF Created, TypeOK
    <3>2. CASE uk # <<u, k>>
      BY <1>3, <2>2, <3>2 DEF Created, OneOrderPerKey, TypeOK
    <3> QED BY <3>1, <3>2
  <2> QED BY <2>4, <2>5 DEF OneOrderPerKey, KeyOf
<1>4. ASSUME NEW o \in OrderIds, Paid(o) \/ Finished(o) \/ Cancelled(o)
      PROVE  OneOrderPerKey'
  <2>1. \A oo \in OrderIds : status'[oo] # "none" => status[oo] # "none"
    BY <1>4 DEF Paid, Finished, Cancelled, TypeOK
  <2> QED BY <1>1, <1>4, <2>1 DEF Paid, Finished, Cancelled
<1>5. ASSUME NEW p \in Products, NEW q \in Nat, NEW biz \in {"init", "manual_add"},
             Received(p, q, biz)
      PROVE  OneOrderPerKey'
  BY <1>1, <1>5 DEF Received
<1> QED BY <1>2, <1>3, <1>4, <1>5, Effects

(* A key, once used, stands for one order for ever, however often the      *)
(* request is repeated; two users with the same key do not meet. *)
THEOREM IdempotencyCorrect == Spec => []OneOrderPerKey
<1>1. Init => KeysNameOrders /\ OneOrderPerKey
  BY DEF Init, KeysNameOrders, OneOrderPerKey, NoKey
<1> QED BY <1>1, KeysNameOrdersStep, OneOrderPerKeyStep, TypeCorrect, PTL DEF Spec

-----------------------------------------------------------------------------
(* The state machine of an order. *)

(* A stale read never moves an order along an edge that is not there. *)
THEOREM TransitionsCorrect == Spec => StatusTransitions
<1> DEFINE A == \A o \in OrderIds :
                  /\ status'[o] # status[o] => <<status[o], status'[o]>> \in Edges
                  /\ status[o] # "none" => owner'[o] = owner[o] /\ items'[o] = items[o]
<1>1. TypeOK /\ [Next]_vars => A
  <2> SUFFICES ASSUME TypeOK, [Next]_vars, NEW oo \in OrderIds
               PROVE  /\ status'[oo] # status[oo] => <<status[oo], status'[oo]>> \in Edges
                      /\ status[oo] # "none" => owner'[oo] = owner[oo] /\ items'[oo] = items[oo]
    OBVIOUS
  <2>1. CASE Quiet
    BY <2>1 DEF Quiet
  <2>2. ASSUME NEW u \in Users, NEW k \in Keys, NEW r \in [Products -> Nat],
               NEW o \in OrderIds, Created(u, k, r, o)
        PROVE  /\ status'[oo] # status[oo] => <<status[oo], status'[oo]>> \in Edges
               /\ status[oo] # "none" => owner'[oo] = owner[oo] /\ items'[oo] = items[oo]
    BY <2>2 DEF Created, TypeOK, Edges
  <2>3. ASSUME NEW o \in OrderIds, Paid(o) \/ Finished(o) \/ Cancelled(o)
        PROVE  /\ status'[oo] # status[oo] => <<status[oo], status'[oo]>> \in Edges
               /\ status[oo] # "none" => owner'[oo] = owner[oo] /\ items'[oo] = items[oo]
    BY <2>3 DEF Paid, Finished, Cancelled, TypeOK, Edges
  <2>4. ASSUME NEW p \in Products, NEW q \in Nat, NEW biz \in {"init", "manual_add"},
               Received(p, q, biz)
        PROVE  /\ status'[oo] # status[oo] => <<status[oo], status'[oo]>> \in Edges
               /\ status[oo] # "none" => owner'[oo] = owner[oo] /\ items'[oo] = items[oo]
    BY <2>4 DEF Received
  <2> QED BY <2>1, <2>2, <2>3, <2>4, Effects
<1> QED BY <1>1, TypeCorrect, PTL DEF Spec, StatusTransitions

-----------------------------------------------------------------------------
(* The contract. *)

(* What the orders hold is what is locked plus what is sold. *)
LEMMA HeldIsLockedPlusSold ==
  ASSUME TypeOK, LockedMatchesPending, SoldMatchesPaid, NEW p \in Products
  PROVE  C!Held(p) = locked[p] + sold[p]
<1> DEFINE f1 == QuantityIn({"pending"}, p)
           f2 == QuantityIn({"paid", "finished"}, p)
           f  == [o \in 1..MaxOrders |-> f1[o] + f2[o]]
<1>1. f1 \in [1..MaxOrders -> Nat] /\ f2 \in [1..MaxOrders -> Nat]
  BY QuantityType
<1>2. Total(f, MaxOrders) = Total(f1, MaxOrders) + Total(f2, MaxOrders)
  <2> HIDE DEF f1, f2
  <2> QED BY <1>1, TotalAdd, LifecycleAssumption
<1>3. f = [o \in 1..MaxOrders |->
             IF status[o] \in {"pending", "paid", "finished"} THEN items[o][p] ELSE 0]
  <2> SUFFICES ASSUME NEW o \in 1..MaxOrders
               PROVE  f1[o] + f2[o] =
                      IF status[o] \in {"pending", "paid", "finished"} THEN items[o][p] ELSE 0
    OBVIOUS
  <2>1. o \in OrderIds
    BY DEF OrderIds
  <2>2. items[o][p] \in Nat
    BY <2>1 DEF TypeOK
  <2> QED BY <2>1, <2>2 DEF QuantityIn
<1>4. C!Held(p) =
        Total([o \in 1..MaxOrders |->
                 IF status[o] \in {"pending", "paid", "finished"} THEN items[o][p] ELSE 0],
              MaxOrders)
  BY DEF C!Held, C!Holding, C!OrderIds, C!Total, C!RunningTotal, Total, RunningTotal
<1>5. C!Held(p) = Total(f, MaxOrders)
  <2> HIDE DEF f
  <2> QED BY <1>3, <1>4
<1> QED BY <1>2, <1>5 DEF LockedMatchesPending, SoldMatchesPaid

LEMMA ContractStep ==
  TypeOK /\ LedgerReconciles /\ StockConservation /\ LockedMatchesPending
    /\ SoldMatchesPaid /\ [Next]_vars => [C!ContractNext]_C!contractVars
<1> SUFFICES ASSUME TypeOK, LedgerReconciles, StockConservation, LockedMatchesPending,
                    SoldMatchesPaid, [Next]_vars
             PROVE  C!ContractNext \/ UNCHANGED C!contractVars
  OBVIOUS
<1>1. CASE Quiet
  BY <1>1 DEF Quiet, C!contractVars
<1>2. ASSUME NEW u \in Users, NEW k \in Keys, NEW r \in [Products -> Nat], NEW o \in OrderIds,
             Created(u, k, r, o)
      PROVE  C!ContractNext
  <2>1. \A p \in Products : C!Held(p) + r[p] <= inflow[p]
    <3> SUFFICES ASSUME NEW p \in Products PROVE C!Held(p) + r[p] <= inflow[p]
      OBVIOUS
    <3>1. C!Held(p) = locked[p] + sold[p]
      BY HeldIsLockedPlusSold
    <3>2. stock[p] + locked[p] + sold[p] = inflow[p]
      BY DEF StockConservation
    <3>3. r[p] <= stock[p] /\ r[p] \in Nat
      BY <1>2 DEF Created
    <3> QED BY <3>1, <3>2, <3>3 DEF TypeOK
  <2>2. items'[o] = r /\ items' = [items EXCEPT ![o] = r]
    BY <1>2 DEF Created, TypeOK
  <2>3. C!Place(o)
    BY <1>2, <2>1, <2>2 DEF Created, C!Place
  <2> QED BY <2>3 DEF C!ContractNext, C!OrderIds, OrderIds
<1>3. ASSUME NEW o \in OrderIds, Paid(o) \/ Finished(o) \/ Cancelled(o)
      PROVE  C!ContractNext
  <2>1. \/ C!Move(o, "pending", "paid") \/ C!Move(o, "paid", "finished")
        \/ C!Move(o, "pending", "cancelled")
    BY <1>3 DEF Paid, Finished, Cancelled, C!Move
  <2> QED BY <2>1 DEF C!ContractNext, C!OrderIds, OrderIds
<1>4. ASSUME NEW p \in Products, NEW q \in Nat, NEW biz \in {"init", "manual_add"},
             Received(p, q, biz)
      PROVE  C!ContractNext
  <2>1. C!StockIn(p)
    BY <1>4 DEF Received, TypeOK, C!StockIn
  <2> QED BY <2>1 DEF C!ContractNext
<1> QED BY <1>1, <1>2, <1>3, <1>4, Effects

(* The tables implement the contract: an order is only ever placed on      *)
(* goods that no other order holds (no overselling). *)
THEOREM ContractImplemented == Spec => ImplementsContract
<1>1. Init => C!ContractInit
  BY DEF Init, C!ContractInit, C!OrderIds, OrderIds, NoItems
<1> QED BY <1>1, ContractStep, TypeCorrect, LedgerCorrect, Conservation, LockedCorrect,
           SoldCorrect, PTL DEF Spec, ImplementsContract, C!Contract

-----------------------------------------------------------------------------
(* Stock is given back exactly once. *)

LEMMA EntriesAppend ==
  ASSUME TypeOK, NEW p \in Products, NEW row, stockLogs'[p] = Append(stockLogs[p], row),
         NEW biz, NEW o
  PROVE  Entries(p, biz, o)' =
           Entries(p, biz, o) \union
             (IF row.biz = biz /\ row.order = o THEN {Len(stockLogs[p]) + 1} ELSE {})
<1>1. stockLogs[p] \in Seq(LogRows)
  BY DEF TypeOK
<1>2. /\ Len(stockLogs'[p]) = Len(stockLogs[p]) + 1 /\ Len(stockLogs[p]) \in Nat
      /\ stockLogs'[p][Len(stockLogs[p]) + 1] = row
      /\ \A i \in 1..Len(stockLogs[p]) : stockLogs'[p][i] = stockLogs[p][i]
  BY <1>1
<1> QED BY <1>2 DEF Entries

(* RollbackExactlyOnce for one order and product. *)
Once(o, p) ==
  /\ \A i, j \in Entries(p, "order_deduct", o) : i = j
  /\ \A i, j \in Entries(p, "order_rollback", o) : i = j
  /\ Entries(p, "order_deduct", o) # {} <=> status[o] # "none" /\ items[o][p] > 0
  /\ Entries(p, "order_rollback", o) # {} <=> status[o] = "cancelled" /\ items[o][p] > 0

LEMMA RollbackIsOnce == RollbackExactlyOnce <=> \A o \in OrderIds, p \in Products : Once(o, p)
BY DEF RollbackExactlyOnce, Once, Lines

LEMMA OnceUnchanged ==
  ASSUME NEW o \in OrderIds, NEW p \in Products, Once(o, p),
         stockLogs'[p] = stockLogs[p], items'[o] = items[o],
         (status'[o] = "none") <=> (status[o] = "none"),
         (status'[o] = "cancelled") <=> (status[o] = "cancelled")
  PROVE  Once(o, p)'
<1>1. \A biz : Entries(p, biz, o)' = Entries(p, biz, o)
  BY DEF Entries
<1> QED BY <1>1 DEF Once

LEMMA RollbackStep == TypeOK /\ RollbackExactlyOnce /\ [Next]_vars => RollbackExactlyOnce'
<1> SUFFICES ASSUME TypeOK, RollbackExactlyOnce, [Next]_vars,
                    NEW oo \in OrderIds, NEW p \in Products
             PROVE  Once(oo, p)'
  BY DEF RollbackExactlyOnce, Once, Lines
<1>1. Once(oo, p) /\ oo # 0 /\ stockLogs[p] \in Seq(LogRows)
  BY RollbackIsOnce, LifecycleAssumption DEF OrderIds, TypeOK
<1>2. CASE Quiet
  BY <1>1, <1>2, OnceUnchanged DEF Quiet
<1>3. ASSUME NEW u \in Users, NEW k \in Keys, NEW r \in [Products -> Nat], NEW o \in OrderIds,
             Created(u, k, r, o)
      PROVE  Once(oo, p)'
  <2>1. oo # o => /\ status'[oo] = status[oo] /\ items'[oo] = items[oo]
    BY <1>3 DEF Created, TypeOK
  <2>2. oo = o => /\ status[oo] = "none" /\ status'[oo] = "pending" /\ items'[oo] = r
    BY <1>3 DEF Created, TypeOK
  <2>3. CASE r[p] = 0
    <3>1. stockLogs'[p] = stockLogs[p]
      BY <1>3, <2>3 DEF Created, LogItems, Lines
    <3>2. \A biz : Entries(p, biz, oo)' = Entries(p, biz, oo)
      BY <3>1 DEF Entries
    <3> QED BY <1>1, <2>1, <2>2, <2>3, <3>2 DEF Once
  <2>4. CASE r[p] > 0
    <3> DEFINE row == LogEntry("order_deduct", o, -1 * r[p], stock[p])
    <3>1. stockLogs'[p] = Append(stockLogs[p], row)
      BY <1>3, <2>4 DEF Created, LogItems, Lines
    <3>2. row.biz = "order_deduct" /\ row.order = o
      BY DEF LogEntry
    <3> HIDE DEF row
    <3>3. \A biz : Entries(p, biz, oo)' =
            Entries(p, biz, oo) \union
              (IF row.biz = biz /\ row.order = oo THEN {Len(stockLogs[p]) + 1} ELSE {})
      BY <3>1, EntriesAppend
    <3>4. CASE oo = o
      <4>1. Entries(p, "order_deduct", oo) = {} /\ Entries(p, "order_rollback", oo) = {}
        BY <1>1, <2>2, <3>4 DEF Once
      <4>2. /\ Entries(p, "order_deduct", oo)' = {Len(stockLogs[p]) + 1}
            /\ Entries(p, "order_rollback", oo)' = {}
        BY <3>2, <3>3, <3>4, <4>1
      <4> QED BY <2>2, <2>4, <3>4, <4>2 DEF Once
    <3>5. CASE oo # o
      <4>1. \A biz : Entries(p, biz, oo)' = Entries(p, biz, oo)
        BY <3>2, <3>3, <3>5
      <4> QED BY <1>1, <2>1, <3>5, <4>1 DEF Once
    <3> QED BY <3>4, <3>5
  <2> QED BY <2>3, <2>4
<1>4. ASSUME NEW o \in OrderIds, Paid(o) \/ Finished(o)
      PROVE  Once(oo, p)'
  <2>1. /\ stockLogs'[p] = stockLogs[p] /\ items'[oo] = items[oo]
        /\ (status'[oo] = "none") <=> (status[oo] = "none")
        /\ (status'[oo] = "cancelled") <=> (status[oo] = "cancelled")
    BY <1>4 DEF Paid, Finished, TypeOK
  <2> QED BY <1>1, <2>1, OnceUnchanged
<1>5. ASSUME NEW o \in OrderIds, Cancelled(o)
      PROVE  Once(oo, p)'
  <2>0. items[o][p] \in Nat /\ UNCHANGED items
    BY <1>5 DEF TypeOK, Cancelled
  <2>1. oo # o => status'[oo] = status[oo]
    BY <1>5 DEF Cancelled, TypeOK
  <2>2. oo = o => status[oo] = "pending" /\ status'[oo] = "cancelled"
    BY <1>5 DEF Cancelled, TypeOK
  <2>3. CASE items[o][p] = 0
    <3>1. stockLogs'[p] = stockLogs[p]
      BY <1>5, <2>3 DEF Cancelled, LogItems, Lines
    <3>2. \A biz : Entries(p, biz, oo)' = Entries(p, biz, oo)
      BY <3>1 DEF Entries
    <3> QED BY <1>1, <2>0, <2>1, <2>2, <2>3, <3>2 DEF Once
  <2>4. CASE items[o][p] > 0
    <3> DEFINE row == LogEntry("order_rollback", o, 1 * items[o][p], stock[p])
    <3>1. stockLogs'[p] = Append(stockLogs[p], row)
      BY <1>5, <2>4 DEF Cancelled, LogItems, Lines
    <3>2. row.biz = "order_rollback" /\ row.order = o
      BY DEF LogEntry
    <3> HIDE DEF row
    <3>3. \A biz : Entries(p, biz, oo)' =
            Entries(p, biz, oo) \union
              (IF row.biz = biz /\ row.order = oo THEN {Len(stockLogs[p]) + 1} ELSE {})
      BY <3>1, EntriesAppend
    <3>4. CASE oo = o
      <4>1. Entries(p, "order_rollback", oo) = {}
        BY <1>1, <2>2, <3>4 DEF Once
      <4>2. Entries(p, "order_rollback", oo)' = {Len(stockLogs[p]) + 1}
        BY <3>2, <3>3, <3>4, <4>1
      <4>3. row.biz # "order_deduct"
        BY <3>2
      <4>4. Entries(p, "order_deduct", oo)' = Entries(p, "order_deduct", oo)
        BY <3>3, <4>3
      <4> QED BY <1>1, <2>0, <2>2, <2>4, <3>4, <4>2, <4>4 DEF Once
    <3>5. CASE oo # o
      <4>1. \A biz : Entries(p, biz, oo)' = Entries(p, biz, oo)
        BY <3>2, <3>3, <3>5
      <4> QED BY <1>1, <2>0, <2>1, <3>5, <4>1 DEF Once
    <3> QED BY <3>4, <3>5
  <2> QED BY <2>0, <2>3, <2>4
<1>6. ASSUME NEW pp \in Products, NEW q \in Nat, NEW biz \in {"init", "manual_add"},
             Received(pp, q, biz)
      PROVE  Once(oo, p)'
  <2>1. CASE pp # p
    <3>1. stockLogs'[p] = stockLogs[p] /\ UNCHANGED <<status, items>>
      BY <1>6, <2>1 DEF TypeOK, Received, LogProduct
    <3>2. items'[oo] = items[oo] /\ status'[oo] = status[oo]
      BY <3>1
    <3> QED BY <1>1, <3>1, <3>2, OnceUnchanged
  <2>2. CASE pp = p
    <3> DEFINE row == LogEntry(biz, 0, q, stock[p])
    <3>1. stockLogs'[p] = Append(stockLogs[p], row) /\ UNCHANGED <<status, items>>
      BY <1>6, <2>2 DEF TypeOK, Received, LogProduct
    <3>2. row.order = 0
      BY DEF LogEntry
    <3> HIDE DEF row
    <3>3. \A b : Entries(p, b, oo)' =
            Entries(p, b, oo) \union
              (IF row.biz = b /\ row.order = oo THEN {Len(stockLogs[p]) + 1} ELSE {})
      BY <3>1, EntriesAppend
    <3>4. \A b : Entries(p, b, oo)' = Entries(p, b, oo)
      BY <1>1, <3>2, <3>3
    <3> QED BY <1>1, <3>1, <3>4 DEF Once
  <2> QED BY <2>1, <2>2
<1> QED BY <1>2, <1>3, <1>4, <1>5, <1>6, Effects

(* An order's stock is given back once if it is cancelled, by the user or  *)
(* by the timeout worker, and never otherwise. *)
THEOREM RollbackCorrect == Spec => []RollbackExactlyOnce
<1>1. Init => RollbackExactlyOnce
  BY DEF Init, RollbackExactlyOnce, Entries, Lines, NoItems
<1> QED BY <1>1, RollbackStep, TypeCorrect, PTL DEF Spec
=============================================================================
