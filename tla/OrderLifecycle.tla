--------------------------- MODULE OrderLifecycle ---------------------------
(***************************************************************************)
(* The order service and its MySQL tables: orders, order_items,            *)
(* product_inventories, stock_logs, order_idempotency_keys and the timeout *)
(* outbox.                                                                 *)
(*                                                                         *)
(* A transaction takes effect at its commit, in one step: it locks every   *)
(* row it writes (SELECT ... FOR UPDATE, or a conditional UPDATE) until    *)
(* then.  What it read before without a lock is a step of its own, so that *)
(* the products, the order, or the inventory row, may have changed in      *)
(* between.                                                                *)
(*                                                                         *)
(* A request that is refused, and a transaction that fails, leaves no      *)
(* trace in the tables.  The Redis side of the same operations is in       *)
(* GuardedOrders.                                                          *)
(***************************************************************************)
EXTENDS Integers, Sequences, Totals

CONSTANTS Users, Keys, Products,
          NoUser,           \* the user of an order that does not exist
          Handlers,         \* requests (goroutines) that can run at a time
          Requests,         \* the item lists clients send
          Quantities,       \* the quantities staff put into stock
          MaxOrders,        \* bound: orders ever created
          MaxInflow         \* bound: goods ever received of a product

(* An item list gives the quantity of each product, 0 when the product is  *)
(* not in the list; a product is never listed twice. *)
ASSUME LifecycleAssumption ==
  /\ MaxOrders \in Nat
  /\ MaxInflow \in Nat
  /\ NoUser \notin Users
  /\ Requests \subseteq [Products -> Nat]
  /\ Quantities \subseteq Nat

OrderIds == 1..MaxOrders

Statuses == {"none", "pending", "paid", "finished", "cancelled"}

NoItems == [p \in Products |-> 0]

(* The products of an item list. *)
Lines(r) == {p \in Products : r[p] > 0}

(* The key of a request that was never completed. *)
NoKey == [order |-> 0, request |-> NoItems]

Idle == [op |-> "idle"]

VARIABLES
  onSale,       \* products with status on-sale
  initialized,  \* products that have a product_inventories row
  stock,        \* product_inventories.stock_quantity
  locked,       \* product_inventories.locked_quantity
  status,       \* orders.status, "none" for an id that is not a row
  owner,        \* orders.user_id
  items,        \* order_items
  idem,         \* order_idempotency_keys, by user and key
  stockLogs,    \* stock_logs, by product, in the order of their ids
  outbox,       \* orders with an order_timeout_outbox row
  due,          \* orders whose timeout_at has passed
  act,          \* what each handler has read and is about to write
  inflow,       \* history: goods received, by initialisation and addition
  sold,         \* history: goods consumed by payments
  answers       \* history: the orders returned to a user for a key

inventories == <<initialized, stock, locked>>
orders == <<status, owner, items>>
history == <<inflow, sold, answers>>
vars == <<onSale, inventories, orders, idem, stockLogs, outbox, due, act, history>>

(* The effects of the data access objects.  The conditions are the WHERE   *)
(* clauses: when one fails no row is affected and the caller rolls back. *)

(* Defect: UPDATE ... WHERE id = ? without the status condition. *)
PatchAnyStatus(u, o, from, to) ==
  /\ owner[o] = u
  /\ status' = [status EXCEPT ![o] = to]
  /\ UNCHANGED <<owner, items>>

PatchOrderStatus(u, o, from, to) ==
  /\ owner[o] = u
  /\ status[o] = from
  /\ status' = [status EXCEPT ![o] = to]
  /\ UNCHANGED <<owner, items>>

(* Defect: the stock is compared with zero instead of the quantity. *)
ReserveAnyStock(r) ==
  /\ \A p \in Lines(r) : p \in initialized /\ stock[p] >= 0
  /\ stock' = [p \in Products |-> stock[p] - r[p]]
  /\ locked' = [p \in Products |-> locked[p] + r[p]]
  /\ UNCHANGED initialized

(* Defect: only stock_quantity is updated, as DeductInventory does. *)
ReserveWithoutLock(r) ==
  /\ \A p \in Lines(r) : p \in initialized /\ stock[p] >= r[p]
  /\ stock' = [p \in Products |-> stock[p] - r[p]]
  /\ UNCHANGED <<initialized, locked>>

ReserveInventory(r) ==
  /\ \A p \in Lines(r) : p \in initialized /\ stock[p] >= r[p]
  /\ stock' = [p \in Products |-> stock[p] - r[p]]
  /\ locked' = [p \in Products |-> locked[p] + r[p]]
  /\ UNCHANGED initialized

(* Defect: the stock is given back and stays locked. *)
ReleaseKeepingLock(r) ==
  /\ \A p \in Lines(r) : p \in initialized /\ locked[p] >= r[p]
  /\ stock' = [p \in Products |-> stock[p] + r[p]]
  /\ UNCHANGED <<initialized, locked>>

ReleaseLockedInventory(r) ==
  /\ \A p \in Lines(r) : p \in initialized /\ locked[p] >= r[p]
  /\ stock' = [p \in Products |-> stock[p] + r[p]]
  /\ locked' = [p \in Products |-> locked[p] - r[p]]
  /\ UNCHANGED initialized

ConsumeLockedInventory(r) ==
  /\ \A p \in Lines(r) : p \in initialized /\ locked[p] >= r[p]
  /\ locked' = [p \in Products |-> locked[p] - r[p]]
  /\ UNCHANGED <<initialized, stock>>

(* One stock log for each product of r, with the stock before and after. *)
LogEntry(biz, o, change, before) ==
  [biz |-> biz, order |-> o, change |-> change,
   before |-> before, after |-> before + change]

(* Defect: the stock is read after the update it documents. *)
LogItemsLate(biz, o, r, sign) ==
  stockLogs' = [p \in Products |->
                  IF p \in Lines(r)
                  THEN Append(stockLogs[p], LogEntry(biz, o, sign * r[p], stock'[p]))
                  ELSE stockLogs[p]]

LogItems(biz, o, r, sign) ==
  stockLogs' = [p \in Products |->
                  IF p \in Lines(r)
                  THEN Append(stockLogs[p], LogEntry(biz, o, sign * r[p], stock[p]))
                  ELSE stockLogs[p]]

LogProduct(biz, p, q) ==
  stockLogs' = [stockLogs EXCEPT ![p] = Append(@, LogEntry(biz, 0, q, stock[p]))]

(* TryCreateOrderIdempotencyKey: the unique index lets one insert win.  *)

(* Defect: without the unique index every insert wins, and completes the   *)
(* row it inserted. *)
AcquireAlways(u, k) == TRUE

AcquireKey(u, k) == idem[<<u, k>>] = NoKey

(* The row a transaction inserted stays locked until it ends: another      *)
(* insert of the key waits for it. *)
KeyHeld(u, k) ==
  \E g \in Handlers : act[g].op = "create" /\ act[g].user = u /\ act[g].key = k

(* UPDATE ... SET status = created, order_id = ? WHERE status = creating. *)
CompleteOrderIdempotencyKey(u, k, o, r) ==
  /\ AcquireKey(u, k)
  /\ idem' = [idem EXCEPT ![<<u, k>>] = [order |-> o, request |-> r]]

-----------------------------------------------------------------------------
Init ==
  /\ onSale = {}
  /\ initialized = {}
  /\ stock = NoItems
  /\ locked = NoItems
  /\ status = [o \in OrderIds |-> "none"]
  /\ owner = [o \in OrderIds |-> NoUser]
  /\ items = [o \in OrderIds |-> NoItems]
  /\ idem = [uk \in Users \X Keys |-> NoKey]
  /\ stockLogs = [p \in Products |-> <<>>]
  /\ outbox = {}
  /\ due = {}
  /\ act = [h \in Handlers |-> Idle]
  /\ inflow = NoItems
  /\ sold = NoItems
  /\ answers = [uk \in Users \X Keys |-> {}]

(* POST /orders with a key that is new: the transaction inserts the key    *)
(* and reads the products, which must all be on sale, without a lock. *)
BeginCreate(h, u, k, r) ==
  /\ act[h] = Idle
  /\ AcquireKey(u, k)
  /\ ~ KeyHeld(u, k)
  /\ Lines(r) \subseteq onSale
  /\ act' = [act EXCEPT ![h] = [op |-> "create", user |-> u, key |-> k, request |-> r]]
  /\ UNCHANGED <<onSale, inventories, orders, idem, stockLogs, outbox, due, history>>

(* Its commit: the order, its items, the reservation of the stock, one log *)
(* per product, the completed key and the outbox row.  A product may have  *)
(* gone off sale in between. *)
CommitCreate(h) ==
  /\ act[h].op = "create"
  /\ LET u == act[h].user
         k == act[h].key
         r == act[h].request IN
       /\ ReserveInventory(r)
       /\ \E o \in OrderIds :
            /\ status[o] = "none"
            /\ status' = [status EXCEPT ![o] = "pending"]
            /\ owner' = [owner EXCEPT ![o] = u]
            /\ items' = [items EXCEPT ![o] = r]
            /\ LogItems("order_deduct", o, r, -1)
            /\ CompleteOrderIdempotencyKey(u, k, o, r)
            /\ outbox' = outbox \union {o}
            /\ answers' = [answers EXCEPT ![<<u, k>>] = @ \union {o}]
  /\ act' = [act EXCEPT ![h] = Idle]
  /\ UNCHANGED <<onSale, due, inflow, sold>>

(* POST /orders with a key that is already completed: a different item     *)
(* list is refused, the same one is answered with the order it created.    *)
ReplayOrder(u, k, r) ==
  /\ ~ AcquireKey(u, k)
  /\ idem[<<u, k>>].request = r
  /\ idem[<<u, k>>].order \in OrderIds
  /\ owner[idem[<<u, k>>].order] = u
  /\ answers' = [answers EXCEPT ![<<u, k>>] = @ \union {idem[<<u, k>>].order}]
  /\ UNCHANGED <<onSale, inventories, orders, idem, stockLogs, outbox, due, act,
                 inflow, sold>>

(* A handler reads the order, without a lock, and goes on only when its    *)
(* status allows the operation. *)
Begin(h, op, u, o, from) ==
  /\ act[h] = Idle
  /\ owner[o] = u
  /\ status[o] = from
  /\ act' = [act EXCEPT ![h] = [op |-> op, user |-> u, order |-> o]]
  /\ UNCHANGED <<onSale, inventories, orders, idem, stockLogs, outbox, due, history>>

BeginPay(h, u, o) == Begin(h, "pay", u, o, "pending")

BeginFinish(h, u, o) == Begin(h, "finish", u, o, "paid")

BeginCancel(h, u, o) == Begin(h, "cancel", u, o, "pending")

(* The timeout worker only goes on for an order that has an outbox row     *)
(* whose deadline has passed; it acts for the user of the order. *)
BeginCancelExpired(h, u, o) ==
  /\ o \in outbox
  /\ o \in due
  /\ Begin(h, "expire", u, o, "pending")

CommitPay(h) ==
  /\ act[h].op = "pay"
  /\ LET o == act[h].order IN
       /\ PatchOrderStatus(act[h].user, o, "pending", "paid")
       /\ ConsumeLockedInventory(items[o])
       /\ sold' = [p \in Products |-> sold[p] + items[o][p]]
  /\ act' = [act EXCEPT ![h] = Idle]
  /\ UNCHANGED <<onSale, idem, stockLogs, outbox, due, inflow, answers>>

CommitFinish(h) ==
  /\ act[h].op = "finish"
  /\ PatchOrderStatus(act[h].user, act[h].order, "paid", "finished")
  /\ act' = [act EXCEPT ![h] = Idle]
  /\ UNCHANGED <<onSale, inventories, idem, stockLogs, outbox, due, history>>

(* Defect: cancelPendingOrder goes on when no row was patched. *)
CancelUnpatched(h) ==
  /\ act[h].op \in {"cancel", "expire"}
  /\ LET o == act[h].order IN
       /\ status' = [status EXCEPT ![o] = IF @ = "pending" THEN "cancelled" ELSE @]
       /\ ReleaseLockedInventory(items[o])
       /\ LogItems("order_rollback", o, items[o], 1)
  /\ act' = [act EXCEPT ![h] = Idle]
  /\ UNCHANGED <<onSale, owner, items, idem, outbox, due, history>>

(* cancelPendingOrder, for the user and for the timeout worker. *)
CommitCancel(h) ==
  /\ act[h].op \in {"cancel", "expire"}
  /\ LET o == act[h].order IN
       /\ PatchOrderStatus(act[h].user, o, "pending", "cancelled")
       /\ ReleaseLockedInventory(items[o])
       /\ LogItems("order_rollback", o, items[o], 1)
  /\ act' = [act EXCEPT ![h] = Idle]
  /\ UNCHANGED <<onSale, idem, outbox, due, history>>

(* Staff initialise the stock of a product: the row must not exist when it *)
(* is read, and must still not exist when it is inserted (product_id is    *)
(* unique). *)
BeginInitInventory(h, p, q) ==
  /\ act[h] = Idle
  /\ p \notin initialized
  /\ act' = [act EXCEPT ![h] = [op |-> "init", product |-> p, quantity |-> q]]
  /\ UNCHANGED <<onSale, inventories, orders, idem, stockLogs, outbox, due, history>>

CommitInitInventory(h) ==
  /\ act[h].op = "init"
  /\ LET p == act[h].product
         q == act[h].quantity IN
       /\ p \notin initialized
       /\ inflow[p] + q <= MaxInflow
       /\ initialized' = initialized \union {p}
       /\ stock' = [stock EXCEPT ![p] = q]
       /\ LogProduct("init", p, q)
       /\ inflow' = [inflow EXCEPT ![p] = @ + q]
  /\ act' = [act EXCEPT ![h] = Idle]
  /\ UNCHANGED <<onSale, locked, orders, idem, outbox, due, sold, answers>>

(* Staff add goods to a product that has a row. *)
AddInventory(p, q) ==
  /\ q > 0
  /\ p \in initialized
  /\ inflow[p] + q <= MaxInflow
  /\ stock' = [stock EXCEPT ![p] = @ + q]
  /\ LogProduct("manual_add", p, q)
  /\ inflow' = [inflow EXCEPT ![p] = @ + q]
  /\ UNCHANGED <<onSale, initialized, locked, orders, idem, outbox, due, act,
                 sold, answers>>

(* The handler gives up: the conditional write affected no row, the        *)
(* database failed, the request timed out or the process stopped.  The     *)
(* transaction is rolled back. *)
Abort(h) ==
  /\ act[h] # Idle
  /\ act' = [act EXCEPT ![h] = Idle]
  /\ UNCHANGED <<onSale, inventories, orders, idem, stockLogs, outbox, due, history>>

OnSaleProduct(p) ==
  /\ p \notin onSale
  /\ onSale' = onSale \union {p}
  /\ UNCHANGED <<inventories, orders, idem, stockLogs, outbox, due, act, history>>

OffSaleProduct(p) ==
  /\ p \in onSale
  /\ onSale' = onSale \ {p}
  /\ UNCHANGED <<inventories, orders, idem, stockLogs, outbox, due, act, history>>

(* The clock passes the deadline of an order. *)
Deadline(o) ==
  /\ o \in outbox \ due
  /\ due' = due \union {o}
  /\ UNCHANGED <<onSale, inventories, orders, idem, stockLogs, outbox, act, history>>

Next ==
  \/ \E u \in Users, k \in Keys, r \in Requests :
       \/ \E h \in Handlers : BeginCreate(h, u, k, r)
       \/ ReplayOrder(u, k, r)
  \/ \E h \in Handlers, u \in Users, o \in OrderIds :
       \/ BeginPay(h, u, o)
       \/ BeginFinish(h, u, o)
       \/ BeginCancel(h, u, o)
       \/ BeginCancelExpired(h, u, o)
  \/ \E h \in Handlers :
       \/ CommitCreate(h)
       \/ CommitPay(h)
       \/ CommitFinish(h)
       \/ CommitCancel(h)
       \/ CommitInitInventory(h)
       \/ Abort(h)
  \/ \E h \in Handlers, p \in Products, q \in Quantities : BeginInitInventory(h, p, q)
  \/ \E p \in Products, q \in Quantities : AddInventory(p, q)
  \/ \E p \in Products : OnSaleProduct(p) \/ OffSaleProduct(p)
  \/ \E o \in OrderIds : Deadline(o)

Spec == Init /\ [][Next]_vars

-----------------------------------------------------------------------------
Biz == {"init", "manual_add", "order_deduct", "order_rollback"}

LogRows == [biz : Biz, order : 0..MaxOrders, change : Int, before : Nat, after : Nat]

CreateCalls == [op : {"create"}, user : Users, key : Keys, request : Requests]

OrderCalls == [op : {"pay", "finish", "cancel", "expire"}, user : Users, order : OrderIds]

InitCalls == [op : {"init"}, product : Products, quantity : Quantities]

(* Every column holds a value of its type; the CHECK constraints of the    *)
(* inventories table (no negative stock or locked quantity) and of         *)
(* stock_logs are part of it. *)
TypeOK ==
  /\ onSale \subseteq Products
  /\ initialized \subseteq Products
  /\ stock \in [Products -> Nat]
  /\ locked \in [Products -> Nat]
  /\ status \in [OrderIds -> Statuses]
  /\ owner \in [OrderIds -> Users \union {NoUser}]
  /\ items \in [OrderIds -> [Products -> Nat]]
  /\ idem \in [Users \X Keys -> [order : 0..MaxOrders, request : [Products -> Nat]]]
  /\ stockLogs \in [Products -> Seq(LogRows)]
  /\ outbox \subseteq OrderIds
  /\ due \subseteq OrderIds
  /\ act \in [Handlers -> {Idle} \union CreateCalls \union OrderCalls \union InitCalls]
  /\ inflow \in [Products -> Nat]
  /\ sold \in [Products -> Nat]
  /\ answers \in [Users \X Keys -> SUBSET OrderIds]

(* No goods appear or disappear: what ever came in is on the shelf, locked *)
(* by a pending order or sold, whatever creations, payments, cancellations *)
(* and timeouts raced. *)
StockConservation ==
  \A p \in Products : stock[p] + locked[p] + sold[p] = inflow[p]

(* The quantity of product p in each order with a status in S, else 0. *)
QuantityIn(S, p) ==
  [o \in OrderIds |-> IF status[o] \in S THEN items[o][p] ELSE 0]

(* locked_quantity is exactly what the pending orders contain, so that the *)
(* conditional release or consumption of a pending order never fails.      *)
LockedMatchesPending ==
  \A p \in Products :
    locked[p] = Total(QuantityIn({"pending"}, p), MaxOrders)

(* What was consumed is exactly what the paid and finished orders contain: *)
(* a payment that races a cancellation or another payment never consumes   *)
(* twice, and none consumes for an order that ends up cancelled.           *)
SoldMatchesPaid ==
  \A p \in Products :
    sold[p] = Total(QuantityIn({"paid", "finished"}, p), MaxOrders)

(* The stock logs of a product form an unbroken account of its stock: they *)
(* start from zero, each entry starts where the one before it ended, and   *)
(* the last one ends with the current stock. *)
LedgerReconciles ==
  \A p \in Products :
    LET logs == stockLogs[p] IN
      /\ (logs = <<>>) <=> (p \notin initialized)
      /\ logs = <<>> => stock[p] = 0
      /\ logs # <<>> => logs[1].before = 0 /\ logs[Len(logs)].after = stock[p]
      /\ \A i \in 1..Len(logs) - 1 : logs[i + 1].before = logs[i].after

(* The places in the logs of product p of order o's entries of kind biz. *)
Entries(p, biz, o) ==
  {i \in 1..Len(stockLogs[p]) : stockLogs[p][i].biz = biz /\ stockLogs[p][i].order = o}

(* For each order and product there is one deduction entry, and there is   *)
(* one rollback entry if and only if the order is cancelled: stock is      *)
(* given back exactly once. *)
RollbackExactlyOnce ==
  \A o \in OrderIds, p \in Products :
    /\ \A biz \in {"order_deduct", "order_rollback"} :
         \A i, j \in Entries(p, biz, o) : i = j
    /\ Entries(p, "order_deduct", o) # {} <=> status[o] # "none" /\ p \in Lines(items[o])
    /\ Entries(p, "order_rollback", o) # {} <=> status[o] = "cancelled" /\ p \in Lines(items[o])

(* Orders and completed keys correspond one to one: every order was made   *)
(* for exactly one key, by the user it belongs to, with the items whose    *)
(* hash the key stores; and a user never got two different orders for one  *)
(* key. *)
OneOrderPerKey ==
  /\ \A o \in OrderIds :
       status[o] # "none" =>
         \E uk \in Users \X Keys : /\ idem[uk] = [order |-> o, request |-> items[o]]
                                   /\ uk[1] = owner[o]
                                   /\ \A vk \in Users \X Keys : idem[vk].order = o => vk = uk
  /\ \A uk \in Users \X Keys : answers[uk] \subseteq {idem[uk].order}

(* An order moves only along pending -> paid -> finished and pending ->    *)
(* cancelled, its user and items never change, and it never disappears,    *)
(* whatever a handler had read before. *)
Edges == {<<"none", "pending">>, <<"pending", "paid">>, <<"paid", "finished">>,
          <<"pending", "cancelled">>}

StatusTransitions ==
  [][\A o \in OrderIds :
       /\ status'[o] # status[o] => <<status[o], status'[o]>> \in Edges
       /\ status[o] # "none" => owner'[o] = owner[o] /\ items'[o] = items[o]]_vars

(* The refinement mapping: the contract is about the order table and the   *)
(* deliveries alone. *)
C == INSTANCE OrderContract WITH status <- status, items <- items, inflow <- inflow,
                                Products <- Products, MaxOrders <- MaxOrders

(* The tables implement the contract: orders are only placed on goods that *)
(* no other order holds. *)
ImplementsContract == C!Contract
=============================================================================
