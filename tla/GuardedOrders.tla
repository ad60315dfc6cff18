---------------------------- MODULE GuardedOrders ----------------------------
(***************************************************************************)
(* The order and inventory services together with the Redis stock guard.   *)
(*                                                                         *)
(* Redis keeps, for each product, a counter of what can still be sold and, *)
(* for each order, a reservation: what was taken from the counters for it. *)
(* MySQL stays the authority.  A request touches the two stores in         *)
(* separate steps, and may stop, or lose a call, between them:             *)
(*                                                                         *)
(*   create   pre-deduct in Redis; transaction; release if it failed       *)
(*   cancel   transaction; release                                         *)
(*   pay      transaction; delete the reservation                          *)
(*   add      transaction; increment the counter                           *)
(*   init     transaction; set the counter                                 *)
(*   repair   list MySQL; read Redis; set the counters, one at a time      *)
(*                                                                         *)
(* A Redis script runs in one step.  The transactions are those of         *)
(* OrderLifecycle, seen from the stock: locked_quantity is left out, since *)
(* the release and the consumption of a pending order never fail on it     *)
(* (theorem PendingIsReleasable), and so are the logs and the sale status. *)
(***************************************************************************)
EXTENDS Integers, Totals

CONSTANTS Products,      \* product ids
          Keys,          \* idempotency keys, each of one user
          MaxHandlers,   \* bound: requests (goroutines) that run at a time
          Repairers,     \* the processes that compare or rebuild the counters
          Requests,      \* the item lists clients send
          Additions,     \* the quantities staff put into stock
          Opened,        \* products initialised, and cached, at the start
          Opening,       \* the stock of each of them
          AutoFix,       \* the reconciliation worker writes what differs
          Faults,        \* the kinds of fault that happen
          MaxOrders,     \* bound: order numbers handed out
          MaxInflow,     \* bound: goods ever received of a product
          MaxFaults      \* bound: faults and rebuilds in one behaviour

ASSUME GuardAssumption ==
  /\ Products \subseteq Nat
  /\ Requests \subseteq [Products -> Nat]
  /\ Additions \subseteq Nat
  /\ Opened \subseteq Products
  /\ Opening \in Nat
  /\ AutoFix \in BOOLEAN
  /\ MaxHandlers \in Nat
  /\ MaxOrders \in Nat
  /\ MaxInflow \in Nat
  /\ MaxFaults \in Nat

OrderIds == 1..MaxOrders

Handlers == 1..MaxHandlers

NoItems == [p \in Products |-> 0]

Lines(r) == {p \in Products : r[p] > 0}

NoKey == [order |-> 0, request |-> NoItems]

Idle == [op |-> "idle"]

VARIABLES
  initialized,  \* products that have a product_inventories row
  stock,        \* product_inventories.stock_quantity
  status,       \* orders.status
  items,        \* order_items
  idem,         \* order_idempotency_keys
  inflow,       \* history: goods received
  cached,       \* products whose counter exists in Redis
  avail,        \* the counters
  reserved,     \* the reservations, NoItems when there is no key
  nextId,       \* the next order number the generator hands out
  proc,         \* what each handler is doing
  repair,       \* what each repairer is doing
  faults        \* how many faults and rebuilds there were

mysql == <<initialized, stock, status, items, idem, inflow>>
redis == <<cached, avail, reserved>>
vars == <<mysql, redis, nextId, proc, repair, faults>>

Init ==
  /\ initialized = Opened
  /\ stock = [p \in Products |-> IF p \in Opened THEN Opening ELSE 0]
  /\ status = [o \in OrderIds |-> "none"]
  /\ items = [o \in OrderIds |-> NoItems]
  /\ idem = [k \in Keys |-> NoKey]
  /\ inflow = stock
  /\ cached = Opened
  /\ avail = stock
  /\ reserved = [o \in OrderIds |-> NoItems]
  /\ nextId = 1
  /\ proc = [h \in Handlers |-> Idle]
  /\ repair = [w \in Repairers |-> Idle]
  /\ faults = 0

-----------------------------------------------------------------------------
(* The scripts and commands that run inside Redis. *)

(* preDeductInventoryScript leaves a reservation that exists as it is (the *)
(* call was repeated).  Otherwise it looks at the items in the order of    *)
(* their product ids and stops at the first one that has no counter (the   *)
(* guard does not apply) or not enough of it (the request is refused). *)
HasReservation(o) == reserved[o] # NoItems

Enough(r, p) == p \in cached /\ avail[p] >= r[p]

(* Defect: the script only asks whether the counters exist. *)
AppliesIfCached(o, r) == HasReservation(o) \/ Lines(r) \subseteq cached

PreDeductApplies(o, r) == HasReservation(o) \/ \A p \in Lines(r) : Enough(r, p)

PreDeductRefuses(o, r) ==
  /\ ~ HasReservation(o)
  /\ \E p \in Lines(r) : /\ p \in cached
                         /\ avail[p] < r[p]
                         /\ \A q \in Lines(r) : q < p => Enough(r, q)

PreDeduct(o, r) ==
  \/ HasReservation(o) /\ UNCHANGED redis
  \/ /\ ~ HasReservation(o)
     /\ avail' = [p \in Products |-> avail[p] - r[p]]
     /\ reserved' = [reserved EXCEPT ![o] = r]
     /\ UNCHANGED cached

(* Defect: the script gives the stock back and keeps the reservation. *)
ReleaseKeepingKey(o) ==
  /\ avail' = [p \in Products |->
                 IF p \in cached THEN avail[p] + reserved[o][p] ELSE avail[p]]
  /\ UNCHANGED <<cached, reserved>>

ReleaseReservation(o) ==
  /\ avail' = [p \in Products |->
                 IF p \in cached THEN avail[p] + reserved[o][p] ELSE avail[p]]
  /\ reserved' = [reserved EXCEPT ![o] = NoItems]
  /\ UNCHANGED cached

ConfirmReservation(o) ==
  /\ reserved' = [reserved EXCEPT ![o] = NoItems]
  /\ UNCHANGED <<cached, avail>>

SetInventoryStock(p, q) ==
  /\ cached' = cached \union {p}
  /\ avail' = [avail EXCEPT ![p] = q]
  /\ UNCHANGED reserved

(* Defect: the counter is set to the stock the transaction wrote. *)
IncrBySetting(p, delta, fallback) == SetInventoryStock(p, fallback)

IncrInventoryStock(p, delta, fallback) ==
  SetInventoryStock(p, IF p \in cached THEN avail[p] + delta ELSE fallback)

(* What the Redis call a handler has come to does. *)
RedisCalls == {"release", "confirm", "incr", "set"}

Executes(c) ==
  CASE c.op = "release" -> ReleaseReservation(c.order)
    [] c.op = "confirm" -> ConfirmReservation(c.order)
    [] c.op = "incr"    -> IncrInventoryStock(c.product, c.delta, c.fallback)
    [] c.op = "set"     -> SetInventoryStock(c.product, c.quantity)

-----------------------------------------------------------------------------
(* POST /orders.  An order number is drawn and the stock is pre-deducted   *)
(* before MySQL is asked anything. *)
Goes(h, c) == proc' = [proc EXCEPT ![h] = c]

Creating(o, k, r, applied) ==
  [op |-> "create", key |-> k, request |-> r, order |-> o, applied |-> applied]

Draw(h) ==
  /\ proc[h] = Idle
  /\ nextId \in OrderIds
  /\ nextId' = nextId + 1
  /\ UNCHANGED <<mysql, repair>>

ReserveForOrder(h, k, r) ==
  /\ Draw(h)
  /\ PreDeductApplies(nextId, r)
  /\ PreDeduct(nextId, r)
  /\ Goes(h, Creating(nextId, k, r, TRUE))
  /\ UNCHANGED faults

SkipGuard(h, k, r) ==
  /\ Draw(h)
  /\ ~ PreDeductApplies(nextId, r)
  /\ ~ PreDeductRefuses(nextId, r)
  /\ Goes(h, Creating(nextId, k, r, FALSE))
  /\ UNCHANGED <<redis, faults>>

(* The request is answered "insufficient stock" and never reaches MySQL. *)
RefuseOrder(h, k, r) ==
  /\ Draw(h)
  /\ PreDeductRefuses(nextId, r)
  /\ Goes(h, [op |-> "refused", key |-> k, request |-> r])
  /\ UNCHANGED <<redis, faults>>

Respond(h) ==
  /\ proc[h].op = "refused"
  /\ Goes(h, Idle)
  /\ UNCHANGED <<mysql, redis, nextId, repair, faults>>

(* Defect: the transaction relies on the guard for the stock. *)
PlacedUnchecked(c) ==
  /\ idem[c.key] = NoKey
  /\ status' = [status EXCEPT ![c.order] = "pending"]
  /\ items' = [items EXCEPT ![c.order] = c.request]
  /\ stock' = [p \in Products |-> stock[p] - c.request[p]]
  /\ idem' = [idem EXCEPT ![c.key] = [order |-> c.order, request |-> c.request]]
  /\ UNCHANGED <<initialized, inflow>>

(* The transaction of a creation that holds a new key. *)
Placed(c) ==
  /\ idem[c.key] = NoKey
  /\ \A p \in Lines(c.request) : p \in initialized /\ stock[p] >= c.request[p]
  /\ status' = [status EXCEPT ![c.order] = "pending"]
  /\ items' = [items EXCEPT ![c.order] = c.request]
  /\ stock' = [p \in Products |-> stock[p] - c.request[p]]
  /\ idem' = [idem EXCEPT ![c.key] = [order |-> c.order, request |-> c.request]]
  /\ UNCHANGED <<initialized, inflow>>

CommitOrder(h) ==
  /\ proc[h].op = "create"
  /\ Placed(proc[h])
  /\ Goes(h, Idle)
  /\ UNCHANGED <<redis, nextId, repair, faults>>

(* Every other end of the transaction: the key is completed and its order  *)
(* is returned, the key is taken or was used for other items, a product is *)
(* off sale or out of stock, the database fails, the request times out.    *)
(* What was pre-deducted for the number drawn is given back. *)

(* Defect: the pre-deduction is not given back. *)
FailKeepingReservation(h) ==
  /\ proc[h].op = "create"
  /\ Goes(h, Idle)
  /\ UNCHANGED <<mysql, redis, nextId, repair, faults>>

FailOrder(h) ==
  /\ proc[h].op = "create"
  /\ Goes(h, IF proc[h].applied THEN [op |-> "release", order |-> proc[h].order]
                                ELSE Idle)
  /\ UNCHANGED <<mysql, redis, nextId, repair, faults>>

(* Cancellation by the user or by the timeout worker: a pending order is   *)
(* cancelled; for one that is cancelled already the release is repeated. *)

(* Defect: the status is not checked. *)
CancelAnyOrder(h, o) ==
  /\ proc[h] = Idle
  /\ status[o] \in {"pending", "paid", "cancelled"}
  /\ status' = [status EXCEPT ![o] = IF @ = "pending" THEN "cancelled" ELSE @]
  /\ stock' = [p \in Products |-> stock[p] + (IF status[o] = "pending" THEN items[o][p] ELSE 0)]
  /\ Goes(h, [op |-> "release", order |-> o])
  /\ UNCHANGED <<initialized, items, idem, inflow, redis, nextId, repair, faults>>

CancelOrder(h, o) ==
  /\ proc[h] = Idle
  /\ \/ /\ status[o] = "pending"
        /\ status' = [status EXCEPT ![o] = "cancelled"]
        /\ stock' = [p \in Products |-> stock[p] + items[o][p]]
     \/ /\ status[o] = "cancelled"
        /\ UNCHANGED <<status, stock>>
  /\ Goes(h, [op |-> "release", order |-> o])
  /\ UNCHANGED <<initialized, items, idem, inflow, redis, nextId, repair, faults>>

PayOrder(h, o) ==
  /\ proc[h] = Idle
  /\ status[o] = "pending"
  /\ status' = [status EXCEPT ![o] = "paid"]
  /\ Goes(h, [op |-> "confirm", order |-> o])
  /\ UNCHANGED <<initialized, stock, items, idem, inflow, redis, nextId, repair, faults>>

StockUp(p, q) ==
  /\ inflow[p] + q <= MaxInflow
  /\ stock' = [stock EXCEPT ![p] = @ + q]
  /\ inflow' = [inflow EXCEPT ![p] = @ + q]
  /\ UNCHANGED <<status, items, idem>>

AddInventory(h, p, q) ==
  /\ proc[h] = Idle
  /\ q > 0
  /\ p \in initialized
  /\ StockUp(p, q)
  /\ Goes(h, [op |-> "incr", product |-> p, delta |-> q, fallback |-> stock[p] + q])
  /\ UNCHANGED <<initialized, redis, nextId, repair, faults>>

InitInventory(h, p, q) ==
  /\ proc[h] = Idle
  /\ p \notin initialized
  /\ initialized' = initialized \union {p}
  /\ StockUp(p, q)
  /\ Goes(h, [op |-> "set", product |-> p, quantity |-> q])
  /\ UNCHANGED <<redis, nextId, repair, faults>>

(* The Redis call after the transaction. *)
CallRedis(h) ==
  /\ proc[h].op \in RedisCalls
  /\ Executes(proc[h])
  /\ Goes(h, Idle)
  /\ UNCHANGED <<mysql, nextId, repair, faults>>

-----------------------------------------------------------------------------
(* Repair: the reconciliation worker lists the stock, reads the counters   *)
(* and, with AutoFix, writes what it had listed over those that are absent *)
(* or differ; the rebuild endpoint lists and writes all of them. *)
Works(w, c) == repair' = [repair EXCEPT ![w] = c]

ListInventories(w) ==
  /\ repair[w] = Idle
  /\ Works(w, [op |-> "listed", found |-> initialized, listed |-> stock])
  /\ IF w = "worker" THEN UNCHANGED faults ELSE faults < MaxFaults /\ faults' = faults + 1
  /\ UNCHANGED <<mysql, redis, nextId, proc>>

(* Defect: only the counters that are absent are written. *)
ReconcileAbsent(w) ==
  /\ w = "worker"
  /\ repair[w].op = "listed"
  /\ LET differ == repair[w].found \ cached IN
       Works(w, IF AutoFix /\ differ # {}
                THEN [op |-> "write", listed |-> repair[w].listed, todo |-> differ]
                ELSE Idle)
  /\ UNCHANGED <<mysql, redis, nextId, proc, faults>>

Reconcile(w) ==
  /\ w = "worker"
  /\ repair[w].op = "listed"
  /\ LET differ == {p \in repair[w].found :
                      p \notin cached \/ avail[p] # repair[w].listed[p]} IN
       Works(w, IF AutoFix /\ differ # {}
                THEN [op |-> "write", listed |-> repair[w].listed, todo |-> differ]
                ELSE Idle)
  /\ UNCHANGED <<mysql, redis, nextId, proc, faults>>

Rebuild(w) ==
  /\ w = "admin"
  /\ repair[w].op = "listed"
  /\ Works(w, IF repair[w].found = {}
              THEN Idle
              ELSE [op |-> "write", listed |-> repair[w].listed, todo |-> repair[w].found])
  /\ UNCHANGED <<mysql, redis, nextId, proc, faults>>

(* The next product, in the order of the ids, is left to write. *)
Passed(w, p) ==
  LET left == repair[w].todo \ {p} IN
    Works(w, IF left = {} THEN Idle ELSE [repair[w] EXCEPT !.todo = left])

WriteStock(w) ==
  /\ repair[w].op = "write"
  /\ \E p \in repair[w].todo :
       /\ \A q \in repair[w].todo : p <= q
       /\ SetInventoryStock(p, repair[w].listed[p])
       /\ Passed(w, p)
  /\ UNCHANGED <<mysql, nextId, proc, faults>>

-----------------------------------------------------------------------------
(* Faults. *)
Fault(kind) ==
  /\ kind \in Faults
  /\ faults < MaxFaults
  /\ faults' = faults + 1

(* The reply to the pre-deduction is lost, whether or not it ran: the      *)
(* service goes on as if it did not apply. *)
LosePreDeduct(h, k, r) ==
  /\ Fault("reply")
  /\ Draw(h)
  /\ \/ PreDeductApplies(nextId, r) /\ PreDeduct(nextId, r)
     \/ UNCHANGED redis
  /\ Goes(h, Creating(nextId, k, r, FALSE))

(* The reply to a pre-deduction is lost and the client library sends the   *)
(* call again: its answer is the one the service gets. *)
PreDeductAgain(h) ==
  /\ Fault("reply")
  /\ proc[h].op = "create"
  /\ proc[h].applied
  /\ LET o == proc[h].order
         r == proc[h].request IN
       \/ /\ PreDeductApplies(o, r)
          /\ PreDeduct(o, r)
          /\ UNCHANGED proc
       \/ /\ PreDeductRefuses(o, r)
          /\ Goes(h, [op |-> "refused", key |-> proc[h].key, request |-> r])
          /\ UNCHANGED redis
       \/ /\ ~ PreDeductApplies(o, r)
          /\ ~ PreDeductRefuses(o, r)
          /\ Goes(h, Creating(o, proc[h].key, r, FALSE))
          /\ UNCHANGED redis
  /\ UNCHANGED <<mysql, nextId, repair>>

(* The commit took effect, its acknowledgement was lost. *)
LoseCommit(h) ==
  /\ Fault("commit")
  /\ proc[h].op = "create"
  /\ Placed(proc[h])
  /\ Goes(h, IF proc[h].applied THEN [op |-> "release", order |-> proc[h].order]
                                ELSE Idle)
  /\ UNCHANGED <<redis, nextId, repair>>

(* The process stops, or its Redis call never arrives. *)
Stop(h) ==
  /\ Fault("stop")
  /\ proc[h] # Idle
  /\ Goes(h, Idle)
  /\ UNCHANGED <<mysql, redis, nextId, repair>>

(* The reply is lost and the client library sends the call again. *)
CallAgain(h) ==
  /\ Fault("reply")
  /\ proc[h].op \in RedisCalls
  /\ Executes(proc[h])
  /\ UNCHANGED <<mysql, nextId, proc, repair>>

LoseWrite(w) ==
  /\ Fault("stop")
  /\ repair[w].op = "write"
  /\ \E p \in repair[w].todo :
       /\ \A q \in repair[w].todo : p <= q
       /\ Passed(w, p)
  /\ UNCHANGED <<mysql, redis, nextId, proc>>

(* Redis starts again empty. *)
LoseRedis ==
  /\ Fault("redis")
  /\ cached' = {}
  /\ avail' = NoItems
  /\ reserved' = [o \in OrderIds |-> NoItems]
  /\ UNCHANGED <<mysql, nextId, proc, repair>>

-----------------------------------------------------------------------------
Create(h) ==
  \E k \in Keys, r \in Requests :
    \/ ReserveForOrder(h, k, r)
    \/ SkipGuard(h, k, r)
    \/ RefuseOrder(h, k, r)

Continue(h) == Respond(h) \/ CommitOrder(h) \/ FailOrder(h) \/ CallRedis(h)

Change(h) ==
  \/ \E o \in OrderIds : CancelOrder(h, o) \/ PayOrder(h, o)
  \/ \E p \in Products, q \in Additions : AddInventory(h, p, q) \/ InitInventory(h, p, q)

Repair(w) == ListInventories(w) \/ Reconcile(w) \/ Rebuild(w) \/ WriteStock(w)

Fails ==
  \/ \E h \in Handlers, k \in Keys, r \in Requests : LosePreDeduct(h, k, r)
  \/ \E h \in Handlers : PreDeductAgain(h) \/ LoseCommit(h) \/ Stop(h) \/ CallAgain(h)
  \/ \E w \in Repairers : LoseWrite(w)
  \/ LoseRedis

Next ==
  \/ \E h \in Handlers : Create(h) \/ Continue(h) \/ Change(h)
  \/ \E w \in Repairers : Repair(w)
  \/ Fails

Spec == Init /\ [][Next]_vars

(* A request goes on until it answers: its transaction and its Redis calls *)
(* have time limits.  The reconciliation worker runs again and again; a    *)
(* rebuild that has begun ends. *)
Fairness ==
  /\ \A h \in Handlers : WF_vars(Continue(h))
  /\ \A w \in Repairers : WF_vars((w = "worker" \/ repair[w] # Idle) /\ Repair(w))

FairSpec == Spec /\ Fairness

-----------------------------------------------------------------------------
Creations == [op : {"create"}, key : Keys, request : Requests, order : OrderIds,
              applied : BOOLEAN]

Refusals == [op : {"refused"}, key : Keys, request : Requests]

Calls ==
  [op : {"release", "confirm"}, order : OrderIds]
    \union [op : {"incr"}, product : Products, delta : Nat, fallback : Nat]
    \union [op : {"set"}, product : Products, quantity : Nat]

Repairs ==
  [op : {"listed"}, found : SUBSET Products, listed : [Products -> Nat]]
    \union [op : {"write"}, listed : [Products -> Nat], todo : SUBSET Products]

(* Every counter, and every column, holds a value of its type; none of the *)
(* counters is negative, whatever is lost or repeated. *)
TypeOK ==
  /\ initialized \subseteq Products
  /\ stock \in [Products -> Nat]
  /\ status \in [OrderIds -> {"none", "pending", "paid", "cancelled"}]
  /\ items \in [OrderIds -> [Products -> Nat]]
  /\ idem \in [Keys -> [order : 0..MaxOrders, request : [Products -> Nat]]]
  /\ inflow \in [Products -> Nat]
  /\ cached \subseteq Products
  /\ avail \in [Products -> Nat]
  /\ reserved \in [OrderIds -> [Products -> Nat]]
  /\ nextId \in 1..MaxOrders + 1
  /\ proc \in [Handlers -> {Idle} \union Creations \union Refusals \union Calls]
  /\ repair \in [Repairers -> {Idle} \union Repairs]
  /\ faults \in 0..MaxFaults

(* What Redis holds back for orders that do not hold it in MySQL: not yet, *)
(* or not any more. *)
Returning(p) ==
  [o \in OrderIds |-> IF status[o] \in {"none", "cancelled"} THEN reserved[o][p] ELSE 0]

(* What was added in MySQL and not yet in Redis. *)
Arriving(p) ==
  [h \in Handlers |-> IF proc[h].op = "incr" /\ proc[h].product = p
                      THEN proc[h].delta ELSE 0]

GuardView(p) ==
  avail[p] + Total(Returning(p), MaxOrders) + Total(Arriving(p), MaxHandlers)

(* Without faults the guard is exact.  Through any interleaving of         *)
(* creations, repeated creations, payments, cancellations and additions, a *)
(* counter differs from the MySQL stock only by the calls still to come.   *)
GuardExact == faults = 0 => \A p \in Products : GuardView(p) = stock[p]

(* A process may stop anywhere between MySQL and Redis: the guard then     *)
(* refuses orders it could accept, and never promises what MySQL does not  *)
(* have. *)
NeverOverstates == \A p \in Products : GuardView(p) <= stock[p]

(* Without faults, when no request is running, the reservations are those  *)
(* of the pending orders, item by item: nothing leaks, nothing is missing. *)
NoReservationLeaks ==
  faults = 0 /\ (\A h \in Handlers : proc[h] = Idle) =>
    \A o \in OrderIds :
      reserved[o] = IF status[o] = "pending" THEN items[o] ELSE NoItems

(* The stock behind a reservation is given back only for an order that     *)
(* does not hold it: never for one that is pending or paid. *)
ReturnsOnlyUnsold ==
  [][\A o \in OrderIds :
       /\ reserved[o] # NoItems
       /\ reserved'[o] = NoItems
       /\ avail' # avail
       => status[o] \in {"none", "cancelled"}]_vars

(* The refinement mapping: the contract is about the order table and the   *)
(* deliveries alone. *)
C == INSTANCE OrderContract WITH status <- status, items <- items, inflow <- inflow,
                                Products <- Products, MaxOrders <- MaxOrders

(* The contract of the orders holds whatever Redis says: a wrong guard     *)
(* never sells what is not there. *)
ImplementsContract == C!Contract

(* A request that was answered with an order is, when it is sent again     *)
(* with the same key, never answered "insufficient stock". *)
ReplayAnswered ==
  [][\A h \in Handlers :
       proc[h] = Idle /\ proc'[h].op = "refused" =>
         idem[proc'[h].key].request # proc'[h].request]_vars

(* Redis agrees with MySQL. *)
Synchronized == \A p \in initialized : p \in cached /\ avail[p] = stock[p]

(* When the faults and the requests have stopped, reconciliation brings    *)
(* every counter back to the MySQL stock, whatever went wrong before. *)
GuardHeals == <>[]Synchronized
=============================================================================
