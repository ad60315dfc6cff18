------------------------- MODULE GuardedOrdersProofs -------------------------
(***************************************************************************)
(* What holds of the orders and the stock guard for any products, clients, *)
(* handlers and faults: the types, hence that no counter is ever negative, *)
(* and that the MySQL side keeps the contract of the orders; and, where    *)
(* the guard is in force, that its counters are exact.                     *)
(***************************************************************************)
EXTENDS GuardedOrders, TotalsProofs

(* What a handler that is doing something carries. *)
LEMMA ProcKinds ==
  ASSUME TypeOK, NEW h \in Handlers
  PROVE  /\ proc[h].op = "create" =>
              /\ proc[h].key \in Keys /\ proc[h].request \in [Products -> Nat]
              /\ proc[h].order \in OrderIds /\ proc[h].applied \in BOOLEAN
         /\ proc[h].op \in {"release", "confirm"} => proc[h].order \in OrderIds
         /\ proc[h].op = "incr" =>
              /\ proc[h].product \in Products
              /\ proc[h].delta \in Nat /\ proc[h].fallback \in Nat
         /\ proc[h].op = "set" => proc[h].product \in Products /\ proc[h].quantity \in Nat
<1>1. proc[h] \in {Idle} \union Creations \union Refusals \union Calls
  BY DEF TypeOK
<1>2. CASE proc[h] = Idle
  BY <1>2 DEF Idle
<1>3. CASE proc[h] \in Creations
  BY <1>3, GuardAssumption DEF Creations
<1>4. CASE proc[h] \in Refusals
  BY <1>4 DEF Refusals
<1>5. CASE proc[h] \in Calls
  BY <1>5 DEF Calls
<1> QED BY <1>1, <1>2, <1>3, <1>4, <1>5

(* What a repairer that is doing something carries. *)
LEMMA RepairKinds ==
  ASSUME TypeOK, NEW w \in Repairers
  PROVE  /\ repair[w].op = "listed" =>
              repair[w].found \subseteq Products /\ repair[w].listed \in [Products -> Nat]
         /\ repair[w].op = "write" =>
              /\ repair[w].listed \in [Products -> Nat] /\ repair[w].todo \subseteq Products
              /\ \E listed \in [Products -> Nat], todo \in SUBSET Products :
                   repair[w] = [op |-> "write", listed |-> listed, todo |-> todo]
<1>1. repair[w] \in {Idle} \union Repairs
  BY DEF TypeOK
<1>2. CASE repair[w] = Idle
  BY <1>2 DEF Idle
<1>3. CASE repair[w] \in Repairs
  BY <1>3 DEF Repairs
<1> QED BY <1>1, <1>2, <1>3

-----------------------------------------------------------------------------
(* The types of what the scripts write. *)
RedisOK ==
  /\ cached \subseteq Products
  /\ avail \in [Products -> Nat]
  /\ reserved \in [OrderIds -> [Products -> Nat]]

LEMMA NoItemsType == NoItems \in [Products -> Nat]
BY DEF NoItems

LEMMA PreDeductType ==
  ASSUME TypeOK, NEW o \in OrderIds, NEW r \in [Products -> Nat],
         PreDeductApplies(o, r), PreDeduct(o, r)
  PROVE  RedisOK'
<1>0. CASE HasReservation(o)
  BY <1>0 DEF PreDeduct, TypeOK, RedisOK, redis
<1> SUFFICES ASSUME ~ HasReservation(o) PROVE RedisOK'
  BY <1>0
<1>1. \A p \in Products : avail[p] - r[p] \in Nat
  <2> TAKE p \in Products
  <2>1. avail[p] \in Nat /\ r[p] \in Nat
    BY DEF TypeOK
  <2>2. r[p] > 0 => avail[p] >= r[p]
    BY DEF PreDeductApplies, Enough, Lines
  <2> QED BY <2>1, <2>2
<1>2. avail' \in [Products -> Nat]
  BY <1>1 DEF PreDeduct
<1>3. reserved' \in [OrderIds -> [Products -> Nat]] /\ cached' \subseteq Products
  BY DEF TypeOK, PreDeduct
<1> QED BY <1>2, <1>3 DEF RedisOK

LEMMA ExecutesType ==
  ASSUME TypeOK, NEW h \in Handlers, proc[h].op \in RedisCalls, Executes(proc[h])
  PROVE  RedisOK'
<1>1. CASE proc[h].op = "release"
  <2> DEFINE o == proc[h].order
  <2>1. ReleaseReservation(o)
    BY <1>1 DEF Executes
  <2>2. \A p \in Products : avail[p] \in Nat /\ reserved[o][p] \in Nat
    BY <1>1, ProcKinds DEF TypeOK
  <2>3. avail' \in [Products -> Nat]
    BY <2>1, <2>2 DEF TypeOK, ReleaseReservation
  <2> QED BY <2>1, <2>3, NoItemsType DEF TypeOK, ReleaseReservation, RedisOK
<1>2. CASE proc[h].op = "confirm"
  <2>1. ConfirmReservation(proc[h].order)
    BY <1>2 DEF Executes
  <2> QED BY <2>1, NoItemsType DEF TypeOK, ConfirmReservation, RedisOK
<1>3. CASE proc[h].op = "incr"
  <2>1. IncrInventoryStock(proc[h].product, proc[h].delta, proc[h].fallback)
    BY <1>3 DEF Executes
  <2> QED BY <1>3, <2>1, ProcKinds
          DEF TypeOK, IncrInventoryStock, SetInventoryStock, RedisOK
<1>4. CASE proc[h].op = "set"
  <2>1. SetInventoryStock(proc[h].product, proc[h].quantity)
    BY <1>4 DEF Executes
  <2> QED BY <1>4, <2>1, ProcKinds DEF TypeOK, SetInventoryStock, RedisOK
<1> QED BY <1>1, <1>2, <1>3, <1>4 DEF RedisCalls

(* The types of what the transactions write. *)
MysqlOK ==
  /\ initialized \subseteq Products
  /\ stock \in [Products -> Nat]
  /\ status \in [OrderIds -> {"none", "pending", "paid", "cancelled"}]
  /\ items \in [OrderIds -> [Products -> Nat]]
  /\ idem \in [Keys -> [order : 0..MaxOrders, request : [Products -> Nat]]]
  /\ inflow \in [Products -> Nat]

LEMMA PlacedType ==
  ASSUME TypeOK, NEW h \in Handlers, proc[h].op = "create", Placed(proc[h])
  PROVE  MysqlOK'
<1> DEFINE c == proc[h]
<1>1. c.key \in Keys /\ c.request \in [Products -> Nat] /\ c.order \in OrderIds
  BY ProcKinds
<1> HIDE DEF c
<1>2. Placed(c)
  BY DEF c
<1>3. \A p \in Products : stock[p] - c.request[p] \in Nat
  <2>1. \A p \in Lines(c.request) : stock[p] >= c.request[p]
    BY <1>2 DEF Placed
  <2> DEFINE r == c.request
  <2>2. r \in [Products -> Nat] /\ stock \in [Products -> Nat]
    BY <1>1 DEF TypeOK
  <2> HIDE DEF r
  <2>3. \A p \in Lines(r) : stock[p] >= r[p]
    BY <2>1 DEF r
  <2>4. \A p \in Products : stock[p] - r[p] \in Nat
    BY <2>2, <2>3 DEF Lines
  <2> QED BY <2>4 DEF r
<1>4. [order |-> c.order, request |-> c.request] \in [order : 0..MaxOrders, request : [Products -> Nat]]
  BY <1>1, GuardAssumption DEF OrderIds
<1>5. idem' \in [Keys -> [order : 0..MaxOrders, request : [Products -> Nat]]]
  BY <1>2, <1>4 DEF TypeOK, Placed
<1>6. stock' \in [Products -> Nat]
  BY <1>2, <1>3 DEF Placed
<1>7. status' \in [OrderIds -> {"none", "pending", "paid", "cancelled"}]
  BY <1>2 DEF TypeOK, Placed
<1>8. items' \in [OrderIds -> [Products -> Nat]]
  BY <1>1, <1>2 DEF TypeOK, Placed
<1> QED BY <1>2, <1>5, <1>6, <1>7, <1>8 DEF TypeOK, Placed, MysqlOK

LEMMA StockUpType ==
  ASSUME TypeOK, NEW p \in Products, NEW q \in Nat, StockUp(p, q)
  PROVE  /\ stock' \in [Products -> Nat] /\ inflow' \in [Products -> Nat]
         /\ UNCHANGED <<status, items, idem>>
BY DEF TypeOK, StockUp

(* The type invariant is inductive by itself. *)
LEMMA TypeStep == TypeOK /\ [Next]_vars => TypeOK'
<1> USE GuardAssumption
<1> SUFFICES ASSUME TypeOK, [Next]_vars PROVE TypeOK'
  OBVIOUS
<1>0. nextId \in OrderIds => nextId + 1 \in 1..MaxOrders + 1
  BY DEF OrderIds
<1>1. ASSUME NEW h \in Handlers, NEW k \in Keys, NEW r \in Requests, ReserveForOrder(h, k, r)
      PROVE  TypeOK'
  <2>1. RedisOK'
    BY <1>1, PreDeductType DEF ReserveForOrder, Draw
  <2>2. Creating(nextId, k, r, TRUE) \in Creations
    BY <1>1 DEF Creating, Creations, ReserveForOrder, Draw
  <2>3. proc' \in [Handlers -> {Idle} \union Creations \union Refusals \union Calls]
    BY <1>1, <2>2 DEF ReserveForOrder, Goes, TypeOK
  <2>4. UNCHANGED <<mysql, repair, faults>> /\ nextId' \in 1..MaxOrders + 1
    BY <1>0, <1>1 DEF ReserveForOrder, Draw
  <2> QED BY <2>1, <2>3, <2>4 DEF TypeOK, RedisOK, mysql
<1>2. ASSUME NEW h \in Handlers, NEW k \in Keys, NEW r \in Requests, SkipGuard(h, k, r)
      PROVE  TypeOK'
  <2>1. Creating(nextId, k, r, FALSE) \in Creations
    BY <1>2 DEF Creating, Creations, SkipGuard, Draw
  <2>2. proc' \in [Handlers -> {Idle} \union Creations \union Refusals \union Calls]
    BY <1>2, <2>1 DEF SkipGuard, Goes, TypeOK
  <2>3. UNCHANGED <<mysql, redis, repair, faults>> /\ nextId' \in 1..MaxOrders + 1
    BY <1>0, <1>2 DEF SkipGuard, Draw
  <2> QED BY <2>2, <2>3 DEF TypeOK, mysql, redis
<1>3. ASSUME NEW h \in Handlers, NEW k \in Keys, NEW r \in Requests, RefuseOrder(h, k, r)
      PROVE  TypeOK'
  <2>1. [op |-> "refused", key |-> k, request |-> r] \in Refusals
    BY DEF Refusals
  <2>2. proc' \in [Handlers -> {Idle} \union Creations \union Refusals \union Calls]
    BY <1>3, <2>1 DEF RefuseOrder, Goes, TypeOK
  <2>3. UNCHANGED <<mysql, redis, repair, faults>> /\ nextId' \in 1..MaxOrders + 1
    BY <1>0, <1>3 DEF RefuseOrder, Draw
  <2> QED BY <2>2, <2>3 DEF TypeOK, mysql, redis
<1>4. ASSUME NEW h \in Handlers, Respond(h) PROVE TypeOK'
  BY <1>4 DEF TypeOK, Respond, Goes, mysql, redis
<1>5. ASSUME NEW h \in Handlers, CommitOrder(h) PROVE TypeOK'
  <2>1. MysqlOK'
    BY <1>5, PlacedType DEF CommitOrder
  <2>2. UNCHANGED <<redis, nextId, repair, faults>> /\ proc' = [proc EXCEPT ![h] = Idle]
    BY <1>5 DEF CommitOrder, Goes
  <2> QED BY <2>1, <2>2 DEF TypeOK, MysqlOK, redis
<1>6. ASSUME NEW h \in Handlers, NEW c, Goes(h, c),
             c \in {Idle} \union Creations \union Refusals \union Calls,
             UNCHANGED <<redis, nextId, repair>>, MysqlOK', faults' \in 0..MaxFaults
      PROVE  TypeOK'
  BY <1>6 DEF TypeOK, MysqlOK, Goes, redis
<1>7. UNCHANGED mysql => MysqlOK'
  BY DEF TypeOK, MysqlOK, mysql
<1>8. faults \in 0..MaxFaults /\ \A kind : Fault(kind) => faults' \in 0..MaxFaults
  BY DEF TypeOK, Fault
<1>9. ASSUME NEW h \in Handlers, proc[h].op = "create"
      PROVE  (IF proc[h].applied THEN [op |-> "release", order |-> proc[h].order] ELSE Idle)
               \in {Idle} \union Calls
  BY <1>9, ProcKinds DEF Calls
<1>10. ASSUME NEW h \in Handlers, FailOrder(h) PROVE TypeOK'
  BY <1>6, <1>7, <1>8, <1>9, <1>10 DEF FailOrder
<1>11. ASSUME NEW h \in Handlers, LoseCommit(h) PROVE TypeOK'
  <2>1. MysqlOK'
    BY <1>11, PlacedType DEF LoseCommit
  <2> QED BY <1>6, <1>8, <1>9, <1>11, <2>1 DEF LoseCommit
<1>12. ASSUME NEW h \in Handlers, Stop(h) PROVE TypeOK'
  BY <1>6, <1>7, <1>8, <1>12 DEF Stop
<1>13. ASSUME NEW h \in Handlers, NEW o \in OrderIds, CancelOrder(h, o) PROVE TypeOK'
  <2>1. stock' \in [Products -> Nat]
    <3>1. \A p \in Products : stock[p] + items[o][p] \in Nat
      BY DEF TypeOK
    <3> QED BY <1>13, <3>1 DEF TypeOK, CancelOrder
  <2>2. status' \in [OrderIds -> {"none", "pending", "paid", "cancelled"}]
    BY <1>13 DEF TypeOK, CancelOrder
  <2>3. MysqlOK' /\ faults' \in 0..MaxFaults
    BY <1>13, <2>1, <2>2 DEF TypeOK, CancelOrder, MysqlOK
  <2>4. [op |-> "release", order |-> o] \in Calls
    BY DEF Calls
  <2> QED BY <1>6, <1>13, <2>3, <2>4 DEF CancelOrder
<1>14. ASSUME NEW h \in Handlers, NEW o \in OrderIds, PayOrder(h, o) PROVE TypeOK'
  <2>1. status' \in [OrderIds -> {"none", "pending", "paid", "cancelled"}]
    BY <1>14 DEF TypeOK, PayOrder
  <2>2. MysqlOK' /\ faults' \in 0..MaxFaults
    BY <1>14, <2>1 DEF TypeOK, PayOrder, MysqlOK
  <2>3. [op |-> "confirm", order |-> o] \in Calls
    BY DEF Calls
  <2> QED BY <1>6, <1>14, <2>2, <2>3 DEF PayOrder
<1>15. ASSUME NEW h \in Handlers, NEW p \in Products, NEW q \in Additions, AddInventory(h, p, q)
       PROVE  TypeOK'
  <2>1. q \in Nat /\ stock[p] + q \in Nat
    BY DEF TypeOK
  <2>2. MysqlOK' /\ faults' \in 0..MaxFaults
    BY <1>15, <2>1, StockUpType DEF TypeOK, AddInventory, MysqlOK
  <2>3. [op |-> "incr", product |-> p, delta |-> q, fallback |-> stock[p] + q] \in Calls
    BY <2>1 DEF Calls
  <2> QED BY <1>6, <1>15, <2>2, <2>3 DEF AddInventory
<1>16. ASSUME NEW h \in Handlers, NEW p \in Products, NEW q \in Additions, InitInventory(h, p, q)
       PROVE  TypeOK'
  <2>1. q \in Nat
    OBVIOUS
  <2>2. MysqlOK' /\ faults' \in 0..MaxFaults
    BY <1>16, <2>1, StockUpType DEF TypeOK, InitInventory, MysqlOK
  <2>3. [op |-> "set", product |-> p, quantity |-> q] \in Calls
    BY <2>1 DEF Calls
  <2> QED BY <1>6, <1>16, <2>2, <2>3 DEF InitInventory
<1>17. ASSUME NEW h \in Handlers, CallRedis(h) \/ CallAgain(h) PROVE TypeOK'
  <2>1. RedisOK'
    BY <1>17, ExecutesType DEF CallRedis, CallAgain
  <2>2. /\ UNCHANGED <<mysql, nextId, repair>> /\ faults' \in 0..MaxFaults
        /\ proc' = proc \/ proc' = [proc EXCEPT ![h] = Idle]
    BY <1>8, <1>17 DEF CallRedis, CallAgain, Goes
  <2> QED BY <2>1, <2>2 DEF TypeOK, RedisOK, mysql
<1>18. ASSUME NEW h \in Handlers, NEW k \in Keys, NEW r \in Requests, LosePreDeduct(h, k, r)
       PROVE  TypeOK'
  <2>1. RedisOK'
    <3>1. CASE PreDeductApplies(nextId, r) /\ PreDeduct(nextId, r)
      BY <1>18, <3>1, PreDeductType DEF LosePreDeduct, Draw
    <3>2. CASE UNCHANGED redis
      BY <3>2 DEF TypeOK, RedisOK, redis
    <3> QED BY <1>18, <3>1, <3>2 DEF LosePreDeduct
  <2>2. Creating(nextId, k, r, FALSE) \in Creations
    BY <1>18 DEF Creating, Creations, LosePreDeduct, Draw
  <2>3. proc' \in [Handlers -> {Idle} \union Creations \union Refusals \union Calls]
    BY <1>18, <2>2 DEF LosePreDeduct, Goes, TypeOK
  <2>4. /\ UNCHANGED <<mysql, repair>> /\ faults' \in 0..MaxFaults
        /\ nextId' \in 1..MaxOrders + 1
    BY <1>0, <1>8, <1>18 DEF LosePreDeduct, Draw
  <2> QED BY <2>1, <2>3, <2>4 DEF TypeOK, RedisOK, mysql
<1>18a. ASSUME NEW h \in Handlers, PreDeductAgain(h) PROVE TypeOK'
  <2> DEFINE o == proc[h].order
             r == proc[h].request
  <2>1. PICK k \in Keys, i \in OrderIds, q \in Requests, b \in BOOLEAN :
          proc[h] = [op |-> "create", key |-> k, request |-> q, order |-> i, applied |-> b]
    BY <1>18a DEF PreDeductAgain, TypeOK, Idle, Creations, Refusals, Calls
  <2>2. o \in OrderIds /\ r \in [Products -> Nat]
    BY <2>1
  <2>3. RedisOK'
    <3>1. CASE PreDeductApplies(o, r) /\ PreDeduct(o, r)
      BY <2>2, <3>1, PreDeductType
    <3>2. CASE UNCHANGED redis
      BY <3>2 DEF TypeOK, RedisOK, redis
    <3> QED BY <1>18a, <3>1, <3>2 DEF PreDeductAgain
  <2>4. Creating(o, proc[h].key, r, FALSE) \in Creations
    BY <2>1 DEF Creating, Creations
  <2>5. [op |-> "refused", key |-> proc[h].key, request |-> r] \in Refusals
    BY <2>1 DEF Refusals
  <2>6. proc' \in [Handlers -> {Idle} \union Creations \union Refusals \union Calls]
    BY <1>18a, <2>4, <2>5 DEF PreDeductAgain, Goes, TypeOK
  <2>7. UNCHANGED <<mysql, nextId, repair>> /\ faults' \in 0..MaxFaults
    BY <1>8, <1>18a DEF PreDeductAgain
  <2> QED BY <2>3, <2>6, <2>7 DEF TypeOK, RedisOK, mysql
<1>19. ASSUME NEW w \in Repairers, NEW c, c \in {Idle} \union Repairs, Works(w, c),
              UNCHANGED <<mysql, nextId, proc>>, RedisOK', faults' \in 0..MaxFaults
       PROVE  TypeOK'
  BY <1>19 DEF TypeOK, Works, RedisOK, mysql
<1>20. UNCHANGED redis => RedisOK'
  BY DEF TypeOK, RedisOK, redis
<1>21. ASSUME NEW w \in Repairers, ListInventories(w) PROVE TypeOK'
  <2>1. [op |-> "listed", found |-> initialized, listed |-> stock] \in Repairs
    BY DEF TypeOK, Repairs
  <2>2. faults' \in 0..MaxFaults
    BY <1>8, <1>21 DEF ListInventories
  <2> QED BY <1>19, <1>20, <1>21, <2>1, <2>2 DEF ListInventories
<1>22. ASSUME NEW listed \in [Products -> Nat], NEW todo \in SUBSET Products
       PROVE  [op |-> "write", listed |-> listed, todo |-> todo] \in Repairs
  BY DEF Repairs
<1>23. ASSUME NEW w \in Repairers, Reconcile(w) \/ Rebuild(w) PROVE TypeOK'
  <2>1. repair[w].found \subseteq Products /\ repair[w].listed \in [Products -> Nat]
    BY <1>23, RepairKinds DEF Reconcile, Rebuild
  <2>2. PICK c \in {Idle} \union Repairs : Works(w, c)
    <3>1. CASE Reconcile(w)
      BY <1>22, <2>1, <3>1 DEF Reconcile
    <3>2. CASE Rebuild(w)
      BY <1>22, <2>1, <3>2 DEF Rebuild
    <3> QED BY <1>23, <3>1, <3>2
  <2>3. UNCHANGED <<mysql, redis, nextId, proc, faults>>
    BY <1>23 DEF Reconcile, Rebuild
  <2> QED BY <1>8, <1>19, <1>20, <2>2, <2>3
<1>24. ASSUME NEW w \in Repairers, NEW p \in repair[w].todo, repair[w].op = "write", Passed(w, p)
       PROVE  \E c \in {Idle} \union Repairs : Works(w, c)
  <2> DEFINE left == repair[w].todo \ {p}
  <2>1. PICK listed \in [Products -> Nat], todo \in SUBSET Products :
          repair[w] = [op |-> "write", listed |-> listed, todo |-> todo]
    BY <1>24, RepairKinds
  <2>2. [repair[w] EXCEPT !.todo = left] = [op |-> "write", listed |-> listed, todo |-> left]
    <3>1. ASSUME NEW rec, NEW S, rec = [op |-> "write", listed |-> listed, todo |-> todo]
          PROVE  [rec EXCEPT !.todo = S] = [op |-> "write", listed |-> listed, todo |-> S]
      BY <3>1
    <3> QED BY <2>1, <3>1, Zenon
  <2>3. left \in SUBSET Products
    <3>1. repair[w].todo \subseteq Products
      BY <1>24, RepairKinds
    <3> QED BY <3>1
  <2>4. [repair[w] EXCEPT !.todo = left] \in Repairs
    <3> HIDE DEF left
    <3> QED BY <1>22, <2>2, <2>3
  <2> QED BY <1>24, <2>4 DEF Passed
<1>25. ASSUME NEW w \in Repairers, WriteStock(w) PROVE TypeOK'
  <2>1. PICK p \in repair[w].todo : SetInventoryStock(p, repair[w].listed[p]) /\ Passed(w, p)
    BY <1>25 DEF WriteStock
  <2>2. p \in Products /\ repair[w].listed[p] \in Nat
    BY <1>25, RepairKinds DEF WriteStock
  <2>3. RedisOK'
    BY <2>1, <2>2 DEF TypeOK, SetInventoryStock, RedisOK
  <2>4. UNCHANGED <<mysql, nextId, proc, faults>> /\ repair[w].op = "write"
    BY <1>25 DEF WriteStock
  <2>5. PICK c \in {Idle} \union Repairs : Works(w, c)
    BY <1>24, <2>1, <2>4
  <2> QED BY <1>8, <1>19, <2>3, <2>4, <2>5
<1>26. ASSUME NEW w \in Repairers, LoseWrite(w) PROVE TypeOK'
  <2>1. PICK p \in repair[w].todo : Passed(w, p)
    BY <1>26 DEF LoseWrite
  <2>2. UNCHANGED <<mysql, redis, nextId, proc>> /\ repair[w].op = "write" /\ Fault("stop")
    BY <1>26 DEF LoseWrite
  <2>3. PICK c \in {Idle} \union Repairs : Works(w, c)
    BY <1>24, <2>1, <2>2
  <2> QED BY <1>8, <1>19, <1>20, <2>2, <2>3
<1>27. CASE LoseRedis
  <2>1. RedisOK'
    BY <1>27, NoItemsType DEF LoseRedis, RedisOK
  <2>2. UNCHANGED <<mysql, nextId, proc, repair>> /\ faults' \in 0..MaxFaults
    BY <1>8, <1>27 DEF LoseRedis
  <2> QED BY <2>1, <2>2 DEF TypeOK, RedisOK, mysql
<1>28. CASE UNCHANGED vars
  BY <1>28 DEF TypeOK, vars, mysql, redis
<1>29. CASE \E h \in Handlers : Create(h) \/ Continue(h) \/ Change(h)
  BY <1>1, <1>2, <1>3, <1>4, <1>5, <1>10, <1>13, <1>14, <1>15, <1>16, <1>17, <1>29
     DEF Create, Continue, Change
<1>30. CASE \E w \in Repairers : Repair(w)
  BY <1>21, <1>23, <1>25, <1>30 DEF Repair
<1>31. CASE Fails
  BY <1>11, <1>12, <1>17, <1>18, <1>26, <1>27, <1>31, <1>18a DEF Fails
<1> QED BY <1>28, <1>29, <1>30, <1>31 DEF Next

(* However requests, repairs and faults interleave, the tables and the     *)
(* counters in Redis keep their types: neither a stock nor a counter is    *)
(* ever negative, and a handler only carries what its step needs. *)
THEOREM GuardedTypeCorrect == Spec => []TypeOK
<1>1. Init => TypeOK
  <2> SUFFICES ASSUME Init PROVE TypeOK
    OBVIOUS
  <2>1. [order |-> 0, request |-> NoItems] \in [order : 0..MaxOrders, request : [Products -> Nat]]
    BY NoItemsType, GuardAssumption
  <2>2. stock \in [Products -> Nat]
    BY GuardAssumption DEF Init
  <2> QED BY <2>1, <2>2, NoItemsType, GuardAssumption DEF Init, TypeOK, NoKey
<1> QED BY <1>1, TypeStep, PTL DEF Spec

-----------------------------------------------------------------------------
(* Order numbers are drawn once: nothing is known of a number that is not  *)
(* drawn yet, and a number that a creation carries belongs to no order and *)
(* to no other creation, whatever handlers stopped and commits were lost.  *)
Untouched == \A o \in OrderIds : o >= nextId => status[o] = "none" /\ reserved[o] = NoItems

Carried == \A h \in Handlers :
  proc[h].op = "create" => proc[h].order < nextId /\ status[proc[h].order] = "none"

NotShared == \A g, h \in Handlers :
  proc[g].op = "create" /\ proc[h].op = "create" /\ g # h => proc[g].order # proc[h].order

NumbersDrawnOnce == Untouched /\ Carried /\ NotShared

(* The ways in which a step deals with the numbers: it draws one for a     *)
(* creation, it uses one up, the creation that carries it asks Redis       *)
(* again, or it does none of these. *)
Draws(h, c) ==
  /\ nextId \in OrderIds /\ nextId' = nextId + 1
  /\ c.op = "create" => c.order = nextId
  /\ Goes(h, c)
  /\ status' = status
  /\ \A o \in OrderIds : o # nextId => reserved'[o] = reserved[o]

UsesUp(h, c) ==
  /\ proc[h].op = "create" /\ c.op # "create"
  /\ Goes(h, c)
  /\ status' = [status EXCEPT ![proc[h].order] = "pending"]
  /\ UNCHANGED <<reserved, nextId>>

AsksAgain(h) ==
  /\ proc[h].op = "create"
  /\ proc'[h].op = "create" => proc'[h].order = proc[h].order
  /\ \A g \in Handlers : g # h => proc'[g] = proc[g]
  /\ \A o \in OrderIds : o # proc[h].order => reserved'[o] = reserved[o]
  /\ UNCHANGED <<status, nextId>>

Neither ==
  /\ nextId' = nextId
  /\ \A h \in Handlers : proc'[h].op = "create" => proc'[h] = proc[h]
  /\ \A o \in OrderIds : /\ status[o] = "none" => status'[o] = "none"
                         /\ reserved'[o] \in {reserved[o], NoItems}

LEMMA ReservedAfterCall ==
  ASSUME TypeOK, NEW h \in Handlers, proc[h].op \in RedisCalls, Executes(proc[h])
  PROVE  \A o \in OrderIds : reserved'[o] \in {reserved[o], NoItems}
<1>1. CASE proc[h].op = "release"
  BY <1>1, ProcKinds DEF TypeOK, Executes, ReleaseReservation
<1>2. CASE proc[h].op = "confirm"
  BY <1>2, ProcKinds DEF TypeOK, Executes, ConfirmReservation
<1>3. CASE proc[h].op \in {"incr", "set"}
  BY <1>3 DEF Executes, IncrInventoryStock, SetInventoryStock
<1> QED BY <1>1, <1>2, <1>3 DEF RedisCalls

LEMMA NumberEffects ==
  ASSUME TypeOK, [Next]_vars
  PROVE  \/ \E h \in Handlers : \E c : Draws(h, c)
         \/ \E h \in Handlers : \E c : UsesUp(h, c)
         \/ \E h \in Handlers : AsksAgain(h)
         \/ Neither
<1> USE DEF mysql, redis
<1>1. ASSUME NEW h \in Handlers, NEW c, Goes(h, c), c.op # "create", UNCHANGED <<status, nextId>>,
             \A o \in OrderIds : reserved'[o] \in {reserved[o], NoItems}
      PROVE  Neither
  BY <1>1 DEF Neither, Goes, TypeOK
<1>2. Idle.op # "create" /\ \A o : [op |-> "release", order |-> o].op # "create"
  BY DEF Idle
<1>3. ASSUME NEW h \in Handlers, NEW k \in Keys, NEW r \in Requests, NEW b,
             ReserveForOrder(h, k, r) \/ SkipGuard(h, k, r) \/ LosePreDeduct(h, k, r)
      PROVE  \E c : Draws(h, c)
  <2>1. PICK a \in BOOLEAN : Goes(h, Creating(nextId, k, r, a))
    BY <1>3 DEF ReserveForOrder, SkipGuard, LosePreDeduct
  <2>2. \A o \in OrderIds : o # nextId => reserved'[o] = reserved[o]
    BY <1>3 DEF TypeOK, ReserveForOrder, SkipGuard, LosePreDeduct, PreDeduct
  <2>3. Draws(h, Creating(nextId, k, r, a))
    BY <1>3, <2>1, <2>2 DEF Draws, Creating, ReserveForOrder, SkipGuard, LosePreDeduct, Draw
  <2> QED BY <2>3
<1>4. ASSUME NEW h \in Handlers, NEW k \in Keys, NEW r \in Requests, RefuseOrder(h, k, r)
      PROVE  \E c : Draws(h, c)
  <2>1. Draws(h, [op |-> "refused", key |-> k, request |-> r])
    BY <1>4 DEF Draws, RefuseOrder, Draw
  <2> QED BY <2>1
<1>5. ASSUME NEW h \in Handlers, CommitOrder(h) PROVE \E c : UsesUp(h, c)
  <2>1. UsesUp(h, Idle)
    BY <1>2, <1>5 DEF UsesUp, CommitOrder, Placed
  <2> QED BY <2>1
<1>6. ASSUME NEW h \in Handlers, LoseCommit(h) PROVE \E c : UsesUp(h, c)
  <2> DEFINE c == IF proc[h].applied THEN [op |-> "release", order |-> proc[h].order] ELSE Idle
  <2>1. c.op # "create"
    BY <1>2
  <2>2. UsesUp(h, c)
    BY <1>6, <2>1 DEF UsesUp, LoseCommit, Placed
  <2> QED BY <2>2
<1>7. ASSUME NEW h \in Handlers, Respond(h) \/ FailOrder(h) \/ Stop(h) PROVE Neither
  <2>1. PICK c : Goes(h, c) /\ c.op # "create"
    BY <1>2, <1>7 DEF Respond, FailOrder, Stop
  <2>2. UNCHANGED <<status, nextId, reserved>>
    BY <1>7 DEF Respond, FailOrder, Stop
  <2> QED BY <1>1, <2>1, <2>2
<1>8. ASSUME NEW h \in Handlers, CallRedis(h) \/ CallAgain(h) PROVE Neither
  <2>1. UNCHANGED <<status, nextId>> /\ (proc' = proc \/ Goes(h, Idle))
    BY <1>8 DEF CallRedis, CallAgain
  <2>2. \A o \in OrderIds : reserved'[o] \in {reserved[o], NoItems}
    BY <1>8, ReservedAfterCall DEF CallRedis, CallAgain
  <2> QED BY <1>1, <1>2, <2>1, <2>2 DEF Neither
<1>9. ASSUME NEW h \in Handlers, NEW o \in OrderIds, CancelOrder(h, o) \/ PayOrder(h, o)
      PROVE  Neither
  <2>1. \A i \in OrderIds : status[i] = "none" => status'[i] = "none"
    BY <1>9 DEF TypeOK, CancelOrder, PayOrder
  <2>2. PICK c : Goes(h, c) /\ c.op # "create"
    BY <1>9 DEF CancelOrder, PayOrder
  <2>3. UNCHANGED <<nextId, reserved>>
    BY <1>9 DEF CancelOrder, PayOrder
  <2> QED BY <2>1, <2>2, <2>3 DEF Neither, Goes, TypeOK
<1>10. ASSUME NEW h \in Handlers, NEW p \in Products, NEW q \in Additions,
              AddInventory(h, p, q) \/ InitInventory(h, p, q)
       PROVE  Neither
  <2>1. PICK c : Goes(h, c) /\ c.op # "create"
    BY <1>10 DEF AddInventory, InitInventory
  <2>2. UNCHANGED <<status, nextId, reserved>>
    BY <1>10 DEF AddInventory, InitInventory, StockUp
  <2> QED BY <1>1, <2>1, <2>2
<1>11. ASSUME NEW w \in Repairers, Repair(w) \/ LoseWrite(w) PROVE Neither
  <2>1. UNCHANGED <<status, nextId, reserved, proc>>
    BY <1>11 DEF Repair, ListInventories, Reconcile, Rebuild, WriteStock, LoseWrite,
                 SetInventoryStock
  <2> QED BY <2>1 DEF Neither
<1>12. CASE LoseRedis
  BY <1>12 DEF LoseRedis, Neither
<1>13. CASE UNCHANGED vars
  BY <1>13 DEF vars, Neither
<1>14. CASE \E h \in Handlers : Create(h) \/ Continue(h) \/ Change(h)
  BY <1>3, <1>4, <1>5, <1>7, <1>8, <1>9, <1>10, <1>14 DEF Create, Continue, Change
<1>15. ASSUME NEW h \in Handlers, PreDeductAgain(h) PROVE AsksAgain(h)
  <2> DEFINE o == proc[h].order
             r == proc[h].request
             refusal == [op |-> "refused", key |-> proc[h].key, request |-> r]
             again == Creating(o, proc[h].key, r, FALSE)
  <2>1. refusal.op # "create" /\ again.order = o
    BY DEF Creating
  <2>2. proc' = proc \/ Goes(h, refusal) \/ Goes(h, again)
    BY <1>15 DEF PreDeductAgain
  <2>3. proc'[h].op = "create" => proc'[h].order = proc[h].order
    <3>1. \A c : Goes(h, c) => proc'[h] = c
      BY DEF Goes, TypeOK
    <3> HIDE DEF refusal, again
    <3> QED BY <2>1, <2>2, <3>1
  <2>4. \A g \in Handlers : g # h => proc'[g] = proc[g]
    BY <2>2 DEF Goes, TypeOK
  <2>5. \A i \in OrderIds : i # proc[h].order => reserved'[i] = reserved[i]
    BY <1>15 DEF PreDeductAgain, PreDeduct, TypeOK
  <2> QED BY <1>15, <2>3, <2>4, <2>5 DEF PreDeductAgain, AsksAgain
<1>16. CASE Fails
  BY <1>3, <1>6, <1>7, <1>8, <1>11, <1>12, <1>15, <1>16 DEF Fails
<1> QED BY <1>11, <1>13, <1>14, <1>16 DEF Next

LEMMA NumbersStep == TypeOK /\ NumbersDrawnOnce /\ [Next]_vars => NumbersDrawnOnce'
<1> SUFFICES ASSUME TypeOK, NumbersDrawnOnce, [Next]_vars PROVE NumbersDrawnOnce'
  OBVIOUS
<1>1. /\ nextId \in Nat /\ OrderIds \subseteq Nat
      /\ \A x \in OrderIds : x < nextId => x < nextId + 1
  BY GuardAssumption DEF TypeOK, OrderIds
<1> USE DEF NumbersDrawnOnce, Untouched, Carried, NotShared
<1>2. ASSUME NEW h \in Handlers, NEW c, Draws(h, c) PROVE NumbersDrawnOnce'
  <2>1. proc' = [proc EXCEPT ![h] = c] /\ proc \in [Handlers -> {Idle} \union Creations \union Refusals \union Calls]
    BY <1>2 DEF Draws, Goes, TypeOK
  <2>2. Untouched'
    BY <1>1, <1>2 DEF Draws
  <2>3. Carried'
    <3>1. ASSUME NEW g \in Handlers, proc'[g].op = "create"
          PROVE  proc'[g].order < nextId' /\ status'[proc'[g].order] = "none"
      <4>1. CASE g = h
        BY <1>1, <1>2, <2>1, <3>1, <4>1 DEF Draws
      <4>2. CASE g # h
        <5>1. proc'[g] = proc[g]
          BY <2>1, <4>2
        <5>2. proc[g].order \in OrderIds
          BY <3>1, <5>1, ProcKinds
        <5>3. proc[g].order < nextId /\ status[proc[g].order] = "none"
          BY <3>1, <5>1
        <5>4. nextId' = nextId + 1 /\ status' = status
          BY <1>2 DEF Draws
        <5>5. proc[g].order < nextId'
          BY <1>1, <5>2, <5>3, <5>4
        <5>6. status'[proc[g].order] = "none"
          BY <5>3, <5>4
        <5> QED BY <5>1, <5>5, <5>6
      <4> QED BY <4>1, <4>2
    <3> QED BY <3>1
  <2>4. NotShared'
    <3>1. ASSUME NEW g \in Handlers, g # h, proc'[g].op = "create" PROVE proc'[g].order < nextId
      BY <2>1, <3>1
    <3>2. proc'[h].op = "create" => proc'[h].order = nextId
      BY <1>2, <2>1 DEF Draws
    <3>3. \A g \in Handlers : g # h => proc'[g] = proc[g]
      BY <2>1
    <3>4. \A g \in Handlers : g # h /\ proc'[g].op = "create" => proc'[g].order \in OrderIds
      BY <3>3, ProcKinds
    <3> QED BY <1>1, <3>1, <3>2, <3>3, <3>4
  <2> QED BY <2>2, <2>3, <2>4
<1>3. ASSUME NEW h \in Handlers, NEW c, UsesUp(h, c) PROVE NumbersDrawnOnce'
  <2>1. /\ proc'[h] = c
        /\ \A g \in Handlers : g # h => proc'[g] = proc[g]
    BY <1>3 DEF UsesUp, Goes, TypeOK
  <2>2. /\ proc[h].order \in OrderIds /\ proc[h].order < nextId
        /\ \A o \in OrderIds : o # proc[h].order => status'[o] = status[o]
        /\ UNCHANGED <<nextId, reserved>>
    BY <1>3, ProcKinds DEF UsesUp, TypeOK
  <2>3. Untouched'
    <3> SUFFICES ASSUME NEW o \in OrderIds, o >= nextId
                 PROVE  status'[o] = "none" /\ reserved'[o] = NoItems
      BY <2>2
    <3>1. o # proc[h].order
      BY <1>1, <2>2
    <3> QED BY <2>2, <3>1
  <2>4. Carried'
    <3> SUFFICES ASSUME NEW g \in Handlers, proc'[g].op = "create"
                 PROVE  proc'[g].order < nextId' /\ status'[proc'[g].order] = "none"
      OBVIOUS
    <3>1. g # h /\ proc'[g] = proc[g]
      BY <1>3, <2>1 DEF UsesUp
    <3>2. proc[g].order \in OrderIds /\ proc[g].order # proc[h].order
      BY <1>3, <3>1, ProcKinds DEF UsesUp
    <3> QED BY <2>2, <3>1, <3>2
  <2>5. NotShared'
    BY <1>3, <2>1 DEF UsesUp
  <2> QED BY <2>3, <2>4, <2>5
<1>4. CASE Neither
  <2>1. Untouched'
    BY <1>1, <1>4 DEF Neither
  <2>2. Carried'
    BY <1>4, ProcKinds DEF Neither
  <2>3. NotShared'
    BY <1>4 DEF Neither
  <2> QED BY <2>1, <2>2, <2>3
<1>5. ASSUME NEW h \in Handlers, AsksAgain(h) PROVE NumbersDrawnOnce'
  <2>1. proc[h].order \in OrderIds /\ proc[h].order < nextId /\ status[proc[h].order] = "none"
    BY <1>5, ProcKinds DEF AsksAgain
  <2>2. \A g \in Handlers : proc'[g].op = "create" =>
          proc[g].op = "create" /\ proc'[g].order = proc[g].order
    BY <1>5 DEF AsksAgain
  <2>3. Untouched'
    <3> SUFFICES ASSUME NEW o \in OrderIds, o >= nextId
                 PROVE  status'[o] = "none" /\ reserved'[o] = NoItems
      BY <1>5 DEF AsksAgain
    <3>1. o # proc[h].order
      BY <1>1, <2>1
    <3> QED BY <1>5, <3>1 DEF AsksAgain
  <2>4. Carried'
    BY <1>5, <2>2 DEF AsksAgain
  <2>5. NotShared'
    BY <2>2
  <2> QED BY <2>3, <2>4, <2>5
<1> QED BY <1>2, <1>3, <1>4, <1>5, NumberEffects

(* An order number is never used twice: not by two handlers, not after a   *)
(* refusal, and not for what a handler that stopped left behind. *)
THEOREM NumbersCorrect == Spec => []NumbersDrawnOnce
<1>1. Init => NumbersDrawnOnce
  <2> SUFFICES ASSUME Init PROVE NumbersDrawnOnce
    OBVIOUS
  <2>1. \A h \in Handlers : proc[h].op # "create"
    BY DEF Init, Idle
  <2>2. Untouched
    BY DEF Init, Untouched
  <2> QED BY <2>1, <2>2 DEF NumbersDrawnOnce, Carried, NotShared
<1> QED BY <1>1, NumbersStep, GuardedTypeCorrect, PTL DEF Spec

-----------------------------------------------------------------------------
(* MySQL alone: the orders keep their contract whatever Redis says.        *)
HeldIn(p) ==
  [o \in 1..MaxOrders |-> IF status[o] \in {"pending", "paid", "finished"} THEN items[o][p] ELSE 0]

(* What came in is in stock or held by an order. *)
StockBalance == \A p \in Products : stock[p] + Total(HeldIn(p), MaxOrders) = inflow[p]

(* What a step can do to the stock and the orders. *)
Stays == UNCHANGED <<stock, status, items, inflow>>

Places(o, r) ==
  /\ status[o] = "none"
  /\ \A p \in Products : r[p] <= stock[p]
  /\ status' = [status EXCEPT ![o] = "pending"]
  /\ items' = [items EXCEPT ![o] = r]
  /\ stock' = [p \in Products |-> stock[p] - r[p]]
  /\ inflow' = inflow

Pays(o) ==
  /\ status[o] = "pending"
  /\ status' = [status EXCEPT ![o] = "paid"]
  /\ UNCHANGED <<stock, items, inflow>>

Cancels(o) ==
  /\ status[o] = "pending"
  /\ status' = [status EXCEPT ![o] = "cancelled"]
  /\ stock' = [p \in Products |-> stock[p] + items[o][p]]
  /\ UNCHANGED <<items, inflow>>

Receives(p, q) ==
  /\ stock' = [stock EXCEPT ![p] = @ + q]
  /\ inflow' = [inflow EXCEPT ![p] = @ + q]
  /\ UNCHANGED <<status, items>>

LEMMA MysqlEffects ==
  ASSUME TypeOK, Carried, [Next]_vars
  PROVE  \/ Stays
         \/ \E o \in OrderIds, r \in [Products -> Nat] : Places(o, r)
         \/ \E o \in OrderIds : Pays(o) \/ Cancels(o)
         \/ \E p \in Products, q \in Nat : Receives(p, q)
<1> USE DEF mysql
<1>1. ASSUME NEW h \in Handlers, proc[h].op = "create", Placed(proc[h])
      PROVE  \E o \in OrderIds, r \in [Products -> Nat] : Places(o, r)
  <2> DEFINE o == proc[h].order
             r == proc[h].request
  <2>1. o \in OrderIds /\ r \in [Products -> Nat] /\ status[o] = "none"
    BY <1>1, ProcKinds DEF Carried
  <2>2. \A p \in Lines(r) : stock[p] >= r[p]
    BY <1>1 DEF Placed
  <2>3. /\ status' = [status EXCEPT ![o] = "pending"]
        /\ items' = [items EXCEPT ![o] = r]
        /\ stock' = [p \in Products |-> stock[p] - r[p]]
        /\ inflow' = inflow
    BY <1>1 DEF Placed
  <2> HIDE DEF o, r
  <2>4. \A p \in Products : r[p] <= stock[p]
    BY <2>1, <2>2 DEF Lines, TypeOK
  <2>5. Places(o, r)
    BY <2>1, <2>3, <2>4 DEF Places
  <2> QED BY <2>1, <2>5
<1>2. ASSUME NEW h \in Handlers, NEW o \in OrderIds, CancelOrder(h, o) \/ PayOrder(h, o)
      PROVE  Stays \/ Pays(o) \/ Cancels(o)
  BY <1>2 DEF CancelOrder, PayOrder, Stays, Pays, Cancels
<1>3. ASSUME NEW h \in Handlers, NEW p \in Products, NEW q \in Additions,
             AddInventory(h, p, q) \/ InitInventory(h, p, q)
      PROVE  q \in Nat /\ Receives(p, q)
  <2>1. StockUp(p, q)
    BY <1>3 DEF AddInventory, InitInventory
  <2> QED BY <2>1, GuardAssumption DEF StockUp, Receives
<1>4. CASE \E h \in Handlers : CommitOrder(h) \/ LoseCommit(h)
  BY <1>1, <1>4 DEF CommitOrder, LoseCommit
<1>5. ASSUME NEW h \in Handlers,
             \/ \E k \in Keys, r \in Requests : \/ ReserveForOrder(h, k, r) \/ SkipGuard(h, k, r)
                                                \/ RefuseOrder(h, k, r) \/ LosePreDeduct(h, k, r)
             \/ Respond(h) \/ FailOrder(h) \/ CallRedis(h) \/ Stop(h) \/ CallAgain(h)
             \/ PreDeductAgain(h)
      PROVE  Stays
  BY <1>5 DEF ReserveForOrder, SkipGuard, RefuseOrder, LosePreDeduct, Draw, Respond,
              FailOrder, CallRedis, Stop, CallAgain, PreDeductAgain, Stays
<1>6. ASSUME NEW w \in Repairers, Repair(w) \/ LoseWrite(w) PROVE Stays
  BY <1>6 DEF Repair, ListInventories, Reconcile, Rebuild, WriteStock, LoseWrite, Stays
<1>7. CASE LoseRedis \/ UNCHANGED vars
  BY <1>7 DEF LoseRedis, vars, Stays
<1> QED BY <1>2, <1>3, <1>4, <1>5, <1>6, <1>7 DEF Next, Create, Continue, Change, Fails

LEMMA HeldType ==
  ASSUME TypeOK, NEW p \in Products
  PROVE  HeldIn(p) \in [1..MaxOrders -> Nat]
BY DEF TypeOK, HeldIn, OrderIds

LEMMA BalanceStep == TypeOK /\ Carried /\ StockBalance /\ [Next]_vars => StockBalance'
<1> SUFFICES ASSUME TypeOK, Carried, StockBalance, [Next]_vars, NEW p \in Products
             PROVE  stock'[p] + Total(HeldIn(p)', MaxOrders) = inflow'[p]
  BY DEF StockBalance
<1>0. TypeOK'
  BY TypeStep
<1>1. /\ stock[p] + Total(HeldIn(p), MaxOrders) = inflow[p]
      /\ stock[p] \in Nat /\ inflow[p] \in Nat
      /\ HeldIn(p) \in [1..MaxOrders -> Nat] /\ Total(HeldIn(p), MaxOrders) \in Nat
      /\ HeldIn(p)' \in [1..MaxOrders -> Nat]
  <2>1. HeldIn(p) \in [1..MaxOrders -> Nat]
    BY HeldType
  <2>2. HeldIn(p)' \in [1..MaxOrders -> Nat]
    BY <1>0 DEF TypeOK, HeldIn, OrderIds
  <2>3. Total(HeldIn(p), MaxOrders) \in Nat
    BY <2>1, TotalBounds, GuardAssumption
  <2> QED BY <2>1, <2>2, <2>3 DEF TypeOK, StockBalance
<1>2. ASSUME NEW o \in OrderIds,
             \A i \in 1..MaxOrders : i # o => status'[i] = status[i] /\ items'[i] = items[i]
      PROVE  Total(HeldIn(p)', MaxOrders) =
               Total(HeldIn(p), MaxOrders) - HeldIn(p)[o] + HeldIn(p)'[o]
  <2> DEFINE f == HeldIn(p)
             g == HeldIn(p)'
  <2>1. \A i \in 1..MaxOrders : i # o => g[i] = f[i]
    BY <1>2 DEF HeldIn
  <2>2. f \in [1..MaxOrders -> Nat] /\ g \in [1..MaxOrders -> Nat] /\ o \in 1..MaxOrders
    BY <1>1 DEF OrderIds
  <2> HIDE DEF f, g
  <2>3. Total(g, MaxOrders) = Total(f, MaxOrders) - f[o] + g[o]
    BY <2>1, <2>2, TotalChange, GuardAssumption
  <2> QED BY <2>3 DEF f, g
<1>3. CASE Stays
  <2>1. HeldIn(p)' = HeldIn(p)
    BY <1>3 DEF Stays, HeldIn
  <2> QED BY <1>1, <1>3, <2>1 DEF Stays
<1>4. ASSUME NEW o \in OrderIds, NEW r \in [Products -> Nat], Places(o, r)
      PROVE  stock'[p] + Total(HeldIn(p)', MaxOrders) = inflow'[p]
  <2>1. \A i \in 1..MaxOrders : i # o => status'[i] = status[i] /\ items'[i] = items[i]
    BY <1>4 DEF Places, TypeOK, OrderIds
  <2>2. HeldIn(p)[o] = 0 /\ HeldIn(p)'[o] = r[p]
    BY <1>4 DEF Places, HeldIn, TypeOK, OrderIds
  <2>3. stock'[p] = stock[p] - r[p] /\ inflow'[p] = inflow[p] /\ r[p] \in Nat
    BY <1>4 DEF Places
  <2> QED BY <1>1, <1>2, <2>1, <2>2, <2>3
<1>5. ASSUME NEW o \in OrderIds, Pays(o)
      PROVE  stock'[p] + Total(HeldIn(p)', MaxOrders) = inflow'[p]
  <2>1. \A i \in 1..MaxOrders : i # o => status'[i] = status[i] /\ items'[i] = items[i]
    BY <1>5 DEF Pays, TypeOK, OrderIds
  <2>2. HeldIn(p)[o] = items[o][p] /\ HeldIn(p)'[o] = items[o][p] /\ items[o][p] \in Nat
    BY <1>5 DEF Pays, HeldIn, TypeOK, OrderIds
  <2>3. stock'[p] = stock[p] /\ inflow'[p] = inflow[p]
    BY <1>5 DEF Pays
  <2> QED BY <1>1, <1>2, <2>1, <2>2, <2>3
<1>6. ASSUME NEW o \in OrderIds, Cancels(o)
      PROVE  stock'[p] + Total(HeldIn(p)', MaxOrders) = inflow'[p]
  <2>1. \A i \in 1..MaxOrders : i # o => status'[i] = status[i] /\ items'[i] = items[i]
    BY <1>6 DEF Cancels, TypeOK, OrderIds
  <2>2. HeldIn(p)[o] = items[o][p] /\ HeldIn(p)'[o] = 0 /\ items[o][p] \in Nat
    BY <1>6 DEF Cancels, HeldIn, TypeOK, OrderIds
  <2>3. stock'[p] = stock[p] + items[o][p] /\ inflow'[p] = inflow[p]
    BY <1>6 DEF Cancels
  <2> QED BY <1>1, <1>2, <2>1, <2>2, <2>3
<1>7. ASSUME NEW d \in Products, NEW q \in Nat, Receives(d, q)
      PROVE  stock'[p] + Total(HeldIn(p)', MaxOrders) = inflow'[p]
  <2>1. HeldIn(p)' = HeldIn(p)
    BY <1>7 DEF Receives, HeldIn
  <2>2. /\ stock'[p] = IF p = d THEN stock[p] + q ELSE stock[p]
        /\ inflow'[p] = IF p = d THEN inflow[p] + q ELSE inflow[p]
    BY <1>7 DEF Receives, TypeOK
  <2> QED BY <1>1, <2>1, <2>2
<1> QED BY <1>3, <1>4, <1>5, <1>6, <1>7, MysqlEffects

LEMMA HeldIsTotal == ASSUME NEW p \in Products PROVE C!Held(p) = Total(HeldIn(p), MaxOrders)
BY DEF C!Held, C!Holding, C!OrderIds, C!Total, C!RunningTotal, Total, RunningTotal, HeldIn

LEMMA GuardedContractStep ==
  TypeOK /\ Carried /\ StockBalance /\ [Next]_vars => [C!ContractNext]_C!contractVars
<1> SUFFICES ASSUME TypeOK, Carried, StockBalance, [Next]_vars
             PROVE  C!ContractNext \/ UNCHANGED C!contractVars
  OBVIOUS
<1>1. CASE Stays
  BY <1>1 DEF Stays, C!contractVars
<1>2. ASSUME NEW o \in OrderIds, NEW r \in [Products -> Nat], Places(o, r)
      PROVE  C!ContractNext
  <2>1. \A p \in Products : C!Held(p) + r[p] <= inflow[p]
    <3> SUFFICES ASSUME NEW p \in Products PROVE C!Held(p) + r[p] <= inflow[p]
      OBVIOUS
    <3>1. C!Held(p) = Total(HeldIn(p), MaxOrders)
      BY HeldIsTotal
    <3>2. Total(HeldIn(p), MaxOrders) \in Nat
      BY HeldType, TotalBounds, GuardAssumption
    <3>3. stock[p] + Total(HeldIn(p), MaxOrders) = inflow[p]
      BY DEF StockBalance
    <3>4. r[p] <= stock[p] /\ r[p] \in Nat /\ stock[p] \in Nat
      BY <1>2 DEF Places, TypeOK
    <3>5. inflow[p] \in Nat
      BY DEF TypeOK
    <3> QED BY <3>1, <3>2, <3>3, <3>4, <3>5
  <2>2. items'[o] = r /\ items' = [items EXCEPT ![o] = r]
    BY <1>2 DEF Places, TypeOK
  <2>3. C!Place(o)
    BY <1>2, <2>1, <2>2 DEF Places, C!Place
  <2> QED BY <2>3 DEF C!ContractNext, C!OrderIds, OrderIds
<1>3. ASSUME NEW o \in OrderIds, Pays(o) \/ Cancels(o) PROVE C!ContractNext
  <2>1. C!Move(o, "pending", "paid") \/ C!Move(o, "pending", "cancelled")
    BY <1>3 DEF Pays, Cancels, C!Move
  <2> QED BY <2>1 DEF C!ContractNext, C!OrderIds, OrderIds
<1>4. ASSUME NEW p \in Products, NEW q \in Nat, Receives(p, q) PROVE C!ContractNext
  <2>1. C!StockIn(p)
    BY <1>4 DEF Receives, TypeOK, C!StockIn
  <2> QED BY <2>1 DEF C!ContractNext
<1> QED BY <1>1, <1>2, <1>3, <1>4, MysqlEffects

LEMMA BalanceInit == Init => StockBalance
<1> SUFFICES ASSUME Init, NEW p \in Products
             PROVE  stock[p] + Total(HeldIn(p), MaxOrders) = inflow[p]
  BY DEF StockBalance
<1>1. HeldIn(p) \in [1..MaxOrders -> Nat] /\ \A o \in 1..MaxOrders : HeldIn(p)[o] = 0
  BY DEF Init, HeldIn, OrderIds
<1>2. Total(HeldIn(p), MaxOrders) = 0
  BY <1>1, TotalZero, GuardAssumption
<1>3. stock[p] \in Nat /\ inflow[p] = stock[p]
  BY GuardAssumption DEF Init
<1> QED BY <1>2, <1>3

(* The service behind the guard implements the contract of the orders: it  *)
(* never sells what is not there, however wrong the counters in Redis are, *)
(* whatever they lose, and whoever repairs them. *)
THEOREM GuardedContract == Spec => ImplementsContract
<1>1. Init => C!ContractInit
  <2> SUFFICES ASSUME Init PROVE C!ContractInit
    OBVIOUS
  <2>1. stock \in [Products -> Nat]
    BY GuardAssumption DEF Init
  <2> QED BY <2>1 DEF Init, C!ContractInit, C!OrderIds, OrderIds, NoItems
<1>2. Init => StockBalance
  BY BalanceInit
<1>3. NumbersDrawnOnce => Carried
  BY DEF NumbersDrawnOnce
<1> QED BY <1>1, <1>2, <1>3, BalanceStep, GuardedContractStep, GuardedTypeCorrect,
           NumbersCorrect, PTL DEF Spec, ImplementsContract, C!Contract

-----------------------------------------------------------------------------
(* The guard is in force when every counter is loaded, nothing rewrites    *)
(* the counters, and the one thing that goes wrong is that a process stops *)
(* or a call never arrives.  (A lost reply or commit, a restart of Redis   *)
(* and a repair do make the counters differ, which GuardHeals is about.)   *)
GuardInForce ==
  /\ Opened = Products
  /\ Repairers = {}
  /\ Faults \subseteq {"stop"}

(* What handlers and reservations then tell of each other. *)
AllLoaded ==
  /\ initialized = Products
  /\ cached = Products
  /\ \A h \in Handlers : proc[h].op # "set"

CreationsReserved == \A h \in Handlers :
  proc[h].op = "create" => proc[h].applied /\ reserved[proc[h].order] = proc[h].request

ReleasesUnsold == \A h \in Handlers :
  proc[h].op = "release" =>
    /\ proc[h].order < nextId
    /\ status[proc[h].order] \in {"none", "cancelled"}
    /\ \A g \in Handlers : proc[g].op = "create" => proc[g].order # proc[h].order

ConfirmsPaid == \A h \in Handlers : proc[h].op = "confirm" => status[proc[h].order] = "paid"

PendingReserved == \A o \in OrderIds : status[o] = "pending" => reserved[o] = items[o]

OrderOps == {"create", "release", "confirm"}

NothingLeft == faults = 0 => \A o \in OrderIds :
  reserved[o] # NoItems =>
    \/ status[o] = "pending"
    \/ \E h \in Handlers : proc[h].op \in OrderOps /\ proc[h].order = o

InForce ==
  /\ AllLoaded
  /\ CreationsReserved
  /\ ReleasesUnsold
  /\ ConfirmsPaid
  /\ PendingReserved
  /\ NothingLeft

(* With every counter loaded the script decides every request: the items   *)
(* that are short have a first one, by their product ids. *)
LEMMA GuardDecides ==
  ASSUME AllLoaded, TypeOK, NEW o \in OrderIds, NEW r \in Requests
  PROVE  PreDeductApplies(o, r) \/ PreDeductRefuses(o, r)
<1> DEFINE S == {p \in Lines(r) : avail[p] < r[p]}
<1>1. S \subseteq Nat /\ Lines(r) \subseteq Nat
  BY GuardAssumption DEF Lines
<1>2. \A p \in Products : r[p] \in Nat /\ avail[p] \in Nat
  BY GuardAssumption DEF TypeOK
<1>3. Lines(r) \subseteq Products /\ cached = Products
  BY DEF Lines, AllLoaded
<1>4. CASE S = {}
  <2>1. \A p \in Lines(r) : Enough(r, p)
    BY <1>2, <1>3, <1>4 DEF Enough
  <2> QED BY <2>1 DEF PreDeductApplies
<1>5. CASE S # {}
  <2>1. PICK m \in S : \A k \in S : m <= k
    <3> HIDE DEF S
    <3> QED BY <1>1, <1>5, LeastNatural
  <2>2. ASSUME NEW q \in Lines(r), q < m PROVE Enough(r, q)
    <3>1. q \notin S
      BY <1>1, <2>1, <2>2
    <3> QED BY <1>2, <1>3, <3>1 DEF Enough
  <2>3. m \in Lines(r) /\ m \in cached /\ avail[m] < r[m]
    BY <1>3, <2>1
  <2>4. HasReservation(o) => PreDeductApplies(o, r)
    BY DEF PreDeductApplies
  <2>5. ~ HasReservation(o) => PreDeductRefuses(o, r)
    BY <2>2, <2>3 DEF PreDeductRefuses
  <2> QED BY <2>4, <2>5
<1> QED BY <1>4, <1>5

(* The steps that remain. *)
LEMMA InForceSteps ==
  ASSUME GuardInForce, TypeOK, InForce, [Next]_vars
  PROVE  \/ UNCHANGED vars
         \/ \E h \in Handlers :
              \/ \E k \in Keys, r \in Requests : ReserveForOrder(h, k, r) \/ RefuseOrder(h, k, r)
              \/ Respond(h) \/ CommitOrder(h) \/ FailOrder(h) \/ CallRedis(h) \/ Stop(h)
              \/ \E o \in OrderIds : CancelOrder(h, o) \/ PayOrder(h, o)
              \/ \E p \in Products, q \in Additions : AddInventory(h, p, q)
<1>1. ~ \E h \in Handlers, k \in Keys, r \in Requests : SkipGuard(h, k, r)
  BY GuardDecides DEF InForce, SkipGuard, Draw
<1>2. ~ \E h \in Handlers, p \in Products, q \in Additions : InitInventory(h, p, q)
  BY DEF InForce, AllLoaded, InitInventory
<1>3. ~ \E w \in Repairers : Repair(w)
  BY DEF GuardInForce
<1>4. Fails => \E h \in Handlers : Stop(h)
  BY DEF GuardInForce, Fails, LosePreDeduct, PreDeductAgain, LoseCommit, CallAgain, LoseRedis,
         Fault
<1> QED BY <1>1, <1>2, <1>3, <1>4 DEF Next, Create, Continue, Change

(* What they do to handlers, orders and reservations. *)
OnlyOf(h) == \A g \in Handlers : g # h => proc'[g] = proc[g]

Passes(h) ==
  /\ proc[h].op \notin OrderOps /\ proc'[h].op \notin OrderOps
  /\ UNCHANGED <<status, items, reserved>>
  /\ nextId' \in {nextId, nextId + 1}

Stops(h) ==
  /\ faults' # 0
  /\ proc'[h].op \notin OrderOps
  /\ UNCHANGED <<status, items, reserved, nextId>>

Reserves(h, r) ==
  /\ nextId \in OrderIds /\ nextId' = nextId + 1
  /\ proc'[h].op = "create" /\ proc'[h].order = nextId
  /\ proc'[h].request = r /\ proc'[h].applied
  /\ proc[h] = Idle
  /\ reserved' = [reserved EXCEPT ![nextId] = r]
  /\ UNCHANGED <<status, items>>

Commits(h) ==
  /\ proc[h].op = "create" /\ proc'[h] = Idle
  /\ status' = [status EXCEPT ![proc[h].order] = "pending"]
  /\ items' = [items EXCEPT ![proc[h].order] = proc[h].request]
  /\ UNCHANGED <<reserved, nextId>>

Withdraws(h) ==
  /\ proc[h].op = "create" /\ proc'[h] = [op |-> "release", order |-> proc[h].order]
  /\ UNCHANGED <<status, items, reserved, nextId>>

Settles(h, o) ==
  /\ proc[h] = Idle
  /\ \/ /\ status[o] \in {"pending", "cancelled"}
        /\ status' = [status EXCEPT ![o] = "cancelled"]
        /\ proc'[h] = [op |-> "release", order |-> o]
     \/ /\ status[o] = "pending"
        /\ status' = [status EXCEPT ![o] = "paid"]
        /\ proc'[h] = [op |-> "confirm", order |-> o]
  /\ UNCHANGED <<items, reserved, nextId>>

Clears(h) ==
  /\ proc[h].op \in {"release", "confirm"} /\ proc'[h] = Idle
  /\ reserved' = [reserved EXCEPT ![proc[h].order] = NoItems]
  /\ proc[h].op = "confirm" => avail' = avail
  /\ UNCHANGED <<status, items, nextId>>

LEMMA InForceEffects ==
  ASSUME GuardInForce, TypeOK, NumbersDrawnOnce, InForce, [Next]_vars
  PROVE  \/ UNCHANGED vars
         \/ \E h \in Handlers :
              /\ OnlyOf(h)
              /\ proc'[h].op # "set"
              /\ UNCHANGED <<initialized, cached>>
              /\ faults' = 0 => faults = 0
              /\ \/ Passes(h) \/ Stops(h) \/ Commits(h) \/ Withdraws(h) \/ Clears(h)
                 \/ \E r \in Requests : Reserves(h, r)
                 \/ \E o \in OrderIds : Settles(h, o)
<1> USE DEF mysql, redis, Idle
<1>1. /\ faults \in Nat
      /\ \A h \in Handlers : \A c : Goes(h, c) => OnlyOf(h) /\ proc'[h] = c
  BY GuardAssumption DEF TypeOK, Goes, OnlyOf
<1>2. ASSUME NEW h \in Handlers, NEW k \in Keys, NEW r \in Requests, ReserveForOrder(h, k, r)
      PROVE  /\ OnlyOf(h) /\ proc'[h].op # "set" /\ UNCHANGED <<initialized, cached, faults>>
             /\ Reserves(h, r)
  <2>1. OnlyOf(h) /\ proc'[h] = Creating(nextId, k, r, TRUE)
    BY <1>1, <1>2 DEF ReserveForOrder
  <2>2. ~ HasReservation(nextId)
    BY <1>2, GuardAssumption
       DEF ReserveForOrder, Draw, NumbersDrawnOnce, Untouched, HasReservation, OrderIds
  <2> QED BY <1>2, <2>1, <2>2 DEF ReserveForOrder, Draw, PreDeduct, Creating, Reserves
<1>3. ASSUME NEW h \in Handlers, NEW k \in Keys, NEW r \in Requests, RefuseOrder(h, k, r)
      PROVE  /\ OnlyOf(h) /\ proc'[h].op # "set" /\ UNCHANGED <<initialized, cached, faults>>
             /\ Passes(h)
  <2>1. OnlyOf(h) /\ proc'[h] = [op |-> "refused", key |-> k, request |-> r]
    BY <1>1, <1>3 DEF RefuseOrder
  <2> QED BY <1>3, <2>1 DEF RefuseOrder, Draw, Passes, OrderOps
<1>4. ASSUME NEW h \in Handlers, Respond(h)
      PROVE  /\ OnlyOf(h) /\ proc'[h].op # "set" /\ UNCHANGED <<initialized, cached, faults>>
             /\ Passes(h)
  <2>1. OnlyOf(h) /\ proc'[h] = Idle
    BY <1>1, <1>4 DEF Respond
  <2> QED BY <1>4, <2>1 DEF Respond, Passes, OrderOps
<1>5. ASSUME NEW h \in Handlers, CommitOrder(h)
      PROVE  /\ OnlyOf(h) /\ proc'[h].op # "set" /\ UNCHANGED <<initialized, cached, faults>>
             /\ Commits(h)
  <2>1. OnlyOf(h) /\ proc'[h] = Idle
    BY <1>1, <1>5 DEF CommitOrder
  <2> QED BY <1>5, <2>1 DEF CommitOrder, Placed, Commits
<1>6. ASSUME NEW h \in Handlers, FailOrder(h)
      PROVE  /\ OnlyOf(h) /\ proc'[h].op # "set" /\ UNCHANGED <<initialized, cached, faults>>
             /\ Withdraws(h)
  <2>1. proc[h].op = "create" /\ proc[h].applied
    BY <1>6 DEF FailOrder, InForce, CreationsReserved
  <2>2. OnlyOf(h) /\ proc'[h] = [op |-> "release", order |-> proc[h].order]
    BY <1>1, <1>6, <2>1 DEF FailOrder
  <2> QED BY <1>6, <2>1, <2>2 DEF FailOrder, Withdraws
<1>7. ASSUME NEW h \in Handlers, Stop(h)
      PROVE  /\ OnlyOf(h) /\ proc'[h].op # "set" /\ UNCHANGED <<initialized, cached>>
             /\ faults' # 0 /\ Stops(h)
  <2>1. OnlyOf(h) /\ proc'[h] = Idle
    BY <1>1, <1>7 DEF Stop
  <2> QED BY <1>1, <1>7, <2>1 DEF Stop, Fault, Stops, OrderOps
<1>8. ASSUME NEW h \in Handlers, NEW o \in OrderIds, CancelOrder(h, o) \/ PayOrder(h, o)
      PROVE  /\ OnlyOf(h) /\ proc'[h].op # "set" /\ UNCHANGED <<initialized, cached, faults>>
             /\ Settles(h, o)
  <2>1. CASE CancelOrder(h, o)
    <3>1. OnlyOf(h) /\ proc'[h] = [op |-> "release", order |-> o]
      BY <1>1, <2>1 DEF CancelOrder
    <3>2. status' = [status EXCEPT ![o] = "cancelled"]
      BY <2>1 DEF CancelOrder, TypeOK
    <3> QED BY <2>1, <3>1, <3>2 DEF CancelOrder, Settles
  <2>2. CASE PayOrder(h, o)
    <3>1. OnlyOf(h) /\ proc'[h] = [op |-> "confirm", order |-> o]
      BY <1>1, <2>2 DEF PayOrder
    <3> QED BY <2>2, <3>1 DEF PayOrder, Settles
  <2> QED BY <1>8, <2>1, <2>2
<1>9. ASSUME NEW h \in Handlers, NEW p \in Products, NEW q \in Additions, AddInventory(h, p, q)
      PROVE  /\ OnlyOf(h) /\ proc'[h].op # "set" /\ UNCHANGED <<initialized, cached, faults>>
             /\ Passes(h)
  <2>1. /\ OnlyOf(h)
        /\ proc'[h] = [op |-> "incr", product |-> p, delta |-> q, fallback |-> stock[p] + q]
    BY <1>1, <1>9 DEF AddInventory
  <2> QED BY <1>9, <2>1 DEF AddInventory, StockUp, Passes, OrderOps
<1>10. ASSUME NEW h \in Handlers, CallRedis(h)
       PROVE  /\ OnlyOf(h) /\ proc'[h].op # "set" /\ UNCHANGED <<initialized, cached, faults>>
              /\ Clears(h) \/ Passes(h)
  <2>1. OnlyOf(h) /\ proc'[h] = Idle /\ UNCHANGED <<mysql, nextId, faults>> /\ Executes(proc[h])
    BY <1>1, <1>10 DEF CallRedis
  <2>2. proc[h].op \in {"release", "confirm", "incr"}
    BY <1>10 DEF CallRedis, RedisCalls, InForce, AllLoaded
  <2>3. CASE proc[h].op \in {"release", "confirm"}
    <3>1. /\ UNCHANGED cached /\ reserved' = [reserved EXCEPT ![proc[h].order] = NoItems]
          /\ proc[h].op = "confirm" => avail' = avail
      BY <2>1, <2>3 DEF Executes, ReleaseReservation, ConfirmReservation
    <3> QED BY <2>1, <2>3, <3>1 DEF Clears
  <2>4. CASE proc[h].op = "incr"
    <3>1. proc[h].product \in cached
      BY <2>4, ProcKinds DEF InForce, AllLoaded
    <3>2. UNCHANGED <<cached, reserved>>
      BY <2>1, <2>4, <3>1 DEF Executes, IncrInventoryStock, SetInventoryStock
    <3> QED BY <2>1, <2>4, <3>2 DEF Passes, OrderOps
  <2> QED BY <2>2, <2>3, <2>4
<1> QED BY <1>2, <1>3, <1>4, <1>5, <1>6, <1>7, <1>8, <1>9, <1>10, InForceSteps

LEMMA InForceStep ==
  GuardInForce /\ TypeOK /\ NumbersDrawnOnce /\ InForce /\ [Next]_vars => InForce'
<1> SUFFICES ASSUME GuardInForce, TypeOK, NumbersDrawnOnce, InForce, [Next]_vars
             PROVE  InForce'
  OBVIOUS
<1> USE DEF OrderOps
<1>1. CASE UNCHANGED vars
  BY <1>1 DEF vars, mysql, redis, InForce, AllLoaded, CreationsReserved, ReleasesUnsold,
              ConfirmsPaid, PendingReserved, NothingLeft
<1>2. ASSUME NEW h \in Handlers, OnlyOf(h), proc'[h].op # "set",
             UNCHANGED <<initialized, cached>>
      PROVE  AllLoaded'
  BY <1>2 DEF InForce, AllLoaded, OnlyOf
<1>3. /\ nextId \in Nat /\ OrderIds \subseteq Nat
      /\ \A x \in OrderIds : x < nextId => x < nextId + 1
      /\ Idle.op \notin OrderOps
  BY GuardAssumption DEF TypeOK, OrderIds, Idle
<1>4. \A h \in Handlers : proc[h].op \in OrderOps => proc[h].order \in OrderIds
  BY ProcKinds
<1>5. /\ \A h \in Handlers : proc[h].op = "create" =>
           /\ proc[h].order < nextId /\ status[proc[h].order] = "none"
           /\ proc[h].applied /\ reserved[proc[h].order] = proc[h].request
      /\ \A h \in Handlers : proc[h].op = "release" =>
           /\ proc[h].order < nextId /\ status[proc[h].order] \in {"none", "cancelled"}
           /\ \A g \in Handlers : proc[g].op = "create" => proc[g].order # proc[h].order
      /\ \A h \in Handlers : proc[h].op = "confirm" => status[proc[h].order] = "paid"
      /\ \A o \in OrderIds : status[o] = "pending" => reserved[o] = items[o]
      /\ \A g, h \in Handlers :
           proc[g].op = "create" /\ proc[h].op = "create" /\ g # h => proc[g].order # proc[h].order
      /\ \A o \in OrderIds : o >= nextId => status[o] = "none" /\ reserved[o] = NoItems
  BY DEF InForce, CreationsReserved, ReleasesUnsold, ConfirmsPaid, PendingReserved,
         NumbersDrawnOnce, Untouched, Carried, NotShared
<1>6. faults = 0 => \A o \in OrderIds :
        reserved[o] # NoItems =>
          \/ status[o] = "pending"
          \/ \E h \in Handlers : proc[h].op \in OrderOps /\ proc[h].order = o
  BY DEF InForce, NothingLeft
<1> DEFINE Rest == CreationsReserved /\ ReleasesUnsold /\ ConfirmsPaid /\ PendingReserved
                     /\ NothingLeft
<1>7. ASSUME NEW h \in Handlers, OnlyOf(h), faults' = 0 => faults = 0, Passes(h) PROVE Rest'
  <2>1. CreationsReserved' /\ ConfirmsPaid' /\ PendingReserved'
    BY <1>5, <1>7 DEF Passes, OnlyOf, CreationsReserved, ConfirmsPaid, PendingReserved
  <2>2. ReleasesUnsold'
    BY <1>3, <1>4, <1>5, <1>7 DEF Passes, OnlyOf, ReleasesUnsold
  <2>3. NothingLeft'
    BY <1>6, <1>7 DEF Passes, OnlyOf, NothingLeft
  <2> QED BY <2>1, <2>2, <2>3
<1>8. ASSUME NEW h \in Handlers, OnlyOf(h), Stops(h) PROVE Rest'
  BY <1>5, <1>8 DEF Stops, OnlyOf, CreationsReserved, ReleasesUnsold, ConfirmsPaid,
                    PendingReserved, NothingLeft
<1>9. ASSUME NEW h \in Handlers, OnlyOf(h), faults' = 0 => faults = 0,
             NEW r \in Requests, Reserves(h, r)
      PROVE  Rest'
  <2>1. \A o \in OrderIds : reserved'[o] = IF o = nextId THEN r ELSE reserved[o]
    BY <1>9 DEF Reserves, TypeOK
  <2>2. \A g \in Handlers : proc[g].op \in {"create", "release"} => proc[g].order # nextId
    BY <1>3, <1>4, <1>5
  <2>3. CreationsReserved'
    BY <1>4, <1>5, <1>9, <2>1, <2>2 DEF Reserves, OnlyOf, CreationsReserved
  <2>4. ReleasesUnsold'
    <3> SUFFICES ASSUME NEW i \in Handlers, proc'[i].op = "release"
                 PROVE  /\ proc'[i].order < nextId'
                        /\ status'[proc'[i].order] \in {"none", "cancelled"}
                        /\ \A g \in Handlers :
                             proc'[g].op = "create" => proc'[g].order # proc'[i].order
      BY DEF ReleasesUnsold
    <3>1. i # h /\ proc'[i] = proc[i]
      BY <1>9 DEF Reserves, OnlyOf
    <3>2. proc'[i].order < nextId' /\ status'[proc'[i].order] \in {"none", "cancelled"}
      BY <1>3, <1>4, <1>5, <1>9, <3>1 DEF Reserves
    <3>3. proc[i].order # nextId
      BY <2>2, <3>1
    <3> QED BY <1>5, <1>9, <3>1, <3>2, <3>3 DEF Reserves, OnlyOf
  <2>5. ConfirmsPaid'
    BY <1>5, <1>9 DEF Reserves, OnlyOf, ConfirmsPaid
  <2>6. PendingReserved'
    <3>1. status[nextId] # "pending"
      BY <1>3, <1>5, <1>9 DEF Reserves
    <3> QED BY <1>5, <1>9, <2>1, <3>1 DEF Reserves, PendingReserved
  <2>7. NothingLeft'
    <3> SUFFICES ASSUME faults' = 0, NEW o \in OrderIds, reserved'[o] # NoItems
                 PROVE  \/ status'[o] = "pending"
                        \/ \E g \in Handlers : proc'[g].op \in OrderOps /\ proc'[g].order = o
      BY DEF NothingLeft
    <3>1. CASE o = nextId
      BY <1>9, <3>1 DEF Reserves
    <3>2. CASE o # nextId
      BY <1>3, <1>6, <1>9, <2>1, <3>2 DEF Reserves, OnlyOf
    <3> QED BY <3>1, <3>2
  <2> QED BY <2>3, <2>4, <2>5, <2>6, <2>7
<1>10. ASSUME NEW h \in Handlers, OnlyOf(h), faults' = 0 => faults = 0, Commits(h) PROVE Rest'
  <2> DEFINE c == proc[h].order
  <2>1. /\ c \in OrderIds
        /\ \A o \in OrderIds : /\ status'[o] = IF o = c THEN "pending" ELSE status[o]
                               /\ items'[o] = IF o = c THEN proc[h].request ELSE items[o]
    BY <1>4, <1>10 DEF Commits, TypeOK
  <2>2. proc'[h].op \notin OrderOps /\ UNCHANGED <<reserved, nextId>>
    BY <1>3, <1>10 DEF Commits
  <2>3. reserved[c] = proc[h].request /\ status[c] = "none"
    BY <1>5, <1>10 DEF Commits
  <2>4. \A g \in Handlers : g # h /\ proc[g].op \in OrderOps => proc[g].order # c
    BY <1>5, <1>10, <2>3 DEF Commits
  <2>5. CreationsReserved'
    BY <1>5, <1>10, <2>2 DEF OnlyOf, CreationsReserved
  <2>6. ReleasesUnsold'
    BY <1>4, <1>5, <1>10, <2>1, <2>2, <2>4 DEF OnlyOf, ReleasesUnsold
  <2>7. ConfirmsPaid'
    BY <1>4, <1>5, <1>10, <2>1, <2>2, <2>4 DEF OnlyOf, ConfirmsPaid
  <2>8. PendingReserved'
    BY <1>5, <2>1, <2>2, <2>3 DEF PendingReserved
  <2>9. NothingLeft'
    BY <1>6, <1>10, <2>1, <2>2 DEF OnlyOf, NothingLeft
  <2> QED BY <2>5, <2>6, <2>7, <2>8, <2>9
<1>11. ASSUME NEW h \in Handlers, OnlyOf(h), faults' = 0 => faults = 0, Withdraws(h) PROVE Rest'
  <2>1. /\ proc'[h].op = "release" /\ proc'[h].order = proc[h].order
        /\ UNCHANGED <<status, items, reserved, nextId>> /\ proc[h].op = "create"
    BY <1>11 DEF Withdraws
  <2>2. CreationsReserved' /\ ConfirmsPaid' /\ PendingReserved'
    BY <1>5, <1>11, <2>1 DEF OnlyOf, CreationsReserved, ConfirmsPaid, PendingReserved
  <2>3. ReleasesUnsold'
    BY <1>5, <1>11, <2>1 DEF OnlyOf, ReleasesUnsold
  <2>4. NothingLeft'
    BY <1>6, <1>11, <2>1 DEF OnlyOf, NothingLeft
  <2> QED BY <2>2, <2>3, <2>4
<1>12. ASSUME NEW h \in Handlers, OnlyOf(h), faults' = 0 => faults = 0,
              NEW o \in OrderIds, Settles(h, o)
       PROVE  Rest'
  <2>1. PICK to \in {"cancelled", "paid"} :
          /\ \A i \in OrderIds : status'[i] = IF i = o THEN to ELSE status[i]
          /\ proc'[h].op = IF to = "paid" THEN "confirm" ELSE "release"
          /\ to = "paid" => status[o] = "pending"
    BY <1>12 DEF Settles, TypeOK
  <2>2. /\ proc'[h].order = o /\ UNCHANGED <<items, reserved, nextId>>
        /\ status[o] \in {"pending", "cancelled"} /\ proc[h].op \notin OrderOps
    BY <1>3, <1>12 DEF Settles
  <2>3. o < nextId
    BY <1>3, <1>5, <2>2
  <2>4. \A g \in Handlers : proc[g].op = "create" => proc[g].order # o
    BY <1>5, <2>2
  <2>5. CreationsReserved'
    BY <1>5, <1>12, <2>1, <2>2 DEF OnlyOf, CreationsReserved
  <2>6. ReleasesUnsold'
    BY <1>4, <1>5, <1>12, <2>1, <2>2, <2>3, <2>4 DEF OnlyOf, ReleasesUnsold
  <2>7. ConfirmsPaid'
    BY <1>4, <1>5, <1>12, <2>1, <2>2 DEF OnlyOf, ConfirmsPaid
  <2>8. PendingReserved'
    BY <1>5, <2>1, <2>2 DEF PendingReserved
  <2>9. NothingLeft'
    BY <1>6, <1>12, <2>1, <2>2 DEF OnlyOf, NothingLeft
  <2> QED BY <2>5, <2>6, <2>7, <2>8, <2>9
<1>13. ASSUME NEW h \in Handlers, OnlyOf(h), faults' = 0 => faults = 0, Clears(h) PROVE Rest'
  <2> DEFINE c == proc[h].order
  <2>1. /\ c \in OrderIds /\ status[c] \in {"none", "cancelled", "paid"}
        /\ \A o \in OrderIds : reserved'[o] = IF o = c THEN NoItems ELSE reserved[o]
        /\ UNCHANGED <<status, items, nextId>> /\ proc'[h].op \notin OrderOps
    BY <1>3, <1>4, <1>5, <1>13 DEF Clears, TypeOK
  <2>2. \A g \in Handlers : proc[g].op = "create" => proc[g].order # c
    BY <1>5, <1>13 DEF Clears
  <2>3. CreationsReserved'
    BY <1>4, <1>5, <1>13, <2>1, <2>2 DEF OnlyOf, CreationsReserved
  <2>4. ReleasesUnsold'
    BY <1>4, <1>5, <1>13, <2>1 DEF OnlyOf, ReleasesUnsold
  <2>5. ConfirmsPaid' /\ PendingReserved'
    BY <1>5, <1>13, <2>1 DEF OnlyOf, ConfirmsPaid, PendingReserved
  <2>6. NothingLeft'
    BY <1>6, <1>13, <2>1 DEF OnlyOf, NothingLeft
  <2> QED BY <2>3, <2>4, <2>5, <2>6
<1> QED BY <1>1, <1>2, <1>7, <1>8, <1>9, <1>10, <1>11, <1>12, <1>13, InForceEffects
        DEF InForce

-----------------------------------------------------------------------------
(* The view of the guard.  A step changes what one order returns and what  *)
(* one handler brings. *)
LEMMA ViewTypes ==
  ASSUME TypeOK, NEW p \in Products
  PROVE  /\ Returning(p) \in [1..MaxOrders -> Nat] /\ Arriving(p) \in [1..MaxHandlers -> Nat]
         /\ Total(Returning(p), MaxOrders) \in Nat /\ Total(Arriving(p), MaxHandlers) \in Nat
         /\ avail[p] \in Nat /\ stock[p] \in Nat
<1>1. Returning(p) \in [1..MaxOrders -> Nat]
  <2>1. \A o \in OrderIds : reserved[o][p] \in Nat
    BY DEF TypeOK
  <2> QED BY <2>1 DEF Returning, OrderIds
<1>2. Arriving(p) \in [1..MaxHandlers -> Nat]
  <2>1. \A h \in Handlers : proc[h].op = "incr" => proc[h].delta \in Nat
    BY ProcKinds
  <2> QED BY <2>1 DEF Arriving, Handlers
<1>3. Total(Returning(p), MaxOrders) \in Nat
  BY <1>1, TotalBounds, GuardAssumption
<1>4. Total(Arriving(p), MaxHandlers) \in Nat
  BY <1>2, TotalBounds, GuardAssumption
<1> QED BY <1>1, <1>2, <1>3, <1>4 DEF TypeOK

LEMMA ReturningChange ==
  ASSUME TypeOK, TypeOK', NEW p \in Products, NEW o \in OrderIds,
         \A i \in OrderIds : i # o => status'[i] = status[i] /\ reserved'[i] = reserved[i]
  PROVE  Total(Returning(p)', MaxOrders) =
           Total(Returning(p), MaxOrders)
             - (IF status[o] \in {"none", "cancelled"} THEN reserved[o][p] ELSE 0)
             + (IF status'[o] \in {"none", "cancelled"} THEN reserved'[o][p] ELSE 0)
<1> DEFINE f == Returning(p)
           g == Returning(p)'
<1>1. /\ f[o] = IF status[o] \in {"none", "cancelled"} THEN reserved[o][p] ELSE 0
      /\ g[o] = IF status'[o] \in {"none", "cancelled"} THEN reserved'[o][p] ELSE 0
  BY DEF Returning
<1>2. \A i \in 1..MaxOrders : i # o => g[i] = f[i]
  BY DEF Returning, OrderIds
<1>3. f \in [1..MaxOrders -> Nat] /\ o \in 1..MaxOrders
  BY ViewTypes DEF OrderIds
<1>4. g \in [1..MaxOrders -> Nat]
  <2>1. \A i \in OrderIds : reserved'[i][p] \in Nat
    BY DEF TypeOK
  <2> QED BY <2>1 DEF Returning, OrderIds
<1> HIDE DEF f, g
<1>5. Total(g, MaxOrders) = Total(f, MaxOrders) - f[o] + g[o]
  BY <1>2, <1>3, <1>4, TotalChange, GuardAssumption
<1> QED BY <1>1, <1>5 DEF f, g

LEMMA ReturningSame ==
  ASSUME NEW p \in Products, UNCHANGED <<status, reserved>>
  PROVE  Total(Returning(p)', MaxOrders) = Total(Returning(p), MaxOrders)
<1>1. Returning(p)' = Returning(p)
  BY DEF Returning
<1> QED BY <1>1

Brings(c, p) == IF c.op = "incr" /\ c.product = p THEN c.delta ELSE 0

LEMMA ArrivingChange ==
  ASSUME TypeOK, TypeOK', NEW p \in Products, NEW h \in Handlers, OnlyOf(h)
  PROVE  Total(Arriving(p)', MaxHandlers) =
           Total(Arriving(p), MaxHandlers) - Brings(proc[h], p) + Brings(proc'[h], p)
<1> DEFINE f == Arriving(p)
           g == Arriving(p)'
<1>1. f[h] = Brings(proc[h], p) /\ g[h] = Brings(proc'[h], p)
  BY DEF Arriving, Brings
<1>2. \A i \in 1..MaxHandlers : i # h => g[i] = f[i]
  BY DEF Arriving, OnlyOf, Handlers
<1>3. f \in [1..MaxHandlers -> Nat] /\ h \in 1..MaxHandlers
  BY ViewTypes DEF Handlers
<1>4. g \in [1..MaxHandlers -> Nat]
  <2>1. \A i \in Handlers : proc'[i].op = "incr" => proc'[i].delta \in Nat
    <3> SUFFICES ASSUME NEW i \in Handlers, proc'[i].op = "incr" PROVE proc'[i].delta \in Nat
      OBVIOUS
    <3>1. proc'[i] \in {Idle} \union Creations \union Refusals \union Calls
      BY DEF TypeOK
    <3> QED BY <3>1 DEF Idle, Creations, Refusals, Calls
  <2> QED BY <2>1 DEF Arriving, Handlers
<1> HIDE DEF f, g
<1>5. Total(g, MaxHandlers) = Total(f, MaxHandlers) - f[h] + g[h]
  BY <1>2, <1>3, <1>4, TotalChange, GuardAssumption
<1> QED BY <1>1, <1>5 DEF f, g

(* Without faults the view and the stock change together; a stop can only  *)
(* lose what a handler was to bring. *)
GuardBounded ==
  \A p \in Products : GuardView(p) <= stock[p] /\ (faults = 0 => GuardView(p) = stock[p])

LEMMA BoundedStep ==
  GuardInForce /\ TypeOK /\ NumbersDrawnOnce /\ InForce /\ GuardBounded /\ [Next]_vars
    => GuardBounded'
<1> SUFFICES ASSUME GuardInForce, TypeOK, NumbersDrawnOnce, InForce, GuardBounded, [Next]_vars,
                    NEW p \in Products
             PROVE  /\ GuardView(p)' <= stock'[p]
                    /\ faults' = 0 => GuardView(p)' = stock'[p]
  BY DEF GuardBounded
<1> USE DEF mysql, redis
<1> DEFINE R == Total(Returning(p), MaxOrders)
           A == Total(Arriving(p), MaxHandlers)
           V == avail[p]
<1>1. TypeOK'
  BY TypeStep
<1>2. /\ V \in Nat /\ R \in Nat /\ A \in Nat /\ stock[p] \in Nat /\ faults \in Nat
      /\ V + R + A <= stock[p]
      /\ faults = 0 => V + R + A = stock[p]
  BY ViewTypes, GuardAssumption DEF GuardBounded, GuardView, TypeOK
<1>3. GuardView(p)' = V' + R' + A'
  BY DEF GuardView
<1>4. \A h \in Handlers : \A c : Goes(h, c) => OnlyOf(h) /\ proc'[h] = c
  BY DEF TypeOK, Goes, OnlyOf
<1>5. \A h \in Handlers : OnlyOf(h) => A' = A - Brings(proc[h], p) + Brings(proc'[h], p)
  BY <1>1, ArrivingChange
<1>6. UNCHANGED <<status, reserved>> => R' = R
  BY ReturningSame
<1>7. ASSUME NEW o \in OrderIds,
             \A i \in OrderIds : i # o => status'[i] = status[i] /\ reserved'[i] = reserved[i]
      PROVE  R' = R - (IF status[o] \in {"none", "cancelled"} THEN reserved[o][p] ELSE 0)
                    + (IF status'[o] \in {"none", "cancelled"} THEN reserved'[o][p] ELSE 0)
  BY <1>1, <1>7, ReturningChange
<1>8. /\ Brings(Idle, p) = 0
      /\ \A c : c.op # "incr" => Brings(c, p) = 0
      /\ \A h \in Handlers : proc[h].op = "incr" => Brings(proc[h], p) \in Nat
  BY ProcKinds DEF Brings, Idle
<1> DEFINE Goal == V' + R' + A' <= stock'[p] /\ (faults' = 0 => V' + R' + A' = stock'[p])
<1> HIDE DEF R, A, V
<1>9. ASSUME UNCHANGED vars PROVE Goal
  <2>1. UNCHANGED <<V, R, A>> /\ stock'[p] = stock[p] /\ faults' = faults
    BY <1>9 DEF vars, V, R, A, Returning, Arriving
  <2> QED BY <1>2, <2>1
<1>10. ASSUME NEW h \in Handlers, NEW k \in Keys, NEW r \in Requests, ReserveForOrder(h, k, r)
       PROVE  Goal
  <2>1. OnlyOf(h) /\ proc'[h].op = "create" /\ proc[h] = Idle
    BY <1>4, <1>10 DEF ReserveForOrder, Creating, Draw
  <2>2. A' = A
    BY <1>2, <1>5, <1>8, <2>1
  <2>3. nextId \in OrderIds /\ ~ HasReservation(nextId)
    BY <1>10, GuardAssumption
       DEF ReserveForOrder, Draw, NumbersDrawnOnce, Untouched, HasReservation, OrderIds
  <2>4. /\ nextId \in OrderIds /\ status[nextId] = "none" /\ reserved[nextId] = NoItems
        /\ status' = status
        /\ \A o \in OrderIds : reserved'[o] = IF o = nextId THEN r ELSE reserved[o]
    BY <1>10, <2>3, GuardAssumption
       DEF ReserveForOrder, Draw, PreDeduct, TypeOK, NumbersDrawnOnce, Untouched, OrderIds
  <2>5. R' = R - 0 + r[p]
    <3>1. status'[nextId] = "none" /\ reserved'[nextId][p] = r[p] /\ reserved[nextId][p] = 0
      BY <2>4 DEF NoItems
    <3> QED BY <1>7, <2>4, <3>1
  <2>6. V' = V - r[p] /\ stock'[p] = stock[p] /\ faults' = faults /\ r[p] \in Nat
    BY <1>10, <2>3, GuardAssumption DEF ReserveForOrder, Draw, PreDeduct, V
  <2> QED BY <1>2, <2>2, <2>5, <2>6
<1>11. ASSUME NEW h \in Handlers,
              \/ \E k \in Keys, r \in Requests : RefuseOrder(h, k, r)
              \/ Respond(h) \/ FailOrder(h)
       PROVE  Goal
  <2>1. OnlyOf(h) /\ proc'[h].op # "incr" /\ proc[h].op # "incr"
    <3>1. CASE \E k \in Keys, r \in Requests : RefuseOrder(h, k, r)
      <4>1. PICK k \in Keys, r \in Requests : RefuseOrder(h, k, r)
        BY <3>1
      <4>2. Goes(h, [op |-> "refused", key |-> k, request |-> r]) /\ proc[h].op = "idle"
        BY <4>1 DEF RefuseOrder, Draw, Idle
      <4> QED BY <1>4, <4>2
    <3>2. CASE Respond(h) \/ FailOrder(h)
      <4>1. proc[h].op \in {"refused", "create"}
            /\ \E c : Goes(h, c) /\ c.op \in {"idle", "release"}
        BY <3>2 DEF Respond, FailOrder, Idle
      <4> QED BY <1>4, <4>1
    <3> QED BY <1>11, <3>1, <3>2
  <2>2. A' = A
    BY <1>2, <1>5, <1>8, <2>1
  <2>3. UNCHANGED <<status, reserved, avail, stock, faults>>
    BY <1>11 DEF RefuseOrder, Draw, Respond, FailOrder
  <2>4. R' = R /\ V' = V
    BY <1>6, <2>3 DEF V
  <2> QED BY <1>2, <2>2, <2>3, <2>4
<1>12. ASSUME NEW h \in Handlers, CommitOrder(h) PROVE Goal
  <2> DEFINE o == proc[h].order
             r == proc[h].request
  <2>1. OnlyOf(h) /\ proc'[h] = Idle /\ proc[h].op = "create" /\ Placed(proc[h])
    BY <1>4, <1>12 DEF CommitOrder
  <2>2. A' = A
    BY <1>2, <1>5, <1>8, <2>1
  <2>3. o \in OrderIds /\ r \in [Products -> Nat] /\ status[o] = "none" /\ reserved[o] = r
    BY <2>1, ProcKinds DEF NumbersDrawnOnce, Carried, InForce, CreationsReserved
  <2>4. /\ \A i \in OrderIds : status'[i] = IF i = o THEN "pending" ELSE status[i]
        /\ UNCHANGED <<reserved, avail, faults>> /\ stock'[p] = stock[p] - r[p]
    BY <1>12, <2>1 DEF CommitOrder, Placed, TypeOK
  <2>5. R' = R - r[p] + 0
    BY <1>7, <2>3, <2>4
  <2>6. V' = V /\ r[p] \in Nat
    BY <2>3, <2>4 DEF V
  <2> HIDE DEF o, r
  <2> QED BY <1>2, <2>2, <2>4, <2>5, <2>6
<1>13. ASSUME NEW h \in Handlers, NEW o \in OrderIds, CancelOrder(h, o) PROVE Goal
  <2>1. OnlyOf(h) /\ proc'[h].op # "incr" /\ proc[h] = Idle
    BY <1>4, <1>13 DEF CancelOrder
  <2>2. A' = A
    BY <1>2, <1>5, <1>8, <2>1
  <2>3. UNCHANGED <<reserved, avail, faults>>
    BY <1>13 DEF CancelOrder
  <2>4. V' = V
    BY <2>3 DEF V
  <2>5. CASE status[o] = "pending"
    <3>1. /\ \A i \in OrderIds : status'[i] = IF i = o THEN "cancelled" ELSE status[i]
          /\ stock'[p] = stock[p] + items[o][p]
      BY <1>13, <2>5 DEF CancelOrder, TypeOK
    <3>2. reserved[o] = items[o] /\ reserved[o][p] \in Nat
      BY <2>5 DEF InForce, PendingReserved, TypeOK
    <3>3. R' = R - 0 + reserved[o][p]
      BY <1>7, <2>3, <2>5, <3>1
    <3> QED BY <1>2, <2>2, <2>3, <2>4, <3>1, <3>2, <3>3
  <2>6. CASE status[o] # "pending"
    <3>1. UNCHANGED <<status, stock>>
      BY <1>13, <2>6 DEF CancelOrder
    <3>2. R' = R
      BY <1>6, <2>3, <3>1
    <3> QED BY <1>2, <2>2, <2>3, <2>4, <3>1, <3>2
  <2> QED BY <2>5, <2>6
<1>14. ASSUME NEW h \in Handlers, NEW o \in OrderIds, PayOrder(h, o) PROVE Goal
  <2>1. OnlyOf(h) /\ proc'[h].op # "incr" /\ proc[h] = Idle
    BY <1>4, <1>14 DEF PayOrder
  <2>2. A' = A
    BY <1>2, <1>5, <1>8, <2>1
  <2>3. UNCHANGED <<reserved, avail, stock, faults>> /\ status[o] = "pending"
    BY <1>14 DEF PayOrder
  <2>4. \A i \in OrderIds : status'[i] = IF i = o THEN "paid" ELSE status[i]
    BY <1>14 DEF PayOrder, TypeOK
  <2>5. R' = R - 0 + 0
    BY <1>7, <2>3, <2>4
  <2>6. V' = V
    BY <2>3 DEF V
  <2> QED BY <1>2, <2>2, <2>3, <2>5, <2>6
<1>15. ASSUME NEW h \in Handlers, NEW d \in Products, NEW q \in Additions, AddInventory(h, d, q)
       PROVE  Goal
  <2>1. /\ OnlyOf(h) /\ proc[h] = Idle
        /\ proc'[h] = [op |-> "incr", product |-> d, delta |-> q, fallback |-> stock[d] + q]
    BY <1>4, <1>15 DEF AddInventory
  <2>2. Brings(proc'[h], p) = IF d = p THEN q ELSE 0
    BY <2>1 DEF Brings
  <2>3. A' = A - 0 + (IF d = p THEN q ELSE 0)
    BY <1>5, <1>8, <2>1, <2>2
  <2>4. UNCHANGED <<status, reserved, avail, faults>> /\ q \in Nat
        /\ stock'[p] = stock[p] + (IF d = p THEN q ELSE 0)
    BY <1>2, <1>15, GuardAssumption DEF AddInventory, StockUp, TypeOK
  <2>5. R' = R /\ V' = V
    BY <1>6, <2>4 DEF V
  <2> QED BY <1>2, <2>3, <2>4, <2>5
<1>16. ASSUME NEW h \in Handlers, CallRedis(h) PROVE Goal
  <2>1. /\ OnlyOf(h) /\ proc'[h] = Idle /\ Executes(proc[h])
        /\ UNCHANGED <<status, stock, faults>>
    BY <1>4, <1>16 DEF CallRedis
  <2>2. proc[h].op \in {"release", "confirm", "incr"}
    BY <1>16 DEF CallRedis, RedisCalls, InForce, AllLoaded
  <2> DEFINE o == proc[h].order
  <2>3. CASE proc[h].op = "release"
    <3>1. A' = A
      BY <1>2, <1>5, <1>8, <2>1, <2>3
    <3>2. o \in OrderIds /\ status[o] \in {"none", "cancelled"} /\ cached = Products
      BY <2>3, ProcKinds DEF InForce, ReleasesUnsold, AllLoaded
    <3>3. /\ \A i \in OrderIds : reserved'[i] = IF i = o THEN NoItems ELSE reserved[i]
          /\ V' = V + reserved[o][p]
      BY <2>1, <2>3, <3>2 DEF Executes, ReleaseReservation, TypeOK, V
    <3>4. NoItems[p] = 0 /\ reserved[o][p] \in Nat
      BY <3>2 DEF NoItems, TypeOK
    <3>5. R' = R - reserved[o][p] + 0
      BY <1>7, <2>1, <3>2, <3>3, <3>4
    <3> HIDE DEF o
    <3> QED BY <1>2, <2>1, <3>1, <3>3, <3>4, <3>5
  <2>4. CASE proc[h].op = "confirm"
    <3>1. A' = A
      BY <1>2, <1>5, <1>8, <2>1, <2>4
    <3>2. o \in OrderIds /\ status[o] = "paid"
      BY <2>4, ProcKinds DEF InForce, ConfirmsPaid
    <3>3. /\ \A i \in OrderIds : reserved'[i] = IF i = o THEN NoItems ELSE reserved[i]
          /\ V' = V
      BY <2>1, <2>4, <3>2 DEF Executes, ConfirmReservation, TypeOK, V
    <3>4. R' = R - 0 + 0
      BY <1>7, <2>1, <3>2, <3>3
    <3> HIDE DEF o
    <3> QED BY <1>2, <2>1, <3>1, <3>3, <3>4
  <2>5. CASE proc[h].op = "incr"
    <3>1. proc[h].product \in cached /\ cached = Products /\ proc[h].delta \in Nat
      BY <2>5, ProcKinds DEF InForce, AllLoaded
    <3>2. A' = A - Brings(proc[h], p) + 0
      BY <1>5, <1>8, <2>1
    <3>3. UNCHANGED reserved /\ V' = V + Brings(proc[h], p)
      <4>1. UNCHANGED reserved
            /\ avail' = [avail EXCEPT ![proc[h].product] = avail[proc[h].product] + proc[h].delta]
        BY <2>1, <2>5, <3>1 DEF Executes, IncrInventoryStock, SetInventoryStock
      <4> QED BY <1>2, <2>5, <3>1, <4>1 DEF V, Brings, TypeOK
    <3>4. R' = R
      BY <1>6, <2>1, <3>3
    <3> QED BY <1>2, <1>8, <2>1, <2>5, <3>2, <3>3, <3>4
  <2> QED BY <2>2, <2>3, <2>4, <2>5
<1>17. ASSUME NEW h \in Handlers, Stop(h) PROVE Goal
  <2>1. /\ OnlyOf(h) /\ proc'[h] = Idle /\ faults' = faults + 1
        /\ UNCHANGED <<status, reserved, avail, stock>>
    BY <1>4, <1>17 DEF Stop, Fault
  <2>2. A' = A - Brings(proc[h], p) + 0 /\ Brings(proc[h], p) \in Nat
    BY <1>5, <1>8, <2>1
  <2>3. R' = R /\ V' = V
    BY <1>6, <2>1 DEF V
  <2> QED BY <1>2, <2>1, <2>2, <2>3
<1>18. Goal
  <2> HIDE DEF Goal
  <2> QED BY <1>9, <1>10, <1>11, <1>12, <1>13, <1>14, <1>15, <1>16, <1>17, InForceSteps
<1> QED BY <1>3, <1>18 DEF R, A, V

-----------------------------------------------------------------------------
(* At the start every counter is loaded and nothing is on its way. *)
LEMMA InForceInit == GuardInForce /\ Init => InForce /\ GuardBounded
<1> SUFFICES ASSUME GuardInForce, Init PROVE InForce /\ GuardBounded
  OBVIOUS
<1>1. \A h \in Handlers : proc[h].op = "idle"
  BY DEF Init, Idle
<1>2. InForce
  BY <1>1 DEF GuardInForce, Init, InForce, AllLoaded, CreationsReserved, ReleasesUnsold,
              ConfirmsPaid, PendingReserved, NothingLeft
<1>3. ASSUME NEW p \in Products PROVE GuardView(p) = stock[p] /\ stock[p] \in Nat
  <2> DEFINE f == Returning(p)
             g == Arriving(p)
  <2>1. \A o \in 1..MaxOrders : f[o] = 0
    BY DEF Init, Returning, OrderIds, NoItems
  <2>2. \A h \in 1..MaxHandlers : g[h] = 0
    BY <1>1 DEF Arriving, Handlers
  <2>3. avail[p] = stock[p] /\ stock[p] \in Nat
    BY GuardAssumption DEF Init
  <2>4. f \in [1..MaxOrders -> Nat]
    BY <2>1 DEF Returning, OrderIds
  <2>5. g \in [1..MaxHandlers -> Nat]
    BY <2>2 DEF Arriving, Handlers
  <2> HIDE DEF f, g
  <2>6. Total(f, MaxOrders) = 0 /\ Total(g, MaxHandlers) = 0
    BY <2>1, <2>2, <2>4, <2>5, TotalZero, GuardAssumption
  <2> QED BY <2>3, <2>6 DEF GuardView, f, g
<1> QED BY <1>2, <1>3 DEF GuardBounded

LEMMA GuardInvariant ==
  ASSUME GuardInForce
  PROVE  Spec => [](TypeOK /\ NumbersDrawnOnce /\ InForce /\ GuardBounded)
<1>1. Init => InForce /\ GuardBounded
  BY InForceInit
<1>2. TypeOK /\ NumbersDrawnOnce /\ InForce /\ [Next]_vars => InForce'
  BY InForceStep
<1>3. TypeOK /\ NumbersDrawnOnce /\ InForce /\ GuardBounded /\ [Next]_vars => GuardBounded'
  BY BoundedStep
<1> QED BY <1>1, <1>2, <1>3, GuardedTypeCorrect, NumbersCorrect, PTL DEF Spec

(* With the guard in force and nothing lost, a counter in Redis differs    *)
(* from the MySQL stock only by the calls still to come, through every     *)
(* interleaving of creations, repetitions, payments, cancellations and     *)
(* additions. *)
THEOREM GuardIsExact ==
  ASSUME GuardInForce
  PROVE  Spec => []GuardExact
<1>1. GuardBounded => GuardExact
  BY DEF GuardBounded, GuardExact
<1> QED BY <1>1, GuardInvariant, PTL

(* A process may stop between the MySQL transaction and the Redis call     *)
(* after it, any number of times: a counter then holds too little, never   *)
(* more than MySQL has. *)
THEOREM GuardNeverOverstates ==
  ASSUME GuardInForce
  PROVE  Spec => []NeverOverstates
<1>1. GuardBounded => NeverOverstates
  BY DEF GuardBounded, NeverOverstates
<1> QED BY <1>1, GuardInvariant, PTL

(* When nothing was lost and no request is running, the reservations in    *)
(* Redis are those of the pending orders: the service releases what it     *)
(* pre-deducted on every way out of a creation, and what a cancellation or *)
(* a payment leaves behind. *)
THEOREM ReservationsDoNotLeak ==
  ASSUME GuardInForce
  PROVE  Spec => []NoReservationLeaks
<1>1. InForce => NoReservationLeaks
  BY DEF InForce, PendingReserved, NothingLeft, OrderOps, Idle, NoReservationLeaks
<1> QED BY <1>1, GuardInvariant, PTL

(* No step gives the stock behind a reservation back to the counters while *)
(* its order is pending or paid: a release is only ever sent for an order  *)
(* that was cancelled or whose transaction failed. *)
THEOREM GuardReturnsOnlyUnsold ==
  ASSUME GuardInForce
  PROVE  Spec => ReturnsOnlyUnsold
<1> DEFINE Returned ==
      \A o \in OrderIds :
        /\ reserved[o] # NoItems
        /\ reserved'[o] = NoItems
        /\ avail' # avail
        => status[o] \in {"none", "cancelled"}
<1>1. TypeOK /\ NumbersDrawnOnce /\ InForce /\ [Next]_vars => [Returned]_vars
  <2> SUFFICES ASSUME TypeOK, NumbersDrawnOnce, InForce, [Next]_vars,
                      NEW o \in OrderIds,
                      reserved[o] # NoItems, reserved'[o] = NoItems, avail' # avail
               PROVE  status[o] \in {"none", "cancelled"}
    OBVIOUS
  <2>1. CASE UNCHANGED vars
    BY <2>1 DEF vars, redis
  <2>2. ASSUME NEW h \in Handlers, NEW r \in Requests, Reserves(h, r) PROVE FALSE
    <3>1. o = nextId
      BY <2>2 DEF Reserves, TypeOK
    <3> QED BY <3>1, GuardAssumption DEF NumbersDrawnOnce, Untouched, OrderIds
  <2>3. ASSUME NEW h \in Handlers, Clears(h) PROVE status[o] \in {"none", "cancelled"}
    <3>1. proc[h].op = "release" /\ proc[h].order = o
      BY <2>3 DEF Clears, TypeOK
    <3> QED BY <3>1 DEF InForce, ReleasesUnsold
  <2>4. \A h \in Handlers :
          ~ (Passes(h) \/ Stops(h) \/ Commits(h) \/ Withdraws(h) \/ \E i \in OrderIds : Settles(h, i))
    BY DEF Passes, Stops, Commits, Withdraws, Settles
  <2> QED BY <2>1, <2>2, <2>3, <2>4, InForceEffects
<1> QED BY <1>1, GuardInvariant, PTL DEF Spec, ReturnsOnlyUnsold
=============================================================================
