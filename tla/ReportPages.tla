----------------------------- MODULE ReportPages -----------------------------
(***************************************************************************)
(* The pages that only read: the dashboard, the stock logs with their      *)
(* filter, and the operation logs.                                         *)
(***************************************************************************)
EXTENDS QueryClient

dashboardOrderPageSize == 100

(* The first n rows of a list, newest first. *)
Newest(list, n) == {r \in 1..Existing(list) : r > Existing(list) - n}

(* The orders the dashboard counts, in the state of the shop it has read. *)
PendingOrders(v) ==
  {o \in Newest(shop[v].orders, dashboardOrderPageSize) : shop[v].orders[o] = "pending"}

(* Defect: finished orders are not counted as paid. *)
PaidOnly(v) ==
  {o \in Newest(shop[v].orders, dashboardOrderPageSize) : shop[v].orders[o] = "paid"}

PaidOrders(v) ==
  {o \in Newest(shop[v].orders, dashboardOrderPageSize) : shop[v].orders[o] \in {"paid", "finished"}}

(* The tables of the dashboard: orders with their status, and the writes   *)
(* that left stock logs, one each. *)
RecentOrders(v) == {[id |-> o, status |-> shop[v].orders[o]] : o \in Newest(shop[v].orders, 5)}

LogWrites(v) == {w \in 2..v : "logs" \in shop[w].lists}

RecentLogs(v) == {w \in LogWrites(v) : Cardinality({x \in LogWrites(v) : x > w}) < 6}

(* What the dashboard shows; products and stock logs are the               *)
(* administrator's.  It is empty until its queries have data. *)
Dashboard ==
  LET Of(k, Shown(_)) == IF Data(k) = 0 THEN {} ELSE Shown(Data(k))
      OffSale(v) == {p \in Products : shop[v].products[p] = "off"}
      orders == <<"recent", 0>>
  IN [pending |-> Of(orders, PendingOrders), paid |-> Of(orders, PaidOrders),
      recent |-> Of(orders, RecentOrders),
      offSale |-> IF IsAdmin THEN Of(<<"offSale", 0>>, OffSale) ELSE {},
      logs |-> IF IsAdmin THEN Of(<<"logs", 0>>, RecentLogs) ELSE {}]

(* The stock logs of one product, or of all (0); the filter waits for the  *)
(* products. *)
FilterLogs ==
  LET v == Data(<<"all", 0>>) IN
  /\ v > 0
  /\ \E p \in {0} \union {q \in Products : shop[v].products[q] # "none"} : Show([ui EXCEPT !.selected = p])

ReportsUse == page = "stockLogs" /\ FilterLogs
=============================================================================
