---------------------------- MODULE OrderContract ----------------------------
(***************************************************************************)
(* What the order service promises, with nothing about how: no counters,   *)
(* no tables, no requests in flight.  Goods come in, an order holds some   *)
(* of them from the moment it is placed until it is cancelled, and an      *)
(* order is only placed on goods that nobody holds.                        *)
(***************************************************************************)
EXTENDS Integers, Totals

CONSTANTS Products, MaxOrders

VARIABLES status,   \* status[o]: "none" until order o is placed
          items,    \* items[o][p]: the quantity of product p in order o
          inflow    \* inflow[p]: everything that ever came into stock

contractVars == <<status, items, inflow>>

OrderIds == 1..MaxOrders

(* The orders whose goods are spoken for. *)
Holding == {"pending", "paid", "finished"}

(* How much of product p the orders hold. *)
Held(p) ==
  Total([o \in OrderIds |-> IF status[o] \in Holding THEN items[o][p] ELSE 0],
        MaxOrders)

ContractInit ==
  /\ status = [o \in OrderIds |-> "none"]
  /\ items = [o \in OrderIds |-> [p \in Products |-> 0]]
  /\ inflow \in [Products -> Nat]

StockIn(p) ==
  /\ inflow'[p] \in Nat /\ inflow'[p] >= inflow[p]
  /\ inflow' = [inflow EXCEPT ![p] = inflow'[p]]
  /\ UNCHANGED <<status, items>>

(* An order is placed on goods that are free, all of it or nothing. *)
Place(o) ==
  /\ status[o] = "none"
  /\ status' = [status EXCEPT ![o] = "pending"]
  /\ items'[o] \in [Products -> Nat]
  /\ items' = [items EXCEPT ![o] = items'[o]]
  /\ \A p \in Products : Held(p) + items'[o][p] <= inflow[p]
  /\ UNCHANGED inflow

Move(o, from, to) ==
  /\ status[o] = from
  /\ status' = [status EXCEPT ![o] = to]
  /\ UNCHANGED <<items, inflow>>

ContractNext ==
  \/ \E p \in Products : StockIn(p)
  \/ \E o \in OrderIds : \/ Place(o)
                         \/ Move(o, "pending", "paid")
                         \/ Move(o, "paid", "finished")
                         \/ Move(o, "pending", "cancelled")

Contract == ContractInit /\ [][ContractNext]_contractVars
=============================================================================
