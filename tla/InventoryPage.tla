---------------------------- MODULE InventoryPage ----------------------------
(***************************************************************************)
(* The inventory page: one product is selected for all its forms; looking  *)
(* it up clears what is shown and shows the answer when it comes.          *)
(***************************************************************************)
EXTENDS QueryClient

StockRequests == {"lookup", "init", "add"}

(* What the three selects offer. *)
ProductSelect ==
  LET v == Data(<<"all", 0>>) IN
  IF v = 0 THEN {} ELSE {p \in Products : shop[v].products[p] # "none"}

(* Defect: what was looked up stays. *)
SelectKeepingInventory ==
  \E p \in ProductSelect : Show([ui EXCEPT !.selected = p])

(* History: crossed -- the products about which a request was under way    *)
(* when another one was selected. *)
SelectProduct ==
  \E p \in ProductSelect :
    Show([ui EXCEPT !.selected = p, !.shown = 0,
                    !.crossed = @ \union {calls[i].n : i \in {j \in Pending : Here(j) /\ calls[j].kind \in StockRequests}}])

(* An amount the form accepts: an integer, positive for an addition. *)
HandleInitInventory(quantity) ==
  /\ ~ IsPending({"init"})
  /\ ui.selected > 0 /\ quantity >= 0
  /\ Mutate("init", ui.selected)
  /\ Event
  /\ UNCHANGED <<cache, ui>>

HandleAddInventory(quantity) ==
  /\ ~ IsPending({"add"})
  /\ ui.selected > 0 /\ quantity > 0
  /\ Mutate("add", ui.selected)
  /\ Event
  /\ UNCHANGED <<cache, ui>>

HandleLookupInventory ==
  /\ ~ IsPending({"lookup"})
  /\ ui.selected > 0
  /\ Mutate("lookup", ui.selected)
  /\ ui' = [ui EXCEPT !.shown = 0]
  /\ Event
  /\ UNCHANGED cache

MaintainRedis(kind) ==
  /\ ~ IsPending({kind})
  /\ Mutate(kind, 0)
  /\ Event
  /\ UNCHANGED <<cache, ui>>

-----------------------------------------------------------------------------
LookupShown(i) ==
  /\ calls[i].kind = "lookup"
  /\ Succeed(i, [ui EXCEPT !.shown = i], {}, 0)

StockChanged(i) ==
  /\ calls[i].kind \in {"init", "add"}
  /\ Succeed(i, ui, {"logs"}, calls[i].n)

(* Once the logs are fetched the product is looked up, whatever is         *)
(* selected by now. *)
StockSettles(i) ==
  /\ calls[i].kind \in {"init", "add"}
  /\ calls[i].stage = "settling" /\ calls[i].waits = {}
  /\ IF Here(i)
     THEN /\ calls' = Sending([calls EXCEPT ![i].stage = "over"], "lookup", calls[i].then)
          /\ ui' = [ui EXCEPT !.shown = 0]
     ELSE /\ calls' = [calls EXCEPT ![i].stage = "over"]
          /\ UNCHANGED ui
  /\ UNCHANGED <<shop, cache, page, visit, events>>

(* Defect: the report stays after a rebuild. *)
RebuiltKeepingReport(i) ==
  /\ calls[i].kind = "rebuild"
  /\ Succeed(i, ui, {}, 0)

Rebuilt(i) ==
  /\ calls[i].kind = "rebuild"
  /\ Succeed(i, [ui EXCEPT !.report = 0], {}, 0)

Reconciled(i) ==
  /\ calls[i].kind = "reconcile"
  /\ Succeed(i, [ui EXCEPT !.report = i], {}, 0)

InventoryUse ==
  /\ page = "inventory"
  /\ \/ SelectProduct \/ HandleLookupInventory
     \/ \E quantity \in {-1, 0, 1} : HandleInitInventory(quantity) \/ HandleAddInventory(quantity)
     \/ \E kind \in {"rebuild", "reconcile"} : MaintainRedis(kind)

InventoryAnswer(i) == LookupShown(i) \/ StockChanged(i) \/ StockSettles(i) \/ Rebuilt(i) \/ Reconciled(i)
=============================================================================
