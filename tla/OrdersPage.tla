------------------------------ MODULE OrdersPage ------------------------------
(***************************************************************************)
(* The orders page: the list, the detail card, the confirmation dialog and *)
(* the outcome of the create form, whose keys OrderSubmission models.      *)
(***************************************************************************)
EXTENDS QueryClient

ActionHook == {"pay", "finish", "cancel"}
ListKey == <<"orders", ui.tab>>

(* The version the list shows: the page's own data, while they are loaded  *)
(* those of the page before. *)
ShownOrders ==
  IF Loaded(ListKey) THEN <<ui.tab, Data(ListKey)>>
  ELSE IF Fetching(ListKey) THEN <<ui.prev, Data(<<"orders", ui.prev>>)>>
  ELSE <<ui.tab, 0>>

OrderRows ==
  LET v == ShownOrders[2] IN
  IF v = 0 THEN {}
  ELSE {[id |-> o, status |-> shop[v].orders[o]] : o \in RowsOf(Existing(shop[v].orders), ShownOrders[1])}

OrderDetail ==
  LET k == <<"order", ui.selected>> IN
  IF ui.selected = 0 \/ ~ Loaded(k) THEN {}
  ELSE {[id |-> ui.selected, status |-> shop[cache[k].data].orders[ui.selected]]}

IsOrderActionAllowed(status, action) ==
  IF action \in {"pay", "cancel"} THEN status = "pending" ELSE status = "paid"

RequiresOrderActionConfirmation(action) == action \in {"finish", "cancel"}

(* Defect: the buttons do not look at the request under way. *)
ActionsIgnoringPending(order) == {a \in ActionHook : IsOrderActionAllowed(order.status, a)}

(* The buttons of an order: none while the request the hook shows is about *)
(* this order. *)
OrderActions(order) ==
  IF IsPending(ActionHook) /\ calls[Current(ActionHook)].n = order.id THEN {}
  ELSE {a \in ActionHook : IsOrderActionAllowed(order.status, a)}

(* A row or the card is clicked; nothing else is while the dialog is open. *)
RequestOrderAction(order, action) ==
  /\ ui.confirm = <<>>
  /\ action \in OrderActions(order)
  /\ IF RequiresOrderActionConfirmation(action)
     THEN /\ ui' = [ui EXCEPT !.confirm = <<order.id, action>>]
          /\ UNCHANGED <<shop, calls, page, visit>>
     ELSE /\ Mutate(action, order.id)
          /\ UNCHANGED ui
  /\ Event
  /\ UNCHANGED cache

Confirm ==
  /\ ui.confirm # <<>>
  /\ ~ IsPending(ActionHook)
  /\ Mutate(ui.confirm[2], ui.confirm[1])
  /\ Event
  /\ UNCHANGED <<cache, ui>>

Dismiss ==
  /\ ui.confirm # <<>>
  /\ ui' = [ui EXCEPT !.confirm = <<>>]
  /\ UNCHANGED <<shop, cache, calls, page, visit, events>>

SelectOrder == \E order \in OrderRows : Show([ui EXCEPT !.selected = order.id])

ResetOrderForm == Show([ui EXCEPT !.selected = 0])

OrderPages == IF Loaded(ListKey) THEN Pages(Existing(shop[Data(ListKey)].orders)) ELSE 0

ToPage(n) == Show([ui EXCEPT !.tab = n, !.prev = IF Loaded(ListKey) THEN ui.tab ELSE @])

(* Defect: the last page can be left for the next one. *)
TurnPastTheEnd ==
  /\ ~ Fetching(ListKey)
  /\ \/ ui.tab > 1 /\ ToPage(ui.tab - 1)
     \/ ui.tab <= OrderPages /\ <<"orders", ui.tab + 1>> \in QueryKeys /\ ToPage(ui.tab + 1)

TurnOrderPage ==
  /\ ~ Fetching(ListKey)
  /\ \/ ui.tab > 1 /\ ToPage(ui.tab - 1)
     \/ ui.tab < OrderPages /\ ToPage(ui.tab + 1)

(* The products that can be ordered, and the submit button. *)
ProductOptions ==
  LET v == Data(<<"onSale", 0>>) IN
  IF v = 0 THEN {} ELSE {p \in Products : shop[v].products[p] = "on"}

SubmitOrder ==
  /\ ui.confirm = <<>>
  /\ ~ IsPending({"create"})
  /\ ProductOptions # {}
  /\ Mutate("create", 0)
  /\ Event
  /\ UNCHANGED <<cache, ui>>

-----------------------------------------------------------------------------
(* Defect: only the orders are fetched again. *)
OrderCreatedOrdersOnly(i) ==
  /\ calls[i].kind = "create"
  /\ Succeed(i, [ui EXCEPT !.selected = calls[i].n, !.tab = 1, !.prev = IF Loaded(ListKey) THEN ui.tab ELSE @],
             {"orders"}, 0)

OrderCreated(i) ==
  /\ calls[i].kind = "create"
  /\ Succeed(i, [ui EXCEPT !.selected = calls[i].n, !.tab = 1, !.prev = IF Loaded(ListKey) THEN ui.tab ELSE @],
             {"orders", "logs"}, 0)

OrderActed(i) ==
  /\ calls[i].kind \in ActionHook
  /\ Succeed(i, [ui EXCEPT !.confirm = <<>>], {"orders", "logs"}, Sees(i))

(* Once the lists are fetched the selected order is, once more. *)
OrderActionSettles(i) ==
  LET again == {<<"order", o>> : o \in {calls[i].then} \ {0}}
      watched == Watched(page, ui)
  IN /\ calls[i].kind \in ActionHook
     /\ calls[i].stage = "settling" /\ calls[i].waits = {}
     /\ cache' = Invalidate(cache, again, watched)
     /\ calls' = [calls EXCEPT ![i].stage = "closing", ![i].waits = again \intersect watched]
     /\ UNCHANGED <<shop, page, visit, events, ui>>

OrdersUse ==
  /\ page = "orders"
  /\ \/ \E order \in OrderRows \union OrderDetail, a \in ActionHook : RequestOrderAction(order, a)
     \/ Confirm \/ Dismiss \/ SelectOrder \/ ResetOrderForm \/ TurnOrderPage \/ SubmitOrder

OrdersAnswer(i) == OrderCreated(i) \/ OrderActed(i) \/ OrderActionSettles(i)
=============================================================================
