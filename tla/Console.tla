------------------------------- MODULE Console -------------------------------
(***************************************************************************)
(* The pages of the console in one browser tab, mounted one at a time over *)
(* one query cache.                                                        *)
(***************************************************************************)
EXTENDS OrdersPage, ProductsPage, InventoryPage, ReportPages

Use == OrdersUse \/ ProductsUse \/ InventoryUse \/ ReportsUse \/ \E p \in PagesOf(TRUE) : Open(p)

FetchEnds(k) == Receive(k) \/ FetchFails(k)

Busy == Pending # {} \/ \E k \in DOMAIN cache : Fetching(k)

CallEnds(i) == OrdersAnswer(i) \/ ProductsAnswer(i) \/ InventoryAnswer(i) \/ OnError(i) \/ Settle(i)

(* Requests and fetches are answered, refused or given up in time, and     *)
(* their callbacks run. *)
Progress ==
  \/ \E k \in DOMAIN cache : FetchEnds(k)
  \/ \E i \in DOMAIN calls : ServeCall(i) \/ CallEnds(i)

Next == Use \/ Focus \/ Progress

Spec == TabInit /\ [][Next]_tabVars /\ WF_tabVars(Progress)

-----------------------------------------------------------------------------
(* Whatever page is opened, a list that passes for valid includes every    *)
(* write that was acknowledged in this tab -- the mutations invalidate all *)
(* the lists they change -- unless its fetch was overtaken by that write   *)
(* and could not be started again.  The operation logs are not             *)
(* invalidated by anything. *)
ReadYourWrites ==
  \A k \in DOMAIN cache \ Under({"operations"}), i \in Succeeded :
    ListOf(k) \in Writes[calls[i].kind] /\ cache[k].valid /\ ~ Fetching(k) /\ ~ cache[k].old
      => cache[k].data >= calls[i].at

(* The detail card of the products page shows the product asked for last,  *)
(* as it was read for that request, if no other lookup was under way; the  *)
(* inventory card shows it or nothing. *)
LastAskedIsShown ==
  LET asked == {i \in DOMAIN calls : Here(i) /\ calls[i].kind \in {"detail", "lookup"}}
      last == Max(asked)
  IN /\ asked # {}
     /\ calls[last].stage = "over"
     /\ calls[last].with \intersect asked = {}
     => \/ ui.shown = last
        \/ page = "inventory" /\ ui.shown = 0

(* The inventory page shows the selected product, unless a request about   *)
(* the other one was under way when the selection changed. *)
InventoryOfSelection ==
  page = "inventory" /\ ui.shown # 0
    => calls[ui.shown].n \in {ui.selected} \union ui.crossed

(* No report from before a rebuild is shown after it, unless the two       *)
(* requests overlapped. *)
ReportNotFromBefore ==
  page = "inventory" /\ ui.report # 0
    => \A i \in Succeeded :
         Here(i) /\ calls[i].kind = "rebuild"
           => \/ calls[ui.report].at >= calls[i].at
              \/ i \in calls[ui.report].with \/ ui.report \in calls[i].with

(* The page number of a list never leaves the range of the list, of which  *)
(* the first page is always a part. *)
PageInRange ==
  /\ page = "orders" /\ ui.tab # 1 => ui.tab \in 1..Pages(Existing(shop[Now].orders))
  /\ page = "products" /\ ui.tab # 1 => ui.tab \in 1..Pages(Existing(shop[Now].products))

(* An order is only acted on again while an action on it is unanswered if  *)
(* the page has sent one on another order in between. *)
RepeatOnlyAfterAnother ==
  \A i, j \in DOMAIN calls :
    /\ calls[i].kind \in ActionHook /\ calls[j].kind \in ActionHook
    /\ i \in calls[j].with /\ calls[i].visit = calls[j].visit
    /\ calls[i].n = calls[j].n
    => \E m \in i..j : calls[m].kind \in ActionHook /\ calls[m].n # calls[i].n

(* The dashboard, once it has loaded, counts an order paid or finished in  *)
(* this tab in the paid amount and not among the pending ones, and lists a *)
(* new order and a cancelled one as such, unless a hundred or five orders  *)
(* are newer.  To an administrator it counts a product created or taken    *)
(* off sale among those that are off sale, unless it has been put on sale  *)
(* since, and lists the stock logs of every write that left one, unless    *)
(* six others have followed. *)
DashboardCountsWrites ==
  LET Fresh(k) == k \in DOMAIN cache /\ cache[k].valid /\ ~ Fetching(k) /\ ~ cache[k].old
      read == Data(<<"recent", 0>>)
      Among(i, m) == calls[i].n > Existing(shop[read].orders) - m
      Listed(o) == {row.status : row \in {r \in Dashboard.recent : r.id = o}}
  IN page = "dashboard" =>
    \A i \in Succeeded :
      /\ Fresh(<<"recent", 0>>) =>
           /\ calls[i].kind \in {"pay", "finish"} /\ Among(i, dashboardOrderPageSize)
                => calls[i].n \in Dashboard.paid \ Dashboard.pending
           /\ calls[i].kind = "create" /\ Among(i, 5) => Listed(calls[i].n) # {}
           /\ calls[i].kind = "cancel" /\ Among(i, 5) => Listed(calls[i].n) = {"cancelled"}
      /\ IsAdmin /\ Fresh(<<"offSale", 0>>) /\ calls[i].kind \in {"newProduct", "offSale"}
           => \/ calls[i].n \in Dashboard.offSale
              \/ \E v \in calls[i].at .. Data(<<"offSale", 0>>) : shop[v].products[calls[i].n] = "on"
      /\ IsAdmin /\ Fresh(<<"logs", 0>>) /\ "logs" \in Writes[calls[i].kind]
           => \/ calls[i].at \in Dashboard.logs
              \/ Cardinality({w \in LogWrites(Data(<<"logs", 0>>)) : w > calls[i].at}) >= 6

(* Buttons come back and tables fill: nothing stays pending for ever, in   *)
(* spite of callbacks that wait for other fetches. *)
SpinnerStops == Busy ~> ~ Busy
=============================================================================
