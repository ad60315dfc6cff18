----------------------------- MODULE ProductsPage -----------------------------
(***************************************************************************)
(* The products page.  The detail card is filled by a mutation, so that    *)
(* its answers are shown in the order they come.                           *)
(***************************************************************************)
EXTENDS QueryClient

StatusHook == {"onSale", "offSale"}
CatalogueKey == <<"products", ui.tab>>

ShownCatalogue ==
  IF Loaded(CatalogueKey) THEN <<ui.tab, Data(CatalogueKey)>>
  ELSE IF Fetching(CatalogueKey) THEN <<ui.prev, Data(<<"products", ui.prev>>)>>
  ELSE <<ui.tab, 0>>

CatalogueRows ==
  LET v == ShownCatalogue[2] IN
  IF v = 0 THEN {}
  ELSE {[id |-> p, status |-> shop[v].products[p]]
          : p \in RowsOf(Existing(shop[v].products), ShownCatalogue[1])}

(* The detail card: the product of the last answer, as it was read then. *)
ProductCard ==
  IF ui.shown = 0 THEN {}
  ELSE {[id |-> ui.selected, status |-> shop[calls[ui.shown].at].products[ui.selected]]}

StatusButtons(product) ==
  IF IsPending(StatusHook) /\ calls[Current(StatusHook)].n = product.id THEN {}
  ELSE {IF product.status = "on" THEN "offSale" ELSE "onSale"}

ChangeStatus ==
  /\ \E product \in CatalogueRows \union ProductCard, action \in StatusHook :
       action \in StatusButtons(product) /\ Mutate(action, product.id)
  /\ Event
  /\ UNCHANGED <<cache, ui>>

AskDetail ==
  /\ \E product \in CatalogueRows : Mutate("detail", product.id)
  /\ Event
  /\ UNCHANGED <<cache, ui>>

(* handleCreateProduct: an empty name and a price that is no amount with   *)
(* two decimals are turned down before anything is sent. *)
SubmitProduct(name, fen) ==
  /\ ~ IsPending({"newProduct"})
  /\ name # "" /\ fen > 0
  /\ Mutate("newProduct", 0)
  /\ Event
  /\ UNCHANGED <<cache, ui>>

CataloguePages ==
  IF Loaded(CatalogueKey) THEN Pages(Existing(shop[Data(CatalogueKey)].products)) ELSE 0

ToCataloguePage(n) == Show([ui EXCEPT !.tab = n, !.prev = IF Loaded(CatalogueKey) THEN ui.tab ELSE @])

TurnCataloguePage ==
  /\ ~ Fetching(CatalogueKey)
  /\ \/ ui.tab > 1 /\ ToCataloguePage(ui.tab - 1)
     \/ ui.tab < CataloguePages /\ ToCataloguePage(ui.tab + 1)

-----------------------------------------------------------------------------
ProductCreated(i) ==
  /\ calls[i].kind = "newProduct"
  /\ Succeed(i, [ui EXCEPT !.tab = 1, !.prev = IF Loaded(CatalogueKey) THEN ui.tab ELSE @],
             {"products"}, 0)

StatusChanged(i) ==
  /\ calls[i].kind \in StatusHook
  /\ Succeed(i, ui, {"products"}, Sees(i))

(* Defect: the request ends only if the card showed its product. *)
StatusSettlesForCard(i) ==
  /\ calls[i].kind \in StatusHook
  /\ calls[i].stage = "settling" /\ calls[i].waits = {}
  /\ calls[i].then = calls[i].n /\ Here(i)
  /\ calls' = Sending([Frozen({"detail"}) EXCEPT ![i].stage = "over"], "detail", calls[i].n)
  /\ UNCHANGED <<shop, cache, page, visit, events, ui>>

(* Once the lists are fetched the card is, if it showed this product when  *)
(* the answer came. *)
StatusSettles(i) ==
  /\ calls[i].kind \in StatusHook
  /\ calls[i].stage = "settling" /\ calls[i].waits = {}
  /\ calls' = IF calls[i].then = calls[i].n /\ Here(i)
              THEN Sending([Frozen({"detail"}) EXCEPT ![i].stage = "over"], "detail", calls[i].n)
              ELSE [calls EXCEPT ![i].stage = "over"]
  /\ UNCHANGED <<shop, cache, page, visit, events, ui>>

(* Defect: only the first answer fills the card. *)
DetailShownOnce(i) ==
  /\ calls[i].kind = "detail"
  /\ Succeed(i, IF ui.shown = 0 THEN [ui EXCEPT !.selected = calls[i].n, !.shown = i] ELSE ui, {}, 0)

DetailShown(i) ==
  /\ calls[i].kind = "detail"
  /\ Succeed(i, [ui EXCEPT !.selected = calls[i].n, !.shown = i], {}, 0)

ProductsUse ==
  /\ page = "products"
  /\ ChangeStatus \/ AskDetail \/ TurnCataloguePage \/ \E name \in {"", "cup"}, fen \in {0, 100} : SubmitProduct(name, fen)

ProductsAnswer(i) == ProductCreated(i) \/ StatusChanged(i) \/ StatusSettles(i) \/ DetailShown(i)
=============================================================================
