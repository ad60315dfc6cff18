----------------------------- MODULE QueryClient -----------------------------
(***************************************************************************)
(* A browser tab of the console: the mounted page, the query cache it      *)
(* shows, the requests its mutations have sent, and the shop they reach.   *)
(*                                                                         *)
(* The shop is the sequence of its states, one for each write, so that a   *)
(* version is a position in it and data read at version v includes every   *)
(* write up to v.  A query is a pair of a list and a number.  Its record   *)
(* in the cache is TanStack Query's: an answer makes it valid, and it is   *)
(* fetched when a page comes to watch it or the window gets the focus if   *)
(* it is not valid or older than ten seconds.  An invalidation starts the  *)
(* fetch of a watched query again -- but a first fetch is joined, not      *)
(* restarted, and the fetch of a query nobody watches runs on.             *)
(***************************************************************************)
EXTENDS Integers, Sequences, FiniteSetsExt

CONSTANTS Start,      \* the orders and products that exist at the beginning
          PageSize,   \* rows of a page
          IsAdmin,    \* who is signed in
          FirstPages, \* the pages the tab can be opened with
          MaxEvents   \* bound: what the user does and what goes wrong, together

Lists == {"orders", "products", "logs", "operations"}
OrderStatuses == {"none", "pending", "paid", "finished", "cancelled"}
ProductStatuses == {"none", "on", "off"}

PagesOf(admin) == {"dashboard", "orders"}
                  \union (IF admin THEN {"products", "inventory", "stockLogs", "operationLogs"} ELSE {})

(* What there is comes first, then the room for more. *)
NoGaps(list) == \A r, q \in DOMAIN list : r < q /\ list[r] = "none" => list[q] = "none"

(* There is room for an order and a product, which are numbered as they    *)
(* are created; every list has a version. *)
ASSUME ConsoleAssumption ==
  /\ Start.orders \in Seq(OrderStatuses) \ {<<>>} /\ NoGaps(Start.orders)
  /\ Start.products \in Seq(ProductStatuses) \ {<<>>} /\ NoGaps(Start.products)
  /\ Start = [orders |-> Start.orders, products |-> Start.products, lists |-> Lists]
  /\ PageSize \in Nat \ {0}
  /\ IsAdmin \in BOOLEAN
  /\ FirstPages \subseteq PagesOf(TRUE)

VARIABLES
  shop,    \* the states of the shop, the last one is now
  cache,   \* cache[k]: what is known and under way of query k, if it was ever asked
  calls,   \* the requests of the mutations, in the order they were sent
  page,    \* the mounted page
  visit,   \* how many pages were opened
  events,  \* how many of the bounded events have happened
  ui       \* the component state of the mounted page

tabVars == <<shop, cache, calls, page, visit, events, ui>>

Orders == DOMAIN Start.orders
Products == DOMAIN Start.products
Now == Len(shop)

(* The rows that page n of a list of m rows shows, newest first. *)
RowsOf(m, n) == {r \in 1..m : (m - r) \div PageSize = n - 1}
Pages(m) == (m + PageSize - 1) \div PageSize
Existing(list) == Cardinality({r \in DOMAIN list : list[r] # "none"})

Event == events < MaxEvents /\ events' = events + 1

-----------------------------------------------------------------------------
(* The keys of the queries, and the lists they are read from. *)
QueryKeys ==
  UNION {{"orders"} \X (1..Pages(Len(Start.orders))), {"order"} \X Orders, {"recent"} \X {0},
         {"products"} \X (1..Pages(Len(Start.products))), {"onSale", "offSale", "all"} \X {0},
         {"logs"} \X ({0} \union Products), {"operations"} \X {0}}

ListOf(k) ==
  CASE k[1] \in {"orders", "order", "recent"} -> "orders"
    [] k[1] \in {"products", "onSale", "offSale", "all"} -> "products"
    [] OTHER -> k[1]

Under(lists) == {k \in QueryKeys : ListOf(k) \in lists}

(* What a component holds when it is mounted. *)
FreshUi == [tab |-> 1, prev |-> 1, selected |-> 0, confirm |-> <<>>,
            shown |-> 0, report |-> 0, crossed |-> {}]

(* The queries of the pages (the useQuery calls that are enabled). *)
OrdersQueries(u) == {<<"orders", u.tab>>, <<"onSale", 0>>}
                      \union {<<"order", o>> : o \in {u.selected} \ {0}}
ProductsQueries(u) == {<<"products", u.tab>>}
InventoryQueries == {<<"all", 0>>}
StockLogsQueries(u) == {<<"all", 0>>, <<"logs", u.selected>>}
OperationLogsQueries == {<<"operations", 0>>}
DashboardQueries == {<<"recent", 0>>}
                      \union (IF IsAdmin THEN {<<"offSale", 0>>, <<"logs", 0>>} ELSE {})

Watched(p, u) ==
  CASE p = "orders" -> OrdersQueries(u)
    [] p = "products" -> ProductsQueries(u)
    [] p = "inventory" -> InventoryQueries
    [] p = "stockLogs" -> StockLogsQueries(u)
    [] p = "operationLogs" -> OperationLogsQueries
    [] p = "dashboard" -> DashboardQueries
    [] p = "error" -> {}

-----------------------------------------------------------------------------
(* The cache.  A fetch that is under way is the version of its list when   *)
(* it was sent: the server reads that one or a later one for it.           *)
(* History: late, old -- the fetch was, the data came from one that was    *)
(* overtaken by a write and not restarted. *)
Idle == 0
VersionsOf(k) == {v \in 1..Now : ListOf(k) \in shop[v].lists}
NoRecord == [data |-> 0, valid |-> FALSE, fetch |-> Idle, late |-> FALSE, old |-> FALSE]

Data(k) == IF k \in DOMAIN cache THEN cache[k].data ELSE 0
Loaded(k) == Data(k) > 0
Fetching(k) == k \in DOMAIN cache /\ cache[k].fetch # Idle

Started(c, k) == [(IF k \in DOMAIN c THEN c[k] ELSE NoRecord)
                    EXCEPT !.fetch = Max(VersionsOf(k)), !.late = FALSE]

(* Queries that come to be watched are fetched unless they are under way,  *)
(* or valid and not among the aged ones. *)
Mount(c, keys, aged) ==
  [k \in DOMAIN c \union keys |->
     IF k \in DOMAIN c /\ (k \notin keys \/ c[k].fetch # Idle \/ (c[k].valid /\ k \notin aged))
     THEN c[k] ELSE Started(c, k)]

(* What a page comes to watch after the cache became c. *)
Watch(c, new) == \E aged \in {{}, new} : cache' = Mount(c, new, aged)

(* invalidateQueries. *)
Invalidate(c, keys, watched) ==
  [k \in DOMAIN c |->
     IF k \notin keys THEN c[k]
     ELSE IF k \in watched /\ (c[k].fetch = Idle \/ c[k].data > 0)
     THEN [Started(c, k) EXCEPT !.valid = FALSE]
     ELSE [c[k] EXCEPT !.valid = FALSE, !.late = c[k].fetch # Idle]]

(* A request that awaits the fetch of k goes on. *)
Awaited(k) == [i \in DOMAIN calls |-> [calls[i] EXCEPT !.waits = @ \ {k}]]

Receive(k) ==
  /\ Fetching(k)
  /\ \E v \in VersionsOf(k) :
       /\ v >= cache[k].fetch
       /\ cache' = [cache EXCEPT ![k] = [NoRecord EXCEPT !.data = v, !.valid = TRUE,
                                            !.old = cache[k].late /\ v < Max(VersionsOf(k))]]
  /\ calls' = Awaited(k)
  /\ UNCHANGED <<shop, page, visit, events, ui>>

(* The window gets the focus. *)
Focus ==
  /\ cache' = Mount(cache, Watched(page, ui), Watched(page, ui))
  /\ cache' # cache
  /\ Event
  /\ UNCHANGED <<shop, calls, page, visit, ui>>

-----------------------------------------------------------------------------
(* The mutations.  A request is sent, and done by the server or refused;   *)
(* or it is given up after its ten seconds, in which case the server may   *)
(* still do it ("left").  Its onSuccess awaits the fetches it restarts     *)
(* ("settling").                                                           *)
(* then: what onSuccess reads of the component's state, -1 while it would  *)
(* read the present one.  History: with -- what was unanswered when the    *)
(* request was sent. *)
Writes ==
  [create |-> {"orders", "logs"}, pay |-> {"orders"}, finish |-> {"orders"}, cancel |-> {"orders", "logs"},
   newProduct |-> {"products", "operations"}, onSale |-> {"products", "operations"},
   offSale |-> {"products", "operations"}, init |-> {"logs", "operations"},
   add |-> {"logs", "operations"}, rebuild |-> {"operations"},
   detail |-> {}, lookup |-> {}, reconcile |-> {}]

Hooks == {{"create"}, {"pay", "finish", "cancel"}, {"newProduct"}, {"onSale", "offSale"},
          {"detail"}, {"lookup"}, {"init"}, {"add"}, {"rebuild"}, {"reconcile"}}

HookOf(kind) == CHOOSE h \in Hooks : kind \in h

Unanswered == {i \in DOMAIN calls : calls[i].stage \in {"sent", "done"}}
Pending == Unanswered \union {i \in DOMAIN calls : calls[i].stage \in {"settling", "closing"}}
Succeeded == {i \in DOMAIN calls : calls[i].stage \in {"settling", "closing", "over"}}
Here(i) == calls[i].visit = visit

(* The request a useMutation hook shows: its last one, 0 if none. *)
Current(hook) == Max({0} \union {i \in DOMAIN calls : Here(i) /\ calls[i].kind \in hook})
IsPending(hook) == Current(hook) \in Pending

(* Callbacks of requests that their hook shows no longer, or of pages left,*)
(* read the state of this moment. *)
Frozen(kinds) ==
  [i \in DOMAIN calls |-> IF Here(i) /\ i \in Pending /\ calls[i].kind \in kinds /\ calls[i].then = -1
                          THEN [calls[i] EXCEPT !.then = ui.selected] ELSE calls[i]]

Sending(cs, kind, n) ==
  Append(cs, [kind |-> kind, n |-> n, visit |-> visit, stage |-> "sent", at |-> 0,
              waits |-> {}, then |-> -1, with |-> Unanswered])

Mutate(kind, n) ==
  /\ calls' = Sending(Frozen(HookOf(kind)), kind, n)
  /\ UNCHANGED <<shop, page, visit>>

(* The server: what a write makes of the last state of the shop. *)
Accepts(kind, n) ==
  CASE kind = "create" -> \E o \in Orders : shop[Now].orders[o] = "none"
    [] kind \in {"pay", "cancel"} -> shop[Now].orders[n] = "pending"
    [] kind = "finish" -> shop[Now].orders[n] = "paid"
    [] kind = "newProduct" -> \E p \in Products : shop[Now].products[p] = "none"
    [] OTHER -> TRUE

Target(kind, n) == IF kind = "create" THEN 1 + Existing(shop[Now].orders)
                   ELSE IF kind = "newProduct" THEN 1 + Existing(shop[Now].products) ELSE n

Becomes == [create |-> "pending", pay |-> "paid", finish |-> "finished", cancel |-> "cancelled",
            newProduct |-> "off", onSale |-> "on", offSale |-> "off"]

Written(kind, n) ==
  CASE "orders" \in Writes[kind] -> [shop[Now] EXCEPT !.orders[Target(kind, n)] = Becomes[kind]]
    [] "products" \in Writes[kind] -> [shop[Now] EXCEPT !.products[Target(kind, n)] = Becomes[kind]]
    [] OTHER -> shop[Now]

ServeCall(i) ==
  /\ calls[i].stage \in {"sent", "left"}
  /\ Accepts(calls[i].kind, calls[i].n)
  /\ LET kind == calls[i].kind IN
       /\ shop' = IF Writes[kind] = {} THEN shop
                  ELSE Append(shop, [Written(kind, calls[i].n) EXCEPT !.lists = Writes[kind]])
       /\ calls' = [calls EXCEPT ![i].stage = IF @ = "left" THEN "gone" ELSE "done",
                                 ![i].at = Len(shop'), ![i].n = Target(kind, calls[i].n)]
  /\ UNCHANGED <<cache, page, visit, events, ui>>

(* onError: a message, nothing else.  Refused for what the shop is; failed; *)
(* or given up in time, when a write may still be done. *)
OnError(i) ==
  /\ i \in Unanswered
  /\ \/ /\ calls[i].stage = "sent" /\ ~ Accepts(calls[i].kind, calls[i].n)
        /\ calls' = [calls EXCEPT ![i].stage = "gone"]
        /\ UNCHANGED events
     \/ /\ calls' = [calls EXCEPT ![i].stage = "gone"]
        /\ Event
     \/ /\ calls[i].stage = "sent" /\ Writes[calls[i].kind] # {}
        /\ calls' = [calls EXCEPT ![i].stage = "left"]
        /\ Event
  /\ UNCHANGED <<shop, cache, page, visit, ui>>

(* onSuccess: the component's state u, the lists it invalidates and what it*)
(* does once they are fetched.  The invalidation comes before the page is  *)
(* rendered with its new state. *)
Succeed(i, u, lists, then) ==
  LET watched == Watched(page, ui)
      c == Invalidate(cache, Under(lists), watched)
  IN /\ calls[i].stage = "done"
     /\ ui' = IF Here(i) THEN u ELSE ui
     /\ Watch(c, Watched(page, ui') \ watched)
     /\ calls' = [calls EXCEPT ![i].stage = IF lists = {} THEN "over" ELSE "settling",
                               ![i].then = then,
                               ![i].waits = {k \in Under(lists) \intersect watched : c[k].fetch # Idle}]
     /\ UNCHANGED <<shop, page, visit, events>>

(* The callbacks that have nothing more to do. *)
Settle(i) ==
  /\ \/ calls[i].stage = "closing"
     \/ calls[i].stage = "settling" /\ calls[i].kind \in {"create", "newProduct"}
  /\ calls[i].waits = {}
  /\ calls' = [calls EXCEPT ![i].stage = "over"]
  /\ UNCHANGED <<shop, cache, page, visit, events, ui>>

(* What the callback of request i sees selected. *)
Sees(i) == IF calls[i].then = -1 THEN ui.selected ELSE calls[i].then

(* Clicks that only change what the page shows; a dialog covers the page. *)
Show(u) ==
  /\ ui.confirm = <<>>
  /\ u # ui
  /\ Event
  /\ ui' = u
  /\ Watch(cache, Watched(page, u) \ Watched(page, ui))
  /\ UNCHANGED <<shop, calls, page, visit>>

-----------------------------------------------------------------------------
(* Opening a page, and being sent to the error page: the mounted one is    *)
(* gone with its state, the cache and the requests are not. *)
Leave(p) ==
  /\ page' = p
  /\ visit' = visit + 1
  /\ ui' = FreshUi

Open(p) ==
  /\ Event
  /\ p \in PagesOf(IsAdmin)
  /\ p # page
  /\ Leave(p)
  /\ Watch(cache, Watched(p, FreshUi))
  /\ calls' = Frozen(DOMAIN Writes)
  /\ UNCHANGED shop

(* A fetch whose retries are used up.  An internal error of the server, of *)
(* whatever query, opens the error page. *)
FetchFails(k) ==
  /\ Fetching(k)
  /\ Event
  /\ cache' = [cache EXCEPT ![k].fetch = Idle, ![k].late = FALSE]
  /\ \/ /\ calls' = Awaited(k)
        /\ UNCHANGED <<page, visit, ui>>
     \/ /\ page # "error"
        /\ Leave("error")
        /\ calls' = [i \in DOMAIN calls |-> [Frozen(DOMAIN Writes)[i] EXCEPT !.waits = @ \ {k}]]
  /\ UNCHANGED shop

TabInit ==
  /\ shop = <<Start>>
  /\ page \in FirstPages
  /\ visit = 1 /\ events = 0
  /\ ui = FreshUi
  /\ cache = Mount(<<>>, Watched(page, FreshUi), {})
  /\ calls = <<>>
=============================================================================
