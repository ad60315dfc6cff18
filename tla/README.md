# TLA+ specifications of the order management system

The repository is a Go service (gin, gorm/MySQL, Redis, RabbitMQ) with a React
front end.  It sells products from a stock: customers place orders, pay, finish
or cancel them, and orders nobody pays are cancelled by a timeout.  MySQL is the
authority on stock, Redis holds counters that turn sold-out traffic away before
it reaches MySQL, RabbitMQ delays the timeout events.

This directory models the parts where the difficulty lies: several requests, two
stores and a queue, with crashes and lost calls between them.

## 1. Inventory of the system

| part | state | operations | interacts with |
|---|---|---|---|
| order service (`internal/service/order_service.go`, `internal/dao`) | `orders`, `order_items`, `order_idempotency_keys`, outbox row of each order | `CreateOrder`, `PayOrder`, `FinishOrder`, `CancelOrder`, `CancelExpiredOrder` | inventory rows and stock logs in the same transaction; the stock guard before and after it; the id generator |
| inventory service (`inventory_service.go`, `inventory_dao.go`) | `product_inventories` (stock and locked quantity), `stock_logs` | `InitInventory`, `AddInventory`, rebuild, reconcile | the stock guard after the transaction |
| stock guard (`internal/bizcache/inventory_stock_guard.go`) | Redis counters, one reservation per order | three Lua scripts (pre-deduct, release, increment), confirm, set, rebuild | called by both services, no transaction across stores |
| reconciliation (`internal/inventoryreconcile`) | none of its own | list MySQL, read Redis, write what differs | MySQL, stock guard |
| order timeout (`internal/ordertimeout`, outbox and dead-letter DAOs) | outbox rows, RabbitMQ queues, dead letters | claim, publish, mark; consume, acknowledge, requeue, reject; store dead letters | MySQL, RabbitMQ, `CancelExpiredOrder` |
| id generator (`pkg/idgen`) | last timestamp, sequence number | `NextID` | the clock |
| row locks (InnoDB, through the statements of the DAOs) | locks held and waited for | every transaction above | one another |
| product service and detail cache (`product_service.go`, `internal/bizcache/product_cache.go`) | `products`, cached details | create, read, on sale, off sale | the order service reads the status from MySQL |
| order form of the front end (`orders.tsx`, `order-submission.ts`, `order-draft.ts`) | draft, key of the submission in flight, rendered button | fill in, submit, reset, leave; success, error, time limit | `POST /orders` |
| business pages of the console (`fronted/src/features/order-inventory`) | selected rows, page numbers, dialogs, what was looked up | the clicks, and the callbacks of the mutations | the query cache; the services above |
| query cache (TanStack Query, configured in `main.tsx`) | data, validity and fetch of every query; the requests of the mutations | fetch, invalidate, receive, fail | the pages that watch it; the API |
| session (`stores/auth-store.ts`, `features/auth`, `lib/api-client.ts`, the `beforeLoad` guards) | user and token, the current-user query, location and mounted page | sign in, up and out, guards, 401, account forms | cookies; the API; the layout |
| appearance (`context`, `config-drawer.tsx`, `command-menu.tsx`, `ui/sidebar.tsx`) | theme, font, direction, side bar, command menu | the settings and their reset | cookies; the operating system's scheme; the width of the window |
| server side of users, tokens and roles, middleware, audit log, handlers, configuration, metrics | mostly none | | |

What is hard here, in the order of importance:

* **Races on one order.**  A payment, a cancellation and the timeout read the
  order without a lock and write it later; only the condition on `status` in
  `PatchOrderStatus` keeps them apart.
* **Stock accounting.**  Every quantity is in one of stock, locked or sold, and
  moves with a conditional update and a log entry; a drift shows only after a
  long mix of operations.
* **Two stores.**  The Redis call comes before (creation) or after (everything
  else) the MySQL transaction; a process may stop between the two, the reply or
  the commit acknowledgement may be lost, the call may be carried out twice, and
  reconciliation writes quantities it read earlier.
* **Repeated requests.**  Clients send a creation again with the same key.
* **At-least-once timeouts.**  Several worker instances share the outbox under
  leases, the broker redelivers, messages can be early, and retries are limited.
* **Clocks.**  Order numbers depend on a clock that can be set back.
* **Cache-aside reads.**  Nothing orders a reader that fills the cache and a
  writer that updates the row and deletes the entry.
* **Clicks and answers.**  The submit button is disabled a moment after the click,
  answers come in any order or not at all, and the key must follow the order the
  user means.
* **A cache in the browser.**  Pages show what was fetched; a write invalidates
  lists that are being fetched, watched by another page, or nobody's, and its
  callback waits for their fetches before it does the rest.
* **Late answers.**  Details, inventories and reports are answered out of order and
  after the selection has changed; profiles and 401s arrive after a sign-out, or
  in the next session.
* **Guards that wait.**  An admin page is shown after an answer, and the user may go
  elsewhere in the meantime.
* **Lock order.**  Transactions lock the stock rows of several products.

`PROJECT.json` lists the hazards one by one, each with its line and with the
properties that would catch it.

## 2. Modules

    OrderContract           what is promised: no order on goods another one holds
      ^ implemented by (C == INSTANCE OrderContract WITH ...)
    OrderLifecycle          MySQL transactions of orders and inventory
      OrderLifecycleProofs  theorems about it
    GuardedOrders           the same operations with Redis, faults and repair
      (also implements OrderContract)
      GuardedOrdersProofs
    OrderTimeout            outbox, worker instances, RabbitMQ queues
      OrderTimeoutProofs
    Snowflake               order numbers
    RowLocks                who waits for whose row
      ServiceProcess        these two, as a creation meets them
      ConcurrencyProofs     theorems about the two
    Storefront              the two below, with the creation they meet in
      ProductCache          product row, cached entry, readers and writers
      OrderSubmission       order form, its requests and their answers
      StorefrontProofs
    Console                 the pages of the console over one query cache
      QueryClient           the cache, the requests, the shop they reach
      OrdersPage, ProductsPage, InventoryPage, ReportPages
      ConsoleProofs
    Browser                 the frame around the pages, in one tab
      Cookies               what outlives a page load
      Session               token, profile, guards, account forms
      Appearance            theme, layout, side bar, command menu
      BrowserProofs
    Totals, TotalsProofs    sums over a range, and the lemmas about them
    MC...                   item lists, symmetry and other values for TLC

**OrderContract.**  Three variables: the status and items of each order and what
came into stock.  `Place` requires that the goods are free, `Move` follows the
life of an order, `StockIn` adds goods.  No counters.

**OrderLifecycle.**  The tables are variables (`stock`, `locked`, `status`,
`idem`, `stockLogs`, ...); `inflow`, `sold` and `answers` are history variables.
A transaction takes effect at its commit, in one step, because it holds the locks
of the rows it writes until then.  What the code reads before the transaction, or
without a lock, is a step of its own: `BeginCreate` / `CommitCreate`, `BeginPay` /
`CommitPay`, `BeginFinish` / `CommitFinish`, `BeginCancel` and `BeginCancelExpired` /
`CommitCancel`, `BeginInitInventory` / `CommitInitInventory`.  `BeginCreate` has
inserted the key, so that no other creation gets past it (`KeyHeld`), and has read
the products; one of them may go off sale before `CommitCreate`.  `act[h]` is what
handler `h` has read and is about to use.  `Abort` is every early return and every failed
transaction after such a read.  The DAO updates (`ReserveInventory`,
`ReleaseLockedInventory`, `ConsumeLockedInventory`, `PatchOrderStatus`,
`AcquireKey`, `CompleteOrderIdempotencyKey`) are operators whose conditions are the
WHERE clauses and the unique indexes.

**GuardedOrders.**  The MySQL side is reduced to one step per transaction and to
the columns the guard relates to (theorem `PendingIsReleasable` is why
`locked_quantity` may be left out: no payment or cancellation of a pending order
fails on it).  Each Lua script is one step.  `proc[h]` is where a request is
between the stores, `repair[w]` where the reconciliation worker or the rebuild
endpoint is, product by product.  Faults: a process stops or a call never arrives
(`Stop`, `LoseWrite`), a reply is lost and the service goes on without the guard
(`LosePreDeduct`) or the client library repeats the call (`CallAgain`, and for a
creation `PreDeductAgain`, which leaves a reservation that exists alone), a commit
takes effect and its acknowledgement is lost (`LoseCommit`), Redis restarts empty
(`LoseRedis`).  Order numbers are drawn from one counter, as one process draws
them, or several with worker ids of their own; `Snowflake` is about the others.

**OrderTimeout.**  Outbox rows, the batch each publisher holds, the message each
consumer holds, and the three kinds of queue.  RabbitMQ is external and is
modelled as the worker declares and uses it: a message leaves its ladder queue
when its time to live is over, `x-death` counts only dead-lettering, an
unacknowledged message returns when the session ends.  Time is not counted:
leases, deadlines and ladders end in steps of their own; an order in `Long` is due
later than the longest ladder, so that its message comes early.  `Faults` names the
kinds of fault a run has.  `runSession`
returns at the first error of its three loops: `outlived` is what the others were
at, and may still do, while the next session begins: marking a row whose message
was confirmed (`LateMark`), cancelling an order whose message is redelivered
(`LateCancel`).

**Snowflake.**  `NextIDWithError` under its mutex: reading the clock, sleeping
for a small set-back, failing for a large one, waiting for the next millisecond
when the sequence is used up.

**RowLocks.**  The rows of each transaction in the order its statements lock them;
a deadlock is a circle of waits.

**ServiceProcess.**  A creation draws its number, behind the generator's mutex, before
it locks its first row, and no transaction draws one: the two take their steps side by
side and never wait for each other.

**ProductCache.**  One product.  A read is three steps (`MissProductDetail`,
`LoadProduct`, `SetProductDetail`), a change of the sale status too
(`BeginChange`, `UpdateProductStatus`, `DeleteProductDetailCache`), and any call
may fail; an update that reports an error may have been carried out
(`UpdateFails`).  `raced` is a history variable.

**OrderSubmission.**  `draft`, `pending` and `disabled` are the state of
`OrdersPage`; `requests` are the requests sent, each with its key and how far its
answer has come.  React renders the state that `handleCreateOrder` sets before the
next event, while the button follows the mutation's own state later: `disabled`
is what was last rendered.  `onSuccess` awaits the lists it invalidates (stage
"settling", until `Settle`), and only then is the request over for the button.  The callbacks run for every request, also one that
a later click has replaced (`watched` is the one the button shows).  `round`
is a history variable: an answer, a reset or leaving the page ends a round.

**Storefront.**  A request is answered with the order its key has, else it gets an
order if its transaction has read the product as on sale in MySQL, or is refused.  The
transaction reads without a lock, in a step before its commit (`BeginCreate`,
`buying`): the product may go off sale in between.

**QueryClient, Console.**  The shop is the sequence of its states, one per write, so
that "the page has seen this write" is a comparison of two numbers.  A query is a
list and a number; its record is TanStack Query's: data, validity, and the fetch
under way, which remembers the version of the list at which it was sent and may
deliver that one or a later one.  What the library does decides the properties and
is kept: an invalidation restarts the fetch of a watched query only if it has data
(a first fetch is joined), the fetch of a query nobody watches runs on and then
passes for valid, `isPending` and `variables` are those of the hook's last request,
and a callback sees the component's state of the rendering it was created in
(`then`, `Frozen`).  A request is served or refused, fails, or is given up after
its ten seconds and served all the same; `onSuccess` awaits the fetches it
restarts.  `with`, `late`, `old` and `crossed` are history.  Prices, quantities and
times are left out, an order is its status, and the form that creates one is
`OrderSubmission`'s: its render lag is not repeated here.

**OrdersPage, ProductsPage, InventoryPage, ReportPages.**  One action per button or
field that changes state, with the condition under which it is enabled, and one per
callback of a mutation.  What a page shows (`OrderRows`, `OrderDetail`,
`ProductCard`, `Dashboard`, ...) is an operator on the cache, since its buttons
depend on it.

**Cookies, Session, Appearance, Browser.**  A token is the number of its session, and
the server knows the owner.  A location is a sequence of pages: the sign-in page is
followed by the location it leads back to.  A navigation changes the location at
once and the mounted page (`view`) when its guard has decided; an admin page waits
for the current-user query, which a pointer on its link asks for as well
(`Preload`).  A query that fails with an internal error leads to the error page,
whichever query it is.  A page load takes everything but the cookies, and requests under way
with it.  The four admin pages stand as one, and of a profile only its owner is
kept.  `stale`, `odd` and `lapsed` are history: sessions begun while a profile was
under way, a sign-in page opened by somebody signed in, cookies whose time was up.
The providers of the document read their cookies at a page load, those of the
layout whenever it is mounted.  The layout goes with its page: the sign-out dialog,
which belongs to it, is closed by a page outside it and by the error page.

Operators under a comment that begins with "Defect:" are not used by the
specifications.  Each is the named definition with a plausible mistake, and shows
that a property notices it.

## 3. Runs

| run | checks | bounds |
|---|---|---|
| `lifecycle` | `TypeOK`, `StockConservation`, `LockedMatchesPending`, `SoldMatchesPaid`, `LedgerReconciles`, `RollbackExactlyOnce`, `OneOrderPerKey`, `StatusTransitions`, `ImplementsContract` | 2 users, 1 key each, 2 products, 2 handlers, 2 orders, 2 items of each product |
| `guard_exact` | `TypeOK`, `GuardExact`, `NoReservationLeaks`, `NeverOverstates`, `ReturnsOnlyUnsold` | 2 products, 2 keys, 2 requests at a time, 3 order numbers, up to 2 processes that stop |
| `guard_heals` | `ImplementsContract`, `GuardHeals` | 1 product still to be initialised, then added to, 2 keys, 2 orders, AutoFix, one fault of any kind or a rebuild |
| `guard_replay` | `ReplayAnswered` (violated) | as `guard_exact`, no faults |
| `timeout` | `NothingLost`, `NeverEarly`, `EventuallySettled` | 1 order that is `Long`, 2 worker instances, 2 attempts, 1 fault, two foreign messages |
| `timeout_alert` | `AbandonedIsAlerted` (violated) | 2 orders that fit in one batch, 1 worker instance, 2 attempts, 2 publications that fail |
| `timeout_poison` | `PoisonDeadLettered` (violated) | 1 order whose cancellation always fails |
| `process` | `Increasing`, `NoWaitCycle` | 1 generator, 2 sequence numbers per millisecond, 3 milliseconds, 2 set-backs or 2 restarts; 3 products, 2 orders, 3 transactions |
| `snowflake_workers` | `UniqueIds` (violated) | 2 instances, 4 milliseconds |
| `storefront` | `StaleOnlyByRace`, `KeyPerRound`, `CacheCatchesUp`, `ButtonComesBack` | 1 reader, 1 writer, 2 changes, 1 failed call; 1 item list, 2 clicks |
| `console` | `ReadYourWrites`, `LastAskedIsShown`, `InventoryOfSelection`, `ReportNotFromBefore`, `PageInRange`, `RepeatOnlyAfterAnother`, `DashboardCountsWrites`, `SpinnerStops` | 2 orders and 2 products of room for 3, pages of 2 rows, opened by an administrator, 3 events |
| `browser` | `UserOfToken`, `AdminPageByAdmin`, `RedirectNotNested`, `SurvivesReload`, `ThemeApplied`, `GuardDecides` | an administrator and a user, with or without an earlier session, 4 events |

Why these are enough to be of interest: two handlers are what every race in the
code needs (a third request can only repeat the part of one of them, since
conditional updates compare a row with constants of the request); two orders and
two items of stock let one order compete with another for the last item and leave
some for a repetition; two products make all-or-nothing reservations and the
order of items matter.  In `guard_heals` two goods come in: the
initialisation and an addition, whose increment may be repeated, or overtake or be
overtaken by the first write of the counter.  That race makes a counter differ
without any fault, so one fault may also hit the repair.  In `Snowflake` the widths are constants, so that
sequences run out after two numbers instead of 4096.

In `storefront` one reader and one writer make every race of one entry; the two
clicks are a double click, or a new order that meets the answer of an older one.  In
`process` the numbers of one generator depend on no other one, and three
transactions over three products can wait for each other in twos and in threes.

In `Console` and `Browser` one bound counts what the user does and what goes wrong
together (`MaxEvents`); answers, fetches and callbacks are not counted and come in
any order.  Three events are two writes and a page opened to look at them, or two
questions and a third that overtakes them; the tab starts on any of the pages, with
its queries still to be fetched.  Four events are a sign-out, another user's sign-in
and a page asked for, or a sign-in from a page whose guard was waiting, followed by a
page load.  One user who is no administrator in `Browser` is what every guard turns
away; `Console` is the administrator's, who has every page of the other.  The dashboard's
limits of five, six and a hundred rows are out of reach of three orders; the theorem
`DashboardCountsWritesHolds` covers them.

One type invariant is checked where it carries weight (`OrderLifecycle` and
`GuardedOrders`, where it says that no quantity is negative); those of the other
modules are parts of the inductive invariants in section 4.

Deadlock checking is off where the bounds let a behaviour end (orders, numbers or
faults are used up).  In `process` it is on but says nothing about waits, since a
transaction may end at any time: `NoWaitCycle` is what speaks of deadlocks there.

### What the violated properties show

* `ReplayAnswered`: `CreateOrder` asks Redis before it looks at the key, so a
  repetition of a request that took the last item is told there is no stock.
  `docs/idempotency.md` promises the original order.
* `AbandonedIsAlerted`: rows are charged an attempt when their batch is claimed,
  and a batch ends at its first failure.  A row claimed for the last time together
  with one whose publication fails is at its limit without having been tried that
  time, and the alert that `docs/GAP台账.md` promises for a row at its limit was only
  raised for the other, if at all.
* `PoisonDeadLettered`: `Nack` with requeue leaves `x-death` as it is, and the
  retry limit is compared with `x-death`, so the message is never moved to the
  failed queue as ADR-002 describes.
* `UniqueIds`: `pkg/idgen` builds the generator of every process with worker id 1, and
  nothing calls `SetDefaultGenerator`.  Two instances of the service give out the same
  number in the same millisecond, where the package's comment claims numbers that
  are unique in a distributed system.

`KeyPerRound` holds, and with it comes a consequence the code accepts: an error or
a time limit ends a round, so after an error that hides a committed order the next
click places a second one (the comment in `onError` says the retry is meant to be
a new order).

What the properties of the front end leave open, each stated in its property, is
what the code allows:

* A list whose first fetch was under way at a write, or that nobody watched then, may
  show the state before the write and pass for valid (`ReadYourWrites` excepts
  `old` data).  Nothing invalidates the operation logs, and a write whose request
  ran out of time invalidates nothing: the page shows the old status until ten
  seconds have passed.
* An action on a second order gives the buttons of the first back
  (`RepeatOnlyAfterAnother`); the server's condition on the status refuses the
  repetition.
* The detail card shows the answer that comes last, and the inventory page may show
  a product that is not the selected one after a request crossed the selection.
* A profile that was under way when another user signed in becomes that user's
  (`stale`): the side bar and the guards then judge by it, until the next answer.  The
  server checks every request by its token.
* A wrong password is a 401, and the interceptor ends whatever session there is; at
  the sign-in page of somebody signed in it nests that page in its own `redirect`
  (`odd`).
* The drawer's reset, labelled "Reset all settings to default values", does not reset
  the font, which is no part of the drawer.

### Fairness

`GuardHeals`, `EventuallySettled`, `PoisonDeadLettered`, `CacheCatchesUp`,
`ButtonComesBack`, `SpinnerStops` and `GuardDecides` need fairness; all of it is weak.

* `GuardedOrders`: a request that has begun goes on (its transaction and Redis
  calls have time limits, so each ends one way or the other), and the
  reconciliation worker's ticker runs it again and again.  Requests need not
  arrive and faults need not happen.
* `OrderTimeout`: deadlines and leases are points in time; ladder queues have a
  time to live; `Run` opens a new session after every error, so the publisher,
  the deliveries and the handler go on.  Payments are never assumed.
* `Storefront`: entries have a time to live, axios gives every request ten seconds,
  and React renders what has changed.  Neither the server nor the readers and
  writers of the cache need ever go on.
* `Console`, `Browser`: requests are answered or fail within their ten seconds, retries
  are limited, and callbacks run.  The user need not do anything.  Failures are
  bounded events, so a request the model lets fail no more is answered.

## 4. Proofs

Every theorem holds for all values of the constants that satisfy the assumptions of
its module; the three further hypotheses are named below.  Each proof module has an
inductive invariant (or several), one lemma per action or group of actions, and a
temporal step at the end.

### OrderLifecycleProofs

| theorem | states |
|---|---|
| `TypeCorrect` | `TypeOK`: in particular no stock or locked quantity is negative |
| `Conservation` | stock + locked + sold = what came in, for every product |
| `LockedCorrect` | locked is the sum over the pending orders |
| `SoldCorrect` | sold is the sum over the paid and finished orders |
| `LedgerCorrect` | the stock log of a product is an unbroken account that ends at its stock |
| `RollbackCorrect` | stock is given back once for a cancelled order, never for another |
| `IdempotencyCorrect` | a user's key stands for one order, and every order for one key |
| `TransitionsCorrect` | orders move along pending, paid, finished or pending, cancelled only |
| `PendingIsReleasable` | the conditional update of a payment or cancellation never lacks locked goods |
| `ContractImplemented` | the specification implements `OrderContract` |

`TypeStep` shows that types are preserved; `CallKinds` says what a handler may be
about to do.  `Effects` then reduces every step to one of a few effects on stock,
locks, orders and logs (an order is placed, paid, finished or cancelled, stock comes
in, or nothing of interest changes): the inductive steps of the invariants argue
about effects and not about actions.  `LockedStep` and `SoldStep` compare sums before
and after with `TotalUpdate`: an order enters or leaves one of the sums, and nothing
else changes.  `LedgerStep` appends one entry to an account (`AccountAppend`).
`OneOrderPerKey` is not inductive: a new order might already be named by some key.
`KeysNameOrders` (a key only names an order that exists) is the strengthening.  The
refinement needs `HeldIsLockedPlusSold`: what the contract calls held is the sum of
locked and sold, and together with conservation the condition `stock >= quantity` of
`ReserveInventory` is exactly the contract's "no order on goods another one holds".

### GuardedOrdersProofs

| theorem | states | hypothesis |
|---|---|---|
| `GuardedTypeCorrect` | `TypeOK`: no counter and no stock is negative, under all faults and repairs | |
| `NumbersCorrect` | a number drawn for a creation belongs to nothing else yet | |
| `GuardedContract` | `ImplementsContract`: the orders keep the contract whatever Redis does | |
| `GuardIsExact` | `GuardExact` | `GuardInForce` |
| `GuardNeverOverstates` | `NeverOverstates` | `GuardInForce` |
| `ReservationsDoNotLeak` | `NoReservationLeaks` | `GuardInForce` |
| `GuardReturnsOnlyUnsold` | `ReturnsOnlyUnsold`, an action property | `GuardInForce` |

`GuardInForce` says that all counters are loaded from the start, that nobody rewrites
them, and that the one fault is a process that stops (or a call that never arrives),
any number of times: the situation of the run `guard_exact`.  It cannot be dropped.  A
lost reply makes the service go on without a reservation, a repeated call adds twice,
and a rebuild writes a quantity it read earlier; then the counters do differ, which
`GuardHeals` is about.

The counters are exact only because the handlers and the reservations agree, which is
what `InForce` collects: a creation under way has reserved what it asks for
(`CreationsReserved`), a release is under way only for an order that was cancelled or
never placed and that no creation works on (`ReleasesUnsold`), a confirmation only for
a paid order (`ConfirmsPaid`), a pending order has its items reserved
(`PendingReserved`), and without faults nothing else is reserved (`NothingLeft`).
These in turn need that order numbers are drawn once (`NumbersDrawnOnce`): two
creations with one number would share a reservation.  `GuardBounded` then compares the
sums over orders and handlers of `GuardView` before and after each step
(`TotalChange`); `NeverOverstates` alone is not inductive, since a stop turns an
equality into an inequality.

### OrderTimeoutProofs

| theorem | states | hypothesis |
|---|---|---|
| `CancelsNeverEarly` | `NeverEarly`, an action property: no cancellation before the deadline | |
| `NoTimeoutIsLost` | `NothingLost` | `MaxCancelRetries > 1` |

The invariant follows an event from the row to the cancellation: messages made from
rows are valid, name an order that was placed and count at most one death
(`MessagesGenuine`); batches hold placed orders (`RowsPlaced`); a delivery that is
about to be acknowledged belongs to a settled order (`AckedClosed`); and an order
whose row is marked, or is about to be marked by a publisher or by a loop that
outlived its session, is settled or has a message under way (`MarkedAttended`).  The
hypothesis is weaker than the code's constant, `defaultMaxCancelRetries = 3`, and
cannot be dropped: with a limit of 1 the one death that every event counts on leaving
its ladder queue would already be the limit, and the first failed cancellation would
move the message to the failed queue.

### ConcurrencyProofs

| theorem | states | hypothesis |
|---|---|---|
| `IdsIncrease` | `Increasing` | |
| `OnlyTwinsRepeat` | `RepeatsShareWorker`: two instances give out one number only if they have the same worker id, and none gives a number out twice | |
| `LocksTakenInOrder` | what is locked comes before what is still to be locked | |
| `NoDeadlock` | `NoWaitCycle` | product ids are bounded |

A number is time, worker and sequence packed in fields of any width: `PackOrder` and
`PackOnce` say that packing keeps the order and can be undone.  `Ordered` is the
invariant: what an instance has given out is not above the number it remembers
(`Remembered`), or, when a restart made it forget, below the millisecond of its clock
(`Forgotten`, `ClockNotBehind`).  `OnlyTwinsRepeat` is the other side of the violated
`UniqueIds`: worker ids of their own are all that several instances lack.

A transaction has locked nothing that comes after a row it has still to lock.  In a
circle of waits everyone would wait for a stock row with a greater product id than the
ones it holds, and the ids waited for would have no greatest one: product ids are a
column of bounded width.

### StorefrontProofs

| theorem | states |
|---|---|
| `CacheStaleOnlyByRace` | `StaleOnlyByRace` |
| `ClicksCarryOneKey` | `KeyPerRound` |

`CacheInv` adds to the property that what a reader is about to store is the row, or that there was none
(`ReadsCurrent`), and that a stale entry is about to be deleted (`EntryCurrent`).
`PageInv` adds that keys and rounds are drawn in order (`DrawnInOrder`) and that the
key on the page is the one of the current round (`RoundOfPending`), whose request is
not settling yet; that the button lags behind the state does not matter to it.

### BrowserProofs

| theorem | states |
|---|---|
| `UserIsOwner` | `UserOfToken` |
| `AdminPagesAreGuarded` | `AdminPageByAdmin` |
| `RedirectsLeadBack` | `RedirectNotNested` |
| `ReloadRestores` | `SurvivesReload` |
| `ThemeIsApplied` | `ThemeApplied` |

For any users, any administrators among them and any number of events.  `SessionInv`
contains `OfToken`, the heart of it: of a session that began while no profile was under
way, the user in the store, the profile in the query cache, the session the
current-user query was sent in, and every profile still to be answered belong to the owner of
the token.  None of the four is invariant without the others, since each is copied into
the next.  `GuardedHaveToken` and `DialogOfLayout` tie the mounted page to the session,
and `SignInOnce` covers the location a login under way will lead to.  `LookInv` says
that every setting is the one its cookie would give, as long as the cookie has not
lapsed, for the providers of the document always and for those of the layout while it
is mounted.

### ConsoleProofs

| theorem | states |
|---|---|
| `ConsoleInvHolds` | `ConsoleInv`, the inductive invariant |
| `ReadYourWritesHolds` | `ReadYourWrites` |
| `LastAskedHolds` | `LastAskedIsShown` |
| `InventoryOfSelectionHolds` | `InventoryOfSelection` |
| `ReportNotFromBeforeHolds` | `ReportNotFromBefore` |
| `PageInRangeHolds` | `PageInRange` |
| `RepeatOnlyAfterAnotherHolds` | `RepeatOnlyAfterAnother` |
| `DashboardCountsWritesHolds` | `DashboardCountsWrites` |

For any shop, page size and number of events, and whoever is signed in.  The shop's
rows are numbered as they are created, so there are no gaps among them
(`ConsoleAssumption`).  Most actions differ only in the button that is pressed:
`EveryStep` reduces a step to what it may do to the requests and to the page
(`CallsAndPage`, `CallsAdvance`), and the lemmas of the invariant's parts argue about
that.  `CacheNext` does the same for the cache.

* `CacheSees` is the invariant behind `ReadYourWrites`.  It says of every record and every
  acknowledged write that the data include the write, or are not valid, or the fetch
  under way was sent after it or was overtaken.  An invalidation establishes it, and
  mounting a page keeps it since it starts no fetch that is older.
* `WithEarlier` (a request knows what was unanswered when it was sent, and that is
  earlier than itself) and `InOrder` (of two requests that did not overlap the earlier
  one was done at the earlier version) order what the pages show: `ReportOfCall`,
  `StockOfSelection` and `LastOfCard` say whose answer a page shows, and
  `RepeatOnlyAfterAnother` is inductive together with them.
* `OnlyOnward` compares any two versions of the shop: orders and products stay, without
  gaps, and statuses move along the life of an order.  `PageInRange` needs it because the
  pager counts the rows of an earlier version; the dashboard because a paid order may be
  finished, but nothing else, before it is counted.

### TotalsProofs

What the sums satisfy.  `Total` is a recursive function, and the lemmas are derived
from a least-number argument over its definition (`LeastNatural`, `RunsUnique`,
`RunsExists`), since the provers cannot instantiate the library's induction schemes.
`TotalSame` and `TotalChange` are what the other modules use: a sum whose terms are the
same is the same, and one whose term at one index changes, changes by that much.

### Model-checked only

* Liveness: `GuardHeals`, `EventuallySettled`, `CacheCatchesUp`, `ButtonComesBack`,
  `SpinnerStops`, `GuardDecides`.  Fairness and ENABLED are out of the proof system's
  reach.
* The four violated properties, which TLC refutes with a behaviour.

## 5. What is not modelled

* Prices and totals: no guard depends on them.
* In the front end: the health check of the dashboard, columns and formatting of
  tables, the query cache's garbage collection, writes by other people and expiring
  orders while a page is open, history entries (back and forward), tabs that share
  cookies, layout elements and icons, and code no page uses (`useTableUrlState`,
  `getPageNumbers`).
* The server side of users, tokens and roles: single-row reads and writes; hashing and
  signatures are library calls.  `Session` has tokens with an owner that expire.
* Middleware, handlers, routing, configuration, start-up, metrics, the load test:
  they keep no state that the services read.  A request timeout appears as a
  transaction or call that fails at any point.
* A generator that restarts after its clock was set back: it has nothing to notice
  this with, and repeats numbers.  `Snowflake` has set-backs or restarts in one
  behaviour, not both.
* Time as a quantity: leases, ladders and deadlines end in any order that the
  code's comparisons allow.

## 6. Plan

Done: the contract, `OrderLifecycle`, `GuardedOrders`, `OrderTimeout`, `Snowflake`,
`RowLocks`, `Storefront`, `Console` and `Browser`, all with their proofs.

Next, in this order:

1. `Accounts`: registration behind the unique index, and a password change that is
   conditional on the hash it read.
2. The back-off and ladder functions of the timeout worker, checked against a
   reference.
