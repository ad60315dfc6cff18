---------------------------- MODULE ConsoleProofs ----------------------------
(***************************************************************************)
(* What the pages of the console show and allow, for any shop, any size of *)
(* a page, anybody signed in, and any number of events.                    *)
(***************************************************************************)
EXTENDS Console, SequenceTheorems, FiniteSetTheorems, TotalsProofs

-----------------------------------------------------------------------------
(* Greatest elements, rows and pages. *)
LEMMA GreatestIs ==
  ASSUME NEW b \in Nat, NEW S, S \subseteq 0..b, S # {}
  PROVE  Max(S) \in S /\ \A x \in S : x <= Max(S)
<1> DEFINE T == {b - x : x \in S}
<1>1. T \subseteq Nat /\ T # {}
  <2>1. \A x \in S : b - x \in Nat
    OBVIOUS
  <2>2. PICK x \in S : TRUE
    OBVIOUS
  <2> QED BY <2>1, <2>2
<1>2. PICK m \in T : \A k \in T : m <= k
  <2> HIDE DEF T
  <2> QED BY <1>1, LeastNatural
<1>3. PICK y \in S : m = b - y
  BY <1>2
<1>4. \A x \in S : x <= y
  <2> TAKE x \in S
  <2>1. b - x \in T
    OBVIOUS
  <2>2. m <= b - x
    BY <1>2, <2>1
  <2> QED BY <1>3, <2>2
<1>5. \A x \in S : y >= x
  BY <1>4
<1>6. Max(S) \in S /\ \A x \in S : Max(S) >= x
  BY <1>5 DEF Max
<1> QED BY <1>6

(* A longer list has at least as many pages. *)
LEMMA PagesGrow ==
  ASSUME NEW m \in Nat, NEW n \in Nat, m <= n
  PROVE  /\ Pages(m) \in Nat /\ Pages(m) <= Pages(n)
         /\ m > 0 => Pages(m) >= 1
<1> DEFINE a == m + PageSize - 1
           b == n + PageSize - 1
           q == a \div PageSize
           r == b \div PageSize
<1>1. PageSize \in Nat \ {0} /\ a \in Nat /\ b \in Nat /\ a <= b
  BY ConsoleAssumption
<1> HIDE DEF a, b
<1>2. /\ q \in Int /\ r \in Int
      /\ a = q * PageSize + (a % PageSize) /\ a % PageSize \in 0..PageSize - 1
      /\ b = r * PageSize + (b % PageSize) /\ b % PageSize \in 0..PageSize - 1
  BY <1>1
<1> HIDE DEF q, r
<1>3. \A x \in Int : x <= -1 => x * PageSize <= -PageSize
  BY <1>1
<1>4. q >= 0
  BY <1>1, <1>2, <1>3
<1>5. ~ (q > r)
  <2> SUFFICES ASSUME q > r PROVE FALSE
    OBVIOUS
  <2>1. (r - q) * PageSize <= -PageSize
    BY <1>2, <1>3
  <2>2. (r - q) * PageSize = r * PageSize - q * PageSize
    BY <1>1, <1>2
  <2> QED BY <1>1, <1>2, <2>1, <2>2
<1>6. m > 0 => q >= 1
  <2> SUFFICES ASSUME m > 0, q = 0 PROVE FALSE
    BY <1>2, <1>4
  <2>1. a >= PageSize
    BY <1>1 DEF a
  <2>2. q * PageSize = 0
    BY <1>1
  <2> QED BY <1>1, <1>2, <2>1, <2>2
<1>7. Pages(m) = q /\ Pages(n) = r
  BY DEF Pages, q, r, a, b
<1> QED BY <1>2, <1>4, <1>5, <1>6, <1>7

LEMMA UpTo == \A n \in Nat : IsFiniteSet(1..n) /\ Cardinality(1..n) = n
BY FS_Interval

LEMMA SeqOf ==
  ASSUME NEW S, NEW n \in Nat, NEW f \in [1..n -> S]
  PROVE  f \in Seq(S) /\ Len(f) = n
<1>1. f \in Seq(S)
  BY SeqDef
<1> QED BY <1>1, LenProperties

(* Rows that exist: no more than the list has room for, and as many in a   *)
(* list in which the same ones exist. *)
LEMMA ExistingRows ==
  ASSUME NEW V, NEW s \in Seq(V)
  PROVE  Existing(s) \in Nat /\ Existing(s) <= Len(s)
<1> DEFINE S == {r \in DOMAIN s : s[r] # "none"}
<1>1. DOMAIN s = 1..Len(s) /\ Len(s) \in Nat
  BY LenProperties
<1>2. IsFiniteSet(1..Len(s)) /\ Cardinality(1..Len(s)) = Len(s)
  BY <1>1, UpTo
<1>3. S \in SUBSET (1..Len(s))
  BY <1>1
<1> HIDE DEF S
<1>4. IsFiniteSet(S) /\ Cardinality(S) <= Len(s)
  BY <1>2, <1>3, FS_Subset
<1>5. Cardinality(S) \in Nat
  BY <1>4, FS_CardinalityType
<1> QED BY <1>4, <1>5 DEF Existing, S

LEMMA ExistingGrows ==
  ASSUME NEW V, NEW s \in Seq(V), NEW t \in Seq(V), Len(s) = Len(t),
         \A r \in 1..Len(s) : s[r] # "none" => t[r] # "none"
  PROVE  Existing(s) <= Existing(t)
<1> DEFINE S(l) == {r \in DOMAIN l : l[r] # "none"}
<1>1. DOMAIN s = 1..Len(s) /\ DOMAIN t = 1..Len(s) /\ Len(s) \in Nat
  BY LenProperties
<1>2. IsFiniteSet(1..Len(s))
  BY <1>1, UpTo
<1>3. S(t) \in SUBSET (1..Len(s)) /\ S(s) \in SUBSET S(t)
  BY <1>1
<1>4. Existing(s) = Cardinality(S(s)) /\ Existing(t) = Cardinality(S(t))
  BY DEF Existing
<1> HIDE DEF S
<1>5. IsFiniteSet(S(t))
  BY <1>2, <1>3, FS_Subset
<1> QED BY <1>3, <1>4, <1>5, FS_Subset

(* Some row that does not exist leaves room for one more. *)
LEMMA ExistingLeavesRoom ==
  ASSUME NEW V, NEW s \in Seq(V), NEW r \in DOMAIN s, s[r] = "none"
  PROVE  Existing(s) < Len(s)
<1> DEFINE S == {x \in DOMAIN s : s[x] # "none"}
<1>1. DOMAIN s = 1..Len(s) /\ Len(s) \in Nat
  BY LenProperties
<1>2. IsFiniteSet(1..Len(s)) /\ Cardinality(1..Len(s)) = Len(s)
  BY <1>1, UpTo
<1>3. S \in SUBSET (1..Len(s)) /\ S # 1..Len(s)
  BY <1>1
<1>4. Existing(s) = Cardinality(S) /\ Existing(s) \in Nat
  BY ExistingRows DEF Existing
<1> HIDE DEF S
<1>5. Cardinality(S) <= Len(s) /\ Cardinality(S) # Len(s)
  BY <1>2, <1>3, FS_Subset
<1> QED BY <1>1, <1>4, <1>5

(* The rows there are come first. *)
LEMMA Filled ==
  ASSUME NEW V, NEW s \in Seq(V), NoGaps(s), NEW r \in DOMAIN s
  PROVE  s[r] # "none" <=> r <= Existing(s)
<1> DEFINE S == {x \in DOMAIN s : s[x] # "none"}
<1>1. DOMAIN s = 1..Len(s) /\ Len(s) \in Nat /\ r \in Nat \ {0}
  BY LenProperties
<1>2. IsFiniteSet(S)
  BY <1>1, UpTo, FS_Subset
<1>3. Existing(s) = Cardinality(S) /\ Cardinality(S) \in Nat
  BY <1>2, FS_CardinalityType DEF Existing
<1>4. CASE s[r] # "none"
  <2>1. 1..r \subseteq S
    BY <1>1, <1>4 DEF NoGaps
  <2>2. Cardinality(1..r) <= Cardinality(S)
    BY <1>2, <2>1, FS_Subset
  <2> QED BY <1>1, <1>3, <1>4, <2>2, UpTo
<1>5. CASE s[r] = "none"
  <2>1. \A x \in S : x < r
    BY <1>1, <1>5 DEF NoGaps
  <2>2. S \subseteq 1..r - 1 /\ r - 1 \in Nat
    BY <1>1, <2>1
  <2>3. IsFiniteSet(1..r - 1) /\ Cardinality(1..r - 1) = r - 1
    BY <2>2, UpTo
  <2>4. Cardinality(S) <= r - 1
    BY <2>2, <2>3, FS_Subset
  <2> QED BY <1>1, <1>3, <1>5, <2>4
<1> QED BY <1>4, <1>5

-----------------------------------------------------------------------------
(* The types.  Queries are asked for rows and pages the shop has room for, *)
(* so that an invalidation finds them. *)
Stages == {"sent", "done", "left", "gone", "settling", "closing", "over"}
Kinds == DOMAIN Writes

States == [orders : [Orders -> OrderStatuses], products : [Products -> ProductStatuses],
           lists : SUBSET Lists]

CallRecords == [kind : Kinds, n : Nat, visit : Nat, stage : Stages, at : Nat,
                waits : SUBSET QueryKeys, then : Int, with : SUBSET Nat]

QueryRecords == [data : Nat, valid : BOOLEAN, fetch : Nat, late : BOOLEAN, old : BOOLEAN]

UiRecords == [tab : Nat \ {0}, prev : Nat \ {0}, selected : Nat,
              confirm : {<<>>} \union (Orders \X ActionHook),
              shown : Nat, report : Nat, crossed : SUBSET Nat]

ShopTypes == shop \in Seq(States) /\ shop # <<>> /\ shop[1].lists = Lists

CacheTypes ==
  /\ DOMAIN cache \subseteq QueryKeys
  /\ cache \in [DOMAIN cache -> QueryRecords]
  /\ \A k \in DOMAIN cache : cache[k].data <= Now /\ cache[k].fetch <= Now

(* Actions are on rows of the lists. *)
Aimed(c) ==
  /\ c.kind \in ActionHook => c.n \in Orders
  /\ c.kind \in StatusHook \union {"detail"} => c.n \in Products

(* What the server has made of request c, in the states s of the shop. *)
Wrote(c, s) ==
  /\ Writes[c.kind] # {} => c.at > 1 /\ s[c.at].lists = Writes[c.kind]
  /\ "orders" \in Writes[c.kind] => c.n \in Orders /\ s[c.at].orders[c.n] = Becomes[c.kind]
  /\ "products" \in Writes[c.kind] => c.n \in Products /\ s[c.at].products[c.n] = Becomes[c.kind]

(* A version of the shop is an answer's once there is one. *)
Served == {"done", "settling", "closing", "over"}

CallTypes ==
  /\ calls \in Seq(CallRecords)
  /\ \A i \in DOMAIN calls : Aimed(calls[i])
  /\ \A i \in DOMAIN calls :
       calls[i].stage \in Served =>
         /\ calls[i].at \in 1..Now
         /\ Wrote(calls[i], shop)
         /\ calls[i].kind \in {"init", "add"} /\ calls[i].stage = "settling"
              => calls[i].then = calls[i].n

PageOf(kind) ==
  CASE kind \in {"create"} \union ActionHook -> "orders"
    [] kind \in {"newProduct", "detail"} \union StatusHook -> "products"
    [] OTHER -> "inventory"

PageTypes ==
  /\ page \in PagesOf(TRUE) \union {"error"}
  /\ visit \in Nat
  /\ ui \in UiRecords
  /\ page = "orders" => ui.selected \in Orders \union {0}
  /\ page = "stockLogs" => ui.selected \in Products \union {0}
  /\ page = "products" /\ ui.shown # 0 => ui.selected \in Products
  /\ \A i \in DOMAIN calls : calls[i].visit <= visit /\ (Here(i) => PageOf(calls[i].kind) = page)

ConsoleTypes == ShopTypes /\ CacheTypes /\ CallTypes /\ PageTypes

-----------------------------------------------------------------------------
(* What a query record has to do with an acknowledged write to its list.   *)
Covers(r, at) ==
  /\ r.valid /\ ~ r.old => r.data >= at
  /\ r.fetch # Idle /\ ~ r.late => r.fetch >= at

(* Every acknowledged write, and every record of its list. *)
CacheSees ==
  \A k \in DOMAIN cache \ Under({"operations"}), i \in Succeeded :
    ListOf(k) \in Writes[calls[i].kind] => Covers(cache[k], calls[i].at)

(* A request knows which earlier ones were unanswered when it was sent, so *)
(* that every earlier one that is unanswered still is among them. *)
WithEarlier ==
  \A j \in DOMAIN calls :
    /\ calls[j].with \subseteq 1..j - 1
    /\ \A i \in Unanswered : i < j => i \in calls[j].with

(* Of two requests that did not overlap, the earlier was done first. *)
InOrder ==
  \A i \in Succeeded, j \in DOMAIN calls :
    i < j /\ i \notin calls[j].with /\ calls[j].stage \in Served => calls[j].at >= calls[i].at

(* The report on the page is the answer to a request of this page, and a   *)
(* rebuild that was asked for after it was while it was unanswered. *)
ReportOfCall ==
  page = "inventory" /\ ui.report # 0 =>
    /\ ui.report \in Succeeded /\ Here(ui.report)
    /\ \A i \in Succeeded :
         Here(i) /\ calls[i].kind = "rebuild" /\ i > ui.report => ui.report \in calls[i].with

(* The inventory on the page, and every one about to be shown, is the      *)
(* selected product's or that of a request the selection has crossed. *)
StockOfSelection ==
  page = "inventory" =>
    /\ \A i \in Pending : Here(i) /\ calls[i].kind \in StockRequests => calls[i].n \in {ui.selected} \union ui.crossed
    /\ ui.shown # 0 => ui.shown \in DOMAIN calls /\ calls[ui.shown].n \in {ui.selected} \union ui.crossed
    /\ ui.shown # 0 => calls[ui.shown].stage = "over"

-----------------------------------------------------------------------------
(* The shop. *)
LEMMA StartRooms ==
  /\ Start.orders \in Seq(OrderStatuses) /\ Orders = 1..Len(Start.orders)
  /\ Len(Start.orders) \in Nat \ {0}
  /\ Start.products \in Seq(ProductStatuses) /\ Products = 1..Len(Start.products)
  /\ Len(Start.products) \in Nat \ {0}
  /\ Start \in States /\ Start.lists = Lists
<1>1. /\ Start.orders \in Seq(OrderStatuses) /\ Start.orders # <<>>
      /\ Start.products \in Seq(ProductStatuses) /\ Start.products # <<>>
      /\ Start = [orders |-> Start.orders, products |-> Start.products, lists |-> Lists]
  BY ConsoleAssumption
<1>2. /\ Len(Start.orders) \in Nat \ {0} /\ Len(Start.products) \in Nat \ {0}
  BY <1>1, EmptySeq
<1>3. /\ Orders = 1..Len(Start.orders) /\ Start.orders \in [Orders -> OrderStatuses]
      /\ Products = 1..Len(Start.products) /\ Start.products \in [Products -> ProductStatuses]
  BY <1>1, LenProperties DEF Orders, Products
<1>4. Start.lists = Lists
  BY <1>1
<1>5. Start \in States
  <2> DEFINE o == Start.orders
             p == Start.products
  <2>1. o \in [Orders -> OrderStatuses] /\ p \in [Products -> ProductStatuses]
    BY <1>3
  <2>2. Start = [orders |-> o, products |-> p, lists |-> Lists]
    BY <1>1
  <2> HIDE DEF o, p
  <2> QED BY <2>1, <2>2 DEF States
<1> QED BY <1>1, <1>2, <1>3, <1>4, <1>5

LEMMA ShopFacts ==
  ASSUME ShopTypes
  PROVE  /\ Now \in Nat \ {0} /\ DOMAIN shop = 1..Now
         /\ \A v \in 1..Now : shop[v] \in States
<1>1. Now \in Nat \ {0} /\ DOMAIN shop = 1..Now
  BY EmptySeq, LenProperties DEF ShopTypes, Now
<1>2. \A v \in 1..Now : shop[v] \in States
  BY ElementOfSeq DEF ShopTypes, Now
<1> QED BY <1>1, <1>2

(* The tables of a state are sequences with the room there is. *)
LEMMA Tables ==
  ASSUME NEW s \in States
  PROVE  /\ s.orders \in Seq(OrderStatuses) /\ Len(s.orders) = Len(Start.orders)
         /\ s.products \in Seq(ProductStatuses) /\ Len(s.products) = Len(Start.products)
         /\ Existing(s.orders) \in 0..Len(Start.orders)
         /\ Existing(s.products) \in 0..Len(Start.products)
<1>1. s.orders \in [1..Len(Start.orders) -> OrderStatuses]
      /\ s.products \in [1..Len(Start.products) -> ProductStatuses]
  BY StartRooms DEF States
<1>2. s.orders \in Seq(OrderStatuses) /\ s.products \in Seq(ProductStatuses)
      /\ Len(s.orders) = Len(Start.orders) /\ Len(s.products) = Len(Start.products)
  BY <1>1, StartRooms, SeqOf
<1>4. /\ Existing(s.orders) \in Nat /\ Existing(s.orders) <= Len(s.orders)
      /\ Existing(s.products) \in Nat /\ Existing(s.products) <= Len(s.products)
  BY <1>2, ExistingRows
<1> QED BY <1>2, <1>4, StartRooms

(* Every query's list has a version, and the first state is one of each. *)
LEMMA Versions ==
  ASSUME ShopTypes, NEW k \in QueryKeys
  PROVE  /\ ListOf(k) \in Lists
         /\ VersionsOf(k) \subseteq 1..Now /\ VersionsOf(k) # {}
         /\ Max(VersionsOf(k)) \in VersionsOf(k)
         /\ \A v \in VersionsOf(k) : v <= Max(VersionsOf(k))
<1>1. ListOf(k) \in Lists
  <2>1. k[1] \in {"orders", "order", "recent", "products", "onSale", "offSale", "all",
                  "logs", "operations"}
    BY DEF QueryKeys
  <2> QED BY <2>1 DEF ListOf, Lists
<1>2. 1 \in VersionsOf(k) /\ VersionsOf(k) \subseteq 1..Now
  BY <1>1, ShopFacts DEF VersionsOf, ShopTypes
<1>3. VersionsOf(k) \subseteq 0..Now /\ Now \in Nat
  BY <1>2, ShopFacts
<1> QED BY <1>1, <1>2, <1>3, GreatestIs

-----------------------------------------------------------------------------
(* The requests.  What a step makes of one: nothing, but for what it waits *)
(* for; or the server does it, or it fails, or its callback goes on. *)
Unchanged(c, d) ==
  /\ d.n = c.n /\ d.stage = c.stage /\ d.at = c.at
  /\ d.then = c.then \/ c.then = -1

IsServed(c, d) ==
  /\ c.stage \in {"sent", "left"} /\ d.stage = (IF c.stage = "left" THEN "gone" ELSE "done")
  /\ d.at = Len(shop')
  /\ Wrote(d, shop')
  /\ c.kind \notin {"create", "newProduct"} => d.n = c.n

IsGivenUp(c, d) ==
  /\ c.stage \in {"sent", "done"} /\ d.stage \in {"gone", "left"}
  /\ d.n = c.n /\ d.at = c.at

HasSucceeded(c, d) ==
  /\ c.stage = "done" /\ d.stage \in {"settling", "over"}
  /\ d.n = c.n /\ d.at = c.at
  /\ c.kind \in {"init", "add"} => d.then = c.n

HasSettled(c, d) ==
  /\ c.stage \in {"settling", "closing"} /\ d.stage \in {"closing", "over"}
  /\ d.n = c.n /\ d.at = c.at

Advances(c, d) ==
  /\ d.kind = c.kind /\ d.visit = c.visit /\ d.with = c.with
  /\ \/ Unchanged(c, d) \/ IsServed(c, d) \/ IsGivenUp(c, d)
     \/ HasSucceeded(c, d) \/ HasSettled(c, d)

(* A new request belongs to the page; an action on an order is sent only   *)
(* if the last one is answered or about another order. *)
New(c) ==
  /\ c.stage = "sent" /\ c.with = Unanswered /\ c.visit = visit
  /\ PageOf(c.kind) = page /\ Aimed(c)
  /\ c.kind \in ActionHook => ~ IsPending(ActionHook) \/ calls[Current(ActionHook)].n # c.n

CallsAdvance ==
  /\ calls' \in Seq(CallRecords)
  /\ Len(calls') \in {Len(calls), Len(calls) + 1}
  /\ \A i \in DOMAIN calls : Advances(calls[i], calls'[i])
  /\ Len(calls') = Len(calls) + 1 => New(calls'[Len(calls) + 1])

(* The requests cs are those of calls, each as it was. *)
Quiet(cs) ==
  /\ cs \in Seq(CallRecords) /\ Len(cs) = Len(calls)
  /\ \A i \in DOMAIN calls :
       /\ cs[i].kind = calls[i].kind /\ cs[i].visit = calls[i].visit /\ cs[i].with = calls[i].with
       /\ Unchanged(calls[i], cs[i])

LEMMA CallFacts ==
  ASSUME CallTypes
  PROVE  /\ Len(calls) \in Nat /\ DOMAIN calls = 1..Len(calls)
         /\ \A i \in DOMAIN calls : calls[i] \in CallRecords
<1>1. Len(calls) \in Nat /\ DOMAIN calls = 1..Len(calls)
  BY LenProperties DEF CallTypes
<1>2. \A i \in 1..Len(calls) : calls[i] \in CallRecords
  BY ElementOfSeq DEF CallTypes
<1> QED BY <1>1, <1>2

LEMMA QuietIf ==
  ASSUME CallTypes, NEW cs, DOMAIN cs = DOMAIN calls, cs = [i \in DOMAIN calls |-> cs[i]],
         \A i \in DOMAIN calls :
           /\ cs[i] \in CallRecords
           /\ cs[i].kind = calls[i].kind /\ cs[i].visit = calls[i].visit /\ cs[i].with = calls[i].with
           /\ Unchanged(calls[i], cs[i])
  PROVE  Quiet(cs)
<1>1. cs \in [1..Len(calls) -> CallRecords] /\ Len(calls) \in Nat
  BY CallFacts
<1>2. cs \in Seq(CallRecords) /\ Len(cs) = Len(calls)
  BY <1>1, SeqOf
<1> QED BY <1>2 DEF Quiet

LEMMA CallsQuiet == ASSUME CallTypes PROVE Quiet(calls)
BY CallFacts DEF Quiet, Unchanged, CallTypes

LEMMA FrozenQuiet ==
  ASSUME CallTypes, ui \in UiRecords, NEW kinds
  PROVE  Quiet(Frozen(kinds))
<1> DEFINE Asleep(i) == Here(i) /\ i \in Pending /\ calls[i].kind \in kinds /\ calls[i].then = -1
           cs == Frozen(kinds)
<1>1. /\ DOMAIN cs = DOMAIN calls /\ cs = [i \in DOMAIN calls |-> cs[i]]
      /\ \A i \in DOMAIN calls :
           cs[i] = IF Asleep(i) THEN [calls[i] EXCEPT !.then = ui.selected] ELSE calls[i]
  BY DEF Frozen
<1>2. \A i \in DOMAIN calls : Asleep(i) => calls[i].then = -1
  OBVIOUS
<1> HIDE DEF Asleep, cs
<1>3. ui.selected \in Int
  BY DEF UiRecords
<1>4. ASSUME NEW i \in DOMAIN calls
      PROVE  /\ cs[i] \in CallRecords
             /\ cs[i].kind = calls[i].kind /\ cs[i].visit = calls[i].visit /\ cs[i].with = calls[i].with
             /\ Unchanged(calls[i], cs[i])
  BY <1>1, <1>2, <1>3, CallFacts DEF CallRecords, Unchanged
<1>5. Quiet(cs)
  BY <1>1, <1>4, QuietIf
<1> QED BY <1>5 DEF cs

(* Whatever requests await is taken from what they wait for. *)
LEMMA AwaitedQuiet ==
  ASSUME CallTypes, NEW k, NEW cs, Quiet(cs)
  PROVE  Quiet([i \in DOMAIN calls |-> [cs[i] EXCEPT !.waits = @ \ {k}]])
<1> DEFINE ds == [i \in DOMAIN calls |-> [cs[i] EXCEPT !.waits = @ \ {k}]]
<1>1. /\ DOMAIN ds = DOMAIN calls /\ ds = [i \in DOMAIN calls |-> ds[i]]
      /\ \A i \in DOMAIN calls : ds[i] = [cs[i] EXCEPT !.waits = @ \ {k}]
  OBVIOUS
<1> HIDE DEF ds
<1>2. \A i \in DOMAIN calls : cs[i] \in CallRecords
  BY CallFacts, ElementOfSeq DEF Quiet
<1>3. ASSUME NEW i \in DOMAIN calls
      PROVE  /\ ds[i] \in CallRecords
             /\ ds[i].kind = calls[i].kind /\ ds[i].visit = calls[i].visit /\ ds[i].with = calls[i].with
             /\ Unchanged(calls[i], ds[i])
  <2>1. /\ cs[i] \in CallRecords
        /\ cs[i].kind = calls[i].kind /\ cs[i].visit = calls[i].visit /\ cs[i].with = calls[i].with
        /\ Unchanged(calls[i], cs[i])
    BY <1>2 DEF Quiet
  <2>2. PICK c \in CallRecords : c = cs[i]
    BY <2>1
  <2>3. ds[i] = [c EXCEPT !.waits = @ \ {k}]
    BY <1>1, <2>2
  <2>4. /\ ds[i] \in CallRecords
        /\ ds[i].kind = c.kind /\ ds[i].visit = c.visit /\ ds[i].with = c.with
        /\ ds[i].n = c.n /\ ds[i].stage = c.stage /\ ds[i].at = c.at /\ ds[i].then = c.then
    BY <2>3 DEF CallRecords
  <2> QED BY <2>1, <2>2, <2>4 DEF Unchanged
<1>4. Quiet(ds)
  BY <1>1, <1>3, QuietIf
<1> QED BY <1>4 DEF ds

LEMMA QuietAdvance ==
  ASSUME CallTypes, Quiet(calls')
  PROVE  CallsAdvance
BY CallFacts DEF Quiet, CallsAdvance, Advances

(* A request is sent; the others are as in cs. *)
LEMMA SendingIs ==
  ASSUME CallTypes, visit \in Nat, NEW cs \in Seq(CallRecords), Len(cs) = Len(calls),
         NEW kind \in Kinds, NEW n \in Nat
  PROVE  LET ds == Sending(cs, kind, n)
             c  == ds[Len(calls) + 1]
         IN /\ ds \in Seq(CallRecords) /\ Len(ds) = Len(calls) + 1
            /\ \A i \in DOMAIN calls : ds[i] = cs[i]
            /\ c.kind = kind /\ c.n = n /\ c.stage = "sent" /\ c.with = Unanswered /\ c.visit = visit
<1> DEFINE c == [kind |-> kind, n |-> n, visit |-> visit, stage |-> "sent", at |-> 0,
                 waits |-> {}, then |-> -1, with |-> Unanswered]
<1>1. Unanswered \subseteq DOMAIN calls /\ DOMAIN calls = 1..Len(calls) /\ Len(calls) \in Nat
  BY CallFacts DEF Unanswered
<1>2. c \in CallRecords
  BY <1>1 DEF CallRecords, Stages
<1>3. Sending(cs, kind, n) = Append(cs, c)
  BY DEF Sending
<1>4. c.kind = kind /\ c.n = n /\ c.stage = "sent" /\ c.with = Unanswered /\ c.visit = visit
  OBVIOUS
<1> HIDE DEF c
<1>5. /\ Append(cs, c) \in Seq(CallRecords) /\ Len(Append(cs, c)) = Len(cs) + 1
      /\ Append(cs, c)[Len(cs) + 1] = c
      /\ \A i \in 1..Len(cs) : Append(cs, c)[i] = cs[i]
  BY <1>2
<1> QED BY <1>1, <1>3, <1>4, <1>5

-----------------------------------------------------------------------------
(* The page.  What a step does to the mounted page, in terms of the        *)
(* requests whose callbacks it runs. *)
Succeeds(i) == calls[i].stage = "done" /\ calls'[i].stage \in {"settling", "over"}

LeavesPage ==
  /\ visit' = visit + 1
  /\ page' \in PagesOf(TRUE) \union {"error"}
  /\ ui' = FreshUi
  /\ Quiet(calls')

(* A page number is that of a page in some version of the list. *)
TabMoves ==
  \/ ui'.tab <= ui.tab \/ ui'.tab = 1
  \/ page = "orders" /\ \E v \in 1..Now : ui'.tab <= Pages(Existing(shop[v].orders))
  \/ page = "products" /\ \E v \in 1..Now : ui'.tab <= Pages(Existing(shop[v].products))

SelectionTyped ==
  /\ page = "orders" => ui'.selected \in Orders \union {0}
  /\ page = "stockLogs" => ui'.selected \in Products \union {0}
  /\ page = "products" /\ ui'.shown # 0 => ui'.selected \in Products

ReportMoves ==
  /\ \/ ui'.report = ui.report \/ ui'.report = 0
     \/ /\ ui'.report \in DOMAIN calls /\ Succeeds(ui'.report)
        /\ Here(ui'.report) /\ calls[ui'.report].kind = "reconcile"
  /\ \A i \in DOMAIN calls :
       Succeeds(i) /\ Here(i) /\ calls[i].kind = "rebuild" => ui'.report = 0

Asked(kind) == kind \in {"detail", "lookup"}

CardMoves ==
  /\ \/ ui'.shown = ui.shown
     \/ ui'.shown = 0 /\ page = "inventory"
     \/ ui'.shown \in DOMAIN calls /\ Succeeds(ui'.shown)
        /\ Here(ui'.shown) /\ Asked(calls[ui'.shown].kind)
  /\ \A i \in DOMAIN calls :
       Succeeds(i) /\ Here(i) /\ Asked(calls[i].kind) => ui'.shown = i /\ calls'[i].stage = "over"

StockPending(i) == i \in Pending /\ Here(i) /\ calls[i].kind \in StockRequests

StockMoves ==
  /\ \/ ui'.selected = ui.selected /\ ui'.crossed = ui.crossed
     \/ /\ calls' = calls /\ ui'.shown = 0
        /\ \A n \in ui.crossed : n \in ui'.crossed
        /\ \A i \in DOMAIN calls : StockPending(i) => calls[i].n \in ui'.crossed
  /\ LET c == calls'[Len(calls) + 1] IN
       Len(calls') = Len(calls) + 1 /\ c.kind \in StockRequests =>
         \/ c.n = ui.selected
         \/ \E i \in DOMAIN calls : StockPending(i) /\ calls[i].n = c.n

StaysOnPage ==
  /\ visit' = visit /\ page' = page
  /\ ui' \in UiRecords
  /\ TabMoves /\ SelectionTyped /\ ReportMoves /\ CardMoves
  /\ page = "inventory" => StockMoves

(* The callback of a write invalidates the lists it changed, but for the   *)
(* operation logs. *)
Announced ==
  \A i \in DOMAIN calls : Succeeds(i) =>
    \E u, lists, then : Succeed(i, u, lists, then) /\ Writes[calls[i].kind] \ {"operations"} \subseteq lists

CallsAndPage == CallsAdvance /\ Announced /\ (LeavesPage \/ StaysOnPage)

LEMMA KindsAre ==
  /\ Kinds = {"create", "pay", "finish", "cancel", "newProduct", "onSale", "offSale", "init",
              "add", "rebuild", "detail", "lookup", "reconcile"}
  /\ ActionHook = {"pay", "finish", "cancel"} /\ StatusHook = {"onSale", "offSale"}
  /\ StockRequests = {"lookup", "init", "add"}
BY DEF Kinds, Writes, ActionHook, StatusHook, StockRequests

LEMMA DataFacts ==
  ASSUME CacheTypes, ShopTypes, NEW k
  PROVE  /\ Data(k) \in 0..Now
         /\ Data(k) # 0 => Data(k) \in 1..Now /\ shop[Data(k)] \in States
         /\ Loaded(k) <=> Data(k) # 0
<1>1. Data(k) \in 0..Now
  BY ShopFacts DEF Data, CacheTypes, QueryRecords
<1> QED BY <1>1, ShopFacts DEF Loaded

LEMMA RowsExist ==
  ASSUME NEW m, NEW n, NEW r \in RowsOf(m, n)
  PROVE  r \in 1..m
BY DEF RowsOf

LEMMA OrdersShown ==
  ASSUME ConsoleTypes, page = "orders", NEW order \in OrderRows \union OrderDetail
  PROVE  order.id \in Orders
<1>1. CASE order \in OrderRows
  <2> DEFINE v == ShownOrders[2]
  <2>1. PICK k : v = Data(k) \/ v = 0
    BY DEF ShownOrders
  <2>2. v # 0
    BY <1>1 DEF OrderRows
  <2>3. v \in 1..Now /\ shop[v] \in States
    BY <2>1, <2>2, DataFacts DEF ConsoleTypes
  <2>4. PICK o \in RowsOf(Existing(shop[v].orders), ShownOrders[1]) : order.id = o
    BY <1>1, <2>2 DEF OrderRows
  <2>5. o \in 1..Existing(shop[v].orders)
    BY <2>4, RowsExist
  <2> QED BY <2>3, <2>4, <2>5, Tables, StartRooms
<1>2. CASE order \in OrderDetail
  BY <1>2 DEF OrderDetail, ConsoleTypes, PageTypes
<1> QED BY <1>1, <1>2

LEMMA ProductsShown ==
  ASSUME ConsoleTypes, page = "products", NEW product \in CatalogueRows \union ProductCard
  PROVE  product.id \in Products
<1>1. CASE product \in CatalogueRows
  <2> DEFINE v == ShownCatalogue[2]
  <2>1. PICK k : v = Data(k) \/ v = 0
    BY DEF ShownCatalogue
  <2>2. v # 0
    BY <1>1 DEF CatalogueRows
  <2>3. v \in 1..Now /\ shop[v] \in States
    BY <2>1, <2>2, DataFacts DEF ConsoleTypes
  <2>4. PICK p \in RowsOf(Existing(shop[v].products), ShownCatalogue[1]) : product.id = p
    BY <1>1, <2>2 DEF CatalogueRows
  <2>5. p \in 1..Existing(shop[v].products)
    BY <2>4, RowsExist
  <2> QED BY <2>3, <2>4, <2>5, Tables, StartRooms
<1>2. CASE product \in ProductCard
  BY <1>2 DEF ProductCard, ConsoleTypes, PageTypes
<1> QED BY <1>1, <1>2

(* A request is sent and nothing else happens to the requests. *)
Sends(kind, n) ==
  /\ Len(calls') = Len(calls) + 1
  /\ calls'[Len(calls) + 1].kind = kind /\ calls'[Len(calls) + 1].n = n
  /\ \A i \in DOMAIN calls : calls'[i].stage = calls[i].stage

LEMMA MutateAdvances ==
  ASSUME ConsoleTypes, NEW kind \in Kinds, NEW n \in Nat, Mutate(kind, n),
         PageOf(kind) = page, Aimed([kind |-> kind, n |-> n]),
         kind \in ActionHook => ~ IsPending(ActionHook) \/ calls[Current(ActionHook)].n # n
  PROVE  CallsAdvance /\ Sends(kind, n)
<1> DEFINE cs == Frozen(HookOf(kind))
           c == calls'[Len(calls) + 1]
<1>1. /\ CallTypes /\ ui \in UiRecords /\ visit \in Nat
  BY DEF ConsoleTypes, PageTypes
<1>2. Quiet(cs)
  BY <1>1, FrozenQuiet
<1>3. calls' = Sending(cs, kind, n)
  BY DEF Mutate
<1> HIDE DEF cs
<1>4. cs \in Seq(CallRecords) /\ Len(cs) = Len(calls)
  BY <1>2 DEF Quiet
<1>5. /\ calls' \in Seq(CallRecords) /\ Len(calls') = Len(calls) + 1
      /\ \A i \in DOMAIN calls : calls'[i] = cs[i]
      /\ c.kind = kind /\ c.n = n /\ c.stage = "sent" /\ c.with = Unanswered /\ c.visit = visit
  BY <1>1, <1>3, <1>4, SendingIs
<1> HIDE DEF c
<1>6. New(c)
  BY <1>5 DEF New, Aimed
<1>7. \A i \in DOMAIN calls : Advances(calls[i], calls'[i])
  BY <1>2, <1>5 DEF Quiet, Advances
<1>8. \A i \in DOMAIN calls : calls'[i].stage = calls[i].stage
  BY <1>2, <1>5 DEF Quiet, Unchanged
<1> QED BY <1>5, <1>6, <1>7, <1>8 DEF CallsAdvance, Sends, c

(* The page stays as it is, or another row is selected or asked for. *)
LEMMA PageStays ==
  ASSUME ConsoleTypes, visit' = visit, page' = page, ui' \in UiRecords, TabMoves, SelectionTyped,
         ui'.report = ui.report,
         ui'.shown = ui.shown \/ (ui'.shown = 0 /\ page = "inventory"),
         page = "inventory" => StockMoves,
         \A i \in DOMAIN calls : ~ Succeeds(i)
  PROVE  StaysOnPage
BY DEF StaysOnPage, ReportMoves, CardMoves

LEMMA UiStays ==
  ASSUME ConsoleTypes, UNCHANGED ui
  PROVE  ui' \in UiRecords /\ TabMoves /\ SelectionTyped
<1>1. ui' \in UiRecords /\ ui'.tab <= ui.tab
  BY DEF ConsoleTypes, PageTypes, UiRecords
<1> QED BY <1>1 DEF ConsoleTypes, PageTypes, TabMoves, SelectionTyped

LEMMA CallsSame ==
  ASSUME ConsoleTypes, UNCHANGED calls
  PROVE  CallsAdvance /\ Quiet(calls') /\ \A i \in DOMAIN calls : ~ Succeeds(i)
<1>1. Quiet(calls')
  BY CallsQuiet DEF ConsoleTypes
<1>2. \A i \in DOMAIN calls : ~ Succeeds(i)
  BY DEF Succeeds
<1> QED BY <1>1, <1>2, QuietAdvance DEF ConsoleTypes

LEMMA QuietNobodySucceeds ==
  ASSUME Quiet(calls')
  PROVE  \A i \in DOMAIN calls : ~ Succeeds(i)
BY DEF Quiet, Unchanged, Succeeds

(* Nothing but a request is sent. *)
LEMMA SendingStays ==
  ASSUME ConsoleTypes, UNCHANGED <<visit, page, ui>>, NEW kind, NEW n, Sends(kind, n),
         kind \in StockRequests => n = ui.selected
  PROVE  StaysOnPage
<1>1. \A i \in DOMAIN calls : ~ Succeeds(i)
  BY DEF Sends, Succeeds
<1>2. StockMoves
  BY DEF Sends, StockMoves
<1>3. ui' \in UiRecords /\ TabMoves /\ SelectionTyped
  BY UiStays
<1>4. visit' = visit /\ page' = page /\ ui'.report = ui.report /\ ui'.shown = ui.shown
  OBVIOUS
<1> QED BY <1>1, <1>2, <1>3, <1>4 DEF StaysOnPage, ReportMoves, CardMoves

(* The page shows something else; the requests are what they were. *)
LEMMA ShowingStays ==
  ASSUME ConsoleTypes, UNCHANGED <<calls, visit, page>>, ui' \in UiRecords, TabMoves,
         SelectionTyped, ui'.report = ui.report, ui'.shown = ui.shown,
         page = "inventory" => ui'.selected = ui.selected /\ ui'.crossed = ui.crossed
  PROVE  CallsAndPage
<1>1. CallsAdvance /\ \A i \in DOMAIN calls : ~ Succeeds(i)
  BY CallsSame
<1>2. page = "inventory" => StockMoves
  <2>1. Len(calls) \in Nat
    BY CallFacts DEF ConsoleTypes
  <2>2. Len(calls') = Len(calls)
    OBVIOUS
  <2>3. Len(calls') # Len(calls) + 1
    BY <2>1, <2>2
  <2> QED BY <2>3 DEF StockMoves
<1>3. StaysOnPage
  <2>1. visit' = visit /\ page' = page /\ (ui'.shown = ui.shown \/ (ui'.shown = 0 /\ page = "inventory"))
    OBVIOUS
  <2>2. \A i \in DOMAIN calls : ~ Succeeds(i)
    BY <1>1
  <2> QED BY <1>2, <2>1, <2>2, PageStays
<1> QED BY <1>1, <1>3 DEF CallsAndPage, Announced

LEMMA TurningStays ==
  ASSUME ConsoleTypes, UNCHANGED <<calls, visit, page>>,
         NEW n \in Nat \ {0}, NEW prev \in Nat \ {0},
         ui' = [ui EXCEPT !.tab = n, !.prev = prev],
         \/ n <= ui.tab
         \/ page = "orders" /\ \E v \in 1..Now : n <= Pages(Existing(shop[v].orders))
         \/ page = "products" /\ \E v \in 1..Now : n <= Pages(Existing(shop[v].products))
  PROVE  CallsAndPage
<1>1. ui \in UiRecords
  BY DEF ConsoleTypes, PageTypes
<1>2. /\ ui' \in UiRecords /\ ui'.tab = n /\ ui'.selected = ui.selected
      /\ ui'.report = ui.report /\ ui'.shown = ui.shown /\ ui'.crossed = ui.crossed
  BY <1>1 DEF UiRecords
<1>3. TabMoves
  BY <1>2 DEF TabMoves
<1>4. SelectionTyped
  BY <1>2 DEF SelectionTyped, ConsoleTypes, PageTypes
<1> QED BY <1>2, <1>3, <1>4, ShowingStays

(* The orders page. *)
LEMMA OrderActionSent ==
  ASSUME ConsoleTypes, page = "orders",
         NEW order \in OrderRows \union OrderDetail, NEW action \in ActionHook,
         RequestOrderAction(order, action)
  PROVE  CallsAndPage
<1>1. /\ order.id \in Nat /\ action \in Kinds /\ PageOf(action) = "orders"
      /\ order.id \in Orders /\ Aimed([kind |-> action, n |-> order.id])
  BY OrdersShown, StartRooms, KindsAre DEF PageOf, Aimed
<1>2. ~ IsPending(ActionHook) \/ calls[Current(ActionHook)].n # order.id
  BY DEF RequestOrderAction, OrderActions
<1>3. CASE RequiresOrderActionConfirmation(action)
  <2>1. /\ UNCHANGED <<calls, visit, page>> /\ ui \in UiRecords
        /\ ui' = [ui EXCEPT !.confirm = <<order.id, action>>]
    BY <1>3 DEF RequestOrderAction, ConsoleTypes, PageTypes
  <2>2. <<order.id, action>> \in Orders \X ActionHook
    BY <1>1
  <2>3. /\ ui' \in UiRecords /\ ui'.tab <= ui.tab /\ ui'.selected = ui.selected
        /\ ui'.report = ui.report /\ ui'.shown = ui.shown /\ ui'.crossed = ui.crossed
    BY <2>1, <2>2 DEF UiRecords
  <2>4. TabMoves /\ SelectionTyped
    BY <2>3 DEF TabMoves, SelectionTyped, ConsoleTypes, PageTypes
  <2> QED BY <2>1, <2>3, <2>4, ShowingStays
<1>4. CASE ~ RequiresOrderActionConfirmation(action)
  <2>1. Mutate(action, order.id) /\ UNCHANGED ui
    BY <1>4 DEF RequestOrderAction
  <2>2. CallsAdvance /\ Sends(action, order.id)
    BY <1>1, <1>2, <2>1, MutateAdvances
  <2>3. StaysOnPage
    BY <2>1, <2>2, SendingStays, KindsAre DEF Mutate
  <2> QED BY <2>2, <2>3 DEF CallsAndPage, Announced, Sends, Succeeds
<1> QED BY <1>3, <1>4

LEMMA OrdersUseStays ==
  ASSUME ConsoleTypes, OrdersUse
  PROVE  CallsAndPage
<1>0. page = "orders" /\ ui \in UiRecords /\ ui.selected \in Orders \union {0}
  BY DEF OrdersUse, ConsoleTypes, PageTypes
<1>1. CASE \E order \in OrderRows \union OrderDetail, a \in ActionHook : RequestOrderAction(order, a)
  BY <1>0, <1>1, OrderActionSent
<1>2. CASE Confirm
  <2>1. ui.confirm[1] \in Orders /\ ui.confirm[2] \in ActionHook /\ ~ IsPending(ActionHook)
    BY <1>0, <1>2 DEF Confirm, UiRecords
  <2>2. /\ ui.confirm[2] \in Kinds /\ PageOf(ui.confirm[2]) = page
        /\ ui.confirm[2] \notin StockRequests /\ ui.confirm[1] \in Nat
        /\ Aimed([kind |-> ui.confirm[2], n |-> ui.confirm[1]])
    BY <1>0, <2>1, KindsAre, StartRooms DEF PageOf, Aimed
  <2>3. Mutate(ui.confirm[2], ui.confirm[1]) /\ UNCHANGED ui
    BY <1>2 DEF Confirm
  <2>4. CallsAdvance /\ Sends(ui.confirm[2], ui.confirm[1])
    BY <2>1, <2>2, <2>3, MutateAdvances
  <2>5. StaysOnPage
    BY <2>2, <2>3, <2>4, SendingStays DEF Mutate
  <2> QED BY <2>4, <2>5 DEF CallsAndPage, Announced, Sends, Succeeds
<1>3. CASE Dismiss
  <2>1. UNCHANGED <<calls, visit, page>> /\ ui' = [ui EXCEPT !.confirm = <<>>]
    BY <1>3 DEF Dismiss
  <2>2. /\ ui' \in UiRecords /\ ui'.tab <= ui.tab /\ ui'.selected = ui.selected
        /\ ui'.report = ui.report /\ ui'.shown = ui.shown /\ ui'.crossed = ui.crossed
    BY <1>0, <2>1 DEF UiRecords
  <2>3. TabMoves /\ SelectionTyped
    BY <2>2 DEF TabMoves, SelectionTyped, ConsoleTypes, PageTypes
  <2> QED BY <2>1, <2>2, <2>3, ShowingStays
<1>4. CASE SelectOrder \/ ResetOrderForm
  <2>1. PICK o \in Orders \union {0} :
          UNCHANGED <<calls, visit, page>> /\ ui' = [ui EXCEPT !.selected = o]
    BY <1>0, <1>4, OrdersShown DEF SelectOrder, ResetOrderForm, Show
  <2>2. /\ ui' \in UiRecords /\ ui'.tab <= ui.tab /\ ui'.selected = o
        /\ ui'.report = ui.report /\ ui'.shown = ui.shown /\ ui'.crossed = ui.crossed
    BY <1>0, <2>1, StartRooms, SMTT(20) DEF UiRecords
  <2>3. TabMoves /\ SelectionTyped
    BY <1>0, <2>1, <2>2 DEF TabMoves, SelectionTyped
  <2> QED BY <1>0, <2>1, <2>2, <2>3, ShowingStays
<1>5. CASE TurnOrderPage
  <2> DEFINE v == Data(ListKey)
             prev == IF Loaded(ListKey) THEN ui.tab ELSE ui.prev
  <2>1. PICK n : /\ (n = ui.tab - 1 /\ ui.tab > 1) \/ (n = ui.tab + 1 /\ ui.tab < OrderPages)
                 /\ ToPage(n)
    BY <1>5 DEF TurnOrderPage
  <2>2. UNCHANGED <<calls, visit, page>> /\ ui' = [ui EXCEPT !.tab = n, !.prev = prev]
    BY <2>1 DEF ToPage, Show
  <2>3. ui.tab \in Nat \ {0} /\ ui.prev \in Nat \ {0}
    BY <1>0 DEF UiRecords
  <2>4. n \in Nat \ {0} /\ prev \in Nat \ {0}
    BY <2>1, <2>3
  <2>5. CASE n = ui.tab - 1
    <3>1. n <= ui.tab
      BY <2>3, <2>5
    <3> QED BY <2>2, <2>4, <3>1, TurningStays
  <2>6. CASE n = ui.tab + 1 /\ ui.tab < OrderPages
    <3>1. Loaded(ListKey)
      BY <2>3, <2>6 DEF OrderPages
    <3>2. v \in 1..Now /\ shop[v] \in States
      BY <3>1, DataFacts DEF ConsoleTypes
    <3>3. OrderPages = Pages(Existing(shop[v].orders)) /\ Existing(shop[v].orders) \in Nat
      BY <3>1, <3>2, Tables DEF OrderPages
    <3>4. Pages(Existing(shop[v].orders)) \in Nat
      BY <3>3, PagesGrow
    <3>5. n <= Pages(Existing(shop[v].orders))
      BY <2>3, <2>6, <3>3, <3>4
    <3> QED BY <1>0, <2>2, <2>4, <3>2, <3>5, TurningStays
  <2> QED BY <2>1, <2>5, <2>6
<1>6. CASE SubmitOrder
  <2>1. Mutate("create", 0) /\ UNCHANGED ui
    BY <1>6 DEF SubmitOrder
  <2>2. "create" \in Kinds /\ PageOf("create") = page /\ "create" \notin ActionHook \union StockRequests
        /\ Aimed([kind |-> "create", n |-> 0])
    BY <1>0, KindsAre DEF PageOf, Aimed
  <2>3. CallsAdvance /\ Sends("create", 0)
    BY <2>1, <2>2, MutateAdvances
  <2>4. StaysOnPage
    BY <2>1, <2>2, <2>3, SendingStays DEF Mutate
  <2> QED BY <2>3, <2>4 DEF CallsAndPage, Announced, Sends, Succeeds
<1> QED BY <1>1, <1>2, <1>3, <1>4, <1>5, <1>6 DEF OrdersUse

(* The products page. *)
LEMMA ProductsUseStays ==
  ASSUME ConsoleTypes, ProductsUse
  PROVE  CallsAndPage
<1>0. page = "products" /\ ui \in UiRecords
  BY DEF ProductsUse, ConsoleTypes, PageTypes
<1>1. ASSUME UNCHANGED ui, NEW kind \in {"newProduct", "detail", "onSale", "offSale"},
             NEW n \in Nat, Mutate(kind, n), kind # "newProduct" => n \in Products
      PROVE  CallsAndPage
  <2>1. kind \in Kinds /\ PageOf(kind) = page /\ kind \notin ActionHook \union StockRequests
        /\ Aimed([kind |-> kind, n |-> n])
    BY <1>0, <1>1, KindsAre DEF PageOf, Aimed
  <2>2. CallsAdvance /\ Sends(kind, n)
    BY <1>1, <2>1, MutateAdvances
  <2>3. StaysOnPage
    BY <1>1, <2>1, <2>2, SendingStays DEF Mutate
  <2> QED BY <2>2, <2>3 DEF CallsAndPage, Announced, Sends, Succeeds
<1>2. CASE ChangeStatus
  <2>1. PICK product \in CatalogueRows \union ProductCard, action \in StatusHook :
          Mutate(action, product.id)
    BY <1>2 DEF ChangeStatus
  <2>2. /\ product.id \in Nat /\ product.id \in Products
        /\ action \in {"onSale", "offSale"} /\ UNCHANGED ui
    BY <1>0, <1>2, <2>1, ProductsShown, KindsAre, StartRooms DEF ChangeStatus
  <2> QED BY <1>1, <2>1, <2>2
<1>3. CASE AskDetail
  <2>1. PICK product \in CatalogueRows : Mutate("detail", product.id)
    BY <1>3 DEF AskDetail
  <2>2. product.id \in Nat /\ product.id \in Products /\ UNCHANGED ui
    BY <1>0, <1>3, <2>1, ProductsShown, StartRooms DEF AskDetail
  <2> QED BY <1>1, <2>1, <2>2
<1>4. CASE \E name \in {"", "cup"}, fen \in {0, 100} : SubmitProduct(name, fen)
  BY <1>1, <1>4 DEF SubmitProduct
<1>5. CASE TurnCataloguePage
  <2> DEFINE v == Data(CatalogueKey)
             prev == IF Loaded(CatalogueKey) THEN ui.tab ELSE ui.prev
  <2>1. PICK n : /\ (n = ui.tab - 1 /\ ui.tab > 1) \/ (n = ui.tab + 1 /\ ui.tab < CataloguePages)
                 /\ ToCataloguePage(n)
    BY <1>5 DEF TurnCataloguePage
  <2>2. UNCHANGED <<calls, visit, page>> /\ ui' = [ui EXCEPT !.tab = n, !.prev = prev]
    BY <2>1 DEF ToCataloguePage, Show
  <2>3. ui.tab \in Nat \ {0} /\ ui.prev \in Nat \ {0}
    BY <1>0 DEF UiRecords
  <2>4. n \in Nat \ {0} /\ prev \in Nat \ {0}
    BY <2>1, <2>3
  <2>5. CASE n = ui.tab - 1
    <3>1. n <= ui.tab
      BY <2>3, <2>5
    <3> QED BY <2>2, <2>4, <3>1, TurningStays
  <2>6. CASE n = ui.tab + 1 /\ ui.tab < CataloguePages
    <3>1. Loaded(CatalogueKey)
      BY <2>3, <2>6 DEF CataloguePages
    <3>2. v \in 1..Now /\ shop[v] \in States
      BY <3>1, DataFacts DEF ConsoleTypes
    <3>3. CataloguePages = Pages(Existing(shop[v].products)) /\ Existing(shop[v].products) \in Nat
      BY <3>1, <3>2, Tables DEF CataloguePages
    <3>4. Pages(Existing(shop[v].products)) \in Nat
      BY <3>3, PagesGrow
    <3>5. n <= Pages(Existing(shop[v].products))
      BY <2>3, <2>6, <3>3, <3>4
    <3> QED BY <1>0, <2>2, <2>4, <3>2, <3>5, TurningStays
  <2> QED BY <2>1, <2>5, <2>6
<1> QED BY <1>2, <1>3, <1>4, <1>5 DEF ProductsUse

(* The inventory page. *)
LEMMA SelectingStays ==
  ASSUME ConsoleTypes, page = "inventory", SelectProduct
  PROVE  CallsAndPage
<1>0. ui \in UiRecords /\ CallTypes
  BY DEF ConsoleTypes, PageTypes
<1> DEFINE C == {calls[i].n : i \in {j \in Pending : Here(j) /\ calls[j].kind \in StockRequests}}
<1>1. PICK p \in Products : /\ UNCHANGED <<calls, visit, page>>
                            /\ ui' = [ui EXCEPT !.selected = p, !.shown = 0, !.crossed = @ \union C]
  BY DEF SelectProduct, ProductSelect, Show
<1>2. C \subseteq Nat
  <2>1. \A i \in Pending : i \in DOMAIN calls
    BY DEF Pending, Unanswered
  <2> QED BY <1>0, <2>1, CallFacts DEF CallRecords
<1>3. \A i \in DOMAIN calls : StockPending(i) => calls[i].n \in C
  BY DEF StockPending
<1> HIDE DEF C
<1>4. /\ ui' \in UiRecords /\ ui'.tab <= ui.tab /\ ui'.shown = 0
      /\ ui'.report = ui.report /\ ui'.crossed = ui.crossed \union C
  <2>1. p \in Nat
    BY StartRooms
  <2>2. ui.crossed \union C \in SUBSET Nat
    BY <1>0, <1>2 DEF UiRecords
  <2>3. ui' = [ui EXCEPT !.selected = p, !.shown = 0, !.crossed = ui.crossed \union C]
    BY <1>1
  <2>4. ui.tab <= ui.tab
    BY <1>0 DEF UiRecords
  <2>5. /\ ui' \in UiRecords /\ ui'.tab = ui.tab /\ ui'.shown = 0
        /\ ui'.report = ui.report /\ ui'.crossed = ui.crossed \union C
    BY <1>0, <2>1, <2>2, <2>3 DEF UiRecords
  <2> QED BY <2>4, <2>5
<1>5. TabMoves /\ SelectionTyped
  BY <1>4 DEF TabMoves, SelectionTyped
<1>6. CallsAdvance /\ \A i \in DOMAIN calls : ~ Succeeds(i)
  BY <1>1, CallsSame
<1>7. StockMoves
  <2>1. Len(calls) \in Nat /\ Len(calls') = Len(calls) /\ calls' = calls
    BY <1>0, <1>1, CallFacts
  <2>2. Len(calls') # Len(calls) + 1
    BY <2>1
  <2> QED BY <1>3, <1>4, <2>1, <2>2 DEF StockMoves
<1>8. visit' = visit /\ page' = page
  BY <1>1
<1>9. StaysOnPage
  BY <1>4, <1>5, <1>6, <1>7, <1>8 DEF StaysOnPage, ReportMoves, CardMoves
<1> QED BY <1>6, <1>9 DEF CallsAndPage, Announced

LEMMA InventoryUseStays ==
  ASSUME ConsoleTypes, InventoryUse
  PROVE  CallsAndPage
<1>0. page = "inventory" /\ ui \in UiRecords
  BY DEF InventoryUse, ConsoleTypes, PageTypes
<1>1. ASSUME NEW kind \in {"init", "add", "lookup", "rebuild", "reconcile"}, NEW n \in Nat,
             Mutate(kind, n), kind \in StockRequests => n = ui.selected,
             \/ UNCHANGED ui
             \/ ui' = [ui EXCEPT !.shown = 0]
      PROVE  CallsAndPage
  <2>1. kind \in Kinds /\ PageOf(kind) = page /\ kind \notin ActionHook
        /\ Aimed([kind |-> kind, n |-> n])
    BY <1>0, KindsAre DEF PageOf, Aimed
  <2>2. CallsAdvance /\ Sends(kind, n)
    BY <1>1, <2>1, MutateAdvances
  <2>3. /\ ui' \in UiRecords /\ ui'.tab <= ui.tab /\ ui'.selected = ui.selected
        /\ ui'.report = ui.report /\ ui'.shown \in {ui.shown, 0} /\ ui'.crossed = ui.crossed
    BY <1>0, <1>1 DEF UiRecords
  <2>4. TabMoves /\ SelectionTyped
    BY <1>0, <2>3 DEF TabMoves, SelectionTyped
  <2>5. \A i \in DOMAIN calls : ~ Succeeds(i)
    BY <2>2 DEF Sends, Succeeds
  <2>6. StockMoves
    BY <1>1, <2>2, <2>3 DEF Sends, StockMoves
  <2>7. visit' = visit /\ page' = page
    BY <1>1 DEF Mutate
  <2>8. StaysOnPage
    BY <1>0, <2>3, <2>4, <2>5, <2>6, <2>7 DEF StaysOnPage, ReportMoves, CardMoves
  <2> QED BY <2>2, <2>8 DEF CallsAndPage, Announced, Sends, Succeeds
<1>2. ui.selected \in Nat
  BY <1>0 DEF UiRecords
<1>3. CASE SelectProduct
  BY <1>0, <1>3, SelectingStays
<1>4. CASE HandleLookupInventory
  BY <1>1, <1>2, <1>4 DEF HandleLookupInventory
<1>5. CASE \E q \in {-1, 0, 1} : HandleInitInventory(q) \/ HandleAddInventory(q)
  BY <1>1, <1>2, <1>5 DEF HandleInitInventory, HandleAddInventory
<1>6. CASE \E kind \in {"rebuild", "reconcile"} : MaintainRedis(kind)
  BY <1>1, <1>6, KindsAre DEF MaintainRedis
<1> QED BY <1>3, <1>4, <1>5, <1>6 DEF InventoryUse

LEMMA ReportsUseStays ==
  ASSUME ConsoleTypes, ReportsUse
  PROVE  CallsAndPage
<1>1. PICK p \in {0} \union Products :
        UNCHANGED <<calls, visit, page>> /\ ui' = [ui EXCEPT !.selected = p]
  BY DEF ReportsUse, FilterLogs, Show
<1>2. page = "stockLogs" /\ ui \in UiRecords
  BY DEF ReportsUse, ConsoleTypes, PageTypes
<1>3. /\ ui' \in UiRecords /\ ui'.tab <= ui.tab /\ ui'.selected = p
      /\ ui'.report = ui.report /\ ui'.shown = ui.shown /\ ui'.crossed = ui.crossed
  BY <1>1, <1>2, StartRooms DEF UiRecords
<1>4. TabMoves /\ SelectionTyped
  BY <1>1, <1>2, <1>3 DEF TabMoves, SelectionTyped
<1> QED BY <1>1, <1>2, <1>3, <1>4, ShowingStays

-----------------------------------------------------------------------------
(* The server.  A status only moves on, and what there is stays. *)
Onward(a, b) ==
  \/ a \in {b, "none"}
  \/ a = "pending" /\ b # "none"
  \/ a = "paid" /\ b = "finished"

(* Between any two versions of the shop orders move on in their life, and  *)
(* what exists stays. *)
OnlyOnward ==
  /\ \A v \in 1..Now : NoGaps(shop[v].orders)
  /\ \A v, w \in 1..Now : v <= w =>
       /\ \A o \in Orders : Onward(shop[v].orders[o], shop[w].orders[o])
       /\ \A p \in Products : shop[v].products[p] # "none" => shop[w].products[p] # "none"

ShopGrows ==
  /\ Now' \in Nat /\ Now' >= Now
  /\ \A v \in 1..Now : shop'[v] = shop[v]

LEMMA OneCall ==
  ASSUME CallTypes, NEW i \in DOMAIN calls, NEW c \in CallRecords,
         calls' = [calls EXCEPT ![i] = c], Advances(calls[i], c)
  PROVE  /\ CallsAdvance /\ Len(calls') = Len(calls)
         /\ calls'[i] = c /\ \A j \in DOMAIN calls : j # i => calls'[j] = calls[j]
<1>1. calls \in Seq(CallRecords) /\ DOMAIN calls = 1..Len(calls) /\ Len(calls) \in Nat
  BY CallFacts DEF CallTypes
<1>2. /\ calls' \in Seq(CallRecords) /\ Len(calls') = Len(calls)
      /\ calls'[i] = c /\ \A j \in DOMAIN calls : j # i => calls'[j] = calls[j]
  BY <1>1, ExceptSeq
<1>3. \A j \in DOMAIN calls : Advances(calls[j], calls'[j])
  BY <1>2 DEF Advances, Unchanged
<1>4. Len(calls') # Len(calls) + 1
  <2>1. \A n \in Nat : n # n + 1
    OBVIOUS
  <2> QED BY <1>1, <1>2, <2>1
<1>5. /\ calls' \in Seq(CallRecords) /\ Len(calls') \in {Len(calls), Len(calls) + 1}
  BY <1>2
<1>6. Len(calls') = Len(calls) + 1 => New(calls'[Len(calls) + 1])
  BY <1>4
<1>7. CallsAdvance
  BY <1>3, <1>5, <1>6 DEF CallsAdvance
<1> QED BY <1>2, <1>7

(* What a write makes of the shop. *)
LEMMA WrittenIs ==
  ASSUME ShopTypes, OnlyOnward, NEW kind \in Kinds, NEW n \in Nat, Accepts(kind, n),
         Aimed([kind |-> kind, n |-> n])
  PROVE  LET t == Target(kind, n)
             s == shop[Now]
             w == Written(kind, n)
         IN /\ t \in Nat /\ w \in States
            /\ kind \notin {"create", "newProduct"} => t = n
            /\ "orders" \in Writes[kind] => t \in Orders /\ w.orders[t] = Becomes[kind]
            /\ "products" \in Writes[kind] => t \in Products /\ w.products[t] = Becomes[kind]
            /\ NoGaps(w.orders)
            /\ \A o \in Orders : Onward(s.orders[o], w.orders[o])
            /\ \A p \in Products : s.products[p] # "none" => w.products[p] # "none"
<1> DEFINE s == shop[Now]
           t == Target(kind, n)
           w == Written(kind, n)
<1>1. s \in States /\ Now \in 1..Now
  BY ShopFacts
<1>2. /\ s.orders \in Seq(OrderStatuses) /\ s.products \in Seq(ProductStatuses)
      /\ Existing(s.orders) \in Nat /\ Existing(s.products) \in Nat
      /\ s.orders \in [Orders -> OrderStatuses] /\ s.products \in [Products -> ProductStatuses]
      /\ Len(s.products) = Len(Start.products) /\ NoGaps(s.orders)
      /\ s.lists \in SUBSET Lists /\ s = [orders |-> s.orders, products |-> s.products, lists |-> s.lists]
  BY <1>1, Tables DEF States, OnlyOnward
<1>3. kind = "create" => t \in Orders /\ t = 1 + Existing(s.orders)
                           /\ \A o \in Orders : s.orders[o] = "none" <=> o >= t
  <2> SUFFICES ASSUME kind = "create"
               PROVE  t \in Orders /\ t = 1 + Existing(s.orders)
                      /\ \A o \in Orders : s.orders[o] = "none" <=> o >= t
    OBVIOUS
  <2>1. PICK o \in Orders : s.orders[o] = "none"
    BY DEF Accepts
  <2>2. DOMAIN s.orders = Orders /\ Orders = 1..Len(Start.orders) /\ Len(Start.orders) \in Nat
    BY <1>2, StartRooms
  <2>3. t = 1 + Existing(s.orders)
    BY DEF Target
  <2>4. \A q \in Orders : s.orders[q] # "none" <=> q <= Existing(s.orders)
    BY <1>2, <2>2, Filled
  <2>5. o > Existing(s.orders)
    BY <1>2, <2>1, <2>2, <2>4
  <2> QED BY <1>2, <2>2, <2>3, <2>4, <2>5
<1>4. kind = "newProduct" => t \in Products
  <2> SUFFICES ASSUME kind = "newProduct" PROVE t \in Products
    OBVIOUS
  <2>1. PICK p \in Products : s.products[p] = "none"
    BY DEF Accepts
  <2>2. p \in DOMAIN s.products
    BY <1>2
  <2>3. Existing(s.products) < Len(s.products)
    BY <1>2, <2>1, <2>2, ExistingLeavesRoom
  <2>4. t = 1 + Existing(s.products)
    BY DEF Target
  <2> QED BY <1>2, <2>3, <2>4, StartRooms
<1>5. t \in Nat /\ (kind \notin {"create", "newProduct"} => t = n)
  BY <1>2 DEF Target
<1>6. /\ kind \in {"pay", "cancel"} => t \in Orders /\ s.orders[t] = "pending"
      /\ kind = "finish" => t \in Orders /\ s.orders[t] = "paid"
      /\ kind \in {"onSale", "offSale"} => t \in Products
  BY <1>5, KindsAre DEF Accepts, Aimed
<1> HIDE DEF t, s, w
<1>7. CASE "orders" \in Writes[kind]
  <2>1. kind \in {"create", "pay", "finish", "cancel"} /\ "products" \notin Writes[kind]
    BY <1>7, KindsAre DEF Writes
  <2> DEFINE b == Becomes[kind]
  <2>2. b \in OrderStatuses /\ b # "none"
    BY <2>1 DEF Becomes, OrderStatuses
  <2>3. t \in Orders /\ Onward(s.orders[t], b)
    <3>1. CASE kind = "create"
      <4>1. t \in Orders /\ t >= t
        BY <1>3, <1>5, <3>1
      <4> QED BY <1>3, <3>1, <4>1 DEF Onward
    <3>2. CASE kind \in {"pay", "cancel"}
      BY <1>6, <2>2, <3>2 DEF Onward
    <3>3. CASE kind = "finish"
      BY <1>6, <3>3 DEF Onward, Becomes
    <3> QED BY <2>1, <3>1, <3>2, <3>3
  <2> DEFINE d == [s.orders EXCEPT ![t] = b]
  <2>4. d \in [Orders -> OrderStatuses] /\ d[t] = b /\ \A o \in Orders : o # t => d[o] = s.orders[o]
    BY <1>2, <2>2, <2>3
  <2>5. Written(kind, n) = [s EXCEPT !.orders[t] = b]
    BY <1>7, <2>1 DEF Written, s, t
  <2>6. w = [orders |-> d, products |-> s.products, lists |-> s.lists]
    BY <1>2, <2>5 DEF w
  <2> HIDE DEF d, b
  <2>7. NoGaps(d)
    <3>1. DOMAIN d = Orders /\ DOMAIN s.orders = Orders /\ Orders \subseteq Nat
      BY <1>2, <2>4, StartRooms
    <3>2. SUFFICES ASSUME NEW x \in Orders, NEW y \in Orders, x < y, d[x] = "none"
                   PROVE  d[y] = "none"
      BY <3>1 DEF NoGaps
    <3>3. x # t /\ s.orders[x] = "none" /\ s.orders[y] = "none"
      BY <1>2, <2>2, <2>4, <3>1, <3>2 DEF NoGaps
    <3>4. CASE kind = "create"
      BY <1>3, <2>4, <3>1, <3>2, <3>3, <3>4
    <3>5. CASE kind # "create"
      BY <1>6, <2>1, <2>4, <3>3, <3>5
    <3> QED BY <3>4, <3>5
  <2>8. \A o \in Orders : Onward(s.orders[o], d[o])
    BY <2>3, <2>4 DEF Onward
  <2>9. w \in States /\ w.orders = d /\ w.products = s.products
    BY <1>2, <2>4, <2>6 DEF States
  <2> QED BY <1>5, <2>1, <2>3, <2>4, <2>7, <2>8, <2>9 DEF s, t, w, b
<1>8. CASE "orders" \notin Writes[kind] /\ "products" \in Writes[kind]
  <2>1. kind \in {"newProduct", "onSale", "offSale"}
    BY <1>8, KindsAre DEF Writes
  <2> DEFINE b == Becomes[kind]
             d == [s.products EXCEPT ![t] = b]
  <2>2. b \in ProductStatuses /\ b # "none" /\ t \in Products
    BY <1>4, <1>6, <2>1 DEF Becomes, ProductStatuses
  <2>3. /\ d \in [Products -> ProductStatuses] /\ d[t] = b
        /\ \A p \in Products : s.products[p] # "none" => d[p] # "none"
    BY <1>2, <2>2
  <2>4. Written(kind, n) = [s EXCEPT !.products[t] = b]
    BY <1>8 DEF Written, s, t
  <2>5. w = [orders |-> s.orders, products |-> d, lists |-> s.lists]
    BY <1>2, <2>4 DEF w
  <2> HIDE DEF d, b
  <2>6. w \in States /\ w.orders = s.orders /\ w.products = d
    BY <1>2, <2>3, <2>5 DEF States
  <2> QED BY <1>2, <1>5, <1>8, <2>1, <2>2, <2>3, <2>6 DEF s, t, w, b, Onward
<1>9. CASE "orders" \notin Writes[kind] /\ "products" \notin Writes[kind]
  <2>1. w = s
    BY <1>9 DEF Written, s, w
  <2> QED BY <1>1, <1>2, <1>5, <1>9, <2>1 DEF s, t, w, Onward
<1> QED BY <1>7, <1>8, <1>9

LEMMA ShopSame ==
  ASSUME ShopTypes, OnlyOnward, UNCHANGED shop
  PROVE  ShopTypes' /\ OnlyOnward' /\ ShopGrows
<1>1. Now \in Nat /\ Now' = Now
  BY ShopFacts DEF Now
<1> QED BY <1>1 DEF ShopTypes, OnlyOnward, ShopGrows, Now

LEMMA ServeGrows ==
  ASSUME ConsoleTypes, OnlyOnward, NEW i \in DOMAIN calls, ServeCall(i)
  PROVE  /\ ShopTypes' /\ OnlyOnward' /\ ShopGrows
         /\ Len(shop') \in Nat
         /\ LET t == Target(calls[i].kind, calls[i].n)
                w == shop'[Len(shop')]
            IN /\ Writes[calls[i].kind] # {} => Len(shop') > 1 /\ w.lists = Writes[calls[i].kind]
               /\ "orders" \in Writes[calls[i].kind] => t \in Orders /\ w.orders[t] = Becomes[calls[i].kind]
               /\ "products" \in Writes[calls[i].kind] =>
                    t \in Products /\ w.products[t] = Becomes[calls[i].kind]
<1> DEFINE kind == calls[i].kind
           w == [Written(kind, calls[i].n) EXCEPT !.lists = Writes[kind]]
<1>1. /\ ShopTypes /\ kind \in Kinds /\ calls[i].n \in Nat /\ Accepts(kind, calls[i].n)
      /\ Aimed([kind |-> kind, n |-> calls[i].n])
  BY CallFacts DEF ConsoleTypes, CallTypes, ServeCall, CallRecords, Aimed
<1>2. Len(shop) \in Nat
  BY <1>1, ShopFacts DEF Now
<1>3. CASE Writes[kind] = {}
  BY <1>1, <1>2, <1>3, ShopSame DEF ServeCall
<1>4. CASE Writes[kind] # {}
  <2>1. shop' = Append(shop, w)
    BY <1>4 DEF ServeCall
  <2>2. Writes[kind] \in SUBSET Lists
    BY <1>1, KindsAre DEF Writes, Lists
  <2>3. PICK s \in States : s = Written(kind, calls[i].n)
    BY <1>1, WrittenIs
  <2>4. w \in States /\ w.lists = Writes[kind] /\ w.orders = s.orders /\ w.products = s.products
    BY <2>2, <2>3 DEF States
  <2> HIDE DEF w
  <2>5. /\ shop' \in Seq(States) /\ Len(shop') = Len(shop) + 1 /\ shop'[Len(shop) + 1] = w
        /\ \A v \in 1..Len(shop) : shop'[v] = shop[v]
    BY <1>1, <2>1, <2>4 DEF ShopTypes
  <2>6. Len(shop) \in Nat \ {0}
    BY <1>1, ShopFacts DEF Now
  <2>7. ShopTypes'
    BY <1>1, <2>5, <2>6, EmptySeq DEF ShopTypes
  <2>8. ShopGrows
    BY <2>5, <2>6 DEF ShopGrows, Now
  <2>9. OnlyOnward'
    <3> DEFINE N == Len(shop)
    <3>1. /\ NoGaps(w.orders)
          /\ \A o \in Orders : Onward(shop[N].orders[o], w.orders[o])
          /\ \A p \in Products : shop[N].products[p] # "none" => w.products[p] # "none"
      BY <1>1, <2>3, <2>4, WrittenIs DEF Now
    <3>2. N \in Nat \ {0} /\ N \in 1..N /\ \A v \in 1..N + 1 : v \in 1..N \/ v = N + 1
      BY <2>6
    <3>3. /\ \A v \in 1..N : NoGaps(shop[v].orders)
          /\ \A v, x \in 1..N : v <= x =>
               /\ \A o \in Orders : Onward(shop[v].orders[o], shop[x].orders[o])
               /\ \A p \in Products : shop[v].products[p] # "none" => shop[x].products[p] # "none"
      BY DEF OnlyOnward, Now
    <3>4. /\ Len(shop') = N + 1 /\ shop'[N + 1] = w
          /\ \A v \in 1..N : shop'[v] = shop[v]
      BY <2>5
    <3> HIDE DEF N
    <3>5. \A v \in 1..N + 1 : NoGaps(shop'[v].orders)
      BY <3>1, <3>2, <3>3, <3>4
    <3>6. ASSUME NEW v \in 1..N + 1, NEW x \in 1..N + 1, v <= x
          PROVE  /\ \A o \in Orders : Onward(shop'[v].orders[o], shop'[x].orders[o])
                 /\ \A p \in Products : shop'[v].products[p] # "none" => shop'[x].products[p] # "none"
      <4>1. CASE v = N + 1
        <5>1. x = N + 1
          BY <3>2, <3>6, <4>1
        <5> QED BY <4>1, <5>1 DEF Onward
      <4>2. CASE v \in 1..N /\ x \in 1..N
        BY <3>3, <3>4, <3>6, <4>2
      <4>3. CASE v \in 1..N /\ x = N + 1
        <5>1. v <= N
          BY <3>2, <4>3
        <5>2. /\ \A o \in Orders : Onward(shop[v].orders[o], shop[N].orders[o])
              /\ \A p \in Products : shop[v].products[p] # "none" => shop[N].products[p] # "none"
          BY <3>2, <3>3, <4>3, <5>1
        <5>3. \A a, b, c : Onward(a, b) /\ Onward(b, c) => Onward(a, c)
          BY DEF Onward
        <5>4. \A o \in Orders : Onward(shop[v].orders[o], w.orders[o])
          BY <3>1, <5>2, <5>3
        <5> QED BY <3>1, <3>4, <4>3, <5>2, <5>4
      <4> QED BY <3>2, <4>1, <4>2, <4>3
    <3> QED BY <3>4, <3>5, <3>6 DEF OnlyOnward, Now, Orders, Products
  <2>10. /\ "orders" \in Writes[kind] => /\ Target(kind, calls[i].n) \in Orders
                                          /\ w.orders[Target(kind, calls[i].n)] = Becomes[kind]
         /\ "products" \in Writes[kind] => /\ Target(kind, calls[i].n) \in Products
                                            /\ w.products[Target(kind, calls[i].n)] = Becomes[kind]
    BY <1>1, <2>3, <2>4, WrittenIs
  <2>11. Len(shop') > 1 /\ Len(shop') \in Nat /\ shop'[Len(shop')] = w
    BY <2>5, <2>6
  <2> QED BY <2>4, <2>7, <2>8, <2>9, <2>10, <2>11
<1> QED BY <1>3, <1>4

LEMMA ServeStays ==
  ASSUME ConsoleTypes, OnlyOnward, NEW i \in DOMAIN calls, ServeCall(i)
  PROVE  CallsAndPage
<1> DEFINE b == calls[i]
           c == [b EXCEPT !.stage = IF @ = "left" THEN "gone" ELSE "done",
                          !.at = Len(shop'), !.n = Target(b.kind, b.n)]
<1>1. CallTypes /\ ShopTypes /\ b \in CallRecords /\ Accepts(b.kind, b.n)
      /\ b.stage \in {"sent", "left"} /\ UNCHANGED <<page, visit, ui>>
  BY CallFacts DEF ConsoleTypes, ServeCall
<1>2. /\ Target(b.kind, b.n) \in Nat
      /\ (b.kind \notin {"create", "newProduct"} => Target(b.kind, b.n) = b.n)
  <2>1. Aimed([kind |-> b.kind, n |-> b.n])
    BY <1>1 DEF CallTypes, Aimed
  <2> QED BY <1>1, <2>1, WrittenIs DEF CallRecords
<1>3. /\ Len(shop') \in Nat
      /\ LET w == shop'[Len(shop')]
             t == Target(b.kind, b.n)
         IN /\ Writes[b.kind] # {} => Len(shop') > 1 /\ w.lists = Writes[b.kind]
            /\ "orders" \in Writes[b.kind] => t \in Orders /\ w.orders[t] = Becomes[b.kind]
            /\ "products" \in Writes[b.kind] => t \in Products /\ w.products[t] = Becomes[b.kind]
  BY ServeGrows
<1>4. calls' = [calls EXCEPT ![i] = c]
  BY DEF ServeCall
<1>5. /\ c \in CallRecords /\ c.kind = b.kind /\ c.visit = b.visit /\ c.with = b.with
      /\ c.stage = (IF b.stage = "left" THEN "gone" ELSE "done")
      /\ c.at = Len(shop') /\ c.n = Target(b.kind, b.n)
  BY <1>1, <1>2, <1>3 DEF CallRecords, Stages
<1> HIDE DEF c
<1>6. Wrote(c, shop')
  BY <1>3, <1>5 DEF Wrote
<1>7. Advances(b, c)
  BY <1>1, <1>2, <1>5, <1>6 DEF Advances, IsServed
<1>8. /\ CallsAdvance /\ Len(calls') = Len(calls)
      /\ calls'[i] = c /\ \A j \in DOMAIN calls : j # i => calls'[j] = calls[j]
  BY <1>1, <1>4, <1>5, <1>7, OneCall
<1>9. \A j \in DOMAIN calls : ~ Succeeds(j)
  BY <1>1, <1>5, <1>8 DEF Succeeds
<1>10. StockMoves
  <2>1. Len(calls') # Len(calls) + 1
    BY <1>1, <1>8, CallFacts
  <2> QED BY <1>1, <2>1 DEF StockMoves
<1>11. ui' \in UiRecords /\ TabMoves /\ SelectionTyped
  BY <1>1, UiStays
<1>12. StaysOnPage
  BY <1>1, <1>9, <1>10, <1>11 DEF StaysOnPage, ReportMoves, CardMoves
<1> QED BY <1>8, <1>9, <1>12 DEF CallsAndPage, Announced

-----------------------------------------------------------------------------
(* The callbacks.  That of a request of the mounted page changes what its  *)
(* page shows, that of a request of a page left changes nothing there.     *)
LEMMA OverQuiet ==
  ASSUME ConsoleTypes, UNCHANGED <<page, visit, ui>>, CallsAdvance, Len(calls') = Len(calls),
         \A i \in DOMAIN calls : ~ Succeeds(i)
  PROVE  CallsAndPage
<1>1. StockMoves
  <2>1. \A n \in Nat : n # n + 1
    OBVIOUS
  <2>2. Len(calls') # Len(calls) + 1
    BY <2>1, CallFacts DEF ConsoleTypes
  <2> QED BY <2>2 DEF StockMoves
<1>2. ui' \in UiRecords /\ TabMoves /\ SelectionTyped
  BY UiStays
<1>3. StaysOnPage
  BY <1>1, <1>2 DEF StaysOnPage, ReportMoves, CardMoves
<1> QED BY <1>3 DEF CallsAndPage, Announced

LEMMA SucceedStays ==
  ASSUME ConsoleTypes, NEW i \in DOMAIN calls, NEW u, NEW lists, NEW then \in Int,
         Succeed(i, u, lists, then),
         calls[i].kind \in {"init", "add"} => then = calls[i].n,
         Asked(calls[i].kind) => lists = {},
         Writes[calls[i].kind] \ {"operations"} \subseteq lists,
         Here(i) =>
           /\ u \in UiRecords /\ u.tab \in {ui.tab, 1}
           /\ page = "orders" => u.selected \in Orders \union {0}
           /\ page = "products" /\ u.shown # 0 => u.selected \in Products
           /\ page = "inventory" => u.selected = ui.selected /\ u.crossed = ui.crossed
           /\ IF calls[i].kind = "rebuild" THEN u.report = 0
              ELSE IF calls[i].kind = "reconcile" THEN u.report = i
              ELSE u.report = ui.report
           /\ IF Asked(calls[i].kind) THEN u.shown = i ELSE u.shown = ui.shown
  PROVE  CallsAndPage
<1> DEFINE b == calls[i]
           waits == {k \in Under(lists) \intersect Watched(page, ui) :
                       Invalidate(cache, Under(lists), Watched(page, ui))[k].fetch # Idle}
           c == [b EXCEPT !.stage = IF lists = {} THEN "over" ELSE "settling",
                          !.then = then, !.waits = waits]
<1>1. /\ CallTypes /\ b \in CallRecords /\ b.stage = "done" /\ UNCHANGED <<page, visit>>
      /\ ui' = IF Here(i) THEN u ELSE ui
  BY CallFacts DEF ConsoleTypes, Succeed
<1>2. waits \in SUBSET QueryKeys
  BY DEF Under
<1>3. calls' = [calls EXCEPT ![i] = c]
  BY DEF Succeed
<1> HIDE DEF waits
<1>4. /\ c \in CallRecords /\ c.kind = b.kind /\ c.visit = b.visit /\ c.with = b.with
      /\ c.stage = (IF lists = {} THEN "over" ELSE "settling")
      /\ c.at = b.at /\ c.n = b.n /\ c.then = then
  BY <1>1, <1>2 DEF CallRecords, Stages
<1> HIDE DEF c
<1>5. Advances(b, c)
  BY <1>1, <1>4 DEF Advances, HasSucceeded
<1>6. /\ CallsAdvance /\ Len(calls') = Len(calls)
      /\ calls'[i] = c /\ \A j \in DOMAIN calls : j # i => calls'[j] = calls[j]
  BY <1>1, <1>3, <1>4, <1>5, OneCall
<1>7. Succeeds(i) /\ \A j \in DOMAIN calls : j # i => ~ Succeeds(j)
  BY <1>1, <1>4, <1>6 DEF Succeeds
<1>8. Asked(b.kind) => calls'[i].stage = "over"
  BY <1>4, <1>6
<1>9. ui \in UiRecords /\ (Here(i) => PageOf(b.kind) = page)
  BY DEF ConsoleTypes, PageTypes
<1>10. ui' \in UiRecords
  BY <1>1, <1>9
<1>11. TabMoves
  <2>1. ui'.tab \in {ui.tab, 1}
    BY <1>1
  <2>2. ui.tab <= ui.tab
    BY <1>9 DEF UiRecords
  <2> QED BY <2>1, <2>2 DEF TabMoves
<1>12. SelectionTyped
  <2>1. CASE Here(i)
    <3>1. page # "stockLogs"
      BY <1>9, <2>1 DEF PageOf
    <3> QED BY <1>1, <2>1, <3>1 DEF SelectionTyped
  <2>2. CASE ~ Here(i)
    BY <1>1, <2>2 DEF SelectionTyped, ConsoleTypes, PageTypes
  <2> QED BY <2>1, <2>2
<1>13. ReportMoves
  <2>1. CASE Here(i)
    BY <1>1, <1>7, <2>1 DEF ReportMoves
  <2>2. CASE ~ Here(i)
    BY <1>1, <1>7, <2>2 DEF ReportMoves
  <2> QED BY <2>1, <2>2
<1>14. CardMoves
  <2>1. CASE Here(i)
    BY <1>1, <1>7, <1>8, <2>1 DEF CardMoves
  <2>2. CASE ~ Here(i)
    BY <1>1, <1>7, <2>2 DEF CardMoves
  <2> QED BY <2>1, <2>2
<1>15. page = "inventory" => StockMoves
  <2>1. \A n \in Nat : n # n + 1
    OBVIOUS
  <2>2. Len(calls') # Len(calls) + 1
    BY <1>1, <1>6, <2>1, CallFacts
  <2>3. page = "inventory" => ui'.selected = ui.selected /\ ui'.crossed = ui.crossed
    BY <1>1
  <2> QED BY <2>2, <2>3 DEF StockMoves
<1>16. StaysOnPage
  BY <1>1, <1>10, <1>11, <1>12, <1>13, <1>14, <1>15 DEF StaysOnPage
<1>17. Announced
  BY <1>7 DEF Announced
<1> QED BY <1>6, <1>16, <1>17 DEF CallsAndPage

LEMMA OrdersAnswerStays ==
  ASSUME ConsoleTypes, NEW i \in DOMAIN calls, OrderCreated(i) \/ OrderActed(i)
  PROVE  CallsAndPage
<1>1. /\ ui \in UiRecords /\ (Here(i) => PageOf(calls[i].kind) = page)
      /\ (page = "orders" => ui.selected \in Orders \union {0})
      /\ calls[i] \in CallRecords
      /\ (Here(i) => page = "orders")
  <2>1. PageOf("create") = "orders" /\ \A kind \in ActionHook : PageOf(kind) = "orders"
    BY KindsAre DEF PageOf
  <2>2. calls[i].kind \in {"create"} \union ActionHook
    BY DEF OrderCreated, OrderActed
  <2> QED BY <2>1, <2>2, CallFacts DEF ConsoleTypes, PageTypes
<1>2. CASE OrderCreated(i)
  <2> DEFINE prev == IF Loaded(ListKey) THEN ui.tab ELSE ui.prev
             n == calls[i].n
             first == 1
             u == [ui EXCEPT !.selected = n, !.tab = first, !.prev = prev]
  <2>1. calls[i].kind = "create" /\ Succeed(i, u, {"orders", "logs"}, 0)
    BY <1>2 DEF OrderCreated
  <2>2. n \in Orders /\ n \in Nat
    <3>1. calls[i].stage \in Served /\ "orders" \in Writes[calls[i].kind]
      <4>1. calls[i].stage = "done" /\ calls[i].kind = "create"
        BY <2>1 DEF Succeed
      <4> QED BY <4>1 DEF Served, Writes
    <3>2. Wrote(calls[i], shop)
      BY <3>1 DEF ConsoleTypes, CallTypes
    <3> QED BY <1>1, <3>1, <3>2 DEF Wrote, CallRecords
  <2>3. prev \in Nat \ {0} /\ first \in Nat \ {0} /\ first = 1
    BY <1>1 DEF UiRecords
  <2> HIDE DEF prev, n, first
  <2>4. /\ u \in UiRecords /\ u.tab = first /\ u.selected = n
        /\ u.report = ui.report /\ u.shown = ui.shown
    BY <1>1, <2>2, <2>3 DEF UiRecords
  <2> HIDE DEF u
  <2>5. Here(i) => page = "orders" /\ page # "products" /\ page # "inventory"
    BY <1>1
  <2>6. ~ Asked(calls[i].kind) /\ calls[i].kind \notin {"init", "add", "rebuild", "reconcile"}
        /\ Writes[calls[i].kind] \ {"operations"} \subseteq {"orders", "logs"}
    BY <2>1 DEF Asked, Writes
  <2> QED BY <2>1, <2>2, <2>3, <2>4, <2>5, <2>6, SucceedStays
<1>3. CASE OrderActed(i)
  <2> DEFINE u == [ui EXCEPT !.confirm = <<>>]
  <2>1. calls[i].kind \in ActionHook /\ Succeed(i, u, {"orders", "logs"}, Sees(i))
    BY <1>3 DEF OrderActed
  <2>2. Sees(i) \in Int
    BY <1>1 DEF Sees, UiRecords, CallRecords
  <2>3. /\ u \in UiRecords /\ u.tab = ui.tab /\ u.selected = ui.selected /\ u.crossed = ui.crossed
        /\ u.report = ui.report /\ u.shown = ui.shown
    BY <1>1 DEF UiRecords
  <2> HIDE DEF u
  <2>4. ~ Asked(calls[i].kind) /\ calls[i].kind \notin {"init", "add", "rebuild", "reconcile"}
        /\ Writes[calls[i].kind] \ {"operations"} \subseteq {"orders", "logs"}
    BY <2>1, KindsAre DEF Asked, Writes
  <2>5. Here(i) => page = "orders" /\ page # "products" /\ page # "inventory"
    BY <1>1
  <2> QED BY <1>1, <2>1, <2>2, <2>3, <2>4, <2>5, SucceedStays
<1> QED BY <1>2, <1>3

LEMMA ProductsAnswerStays ==
  ASSUME ConsoleTypes, NEW i \in DOMAIN calls,
         ProductCreated(i) \/ StatusChanged(i) \/ DetailShown(i)
  PROVE  CallsAndPage
<1>1. /\ ui \in UiRecords /\ (Here(i) => PageOf(calls[i].kind) = page)
      /\ calls[i] \in CallRecords
      /\ (page = "products" /\ ui.shown # 0 => ui.selected \in Products)
  BY CallFacts DEF ConsoleTypes, PageTypes
<1>2. Here(i) => page = "products"
  BY <1>1, KindsAre DEF PageOf, ProductCreated, StatusChanged, DetailShown
<1>3. CASE ProductCreated(i)
  <2> DEFINE prev == IF Loaded(CatalogueKey) THEN ui.tab ELSE ui.prev
             first == 1
             u == [ui EXCEPT !.tab = first, !.prev = prev]
  <2>1. calls[i].kind = "newProduct" /\ Succeed(i, u, {"products"}, 0)
    BY <1>3 DEF ProductCreated
  <2>2. prev \in Nat \ {0} /\ first \in Nat \ {0} /\ first = 1
    BY <1>1 DEF UiRecords
  <2> HIDE DEF prev, first
  <2>3. /\ u \in UiRecords /\ u.tab = first
        /\ u.report = ui.report /\ u.shown = ui.shown /\ u.selected = ui.selected
    BY <1>1, <2>2 DEF UiRecords
  <2> HIDE DEF u
  <2>4. ~ Asked(calls[i].kind) /\ calls[i].kind \notin {"init", "add", "rebuild", "reconcile"}
        /\ Writes[calls[i].kind] \ {"operations"} \subseteq {"products"}
    BY <2>1 DEF Asked, Writes
  <2> QED BY <1>1, <1>2, <2>1, <2>2, <2>3, <2>4, SucceedStays
<1>4. CASE StatusChanged(i)
  <2>1. calls[i].kind \in StatusHook /\ Succeed(i, ui, {"products"}, Sees(i))
    BY <1>4 DEF StatusChanged
  <2>2. Sees(i) \in Int
    BY <1>1 DEF Sees, UiRecords, CallRecords
  <2>3. ~ Asked(calls[i].kind) /\ calls[i].kind \notin {"init", "add", "rebuild", "reconcile"}
        /\ Writes[calls[i].kind] \ {"operations"} \subseteq {"products"}
    BY <2>1, KindsAre DEF Asked, Writes
  <2> QED BY <1>1, <1>2, <2>1, <2>2, <2>3, SucceedStays
<1>5. CASE DetailShown(i)
  <2> DEFINE n == calls[i].n
             u == [ui EXCEPT !.selected = n, !.shown = i]
  <2>1. calls[i].kind = "detail" /\ Succeed(i, u, {}, 0)
    BY <1>5 DEF DetailShown
  <2>2. n \in Nat /\ i \in Nat /\ n \in Products
    <3>1. Aimed(calls[i]) /\ CallTypes
      BY DEF ConsoleTypes, CallTypes
    <3> QED BY <1>1, <2>1, <3>1, CallFacts DEF CallRecords, Aimed
  <2> HIDE DEF n
  <2>3. /\ u \in UiRecords /\ u.tab = ui.tab /\ u.selected \in Products
        /\ u.report = ui.report /\ u.shown = i
    BY <1>1, <2>2 DEF UiRecords
  <2> HIDE DEF u
  <2>4. Asked(calls[i].kind) /\ calls[i].kind \notin {"init", "add", "rebuild", "reconcile"}
        /\ Writes[calls[i].kind] \ {"operations"} \subseteq {}
    BY <2>1 DEF Asked, Writes
  <2> QED BY <1>2, <2>1, <2>3, <2>4, SucceedStays
<1> QED BY <1>3, <1>4, <1>5

LEMMA InventoryAnswerStays ==
  ASSUME ConsoleTypes, NEW i \in DOMAIN calls,
         LookupShown(i) \/ StockChanged(i) \/ Rebuilt(i) \/ Reconciled(i)
  PROVE  CallsAndPage
<1>1. /\ ui \in UiRecords /\ (Here(i) => PageOf(calls[i].kind) = page)
      /\ calls[i] \in CallRecords /\ i \in Nat
  BY CallFacts DEF ConsoleTypes, PageTypes
<1>2. Here(i) => page = "inventory"
  BY <1>1, KindsAre DEF PageOf, LookupShown, StockChanged, Rebuilt, Reconciled
<1>3. CASE LookupShown(i)
  <2> DEFINE u == [ui EXCEPT !.shown = i]
  <2>1. calls[i].kind = "lookup" /\ Succeed(i, u, {}, 0)
    BY <1>3 DEF LookupShown
  <2>2. /\ u \in UiRecords /\ u.tab = ui.tab /\ u.selected = ui.selected /\ u.crossed = ui.crossed
        /\ u.report = ui.report /\ u.shown = i
    BY <1>1 DEF UiRecords
  <2> HIDE DEF u
  <2>3. Asked(calls[i].kind) /\ calls[i].kind \notin {"init", "add", "rebuild", "reconcile"}
        /\ Writes[calls[i].kind] \ {"operations"} \subseteq {}
    BY <2>1 DEF Asked, Writes
  <2> QED BY <1>2, <2>1, <2>2, <2>3, SucceedStays
<1>4. CASE StockChanged(i)
  <2>1. calls[i].kind \in {"init", "add"} /\ Succeed(i, ui, {"logs"}, calls[i].n)
    BY <1>4 DEF StockChanged
  <2>2. ~ Asked(calls[i].kind) /\ calls[i].kind \notin {"rebuild", "reconcile"}
        /\ Writes[calls[i].kind] \ {"operations"} \subseteq {"logs"}
    BY <2>1 DEF Asked, Writes
  <2>3. calls[i].n \in Int
    BY <1>1 DEF CallRecords
  <2> QED BY <1>1, <1>2, <2>1, <2>2, <2>3, SucceedStays
<1>5. CASE Rebuilt(i)
  <2> DEFINE u == [ui EXCEPT !.report = 0]
  <2>1. calls[i].kind = "rebuild" /\ Succeed(i, u, {}, 0)
    BY <1>5 DEF Rebuilt
  <2>2. /\ u \in UiRecords /\ u.tab = ui.tab /\ u.selected = ui.selected /\ u.crossed = ui.crossed
        /\ u.report = 0 /\ u.shown = ui.shown
    BY <1>1 DEF UiRecords
  <2> HIDE DEF u
  <2>3. ~ Asked(calls[i].kind) /\ calls[i].kind \notin {"init", "add"}
        /\ Writes[calls[i].kind] \ {"operations"} \subseteq {}
    BY <2>1 DEF Asked, Writes
  <2> QED BY <1>2, <2>1, <2>2, <2>3, SucceedStays
<1>6. CASE Reconciled(i)
  <2> DEFINE u == [ui EXCEPT !.report = i]
  <2>1. calls[i].kind = "reconcile" /\ Succeed(i, u, {}, 0)
    BY <1>6 DEF Reconciled
  <2>2. /\ u \in UiRecords /\ u.tab = ui.tab /\ u.selected = ui.selected /\ u.crossed = ui.crossed
        /\ u.report = i /\ u.shown = ui.shown
    BY <1>1 DEF UiRecords
  <2> HIDE DEF u
  <2>3. ~ Asked(calls[i].kind) /\ calls[i].kind \notin {"init", "add", "rebuild"}
        /\ Writes[calls[i].kind] \ {"operations"} \subseteq {}
    BY <2>1 DEF Asked, Writes
  <2> QED BY <1>2, <2>1, <2>2, <2>3, SucceedStays
<1> QED BY <1>3, <1>4, <1>5, <1>6

(* A callback that has nothing more to do than to wait. *)
LEMMA SettleStays ==
  ASSUME ConsoleTypes, NEW i \in DOMAIN calls, Settle(i) \/ OrderActionSettles(i)
  PROVE  CallsAndPage
<1> DEFINE b == calls[i]
           again == {<<"order", o>> : o \in {b.then} \ {0}}
           waits == again \intersect Watched(page, ui)
           c == IF OrderActionSettles(i) THEN [b EXCEPT !.stage = "closing", !.waits = waits]
                ELSE [b EXCEPT !.stage = "over"]
<1>1. /\ CallTypes /\ b \in CallRecords /\ b.stage \in {"settling", "closing"}
      /\ UNCHANGED <<page, visit, ui>> /\ calls' = [calls EXCEPT ![i] = c]
  BY CallFacts DEF ConsoleTypes, Settle, OrderActionSettles
<1>2. waits \in SUBSET QueryKeys
  <2>1. CASE page = "orders"
    <3>1. ui.selected \in Orders \union {0}
      BY <2>1 DEF ConsoleTypes, PageTypes
    <3>2. \A k \in Watched(page, ui) : k[1] = "order" => k \in {"order"} \X Orders
      BY <2>1, <3>1 DEF Watched, OrdersQueries
    <3>3. \A k \in again : k[1] = "order"
      OBVIOUS
    <3> HIDE DEF again
    <3> QED BY <3>2, <3>3 DEF QueryKeys
  <2>2. CASE page # "orders"
    <3>1. page \in {"dashboard", "products", "inventory", "stockLogs", "operationLogs", "error"}
      BY <2>2 DEF ConsoleTypes, PageTypes, PagesOf
    <3>2. \A k \in Watched(page, ui) : k[1] # "order"
      BY <3>1 DEF Watched, ProductsQueries, InventoryQueries, StockLogsQueries,
                  OperationLogsQueries, DashboardQueries
    <3>3. \A k \in again : k[1] = "order"
      OBVIOUS
    <3> HIDE DEF again
    <3> QED BY <3>2, <3>3
  <2> QED BY <2>1, <2>2
<1> HIDE DEF waits
<1>3. /\ c \in CallRecords /\ c.kind = b.kind /\ c.visit = b.visit /\ c.with = b.with
      /\ c.stage \in {"closing", "over"} /\ c.at = b.at /\ c.n = b.n
  BY <1>1, <1>2 DEF CallRecords, Stages
<1> HIDE DEF c
<1>4. Advances(b, c)
  BY <1>1, <1>3 DEF Advances, HasSettled
<1>5. /\ CallsAdvance /\ Len(calls') = Len(calls)
      /\ calls'[i] = c /\ \A j \in DOMAIN calls : j # i => calls'[j] = calls[j]
  BY <1>1, <1>3, <1>4, OneCall
<1>6. \A j \in DOMAIN calls : ~ Succeeds(j)
  BY <1>1, <1>5 DEF Succeeds
<1> QED BY <1>1, <1>5, <1>6, OverQuiet

LEMMA OnErrorStays ==
  ASSUME ConsoleTypes, NEW i \in DOMAIN calls, OnError(i)
  PROVE  CallsAndPage
<1> DEFINE b == calls[i]
<1>1. /\ CallTypes /\ b \in CallRecords /\ b.stage \in {"sent", "done"}
      /\ UNCHANGED <<page, visit, ui>>
  BY CallFacts DEF ConsoleTypes, OnError, Unanswered
<1>2. PICK stage \in {"gone", "left"} : calls' = [calls EXCEPT ![i] = [b EXCEPT !.stage = stage]]
  BY DEF OnError
<1> DEFINE c == [b EXCEPT !.stage = stage]
<1>3. /\ c \in CallRecords /\ c.kind = b.kind /\ c.visit = b.visit /\ c.with = b.with
      /\ c.stage \in {"gone", "left"} /\ c.at = b.at /\ c.n = b.n
  BY <1>1 DEF CallRecords, Stages
<1>4. calls' = [calls EXCEPT ![i] = c]
  BY <1>2
<1> HIDE DEF c
<1>5. Advances(b, c)
  BY <1>1, <1>3 DEF Advances, IsGivenUp
<1>6. /\ CallsAdvance /\ Len(calls') = Len(calls)
      /\ calls'[i] = c /\ \A j \in DOMAIN calls : j # i => calls'[j] = calls[j]
  BY <1>1, <1>3, <1>4, <1>5, OneCall
<1>7. \A j \in DOMAIN calls : ~ Succeeds(j)
  BY <1>1, <1>3, <1>6 DEF Succeeds
<1> QED BY <1>1, <1>6, <1>7, OverQuiet

(* The callback of one request sends another one. *)
LEMMA OverAndSent ==
  ASSUME ConsoleTypes, NEW i \in DOMAIN calls, calls[i].stage = "settling",
         NEW cs, Quiet(cs), NEW kind \in Kinds \ ActionHook, NEW n \in Nat, PageOf(kind) = page,
         kind = "detail" => n \in Products, kind \notin StatusHook,
         calls' = Sending([cs EXCEPT ![i].stage = "over"], kind, n)
  PROVE  /\ CallsAdvance /\ Len(calls') = Len(calls) + 1
         /\ calls'[Len(calls) + 1].kind = kind /\ calls'[Len(calls) + 1].n = n
         /\ \A j \in DOMAIN calls : ~ Succeeds(j)
<1> DEFINE ds == [cs EXCEPT ![i].stage = "over"]
           new == calls'[Len(calls) + 1]
<1>1. /\ CallTypes /\ Len(calls) \in Nat /\ DOMAIN calls = 1..Len(calls) /\ visit \in Nat
      /\ cs \in Seq(CallRecords) /\ Len(cs) = Len(calls)
  BY CallFacts DEF ConsoleTypes, PageTypes, Quiet
<1>2. \A j \in DOMAIN calls : cs[j] \in CallRecords
  BY <1>1, ElementOfSeq
<1> DEFINE b == cs[i]
           c == [b EXCEPT !.stage = "over"]
<1>3. /\ c \in CallRecords /\ c.kind = b.kind /\ c.visit = b.visit /\ c.with = b.with
      /\ c.stage = "over" /\ c.at = b.at /\ c.n = b.n
  BY <1>2 DEF CallRecords, Stages
<1>4. ds = [cs EXCEPT ![i] = c]
  OBVIOUS
<1>5. /\ b.kind = calls[i].kind /\ b.visit = calls[i].visit /\ b.with = calls[i].with
      /\ b.stage = "settling" /\ b.n = calls[i].n /\ b.at = calls[i].at
  BY DEF Quiet, Unchanged
<1> HIDE DEF c, ds
<1>6. i \in 1..Len(cs)
  BY <1>1
<1>7. /\ ds \in Seq(CallRecords) /\ Len(ds) = Len(calls)
      /\ ds[i] = c /\ \A j \in DOMAIN calls : j # i => ds[j] = cs[j]
  BY <1>1, <1>3, <1>4, <1>6, ExceptSeq
<1>8. calls' = Sending(ds, kind, n) /\ kind \in Kinds
  BY DEF ds
<1>9. /\ calls' \in Seq(CallRecords) /\ Len(calls') = Len(calls) + 1
      /\ \A j \in DOMAIN calls : calls'[j] = ds[j]
      /\ new.kind = kind /\ new.n = n /\ new.stage = "sent" /\ new.with = Unanswered
      /\ new.visit = visit
  <2> DEFINE es == Sending(ds, kind, n)
             e == es[Len(calls) + 1]
  <2>1. /\ es \in Seq(CallRecords) /\ Len(es) = Len(calls) + 1
        /\ \A j \in DOMAIN calls : es[j] = ds[j]
        /\ e.kind = kind /\ e.n = n /\ e.stage = "sent" /\ e.with = Unanswered /\ e.visit = visit
    BY <1>1, <1>7, <1>8, SendingIs
  <2>2. calls' = es
    BY <1>8
  <2> HIDE DEF es
  <2> QED BY <2>1, <2>2
<1> HIDE DEF new
<1>10. Advances(calls[i], calls'[i])
  BY <1>3, <1>5, <1>7, <1>9 DEF Advances, HasSettled
<1>11. ASSUME NEW j \in DOMAIN calls, j # i
       PROVE  Advances(calls[j], calls'[j]) /\ calls'[j].stage = calls[j].stage
  <2>1. calls'[j] = cs[j]
    BY <1>7, <1>9, <1>11
  <2>2. /\ cs[j].kind = calls[j].kind /\ cs[j].visit = calls[j].visit /\ cs[j].with = calls[j].with
        /\ Unchanged(calls[j], cs[j])
    BY DEF Quiet
  <2> QED BY <2>1, <2>2 DEF Advances, Unchanged
<1>12. \A j \in DOMAIN calls : ~ Succeeds(j)
  BY <1>11 DEF Succeeds
<1>13. New(new)
  BY <1>9 DEF New, Aimed
<1>14. CallsAdvance
  BY <1>9, <1>10, <1>11, <1>13 DEF CallsAdvance, new
<1> QED BY <1>9, <1>12, <1>14 DEF new

LEMMA StatusSettlesStays ==
  ASSUME ConsoleTypes, NEW i \in DOMAIN calls, StatusSettles(i)
  PROVE  CallsAndPage
<1>1. /\ CallTypes /\ calls[i] \in CallRecords /\ calls[i].kind \in StatusHook
      /\ calls[i].stage = "settling" /\ UNCHANGED <<page, visit, ui>> /\ ui \in UiRecords
      /\ (Here(i) => PageOf(calls[i].kind) = page)
  BY CallFacts DEF ConsoleTypes, PageTypes, StatusSettles
<1>2. CASE calls[i].then = calls[i].n /\ Here(i)
  <2>1. Quiet(Frozen({"detail"}))
    BY <1>1, FrozenQuiet
  <2>2. calls[i].n \in Nat /\ page = "products" /\ calls[i].n \in Products
    <3>1. Aimed(calls[i])
      BY <1>1 DEF CallTypes
    <3> QED BY <1>1, <1>2, <3>1, KindsAre DEF PageOf, CallRecords, Aimed
  <2>3. "detail" \in Kinds \ ActionHook /\ PageOf("detail") = page /\ "detail" \notin StatusHook
    BY <2>2, KindsAre DEF PageOf
  <2>4. calls' = Sending([Frozen({"detail"}) EXCEPT ![i].stage = "over"], "detail", calls[i].n)
    BY <1>2 DEF StatusSettles
  <2>5. CallsAdvance /\ \A j \in DOMAIN calls : ~ Succeeds(j)
    BY <1>1, <2>1, <2>2, <2>3, <2>4, OverAndSent
  <2>6. ui' \in UiRecords /\ TabMoves /\ SelectionTyped
    BY <1>1, UiStays
  <2>7. StaysOnPage
    BY <1>1, <2>2, <2>5, <2>6 DEF StaysOnPage, ReportMoves, CardMoves
  <2> QED BY <2>5, <2>7 DEF CallsAndPage, Announced
<1>3. CASE ~ (calls[i].then = calls[i].n /\ Here(i))
  <2> DEFINE b == calls[i]
             c == [b EXCEPT !.stage = "over"]
  <2>1. calls' = [calls EXCEPT ![i] = c]
    BY <1>3 DEF StatusSettles
  <2>2. /\ c \in CallRecords /\ c.kind = b.kind /\ c.visit = b.visit /\ c.with = b.with
        /\ c.stage = "over" /\ c.at = b.at /\ c.n = b.n
    BY <1>1 DEF CallRecords, Stages
  <2> HIDE DEF c
  <2>3. Advances(b, c)
    BY <1>1, <2>2 DEF Advances, HasSettled
  <2>4. /\ CallsAdvance /\ Len(calls') = Len(calls)
        /\ calls'[i] = c /\ \A j \in DOMAIN calls : j # i => calls'[j] = calls[j]
    BY <1>1, <2>1, <2>2, <2>3, OneCall
  <2>5. \A j \in DOMAIN calls : ~ Succeeds(j)
    BY <1>1, <2>4 DEF Succeeds
  <2> QED BY <1>1, <2>4, <2>5, OverQuiet
<1> QED BY <1>2, <1>3

LEMMA StockSettlesStays ==
  ASSUME ConsoleTypes, NEW i \in DOMAIN calls, StockSettles(i)
  PROVE  CallsAndPage
<1>1. /\ CallTypes /\ calls[i] \in CallRecords /\ calls[i].kind \in {"init", "add"}
      /\ calls[i].stage = "settling" /\ UNCHANGED <<page, visit>> /\ ui \in UiRecords
      /\ (Here(i) => PageOf(calls[i].kind) = page)
  BY CallFacts DEF ConsoleTypes, PageTypes, StockSettles
<1>2. CASE Here(i)
  <2>1. Quiet(calls) /\ calls[i].then = calls[i].n
    BY <1>1, CallsQuiet DEF CallTypes, Served
  <2>2. calls[i].n \in Nat /\ page = "inventory"
    BY <1>1, <1>2, KindsAre DEF PageOf, CallRecords
  <2>3. "lookup" \in Kinds \ ActionHook /\ PageOf("lookup") = page
        /\ "lookup" \notin StatusHook /\ "lookup" # "detail"
    BY <2>2, KindsAre DEF PageOf
  <2>4. calls' = Sending([calls EXCEPT ![i].stage = "over"], "lookup", calls[i].n)
    BY <1>2, <2>1 DEF StockSettles
  <2>5. /\ CallsAdvance /\ Len(calls') = Len(calls) + 1 /\ calls'[Len(calls) + 1].n = calls[i].n
        /\ \A j \in DOMAIN calls : ~ Succeeds(j)
    <3> DEFINE kind == "lookup"
               n == calls[i].n
    <3>1. kind \in Kinds \ ActionHook /\ PageOf(kind) = page /\ kind \notin StatusHook
          /\ (kind = "detail" => n \in Products)
      BY <2>3
    <3>2. calls' = Sending([calls EXCEPT ![i].stage = "over"], kind, n)
      BY <2>4
    <3>3. calls[i].stage = "settling" /\ Quiet(calls) /\ n \in Nat
      BY <1>1, <2>1, <2>2
    <3> HIDE DEF kind, n
    <3>4. /\ CallsAdvance /\ Len(calls') = Len(calls) + 1 /\ calls'[Len(calls) + 1].n = n
          /\ \A j \in DOMAIN calls : ~ Succeeds(j)
      BY <3>1, <3>2, <3>3, OverAndSent
    <3> QED BY <3>4 DEF n
  <2>6. ui' = [ui EXCEPT !.shown = 0]
    BY <1>2 DEF StockSettles
  <2>7. /\ ui' \in UiRecords /\ ui'.tab <= ui.tab /\ ui'.selected = ui.selected
        /\ ui'.report = ui.report /\ ui'.shown = 0 /\ ui'.crossed = ui.crossed
    BY <1>1, <2>6 DEF UiRecords
  <2>8. TabMoves /\ SelectionTyped
    BY <2>2, <2>7 DEF TabMoves, SelectionTyped
  <2>9. StockPending(i)
    BY <1>1, <1>2, KindsAre DEF StockPending, Pending
  <2>10. StockMoves
    BY <2>5, <2>7, <2>9 DEF StockMoves
  <2>11. StaysOnPage
    BY <1>1, <2>2, <2>5, <2>7, <2>8, <2>10 DEF StaysOnPage, ReportMoves, CardMoves
  <2> QED BY <2>5, <2>11 DEF CallsAndPage, Announced
<1>3. CASE ~ Here(i)
  <2> DEFINE b == calls[i]
             c == [b EXCEPT !.stage = "over"]
  <2>1. calls' = [calls EXCEPT ![i] = c] /\ UNCHANGED ui
    BY <1>3 DEF StockSettles
  <2>2. /\ c \in CallRecords /\ c.kind = b.kind /\ c.visit = b.visit /\ c.with = b.with
        /\ c.stage = "over" /\ c.at = b.at /\ c.n = b.n
    BY <1>1 DEF CallRecords, Stages
  <2> HIDE DEF c
  <2>3. Advances(b, c)
    BY <1>1, <2>2 DEF Advances, HasSettled
  <2>4. /\ CallsAdvance /\ Len(calls') = Len(calls)
        /\ calls'[i] = c /\ \A j \in DOMAIN calls : j # i => calls'[j] = calls[j]
    BY <1>1, <2>1, <2>2, <2>3, OneCall
  <2>5. \A j \in DOMAIN calls : ~ Succeeds(j)
    BY <1>1, <2>4 DEF Succeeds
  <2> QED BY <1>1, <2>1, <2>4, <2>5, OverQuiet
<1> QED BY <1>2, <1>3

(* The user goes to another page, the window gets the focus, or a fetch    *)
(* ends. *)
LEMMA QuietStays ==
  ASSUME ConsoleTypes, UNCHANGED <<page, visit, ui>>, Quiet(calls')
  PROVE  CallsAndPage
<1>1. CallsAdvance /\ \A i \in DOMAIN calls : ~ Succeeds(i)
  BY QuietAdvance, QuietNobodySucceeds DEF ConsoleTypes
<1>2. Len(calls') = Len(calls)
  BY DEF Quiet
<1> QED BY <1>1, <1>2, OverQuiet

LEMMA LeavingStays ==
  ASSUME ConsoleTypes, Quiet(calls'), NEW p \in PagesOf(TRUE) \union {"error"}, Leave(p)
  PROVE  CallsAndPage
<1>1. LeavesPage
  BY DEF Leave, LeavesPage
<1> QED BY <1>1, QuietAdvance, QuietNobodySucceeds DEF ConsoleTypes, CallsAndPage, Announced

LEMMA FetchStays ==
  ASSUME ConsoleTypes, NEW k, FetchEnds(k)
  PROVE  CallsAndPage
<1>1. CallTypes /\ ui \in UiRecords
  BY DEF ConsoleTypes, PageTypes
<1>2. Quiet(Awaited(k))
  BY <1>1, CallsQuiet, AwaitedQuiet DEF Awaited
<1>3. CASE Receive(k)
  <2>1. calls' = Awaited(k) /\ UNCHANGED <<page, visit, ui>>
    BY <1>3 DEF Receive
  <2> QED BY <1>2, <2>1, QuietStays
<1>4. CASE FetchFails(k)
  <2>1. CASE calls' = Awaited(k) /\ UNCHANGED <<page, visit, ui>>
    BY <1>2, <2>1, QuietStays
  <2>2. CASE /\ Leave("error")
             /\ calls' = [i \in DOMAIN calls |-> [Frozen(DOMAIN Writes)[i] EXCEPT !.waits = @ \ {k}]]
    <3> DEFINE cs == Frozen(DOMAIN Writes)
    <3>1. Quiet(cs)
      BY <1>1, FrozenQuiet
    <3> HIDE DEF cs
    <3>2. Quiet([i \in DOMAIN calls |-> [cs[i] EXCEPT !.waits = @ \ {k}]])
      BY <1>1, <3>1, AwaitedQuiet
    <3>3. Quiet(calls')
      BY <2>2, <3>2 DEF cs
    <3> QED BY <2>2, <3>3, LeavingStays
  <2> QED BY <1>4, <2>1, <2>2 DEF FetchFails
<1> QED BY <1>3, <1>4 DEF FetchEnds

LEMMA OpenStays ==
  ASSUME ConsoleTypes, NEW p, Open(p)
  PROVE  CallsAndPage
<1>1. Quiet(Frozen(DOMAIN Writes))
  BY FrozenQuiet DEF ConsoleTypes, PageTypes
<1>2. Quiet(calls')
  BY <1>1 DEF Open
<1>3. p \in PagesOf(TRUE)
  BY DEF Open, PagesOf
<1> QED BY <1>2, <1>3, LeavingStays DEF Open

LEMMA EveryStep ==
  ASSUME ConsoleTypes, OnlyOnward, [Next]_tabVars
  PROVE  /\ CallsAndPage
         /\ ShopTypes' /\ OnlyOnward' /\ ShopGrows
<1> DEFINE Result == CallsAndPage /\ ShopTypes' /\ OnlyOnward' /\ ShopGrows
<1>1. ASSUME CallsAndPage, UNCHANGED shop PROVE Result
  BY <1>1, ShopSame DEF ConsoleTypes
<1>2. CASE UNCHANGED tabVars
  <2>1. UNCHANGED <<page, visit, ui, calls, shop>>
    BY <1>2 DEF tabVars
  <2>2. Quiet(calls')
    BY <2>1, CallsSame
  <2> QED BY <1>1, <2>1, <2>2, QuietStays
<1>3. CASE OrdersUse
  <2>1. UNCHANGED shop
    BY <1>3 DEF OrdersUse, RequestOrderAction, Confirm, Dismiss, SelectOrder, ResetOrderForm,
                TurnOrderPage, ToPage, SubmitOrder, Show, Mutate
  <2> QED BY <1>1, <1>3, <2>1, OrdersUseStays
<1>4. CASE ProductsUse
  <2>1. UNCHANGED shop
    BY <1>4 DEF ProductsUse, ChangeStatus, AskDetail, TurnCataloguePage, ToCataloguePage,
                SubmitProduct, Show, Mutate
  <2> QED BY <1>1, <1>4, <2>1, ProductsUseStays
<1>5. CASE InventoryUse
  <2>1. UNCHANGED shop
    BY <1>5 DEF InventoryUse, SelectProduct, HandleLookupInventory, HandleInitInventory,
                HandleAddInventory, MaintainRedis, Show, Mutate
  <2> QED BY <1>1, <1>5, <2>1, InventoryUseStays
<1>6. CASE ReportsUse
  <2>1. UNCHANGED shop
    BY <1>6 DEF ReportsUse, FilterLogs, Show
  <2> QED BY <1>1, <1>6, <2>1, ReportsUseStays
<1>7. CASE \E p \in PagesOf(TRUE) : Open(p)
  BY <1>1, <1>7, OpenStays DEF Open
<1>8. CASE Focus
  <2>1. UNCHANGED <<page, visit, ui, calls, shop>>
    BY <1>8 DEF Focus
  <2>2. Quiet(calls')
    BY <2>1, CallsSame
  <2> QED BY <1>1, <2>1, <2>2, QuietStays
<1>9. CASE \E k \in DOMAIN cache : FetchEnds(k)
  <2>1. UNCHANGED shop
    BY <1>9 DEF FetchEnds, Receive, FetchFails
  <2> QED BY <1>1, <1>9, <2>1, FetchStays
<1>10. ASSUME NEW i \in DOMAIN calls, ServeCall(i) PROVE Result
  BY <1>10, ServeGrows, ServeStays
<1>11. ASSUME NEW i \in DOMAIN calls, CallEnds(i) PROVE Result
  <2>1. CASE OrdersAnswer(i)
    <3>1. UNCHANGED shop
      BY <2>1 DEF OrdersAnswer, OrderCreated, OrderActed, OrderActionSettles, Succeed
    <3> QED BY <1>1, <1>11, <2>1, <3>1, OrdersAnswerStays, SettleStays DEF OrdersAnswer
  <2>2. CASE ProductsAnswer(i)
    <3>1. UNCHANGED shop
      BY <2>2 DEF ProductsAnswer, ProductCreated, StatusChanged, StatusSettles, DetailShown, Succeed
    <3> QED BY <1>1, <1>11, <2>2, <3>1, ProductsAnswerStays, StatusSettlesStays DEF ProductsAnswer
  <2>3. CASE InventoryAnswer(i)
    <3>1. UNCHANGED shop
      BY <2>3 DEF InventoryAnswer, LookupShown, StockChanged, StockSettles, Rebuilt, Reconciled, Succeed
    <3> QED BY <1>1, <1>11, <2>3, <3>1, InventoryAnswerStays, StockSettlesStays DEF InventoryAnswer
  <2>4. CASE OnError(i)
    BY <1>1, <1>11, <2>4, OnErrorStays DEF OnError
  <2>5. CASE Settle(i)
    BY <1>1, <1>11, <2>5, SettleStays DEF Settle
  <2> QED BY <1>11, <2>1, <2>2, <2>3, <2>4, <2>5 DEF CallEnds
<1> QED BY <1>2, <1>3, <1>4, <1>5, <1>6, <1>7, <1>8, <1>9, <1>10, <1>11 DEF Next, Use, Progress

-----------------------------------------------------------------------------
(* The cache.  What mounting and invalidating make of its records. *)
Typed(c) ==
  /\ DOMAIN c \subseteq QueryKeys
  /\ c \in [DOMAIN c -> QueryRecords]
  /\ \A k \in DOMAIN c : c[k].data <= Now /\ c[k].fetch <= Now

KeepsSight(c, d) ==
  \A k \in DOMAIN d : \A at \in VersionsOf(k) : (k \in DOMAIN c => Covers(c[k], at)) => Covers(d[k], at)

LEMMA StartedIs ==
  ASSUME ShopTypes, NEW c, Typed(c), NEW k \in QueryKeys
  PROVE  LET r == IF k \in DOMAIN c THEN c[k] ELSE NoRecord
         IN /\ r \in QueryRecords /\ r.data <= Now /\ r.fetch <= Now
            /\ Started(c, k) \in QueryRecords
            /\ Started(c, k).data = r.data /\ Started(c, k).valid = r.valid /\ Started(c, k).old = r.old
            /\ ~ Started(c, k).late
            /\ Started(c, k).fetch = Max(VersionsOf(k))
            /\ Max(VersionsOf(k)) \in 1..Now /\ \A v \in VersionsOf(k) : v <= Max(VersionsOf(k))
<1> DEFINE r == IF k \in DOMAIN c THEN c[k] ELSE NoRecord
           m == Max(VersionsOf(k))
<1>1. Now \in Nat \ {0} /\ m \in 1..Now /\ m \in Nat /\ \A v \in VersionsOf(k) : v <= m
  BY ShopFacts, Versions
<1>2. r \in QueryRecords /\ r.data <= Now /\ r.fetch <= Now
  BY <1>1 DEF Typed, NoRecord, QueryRecords, Idle
<1>3. Started(c, k) = [r EXCEPT !.fetch = m, !.late = FALSE]
  BY DEF Started
<1> HIDE DEF r, m
<1> DEFINE s == [r EXCEPT !.fetch = m, !.late = FALSE]
<1>4. s \in QueryRecords
  BY <1>1, <1>2 DEF QueryRecords
<1>5. s.data = r.data /\ s.valid = r.valid /\ s.old = r.old /\ s.late = FALSE /\ s.fetch = m
  BY <1>1, <1>2 DEF QueryRecords
<1> HIDE DEF s
<1>6. s = Started(c, k)
  BY <1>3 DEF s
<1> QED BY <1>1, <1>2, <1>4, <1>5, <1>6 DEF r, m

LEMMA StartedSees ==
  ASSUME ShopTypes, NEW c, Typed(c), NEW k \in QueryKeys, NEW at \in VersionsOf(k),
         k \in DOMAIN c => Covers(c[k], at)
  PROVE  Covers(Started(c, k), at)
<1>1. Started(c, k).fetch >= at
  BY StartedIs, Versions, ShopFacts
<1>2. CASE k \in DOMAIN c
  BY <1>1, <1>2, StartedIs DEF Covers
<1>3. CASE k \notin DOMAIN c
  <2>1. ~ Started(c, k).valid
    BY <1>3, StartedIs DEF NoRecord
  <2> QED BY <1>1, <2>1 DEF Covers
<1> QED BY <1>2, <1>3

LEMMA MountSees ==
  ASSUME ShopTypes, NEW c, Typed(c), NEW keys \in SUBSET QueryKeys, NEW aged
  PROVE  Typed(Mount(c, keys, aged)) /\ KeepsSight(c, Mount(c, keys, aged))
<1> DEFINE Kept(k) == k \in DOMAIN c /\ (k \notin keys \/ c[k].fetch # Idle \/ (c[k].valid /\ k \notin aged))
           d == Mount(c, keys, aged)
<1>1. /\ DOMAIN d = DOMAIN c \union keys /\ d = [k \in DOMAIN d |-> d[k]]
      /\ \A k \in DOMAIN d : d[k] = IF Kept(k) THEN c[k] ELSE Started(c, k)
  BY DEF Mount
<1>2. \A k \in DOMAIN d : Kept(k) => k \in DOMAIN c
  OBVIOUS
<1> HIDE DEF d, Kept
<1>3. DOMAIN d \subseteq QueryKeys
  BY <1>1 DEF Typed
<1>4. ASSUME NEW k \in DOMAIN d
      PROVE  d[k] \in QueryRecords /\ d[k].data <= Now /\ d[k].fetch <= Now
  <2>1. CASE Kept(k)
    BY <1>1, <1>2, <2>1 DEF Typed
  <2>2. CASE ~ Kept(k)
    <3>1. k \in QueryKeys /\ d[k] = Started(c, k)
      BY <1>1, <1>3, <2>2
    <3> QED BY <3>1, StartedIs, ShopFacts
  <2> QED BY <2>1, <2>2
<1>5. Typed(d)
  BY <1>1, <1>3, <1>4 DEF Typed
<1>6. KeepsSight(c, d)
  <2> SUFFICES ASSUME NEW k \in DOMAIN d, NEW at \in VersionsOf(k), k \in DOMAIN c => Covers(c[k], at)
               PROVE  Covers(d[k], at)
    BY DEF KeepsSight
  <2>1. CASE Kept(k)
    BY <1>1, <1>2, <2>1
  <2>2. CASE ~ Kept(k)
    <3>1. k \in QueryKeys /\ d[k] = Started(c, k)
      BY <1>1, <1>3, <2>2
    <3> QED BY <3>1, StartedSees
  <2> QED BY <2>1, <2>2
<1> QED BY <1>5, <1>6 DEF d

(* An invalidated record is not valid, and a fetch of it that is not       *)
(* started again is late. *)
LEMMA InvalidateSees ==
  ASSUME ShopTypes, NEW c, Typed(c), NEW keys, NEW watched
  PROVE  LET d == Invalidate(c, keys, watched)
         IN /\ Typed(d) /\ KeepsSight(c, d) /\ DOMAIN d = DOMAIN c
            /\ \A k \in DOMAIN d \intersect keys : \A at \in VersionsOf(k) : Covers(d[k], at)
<1> DEFINE Again(k) == k \in watched /\ (c[k].fetch = Idle \/ c[k].data > 0)
           d == Invalidate(c, keys, watched)
<1>1. /\ DOMAIN d = DOMAIN c /\ d = [k \in DOMAIN d |-> d[k]]
      /\ \A k \in DOMAIN d :
           d[k] = IF k \notin keys THEN c[k]
                  ELSE IF Again(k) THEN [Started(c, k) EXCEPT !.valid = FALSE]
                  ELSE [c[k] EXCEPT !.valid = FALSE, !.late = c[k].fetch # Idle]
  BY DEF Invalidate
<1> HIDE DEF d, Again
<1>2. \A k \in DOMAIN d : k \in QueryKeys /\ c[k] \in QueryRecords /\ c[k].data <= Now /\ c[k].fetch <= Now
  BY <1>1 DEF Typed
<1>3. ASSUME NEW k \in DOMAIN d, k \in keys
      PROVE  /\ d[k] \in QueryRecords /\ d[k].data <= Now /\ d[k].fetch <= Now
             /\ \A at \in VersionsOf(k) : Covers(d[k], at)
  <2>1. CASE Again(k)
    <3> DEFINE s == Started(c, k)
    <3>0. k \in QueryKeys /\ k \in DOMAIN c
      BY <1>1, <1>2
    <3>1. s \in QueryRecords /\ s.data = c[k].data /\ s.fetch = Max(VersionsOf(k)) /\ s.fetch \in 1..Now
          /\ \A v \in VersionsOf(k) : v <= s.fetch
      BY <3>0, StartedIs
    <3>2. d[k] = [s EXCEPT !.valid = FALSE]
      BY <1>1, <1>3, <2>1
    <3> HIDE DEF s
    <3>3. d[k] \in QueryRecords /\ d[k].data = c[k].data /\ d[k].fetch = s.fetch /\ d[k].valid = FALSE
      BY <3>1, <3>2 DEF QueryRecords
    <3>4. Now \in Nat /\ VersionsOf(k) \subseteq 1..Now
      BY <1>2, ShopFacts, Versions
    <3>5. \A at \in VersionsOf(k) : s.fetch >= at
      BY <3>1, <3>4
    <3> QED BY <1>2, <3>1, <3>3, <3>4, <3>5 DEF Covers
  <2>2. CASE ~ Again(k)
    <3>1. d[k] = [c[k] EXCEPT !.valid = FALSE, !.late = c[k].fetch # Idle]
      BY <1>1, <1>3, <2>2
    <3>2. PICK r \in QueryRecords : r = c[k]
      BY <1>2
    <3>3. /\ d[k] \in QueryRecords /\ d[k].data = r.data /\ d[k].fetch = r.fetch
          /\ d[k].valid = FALSE /\ d[k].late = (r.fetch # Idle)
      BY <3>1, <3>2 DEF QueryRecords
    <3> QED BY <1>2, <3>2, <3>3 DEF Covers
  <2> QED BY <2>1, <2>2
<1>4. Typed(d)
  <2>1. \A k \in DOMAIN d : d[k] \in QueryRecords /\ d[k].data <= Now /\ d[k].fetch <= Now
    BY <1>1, <1>2, <1>3
  <2> QED BY <1>1, <1>2, <2>1 DEF Typed
<1>5. KeepsSight(c, d)
  BY <1>1, <1>3 DEF KeepsSight
<1> QED BY <1>1, <1>3, <1>4, <1>5 DEF d

-----------------------------------------------------------------------------
(* What the invariant says of the requests after a step. *)
LEMMA ShopFactsNext ==
  ASSUME ShopTypes, ShopTypes', ShopGrows
  PROVE  /\ Now \in Nat \ {0} /\ Now' \in Nat \ {0} /\ Now <= Now' /\ Now' = Len(shop')
         /\ \A v \in 1..Now : v \in 1..Now' /\ shop'[v] = shop[v] /\ shop[v] \in States
         /\ \A v \in 1..Now' : shop'[v] \in States
<1>1. shop' \in Seq(States) /\ shop' # <<>>
  BY DEF ShopTypes
<1>2. Len(shop') \in Nat \ {0}
  BY <1>1, EmptySeq
<1>3. \A v \in 1..Len(shop') : shop'[v] \in States
  BY <1>1, ElementOfSeq
<1> QED BY <1>2, <1>3, ShopFacts DEF ShopGrows, Now

LEMMA CallFactsNext ==
  ASSUME CallTypes, CallsAdvance
  PROVE  /\ Len(calls) \in Nat /\ Len(calls') \in Nat
         /\ DOMAIN calls = 1..Len(calls) /\ DOMAIN calls' = 1..Len(calls')
         /\ \A i \in DOMAIN calls : i \in DOMAIN calls' /\ calls[i] \in CallRecords
                                    /\ Advances(calls[i], calls'[i])
         /\ \A i \in DOMAIN calls' : calls'[i] \in CallRecords
         /\ \A i \in DOMAIN calls' : i \in DOMAIN calls \/ (i = Len(calls) + 1 /\ New(calls'[i]))
<1>1. /\ Len(calls) \in Nat /\ DOMAIN calls = 1..Len(calls)
      /\ \A i \in DOMAIN calls : calls[i] \in CallRecords
  BY CallFacts
<1>2. calls' \in Seq(CallRecords) /\ Len(calls') \in {Len(calls), Len(calls) + 1}
  BY DEF CallsAdvance
<1>3. Len(calls') \in Nat /\ DOMAIN calls' = 1..Len(calls')
  BY <1>2, LenProperties
<1>4. \A i \in DOMAIN calls' : calls'[i] \in CallRecords
  BY <1>2, <1>3, ElementOfSeq
<1> DEFINE m == Len(calls)
           n == Len(calls')
<1>5. (\A i \in 1..n : i \in 1..m \/ (i = m + 1 /\ n = m + 1)) /\ (\A i \in 1..m : i \in 1..n)
  <2>1. m \in Nat /\ n \in {m, m + 1}
    BY <1>1, <1>2
  <2> HIDE DEF m, n
  <2> QED BY <2>1
<1>6. /\ \A i \in DOMAIN calls' : i \in DOMAIN calls \/ (i = Len(calls) + 1 /\ Len(calls') = Len(calls) + 1)
      /\ \A i \in DOMAIN calls : i \in DOMAIN calls'
  BY <1>1, <1>3, <1>5
<1> QED BY <1>1, <1>3, <1>4, <1>6 DEF CallsAdvance

LEMMA CallTypesNext ==
  ASSUME ConsoleTypes, CallsAdvance, ShopTypes', ShopGrows
  PROVE  CallTypes'
<1>1. CallTypes /\ ShopTypes
  BY DEF ConsoleTypes
<1>2. SUFFICES ASSUME NEW i \in DOMAIN calls'
               PROVE  /\ Aimed(calls'[i])
                      /\ calls'[i].stage \in Served =>
                           /\ calls'[i].at \in 1..Now'
                           /\ Wrote(calls'[i], shop')
                           /\ calls'[i].kind \in {"init", "add"} /\ calls'[i].stage = "settling"
                                => calls'[i].then = calls'[i].n
  <2>1. calls' \in Seq(CallRecords)
    BY DEF CallsAdvance
  <2> QED BY <2>1 DEF CallTypes, Now, Aimed, Wrote, Orders, Products, ActionHook, StatusHook,
                      Writes, Becomes
<1>3. CASE i \notin DOMAIN calls
  BY <1>1, <1>3, CallFactsNext DEF New, Served
<1>4. CASE i \in DOMAIN calls
  <2> DEFINE c == calls[i]
             d == calls'[i]
  <2>1. Advances(c, d) /\ c \in CallRecords /\ d \in CallRecords
    BY <1>1, <1>4, CallFactsNext
  <2>2. /\ Aimed(c)
        /\ c.stage \in Served =>
             /\ c.at \in 1..Now
             /\ Wrote(c, shop)
             /\ c.kind \in {"init", "add"} /\ c.stage = "settling" => c.then = c.n
    BY <1>1, <1>4 DEF CallTypes
  <2>3. \A v \in 1..Now : v \in 1..Now' /\ shop'[v] = shop[v]
    BY <1>1, ShopFactsNext
  <2>4. Now' = Len(shop') /\ Now' \in 1..Now'
    BY <1>1, ShopFactsNext
  <2>5. d.kind = c.kind
    BY <2>1 DEF Advances
  <2> HIDE DEF c, d
  <2>6. Aimed(d)
    <3>1. d.n = c.n \/ c.kind \in {"create", "newProduct"}
      BY <2>1 DEF Advances, Unchanged, IsServed, IsGivenUp, HasSucceeded, HasSettled
    <3> QED BY <2>2, <2>5, <3>1, KindsAre DEF Aimed
  <2>7. CASE c.stage \in Served /\ d.at = c.at /\ d.n = c.n
    <3>1. d.at \in 1..Now' /\ Wrote(d, shop')
      BY <2>2, <2>3, <2>5, <2>7 DEF Wrote
    <3>2. ASSUME d.kind \in {"init", "add"}, d.stage = "settling" PROVE d.then = d.n
      <4>1. CASE Unchanged(c, d)
        <5>1. c.then = c.n /\ c.n \in Nat
          BY <2>1, <2>2, <2>5, <2>7, <3>2, <4>1 DEF Unchanged, CallRecords
        <5>2. c.then # -1
          BY <5>1
        <5> QED BY <2>7, <4>1, <5>1, <5>2 DEF Unchanged
      <4>2. CASE ~ Unchanged(c, d)
        <5>1. HasSucceeded(c, d)
          BY <2>1, <2>7, <3>2, <4>2 DEF Advances, IsServed, IsGivenUp, HasSettled, Served
        <5> QED BY <2>5, <2>7, <3>2, <5>1 DEF HasSucceeded
      <4> QED BY <4>1, <4>2
    <3> QED BY <2>6, <3>1, <3>2 DEF d
  <2>8. CASE IsServed(c, d)
    BY <2>4, <2>6, <2>8 DEF IsServed, d, Served
  <2>9. d.stage \notin Served \/ (c.stage \in Served /\ d.at = c.at /\ d.n = c.n) \/ IsServed(c, d)
    BY <2>1 DEF Advances, Unchanged, IsGivenUp, HasSucceeded, HasSettled, Served
  <2> QED BY <2>6, <2>7, <2>8, <2>9 DEF d
<1> QED BY <1>3, <1>4

(* A request that has succeeded was answered before. *)
LEMMA SucceededAre ==
  ASSUME CallTypes, CallsAdvance, NEW i \in Succeeded'
  PROVE  /\ i \in DOMAIN calls /\ (i \in Succeeded \/ Succeeds(i))
         /\ calls[i].stage \in Served /\ calls'[i].stage \in Served
         /\ calls'[i].kind = calls[i].kind /\ calls'[i].n = calls[i].n /\ calls'[i].at = calls[i].at
         /\ calls'[i].visit = calls[i].visit /\ calls'[i].with = calls[i].with
<1> DEFINE c == calls[i]
           d == calls'[i]
<1>1. i \in DOMAIN calls' /\ d.stage \in {"settling", "closing", "over"}
  BY DEF Succeeded
<1>2. i \in DOMAIN calls
  BY <1>1, CallFactsNext DEF New
<1>3. Advances(c, d)
  BY <1>2, CallFactsNext
<1>4. /\ c.stage \in {"settling", "closing", "over"} \/ (c.stage = "done" /\ d.stage \in {"settling", "over"})
      /\ d.kind = c.kind /\ d.n = c.n /\ d.at = c.at /\ d.visit = c.visit /\ d.with = c.with
  BY <1>1, <1>3 DEF Advances, Unchanged, IsServed, IsGivenUp, HasSucceeded, HasSettled
<1> QED BY <1>1, <1>2, <1>4 DEF Succeeded, Succeeds, Served

-----------------------------------------------------------------------------
(* The page after a step. *)
LEMMA PageTypesNext ==
  ASSUME ConsoleTypes, CallsAndPage
  PROVE  PageTypes'
<1>1. CallTypes /\ CallsAdvance
  BY DEF ConsoleTypes, CallsAndPage
<1>2. /\ page \in PagesOf(TRUE) \union {"error"} /\ visit \in Nat
      /\ \A i \in DOMAIN calls : calls[i].visit <= visit /\ (Here(i) => PageOf(calls[i].kind) = page)
  BY DEF ConsoleTypes, PageTypes
<1>3. \A i \in DOMAIN calls : /\ calls'[i].visit = calls[i].visit /\ calls'[i].kind = calls[i].kind
                              /\ calls[i].visit \in Nat
  BY <1>1, CallFactsNext DEF Advances, CallRecords
<1>4. \A i \in DOMAIN calls' :
        \/ i \in DOMAIN calls
        \/ /\ calls'[i].visit = visit /\ PageOf(calls'[i].kind) = page
           /\ Len(calls') = Len(calls) + 1
  <2>1. \A m \in Nat : m + 1 \notin 1..m
    OBVIOUS
  <2>2. \A i \in DOMAIN calls' : i \notin DOMAIN calls => Len(calls') = Len(calls) + 1
    BY <1>1, CallFactsNext DEF CallsAdvance
  <2> QED BY <1>1, <2>2, CallFactsNext DEF New
<1>5. CASE LeavesPage
  <2>1. FreshUi \in UiRecords /\ FreshUi.selected = 0 /\ FreshUi.shown = 0
    BY DEF FreshUi, UiRecords
  <2>2. \A m \in Nat : m # m + 1
    OBVIOUS
  <2>3. Len(calls') # Len(calls) + 1
    BY <1>1, <1>5, <2>2, CallFacts DEF LeavesPage, Quiet
  <2>4. \A i \in DOMAIN calls' : calls'[i].visit <= visit /\ calls'[i].visit \in Nat
    BY <1>2, <1>3, <1>4, <2>3
  <2>5. visit' \in Nat /\ \A n \in Nat : n <= visit => n <= visit' /\ n # visit'
    BY <1>2, <1>5 DEF LeavesPage
  <2>6. \A i \in DOMAIN calls' : calls'[i].visit <= visit' /\ calls'[i].visit # visit'
    BY <2>4, <2>5
  <2> QED BY <1>5, <2>1, <2>5, <2>6 DEF LeavesPage, PageTypes, Here, Orders, Products
<1>6. CASE StaysOnPage
  <2>1. \A i \in DOMAIN calls' :
          calls'[i].visit <= visit /\ (calls'[i].visit = visit => PageOf(calls'[i].kind) = page)
    BY <1>2, <1>3, <1>4 DEF Here
  <2>2. ui' \in UiRecords /\ visit' = visit /\ page' = page
    BY <1>6 DEF StaysOnPage
  <2>3. /\ page = "orders" => ui'.selected \in Orders \union {0}
        /\ page = "stockLogs" => ui'.selected \in Products \union {0}
        /\ page = "products" /\ ui'.shown # 0 => ui'.selected \in Products
    BY <1>6 DEF StaysOnPage, SelectionTyped
  <2> QED BY <1>2, <2>1, <2>2, <2>3 DEF PageTypes, Here, Orders, Products
<1> QED BY <1>5, <1>6 DEF CallsAndPage

LEMMA PagesNext ==
  ASSUME ShopTypes, ShopTypes', OnlyOnward', ShopGrows, NEW v \in 1..Now
  PROVE  /\ Pages(Existing(shop[v].orders)) \in Nat
         /\ Pages(Existing(shop'[Len(shop')].orders)) \in Nat
         /\ Pages(Existing(shop[v].orders)) <= Pages(Existing(shop'[Len(shop')].orders))
         /\ Pages(Existing(shop[v].products)) \in Nat
         /\ Pages(Existing(shop'[Len(shop')].products)) \in Nat
         /\ Pages(Existing(shop[v].products)) <= Pages(Existing(shop'[Len(shop')].products))
<1> DEFINE n == Len(shop')
           s == shop[v]
           t == shop'[n]
<1>1. n \in Nat \ {0} /\ n \in 1..n /\ v \in 1..n /\ shop'[v] = s /\ s \in States /\ t \in States /\ n = Now'
  BY ShopFactsNext
<1>2. /\ \A o \in Orders : s.orders[o] # "none" => t.orders[o] # "none"
      /\ \A p \in Products : s.products[p] # "none" => t.products[p] # "none"
  <2>1. v <= n
    BY <1>1
  <2>2. /\ \A o \in Orders : Onward(s.orders[o], t.orders[o])
        /\ \A p \in Products : s.products[p] # "none" => t.products[p] # "none"
    BY <1>1, <2>1 DEF OnlyOnward, Now, Orders, Products
  <2> QED BY <2>2 DEF Onward
<1> HIDE DEF s, t
<1>3. /\ s.orders \in Seq(OrderStatuses) /\ t.orders \in Seq(OrderStatuses)
      /\ Len(s.orders) = Len(t.orders) /\ 1..Len(s.orders) = Orders
      /\ s.products \in Seq(ProductStatuses) /\ t.products \in Seq(ProductStatuses)
      /\ Len(s.products) = Len(t.products) /\ 1..Len(s.products) = Products
  BY <1>1, Tables, StartRooms
<1>4. /\ Existing(s.orders) \in Nat /\ Existing(t.orders) \in Nat
      /\ Existing(s.products) \in Nat /\ Existing(t.products) \in Nat
  BY <1>3, ExistingRows
<1>5. Existing(s.orders) <= Existing(t.orders)
  BY <1>2, <1>3, ExistingGrows
<1>6. Existing(s.products) <= Existing(t.products)
  BY <1>2, <1>3, ExistingGrows
<1>7. /\ Pages(Existing(s.orders)) \in Nat /\ Pages(Existing(t.orders)) \in Nat
      /\ Pages(Existing(s.orders)) <= Pages(Existing(t.orders))
  BY <1>4, <1>5, PagesGrow
<1>8. /\ Pages(Existing(s.products)) \in Nat /\ Pages(Existing(t.products)) \in Nat
      /\ Pages(Existing(s.products)) <= Pages(Existing(t.products))
  BY <1>4, <1>6, PagesGrow
<1> QED BY <1>7, <1>8 DEF s, t

LEMMA PageInRangeNext ==
  ASSUME ConsoleTypes, PageInRange, CallsAndPage, ShopTypes', OnlyOnward', ShopGrows
  PROVE  PageInRange'
<1> DEFINE t == shop'[Len(shop')]
<1>1. CASE LeavesPage
  BY <1>1 DEF LeavesPage, FreshUi, PageInRange
<1>2. CASE StaysOnPage
  <2>1. /\ ui.tab \in Nat \ {0} /\ ui'.tab \in Nat \ {0} /\ page' = page /\ TabMoves
    BY <1>2 DEF StaysOnPage, ConsoleTypes, PageTypes, UiRecords
  <2>2. ShopTypes /\ Now \in 1..Now
    BY ShopFacts DEF ConsoleTypes
  <2>3. ASSUME page = "orders", ui'.tab # 1 PROVE ui'.tab \in 1..Pages(Existing(t.orders))
    <3>1. PICK v \in 1..Now : ui'.tab <= Pages(Existing(shop[v].orders))
      <4>1. CASE \E v \in 1..Now : ui'.tab <= Pages(Existing(shop[v].orders))
        BY <4>1
      <4>2. CASE ui'.tab <= ui.tab
        <5>1. ui.tab # 1
          BY <2>1, <2>3, <4>2
        <5>2. ui.tab \in 1..Pages(Existing(shop[Now].orders))
          BY <2>3, <5>1 DEF PageInRange
        <5>3. Pages(Existing(shop[Now].orders)) \in Nat
          BY <2>2, PagesNext
        <5> QED BY <2>1, <2>2, <4>2, <5>2, <5>3
      <4> QED BY <2>1, <2>3, <4>1, <4>2 DEF TabMoves
    <3>2. /\ Pages(Existing(shop[v].orders)) \in Nat /\ Pages(Existing(t.orders)) \in Nat
          /\ Pages(Existing(shop[v].orders)) <= Pages(Existing(t.orders))
      BY <2>2, PagesNext
    <3> QED BY <2>1, <3>1, <3>2
  <2>4. ASSUME page = "products", ui'.tab # 1 PROVE ui'.tab \in 1..Pages(Existing(t.products))
    <3>1. PICK v \in 1..Now : ui'.tab <= Pages(Existing(shop[v].products))
      <4>1. CASE \E v \in 1..Now : ui'.tab <= Pages(Existing(shop[v].products))
        BY <4>1
      <4>2. CASE ui'.tab <= ui.tab
        <5>1. ui.tab # 1
          BY <2>1, <2>4, <4>2
        <5>2. ui.tab \in 1..Pages(Existing(shop[Now].products))
          BY <2>4, <5>1 DEF PageInRange
        <5>3. Pages(Existing(shop[Now].products)) \in Nat
          BY <2>2, PagesNext
        <5> QED BY <2>1, <2>2, <4>2, <5>2, <5>3
      <4> QED BY <2>1, <2>4, <4>1, <4>2 DEF TabMoves
    <3>2. /\ Pages(Existing(shop[v].products)) \in Nat /\ Pages(Existing(t.products)) \in Nat
          /\ Pages(Existing(shop[v].products)) <= Pages(Existing(t.products))
      BY <2>2, PagesNext
    <3> QED BY <2>1, <3>1, <3>2
  <2> QED BY <2>1, <2>3, <2>4 DEF PageInRange, Now, Pages, Existing
<1> QED BY <1>1, <1>2 DEF CallsAndPage

(* The queries a page watches are queries there are. *)
LEMMA WatchedKeys ==
  ASSUME NEW p \in PagesOf(TRUE) \union {"error"}, NEW u, u.tab \in Nat \ {0},
         p = "orders" /\ u.tab # 1 => \E s \in States : u.tab <= Pages(Existing(s.orders)),
         p = "products" /\ u.tab # 1 => \E s \in States : u.tab <= Pages(Existing(s.products)),
         p = "orders" => u.selected \in Orders \union {0},
         p = "stockLogs" => u.selected \in Products \union {0}
  PROVE  Watched(p, u) \subseteq QueryKeys
<1>1. ASSUME NEW m \in Nat, NEW r \in Nat \ {0}, m <= r, u.tab = 1 \/ u.tab <= Pages(m)
      PROVE  u.tab \in 1..Pages(r)
  <2>1. /\ Pages(m) \in Nat /\ Pages(r) \in Nat /\ Pages(m) <= Pages(r) /\ Pages(r) >= 1
    BY <1>1, PagesGrow
  <2> QED BY <1>1, <2>1
<1>2. \A s \in States : /\ Existing(s.orders) \in Nat /\ Existing(s.orders) <= Len(Start.orders)
                        /\ Existing(s.products) \in Nat /\ Existing(s.products) <= Len(Start.products)
  BY Tables, StartRooms
<1>3. CASE p = "orders"
  <2>1. u.tab \in 1..Pages(Len(Start.orders))
    BY <1>1, <1>2, <1>3, StartRooms
  <2>2. OrdersQueries(u) \subseteq QueryKeys
    BY <1>3, <2>1 DEF OrdersQueries, QueryKeys
  <2> QED BY <1>3, <2>2 DEF Watched
<1>4. CASE p = "products"
  <2>1. u.tab \in 1..Pages(Len(Start.products))
    BY <1>1, <1>2, <1>4, StartRooms
  <2>2. ProductsQueries(u) \subseteq QueryKeys
    BY <2>1 DEF ProductsQueries, QueryKeys
  <2> QED BY <1>4, <2>2 DEF Watched
<1>5. CASE p \in {"inventory", "operationLogs", "dashboard", "error"}
  BY <1>5 DEF Watched, InventoryQueries, OperationLogsQueries, DashboardQueries, QueryKeys
<1>6. CASE p = "stockLogs"
  <2>1. StockLogsQueries(u) \subseteq QueryKeys
    BY <1>6 DEF StockLogsQueries, QueryKeys
  <2> QED BY <1>6, <2>1 DEF Watched
<1> QED BY <1>3, <1>4, <1>5, <1>6 DEF PagesOf

LEMMA WatchedNow ==
  ASSUME ConsoleTypes, PageInRange
  PROVE  Watched(page, ui) \subseteq QueryKeys
<1>1. shop[Now] \in States
  BY ShopFacts DEF ConsoleTypes
<1>2. /\ Pages(Existing(shop[Now].orders)) \in Nat /\ Pages(Existing(shop[Now].products)) \in Nat
  BY <1>1, Tables, PagesGrow
<1>3. /\ page \in PagesOf(TRUE) \union {"error"} /\ ui.tab \in Nat \ {0}
      /\ page = "orders" => ui.selected \in Orders \union {0}
      /\ page = "stockLogs" => ui.selected \in Products \union {0}
  BY DEF ConsoleTypes, PageTypes, UiRecords
<1>4. /\ page = "orders" /\ ui.tab # 1 => ui.tab <= Pages(Existing(shop[Now].orders))
      /\ page = "products" /\ ui.tab # 1 => ui.tab <= Pages(Existing(shop[Now].products))
  BY <1>2, <1>3 DEF PageInRange
<1> QED BY <1>1, <1>3, <1>4, WatchedKeys

LEMMA WatchedNext ==
  ASSUME ShopTypes, ShopTypes', ShopGrows, OnlyOnward', PageTypes', PageInRange'
  PROVE  Watched(page', ui') \subseteq QueryKeys
<1> DEFINE t == shop'[Len(shop')]
<1>1. t \in States /\ Now \in 1..Now
  BY ShopFactsNext, ShopFacts
<1>2. Pages(Existing(t.orders)) \in Nat /\ Pages(Existing(t.products)) \in Nat
  BY <1>1, PagesNext
<1>3. /\ page' \in PagesOf(TRUE) \union {"error"} /\ ui'.tab \in Nat \ {0}
      /\ page' = "orders" => ui'.selected \in Orders \union {0}
      /\ page' = "stockLogs" => ui'.selected \in Products \union {0}
  BY DEF PageTypes, UiRecords, Orders, Products
<1>4. /\ page' = "orders" /\ ui'.tab # 1 => ui'.tab <= Pages(Existing(t.orders))
      /\ page' = "products" /\ ui'.tab # 1 => ui'.tab <= Pages(Existing(t.products))
  <2>1. /\ page' = "orders" /\ ui'.tab # 1 => ui'.tab \in 1..Pages(Existing(t.orders))
        /\ page' = "products" /\ ui'.tab # 1 => ui'.tab \in 1..Pages(Existing(t.products))
    BY DEF PageInRange, Now, Pages, Existing
  <2> QED BY <1>2, <1>3, <2>1
<1> HIDE DEF t
<1> QED BY <1>1, <1>3, <1>4, WatchedKeys

(* What is needed of a step: the records keep what they include, and those *)
(* the callback of a write is about include it. *)
LEMMA SightKept ==
  ASSUME ConsoleTypes, CacheSees, CallsAdvance, ShopTypes', ShopGrows,
         Typed(cache'), KeepsSight(cache, cache'),
         \A i \in DOMAIN calls : Succeeds(i) =>
           \A k \in DOMAIN cache' \ Under({"operations"}) :
             ListOf(k) \in Writes[calls[i].kind] => \A at \in VersionsOf(k) : Covers(cache'[k], at)
  PROVE  CacheTypes' /\ CacheSees'
<1>1. ShopTypes /\ CallTypes
  BY DEF ConsoleTypes
<1>2. CacheTypes'
  <2>1. \A k \in DOMAIN cache' : cache'[k] \in QueryRecords /\ cache'[k].data <= Now /\ cache'[k].fetch <= Now
    BY DEF Typed
  <2>2. Now \in Nat /\ Now' \in Nat /\ Now <= Now'
    BY <1>1, ShopFactsNext
  <2>3. \A r \in QueryRecords : r.data \in Nat /\ r.fetch \in Nat
    BY DEF QueryRecords
  <2>4. \A k \in DOMAIN cache' : cache'[k].data <= Now' /\ cache'[k].fetch <= Now'
    BY <2>1, <2>2, <2>3
  <2> QED BY <2>4 DEF Typed, CacheTypes, QueryKeys, Pages, Orders, Products
<1>3. CacheSees'
  <2> SUFFICES ASSUME NEW k \in DOMAIN cache' \ Under({"operations"}), NEW i \in Succeeded',
                      ListOf(k) \in Writes[calls'[i].kind]
               PROVE  Covers(cache'[k], calls'[i].at)
    BY DEF CacheSees, Under, QueryKeys, Pages, Orders, Products, ListOf, Writes, Covers, Idle
  <2>1. /\ i \in DOMAIN calls /\ (i \in Succeeded \/ Succeeds(i)) /\ calls[i].stage \in Served
        /\ calls'[i].kind = calls[i].kind /\ calls'[i].at = calls[i].at
    BY <1>1, SucceededAre
  <2>2. /\ calls[i].at \in 1..Now
        /\ Writes[calls[i].kind] # {} => shop[calls[i].at].lists = Writes[calls[i].kind]
    BY <1>1, <2>1 DEF CallTypes, Wrote
  <2>3. calls[i].at \in VersionsOf(k)
    BY <2>1, <2>2 DEF VersionsOf
  <2>4. CASE Succeeds(i)
    BY <2>1, <2>3, <2>4
  <2>5. CASE i \in Succeeded
    <3>1. k \in DOMAIN cache => Covers(cache[k], calls[i].at)
      BY <2>1, <2>5 DEF CacheSees
    <3> QED BY <2>1, <2>3, <3>1 DEF KeepsSight
  <2> QED BY <2>1, <2>4, <2>5
<1> QED BY <1>2, <1>3

(* How a step changes the cache. *)
Mounts ==
  \E keys, aged : keys \subseteq Watched(page', ui') /\ cache' = Mount(cache, keys, aged)

LEMMA ShowMounts ==
  ASSUME NEW u, Show(u)
  PROVE  Mounts
<1>1. PICK aged : cache' = Mount(cache, Watched(page, u) \ Watched(page, ui), aged)
  BY DEF Show, Watch
<1>2. page' = page /\ ui' = u
  BY DEF Show
<1> QED BY <1>1, <1>2 DEF Mounts

LEMMA SucceedSucceeds ==
  ASSUME CallTypes, NEW i \in DOMAIN calls, NEW u, NEW lists, NEW then, Succeed(i, u, lists, then)
  PROVE  Succeeds(i)
<1> DEFINE waits == {k \in Under(lists) \intersect Watched(page, ui) :
                       Invalidate(cache, Under(lists), Watched(page, ui))[k].fetch # Idle}
<1>1. calls[i] \in CallRecords /\ calls[i].stage = "done"
  BY CallFacts DEF Succeed
<1>2. calls' = [calls EXCEPT ![i].stage = IF lists = {} THEN "over" ELSE "settling",
                             ![i].then = then, ![i].waits = waits]
  BY DEF Succeed
<1> HIDE DEF waits
<1>3. calls'[i].stage = IF lists = {} THEN "over" ELSE "settling"
  BY <1>1, <1>2 DEF CallRecords
<1> QED BY <1>1, <1>3 DEF Succeeds

LEMMA CacheSteps ==
  ASSUME ConsoleTypes, [Next]_tabVars
  PROVE  \/ UNCHANGED cache
         \/ Mounts
         \/ \E k : FetchEnds(k)
         \/ \E i \in DOMAIN calls : OrderActionSettles(i)
         \/ \E i \in DOMAIN calls : Succeeds(i)
<1>0. CallTypes
  BY DEF ConsoleTypes
<1>1. CASE UNCHANGED tabVars
  BY <1>1 DEF tabVars
<1>2. CASE OrdersUse
  BY <1>2, ShowMounts DEF OrdersUse, RequestOrderAction, Confirm, Dismiss, SelectOrder,
                          ResetOrderForm, TurnOrderPage, ToPage, SubmitOrder
<1>3. CASE ProductsUse
  BY <1>3, ShowMounts DEF ProductsUse, ChangeStatus, AskDetail, TurnCataloguePage,
                          ToCataloguePage, SubmitProduct
<1>4. CASE InventoryUse
  BY <1>4, ShowMounts DEF InventoryUse, SelectProduct, HandleLookupInventory,
                          HandleInitInventory, HandleAddInventory, MaintainRedis
<1>5. CASE ReportsUse
  BY <1>5, ShowMounts DEF ReportsUse, FilterLogs
<1>6. CASE \E p \in PagesOf(TRUE) : Open(p)
  <2>1. PICK p : Open(p)
    BY <1>6
  <2>2. PICK aged : cache' = Mount(cache, Watched(p, FreshUi), aged)
    BY <2>1 DEF Open, Watch
  <2>3. page' = p /\ ui' = FreshUi
    BY <2>1 DEF Open, Leave
  <2> QED BY <2>2, <2>3 DEF Mounts
<1>7. CASE Focus
  <2>1. cache' = Mount(cache, Watched(page, ui), Watched(page, ui)) /\ page' = page /\ ui' = ui
    BY <1>7 DEF Focus
  <2> QED BY <2>1 DEF Mounts
<1>8. CASE \E k \in DOMAIN cache : FetchEnds(k)
  BY <1>8
<1>9. CASE \E i \in DOMAIN calls : ServeCall(i)
  BY <1>9 DEF ServeCall
<1>10. ASSUME NEW i \in DOMAIN calls, CallEnds(i)
       PROVE  UNCHANGED cache \/ OrderActionSettles(i) \/ Succeeds(i)
  <2>1. CASE OrdersAnswer(i)
    BY <1>0, <2>1, SucceedSucceeds DEF OrdersAnswer, OrderCreated, OrderActed
  <2>2. CASE ProductsAnswer(i)
    BY <1>0, <2>2, SucceedSucceeds DEF ProductsAnswer, ProductCreated, StatusChanged,
                                       StatusSettles, DetailShown
  <2>3. CASE InventoryAnswer(i)
    BY <1>0, <2>3, SucceedSucceeds DEF InventoryAnswer, LookupShown, StockChanged, StockSettles,
                                       Rebuilt, Reconciled
  <2>4. CASE OnError(i) \/ Settle(i)
    BY <2>4 DEF OnError, Settle
  <2> QED BY <1>10, <2>1, <2>2, <2>3, <2>4 DEF CallEnds
<1> QED BY <1>1, <1>2, <1>3, <1>4, <1>5, <1>6, <1>7, <1>8, <1>9, <1>10 DEF Next, Use, Progress

LEMMA FetchEndsSees ==
  ASSUME ConsoleTypes, CacheSees, NEW k, FetchEnds(k)
  PROVE  Typed(cache') /\ KeepsSight(cache, cache')
<1>1. Typed(cache) /\ ShopTypes
  BY DEF ConsoleTypes, CacheTypes, Typed
<1>2. k \in DOMAIN cache /\ k \in QueryKeys /\ cache[k] \in QueryRecords /\ cache[k].fetch # Idle
      /\ cache[k].data <= Now /\ cache[k].fetch <= Now /\ Now \in Nat
  BY <1>1, ShopFacts DEF FetchEnds, Receive, FetchFails, Fetching, Typed
<1> DEFINE r == cache[k]
           s == cache'[k]
<1>3. SUFFICES /\ cache' = [cache EXCEPT ![k] = s]
               /\ s \in QueryRecords /\ s.data <= Now /\ s.fetch <= Now
               /\ \A at \in VersionsOf(k) : Covers(r, at) => Covers(s, at)
  <2> HIDE DEF s, r
  <2>1. ASSUME cache' = [cache EXCEPT ![k] = s],
               s \in QueryRecords, s.data <= Now, s.fetch <= Now,
               \A at \in VersionsOf(k) : Covers(r, at) => Covers(s, at)
        PROVE  Typed(cache') /\ KeepsSight(cache, cache')
    <3>1. DOMAIN cache' = DOMAIN cache /\ cache'[k] = s /\ \A q \in DOMAIN cache : q # k => cache'[q] = cache[q]
      BY <1>1, <1>2, <2>1 DEF Typed
    <3>2. cache' \in [DOMAIN cache' -> QueryRecords]
      BY <1>1, <1>2, <2>1 DEF Typed
    <3>3. \A q \in DOMAIN cache' : cache'[q].data <= Now /\ cache'[q].fetch <= Now
      BY <1>1, <2>1, <3>1 DEF Typed
    <3> QED BY <1>1, <2>1, <3>1, <3>2, <3>3 DEF Typed, KeepsSight, r
  <2> QED BY <2>1
<1>4. CASE Receive(k)
  <2>1. PICK v \in VersionsOf(k) :
          /\ v >= cache[k].fetch
          /\ cache' = [cache EXCEPT ![k] = [NoRecord EXCEPT !.data = v, !.valid = TRUE,
                                              !.old = cache[k].late /\ v < Max(VersionsOf(k))]]
    BY <1>4 DEF Receive
  <2> DEFINE old == cache[k].late /\ v < Max(VersionsOf(k))
             t == [NoRecord EXCEPT !.data = v, !.valid = TRUE, !.old = old]
  <2>2. v \in 1..Now /\ VersionsOf(k) \subseteq 1..Now /\ \A at \in VersionsOf(k) : at <= Max(VersionsOf(k))
        /\ Max(VersionsOf(k)) \in 1..Now
    BY <1>1, <1>2, Versions
  <2>0. old \in BOOLEAN
    BY DEF old
  <2> HIDE DEF old
  <2>3. /\ t.data = v /\ t.valid = TRUE /\ t.old = old
        /\ t.fetch = Idle /\ t.late = FALSE /\ t \in QueryRecords
    <3>1. PICK none \in QueryRecords : none = NoRecord /\ none.fetch = Idle /\ none.late = FALSE
      <4>1. NoRecord \in QueryRecords
        BY DEF NoRecord, QueryRecords, Idle
      <4>2. NoRecord.fetch = Idle /\ NoRecord.late = FALSE
        BY DEF NoRecord
      <4> QED BY <4>1, <4>2
    <3>2. v \in Nat
      BY <1>2, <2>2
    <3>3. t = [none EXCEPT !.data = v, !.valid = TRUE, !.old = old]
      BY <3>1
    <3> HIDE DEF t
    <3>4. /\ t \in QueryRecords /\ t.data = v /\ t.valid = TRUE /\ t.old = old
          /\ t.fetch = none.fetch /\ t.late = none.late
      BY <2>0, <3>2, <3>3 DEF QueryRecords
    <3> QED BY <3>1, <3>4
  <2> HIDE DEF t
  <2>7. r.late /\ ~ t.old => v >= Max(VersionsOf(k))
    <3>1. r.late /\ ~ old => ~ (v < Max(VersionsOf(k)))
      BY DEF old
    <3> QED BY <2>2, <2>3, <3>1
  <2>4. cache' = [cache EXCEPT ![k] = t] /\ s = t
    BY <1>1, <1>2, <2>1 DEF t, old, Typed
  <2>5. ASSUME NEW at \in VersionsOf(k), Covers(r, at) PROVE Covers(t, at)
    <3>1. CASE r.late
      <4>1. t.valid /\ ~ t.old => t.data >= at
        BY <2>2, <2>3, <2>7, <3>1
      <4> QED BY <2>3, <4>1 DEF Covers
    <3>2. CASE ~ r.late
      <4>1. r.fetch >= at
        BY <1>2, <2>5, <3>2 DEF Covers
      <4>2. v >= at
        BY <1>2, <2>1, <2>2, <4>1 DEF QueryRecords
      <4> QED BY <2>3, <4>2 DEF Covers
    <3> QED BY <3>1, <3>2
  <2>6. t.data <= Now /\ t.fetch <= Now
    BY <1>2, <2>2, <2>3 DEF Idle
  <2> QED BY <2>3, <2>4, <2>5, <2>6
<1>5. CASE FetchFails(k)
  <2> DEFINE t == [cache[k] EXCEPT !.fetch = Idle, !.late = FALSE]
  <2>1. cache' = [cache EXCEPT ![k] = t]
    BY <1>5 DEF FetchFails
  <2>2. t.data = r.data /\ t.valid = r.valid /\ t.old = r.old /\ t.fetch = Idle /\ t \in QueryRecords
    BY <1>2 DEF QueryRecords, Idle
  <2> HIDE DEF t
  <2>3. s = t
    BY <1>1, <1>2, <2>1 DEF Typed
  <2>4. \A at \in VersionsOf(k) : Covers(r, at) => Covers(t, at)
    BY <2>2 DEF Covers
  <2>5. t.data <= Now /\ t.fetch <= Now
    BY <1>2, <2>2 DEF Idle
  <2> QED BY <2>1, <2>2, <2>3, <2>4, <2>5
<1> QED BY <1>4, <1>5 DEF FetchEnds

LEMMA CacheNext ==
  ASSUME ConsoleTypes, CacheSees, OnlyOnward, PageInRange, [Next]_tabVars
  PROVE  CacheTypes' /\ CacheSees'
<1>1. CallsAndPage /\ ShopTypes' /\ OnlyOnward' /\ ShopGrows
  BY EveryStep
<1>2. /\ CallsAdvance /\ Announced /\ CallTypes /\ ShopTypes /\ Typed(cache)
      /\ PageTypes' /\ PageInRange'
  BY <1>1, PageTypesNext, PageInRangeNext DEF CallsAndPage, ConsoleTypes, CacheTypes, Typed
<1>3. Watched(page', ui') \subseteq QueryKeys
  BY <1>1, <1>2, WatchedNext
<1>4. SUFFICES /\ Typed(cache') /\ KeepsSight(cache, cache')
               /\ \A i \in DOMAIN calls : Succeeds(i) =>
                    \A k \in DOMAIN cache' \ Under({"operations"}) :
                      ListOf(k) \in Writes[calls[i].kind] =>
                        \A at \in VersionsOf(k) : Covers(cache'[k], at)
  BY <1>1, <1>2, SightKept
<1>5. CASE \E i \in DOMAIN calls : Succeeds(i)
  <2>1. ASSUME NEW i \in DOMAIN calls, Succeeds(i)
        PROVE  /\ Typed(cache') /\ KeepsSight(cache, cache')
               /\ \A k \in DOMAIN cache' \ Under({"operations"}) :
                    ListOf(k) \in Writes[calls[i].kind] =>
                      \A at \in VersionsOf(k) : Covers(cache'[k], at)
    <3>1. PICK u, lists, then :
            Succeed(i, u, lists, then) /\ Writes[calls[i].kind] \ {"operations"} \subseteq lists
      BY <1>2, <2>1 DEF Announced
    <3> DEFINE watched == Watched(page, ui)
               keys == Under(lists)
               c == Invalidate(cache, keys, watched)
               new == Watched(page, ui') \ watched
    <3>2. PICK aged : cache' = Mount(c, new, aged)
      BY <3>1 DEF Succeed, Watch
    <3>3. new \in SUBSET QueryKeys
      BY <1>3, <3>1 DEF Succeed
    <3>4. /\ Typed(c) /\ KeepsSight(cache, c) /\ DOMAIN c = DOMAIN cache
          /\ \A k \in DOMAIN c \intersect keys : \A at \in VersionsOf(k) : Covers(c[k], at)
      BY <1>2, InvalidateSees
    <3> HIDE DEF c, new, watched, keys
    <3>5. Typed(cache') /\ KeepsSight(c, cache')
      BY <1>2, <3>2, <3>3, <3>4, MountSees
    <3>6. KeepsSight(cache, cache')
      BY <3>4, <3>5 DEF KeepsSight
    <3>7. ASSUME NEW k \in DOMAIN cache' \ Under({"operations"}), ListOf(k) \in Writes[calls[i].kind],
                 NEW at \in VersionsOf(k)
          PROVE  Covers(cache'[k], at)
      <4>1. k \in QueryKeys
        BY <3>5 DEF Typed
      <4>2. ListOf(k) # "operations"
        BY <3>7, <4>1 DEF Under
      <4>3. k \in keys
        BY <3>1, <3>7, <4>1, <4>2 DEF keys, Under
      <4>4. k \in DOMAIN c => Covers(c[k], at)
        BY <3>4, <4>3
      <4> QED BY <3>5, <4>4 DEF KeepsSight
    <3> QED BY <3>5, <3>6, <3>7
  <2> QED BY <1>5, <2>1
<1>6. CASE UNCHANGED cache /\ ~ \E i \in DOMAIN calls : Succeeds(i)
  BY <1>2, <1>6 DEF KeepsSight
<1>7. CASE Mounts /\ ~ \E i \in DOMAIN calls : Succeeds(i)
  <2>1. PICK keys, aged : keys \subseteq Watched(page', ui') /\ cache' = Mount(cache, keys, aged)
    BY <1>7 DEF Mounts
  <2>2. keys \in SUBSET QueryKeys
    BY <1>3, <2>1
  <2> QED BY <1>2, <1>7, <2>1, <2>2, MountSees
<1>8. CASE (\E k : FetchEnds(k)) /\ ~ \E i \in DOMAIN calls : Succeeds(i)
  BY <1>8, FetchEndsSees
<1>9. CASE (\E i \in DOMAIN calls : OrderActionSettles(i)) /\ ~ \E i \in DOMAIN calls : Succeeds(i)
  <2>1. PICK keys, watched : cache' = Invalidate(cache, keys, watched)
    BY <1>9 DEF OrderActionSettles
  <2> QED BY <1>2, <1>9, <2>1, InvalidateSees
<1> QED BY <1>5, <1>6, <1>7, <1>8, <1>9, CacheSteps

-----------------------------------------------------------------------------
(* Orders and answers. *)
LEMMA RequestMoves ==
  ASSUME CallTypes, CallsAdvance, NEW i \in DOMAIN calls
  PROVE  /\ i \in DOMAIN calls' /\ i \in Nat \ {0}
         /\ calls'[i].kind = calls[i].kind /\ calls'[i].visit = calls[i].visit
         /\ calls'[i].with = calls[i].with
         /\ calls[i].kind \notin {"create", "newProduct"} => calls'[i].n = calls[i].n
         /\ i \in Unanswered' => i \in Unanswered
         /\ i \in Pending' => i \in Pending
         /\ i \in Succeeded => i \in Succeeded'
         /\ calls[i].stage \in {"settling", "closing", "over"} =>
              calls'[i].stage \in {"settling", "closing", "over"} /\ calls'[i].n = calls[i].n
         /\ calls[i].stage = "over" => calls'[i].stage = "over"
         /\ calls'[i].stage \in {"settling", "closing"} => calls[i].stage \in {"settling", "closing"} \/ Succeeds(i)
         /\ calls'[i].stage = "over" =>
              calls[i].stage \in {"settling", "closing", "over"} \/ Succeeds(i)
         /\ calls'[i].stage \in Served =>
              \/ calls[i].stage \in Served /\ calls'[i].at = calls[i].at
              \/ calls'[i].at = Len(shop')
<1> DEFINE c == calls[i]
           d == calls'[i]
<1>1. i \in DOMAIN calls' /\ Advances(c, d) /\ i \in Nat \ {0}
  BY CallFactsNext
<1>2. d.kind = c.kind /\ d.visit = c.visit /\ d.with = c.with
  BY <1>1 DEF Advances
<1>3. CASE Unchanged(c, d)
  BY <1>1, <1>2, <1>3 DEF Unchanged, Unanswered, Pending, Succeeded
<1>4. CASE IsServed(c, d)
  BY <1>1, <1>2, <1>4 DEF IsServed, Unanswered, Pending, Succeeded, Served
<1>5. CASE IsGivenUp(c, d)
  BY <1>1, <1>2, <1>5 DEF IsGivenUp, Unanswered, Pending, Succeeded, Served
<1>6. CASE HasSucceeded(c, d)
  BY <1>1, <1>2, <1>6 DEF HasSucceeded, Unanswered, Pending, Succeeded, Served, Succeeds
<1>7. CASE HasSettled(c, d)
  <2>1. c.stage \in {"settling", "closing"} /\ d.stage \in {"closing", "over"} /\ d.n = c.n /\ d.at = c.at
    BY <1>7 DEF HasSettled
  <2> QED BY <1>1, <1>2, <2>1 DEF Unanswered, Pending, Succeeded, Served
<1> QED BY <1>1, <1>3, <1>4, <1>5, <1>6, <1>7 DEF Advances

LEMMA WithEarlierNext ==
  ASSUME CallTypes, CallsAdvance, WithEarlier
  PROVE  WithEarlier'
<1>1. SUFFICES ASSUME NEW j \in DOMAIN calls'
               PROVE  /\ calls'[j].with \subseteq 1..j - 1
                      /\ \A i \in Unanswered' : i < j => i \in calls'[j].with
  BY DEF WithEarlier
<1>2. \A i \in Unanswered' : i \in DOMAIN calls' /\ (i \in DOMAIN calls => i \in Unanswered)
  BY RequestMoves DEF Unanswered
<1>3. CASE j \in DOMAIN calls
  <2>1. calls'[j].with = calls[j].with
    BY <1>3, RequestMoves
  <2>2. \A i \in Unanswered' : i < j => i \in DOMAIN calls
    BY <1>2, <1>3, CallFactsNext
  <2> QED BY <1>2, <1>3, <2>1, <2>2 DEF WithEarlier
<1>4. CASE j \notin DOMAIN calls
  <2>1. j = Len(calls) + 1 /\ New(calls'[j]) /\ Len(calls) \in Nat /\ DOMAIN calls = 1..Len(calls)
    BY <1>1, <1>4, CallFactsNext
  <2>2. calls'[j].with = Unanswered /\ Unanswered \subseteq 1..Len(calls) /\ j - 1 = Len(calls)
    BY <2>1 DEF New, Unanswered
  <2>3. \A i \in DOMAIN calls' : i < j => i \in DOMAIN calls
    BY <2>1, CallFactsNext
  <2> QED BY <1>2, <2>2, <2>3
<1> QED BY <1>3, <1>4

LEMMA InOrderNext ==
  ASSUME ConsoleTypes, ShopTypes', ShopGrows, CallsAdvance, WithEarlier, InOrder
  PROVE  InOrder'
<1>1. CallTypes /\ ShopTypes
  BY DEF ConsoleTypes
<1>2. SUFFICES ASSUME NEW i \in Succeeded', NEW j \in DOMAIN calls',
                      i < j, i \notin calls'[j].with, calls'[j].stage \in Served
               PROVE  calls'[j].at >= calls'[i].at
  BY DEF InOrder
<1>3. /\ i \in DOMAIN calls /\ (i \in Succeeded \/ Succeeds(i)) /\ calls[i].stage \in Served
      /\ calls'[i].at = calls[i].at
  BY <1>1, SucceededAre
<1>4. j \in DOMAIN calls
  BY <1>1, <1>2, CallFactsNext DEF New, Served
<1>5. calls'[j].with = calls[j].with
  BY <1>1, <1>4, RequestMoves
<1>6. i \in Succeeded
  <2>1. Succeeds(i) => i \in Unanswered
    BY <1>3 DEF Succeeds, Unanswered
  <2>2. i \notin Unanswered
    BY <1>2, <1>4, <1>5 DEF WithEarlier
  <2> QED BY <1>3, <2>1, <2>2
<1>7. calls[i].at \in 1..Now
  BY <1>1, <1>3 DEF CallTypes
<1>8. CASE calls[j].stage \in Served /\ calls'[j].at = calls[j].at
  BY <1>2, <1>3, <1>4, <1>5, <1>6, <1>8 DEF InOrder
<1>9. CASE calls'[j].at = Len(shop')
  <2>1. Now \in Nat /\ Now' \in Nat /\ Now <= Now' /\ calls'[j].at = Now'
    BY <1>1, <1>9, ShopFactsNext
  <2> QED BY <1>3, <1>7, <2>1
<1> QED BY <1>1, <1>2, <1>4, <1>8, <1>9, RequestMoves

LEMMA ReportOfCallNext ==
  ASSUME ConsoleTypes, CallsAndPage, WithEarlier, ReportOfCall
  PROVE  ReportOfCall'
<1>1. CallTypes /\ CallsAdvance
  BY DEF ConsoleTypes, CallsAndPage
<1>2. CASE LeavesPage
  BY <1>2 DEF LeavesPage, FreshUi, ReportOfCall
<1>3. CASE StaysOnPage
  <2>1. visit' = visit /\ page' = page /\ ReportMoves
    BY <1>3 DEF StaysOnPage
  <2>2. SUFFICES ASSUME page = "inventory", ui'.report # 0
                 PROVE  /\ ui'.report \in Succeeded' /\ calls'[ui'.report].visit = visit
                        /\ \A i \in Succeeded' :
                             calls'[i].visit = visit /\ calls'[i].kind = "rebuild" /\ i > ui'.report
                               => ui'.report \in calls'[i].with
    BY <2>1 DEF ReportOfCall, Here
  <2> DEFINE r == ui'.report
  <2>3. CASE r = ui.report
    <3>1. /\ r \in Succeeded /\ Here(r)
          /\ \A i \in Succeeded :
               Here(i) /\ calls[i].kind = "rebuild" /\ i > r => r \in calls[i].with
      BY <2>2, <2>3 DEF ReportOfCall
    <3>2. r \in DOMAIN calls
      BY <3>1 DEF Succeeded
    <3>3. r \in Succeeded' /\ calls'[r].visit = visit
      BY <1>1, <3>1, <3>2, RequestMoves DEF Here
    <3>4. ASSUME NEW i \in Succeeded', calls'[i].visit = visit, calls'[i].kind = "rebuild", i > r
          PROVE  r \in calls'[i].with
      <4>1. /\ i \in DOMAIN calls /\ (i \in Succeeded \/ Succeeds(i)) /\ calls[i].kind = "rebuild"
            /\ Here(i) /\ calls'[i].with = calls[i].with
        BY <1>1, <3>4, SucceededAre DEF Here
      <4>2. ~ Succeeds(i)
        BY <2>1, <2>2, <4>1 DEF ReportMoves
      <4> QED BY <3>1, <3>4, <4>1, <4>2
    <3> QED BY <3>3, <3>4
  <2>4. CASE r # ui.report
    <3>1. r \in DOMAIN calls /\ Succeeds(r) /\ Here(r)
      BY <2>1, <2>2, <2>4 DEF ReportMoves
    <3>2. r \in Unanswered /\ r \in DOMAIN calls' /\ calls'[r].stage \in {"settling", "over"}
          /\ calls'[r].visit = visit
      BY <1>1, <3>1, RequestMoves DEF Succeeds, Unanswered, Here
    <3>3. ASSUME NEW i \in Succeeded', i > r
          PROVE  r \in calls'[i].with
      <4>1. i \in DOMAIN calls /\ calls'[i].with = calls[i].with
        BY <1>1, SucceededAre
      <4>2. r < i
        BY <1>1, <3>1, <3>3, <4>1, CallFacts
      <4> QED BY <3>2, <4>1, <4>2 DEF WithEarlier
    <3> QED BY <3>2, <3>3 DEF Succeeded
  <2> QED BY <2>3, <2>4
<1> QED BY <1>2, <1>3 DEF CallsAndPage

LEMMA StockOfSelectionNext ==
  ASSUME ConsoleTypes, CallsAndPage, StockOfSelection
  PROVE  StockOfSelection'
<1>1. CallTypes /\ CallsAdvance
  BY DEF ConsoleTypes, CallsAndPage
<1>2. CASE LeavesPage
  <2>1. \A i \in DOMAIN calls' : calls'[i].visit # visit'
    <3>1. \A i \in DOMAIN calls : calls[i].visit <= visit /\ calls[i].visit \in Nat /\ visit \in Nat
      BY <1>1, CallFacts DEF ConsoleTypes, PageTypes, CallRecords
    <3>2. DOMAIN calls' = DOMAIN calls
      BY <1>1, <1>2, CallFactsNext DEF LeavesPage, Quiet
    <3>3. \A i \in DOMAIN calls : calls'[i].visit = calls[i].visit
      BY <1>1, RequestMoves
    <3>4. \A n \in Nat : n <= visit => n # visit'
      BY <1>2 DEF LeavesPage, ConsoleTypes, PageTypes
    <3> QED BY <3>1, <3>2, <3>3, <3>4
  <2>2. \A i \in Pending' : i \in DOMAIN calls'
    BY DEF Pending, Unanswered
  <2>3. ui'.shown = 0
    BY <1>2 DEF LeavesPage, FreshUi
  <2> QED BY <2>1, <2>2, <2>3 DEF StockOfSelection, Here
<1>3. CASE StaysOnPage /\ page # "inventory"
  BY <1>3 DEF StaysOnPage, StockOfSelection
<1>4. CASE StaysOnPage /\ page = "inventory"
  <2> DEFINE Of(n) == n \in {ui.selected} \union ui.crossed
             OfNext(n) == n \in {ui'.selected} \union ui'.crossed
  <2>1. visit' = visit /\ page' = page /\ CardMoves /\ StockMoves
    BY <1>4 DEF StaysOnPage
  <2>2. /\ \A i \in DOMAIN calls : StockPending(i) => Of(calls[i].n)
        /\ ui.shown # 0 => /\ ui.shown \in DOMAIN calls /\ Of(calls[ui.shown].n)
                           /\ calls[ui.shown].stage = "over"
    BY <1>4 DEF StockOfSelection, StockPending
  <2>3. SUFFICES /\ \A i \in Pending' : calls'[i].visit = visit /\ calls'[i].kind \in StockRequests
                                          => OfNext(calls'[i].n)
                 /\ ui'.shown # 0 => /\ ui'.shown \in DOMAIN calls' /\ OfNext(calls'[ui'.shown].n)
                                     /\ calls'[ui'.shown].stage = "over"
    BY <2>1 DEF StockOfSelection, Here, StockRequests
  <2>4. CASE ui'.selected = ui.selected /\ ui'.crossed = ui.crossed
    <3>1. \A n : Of(n) => OfNext(n)
      BY <2>4
    <3>2. ASSUME NEW i \in Pending', calls'[i].visit = visit, calls'[i].kind \in StockRequests
          PROVE  OfNext(calls'[i].n)
      <4>1. i \in DOMAIN calls'
        BY DEF Pending, Unanswered
      <4>2. CASE i \in DOMAIN calls
        <5>1. /\ calls'[i].kind = calls[i].kind /\ calls'[i].visit = calls[i].visit /\ i \in Pending
              /\ calls[i].kind \notin {"create", "newProduct"} => calls'[i].n = calls[i].n
          BY <1>1, <4>2, RequestMoves
        <5>2. StockPending(i) /\ calls'[i].n = calls[i].n
          BY <3>2, <5>1, KindsAre DEF StockPending, Here
        <5> QED BY <2>2, <3>1, <4>2, <5>2
      <4>3. CASE i \notin DOMAIN calls
        <5>1. i = Len(calls) + 1 /\ Len(calls') = Len(calls) + 1
          <6>1. i = Len(calls) + 1 /\ Len(calls) \in Nat /\ i \in 1..Len(calls')
                /\ Len(calls') \in {Len(calls), Len(calls) + 1}
            BY <1>1, <4>1, <4>3, CallFactsNext DEF CallsAdvance
          <6> QED BY <6>1
        <5>2. calls'[i].n = ui.selected \/ \E j \in DOMAIN calls : StockPending(j) /\ calls[j].n = calls'[i].n
          BY <2>1, <3>2, <5>1 DEF StockMoves
        <5> QED BY <2>2, <3>1, <5>2
      <4> QED BY <4>2, <4>3
    <3>3. ASSUME ui'.shown # 0
          PROVE  /\ ui'.shown \in DOMAIN calls' /\ OfNext(calls'[ui'.shown].n)
                 /\ calls'[ui'.shown].stage = "over"
      <4> DEFINE s == ui'.shown
      <4>1. CASE s = ui.shown
        <5>1. s \in DOMAIN calls /\ Of(calls[s].n) /\ calls[s].stage = "over"
          BY <2>2, <3>3, <4>1
        <5> HIDE DEF s
        <5>2. s \in DOMAIN calls' /\ calls'[s].n = calls[s].n /\ calls'[s].stage = "over"
          BY <1>1, <5>1, RequestMoves
        <5> QED BY <3>1, <5>1, <5>2 DEF s
      <4>2. CASE s # ui.shown
        <5>1. s \in DOMAIN calls /\ Succeeds(s) /\ Here(s) /\ Asked(calls[s].kind)
          BY <2>1, <3>3, <4>2 DEF CardMoves
        <5>2. calls'[s].stage = "over"
          BY <2>1, <5>1 DEF CardMoves
        <5>3. PageOf(calls[s].kind) = "inventory"
          BY <1>4, <5>1 DEF ConsoleTypes, PageTypes
        <5>4. calls[s].kind = "lookup"
          BY <5>1, <5>3, KindsAre DEF PageOf, Asked
        <5>5. StockPending(s)
          BY <5>1, <5>4, KindsAre DEF StockPending, Succeeds, Pending, Unanswered
        <5>6. s \in DOMAIN calls' /\ calls'[s].n = calls[s].n
          BY <1>1, <5>1, <5>4, RequestMoves
        <5> QED BY <2>2, <3>1, <5>1, <5>2, <5>5, <5>6
      <4> QED BY <4>1, <4>2
    <3> QED BY <3>2, <3>3
  <2>5. CASE ~ (ui'.selected = ui.selected /\ ui'.crossed = ui.crossed)
    <3>1. /\ calls' = calls /\ ui'.shown = 0
          /\ \A i \in DOMAIN calls : StockPending(i) => calls[i].n \in ui'.crossed
      BY <2>1, <2>5 DEF StockMoves
    <3>2. \A i \in Pending' : calls'[i].visit = visit /\ calls'[i].kind \in StockRequests
            => i \in DOMAIN calls /\ StockPending(i)
      BY <3>1 DEF Pending, Unanswered, StockPending, Here
    <3> QED BY <3>1, <3>2
  <2> QED BY <2>4, <2>5
<1> QED BY <1>2, <1>3, <1>4 DEF CallsAndPage

-----------------------------------------------------------------------------
(* The card of the request sent last. *)
HereAsked(i) == Here(i) /\ Asked(calls[i].kind)

(* A lookup is over once answered, and the last one is shown if it was     *)
(* asked for alone. *)
LastOfCard ==
  \A i \in DOMAIN calls : HereAsked(i) =>
    /\ calls[i].stage \notin {"settling", "closing"}
    /\ calls[i].stage = "over"
         /\ (\A j \in DOMAIN calls : HereAsked(j) => j <= i /\ j \notin calls[i].with)
         => ui.shown = i \/ (page = "inventory" /\ ui.shown = 0)

LEMMA LastOfCardNext ==
  ASSUME ConsoleTypes, CallsAndPage, WithEarlier, LastOfCard
  PROVE  LastOfCard'
<1>1. CallTypes /\ CallsAdvance
  BY DEF ConsoleTypes, CallsAndPage
<1>2. CASE LeavesPage
  <2>1. \A i \in DOMAIN calls : calls[i].visit <= visit /\ calls[i].visit \in Nat /\ visit \in Nat
    BY <1>1, CallFacts DEF ConsoleTypes, PageTypes, CallRecords
  <2>2. DOMAIN calls' = DOMAIN calls
    BY <1>1, <1>2, CallFactsNext DEF LeavesPage, Quiet
  <2>3. \A i \in DOMAIN calls : calls'[i].visit = calls[i].visit
    BY <1>1, RequestMoves
  <2>4. \A n \in Nat : n <= visit => n # visit'
    BY <1>2 DEF LeavesPage, ConsoleTypes, PageTypes
  <2>5. \A i \in DOMAIN calls' : calls'[i].visit # visit'
    BY <2>1, <2>2, <2>3, <2>4
  <2> QED BY <2>5 DEF LastOfCard, HereAsked, Here
<1>3. CASE StaysOnPage
  <2>1. visit' = visit /\ page' = page /\ CardMoves
    BY <1>3 DEF StaysOnPage
  <2>2. SUFFICES ASSUME NEW i \in DOMAIN calls', calls'[i].visit = visit, Asked(calls'[i].kind)
                 PROVE  /\ calls'[i].stage \notin {"settling", "closing"}
                        /\ calls'[i].stage = "over"
                             /\ (\A j \in DOMAIN calls' : calls'[j].visit = visit /\ Asked(calls'[j].kind)
                                    => j <= i /\ j \notin calls'[i].with)
                             => ui'.shown = i \/ (page = "inventory" /\ ui'.shown = 0)
    BY <2>1 DEF LastOfCard, HereAsked, Here, Asked
  <2>3. CASE i \notin DOMAIN calls
    BY <1>1, <2>3, CallFactsNext DEF New
  <2>4. CASE i \in DOMAIN calls
    <3>1. HereAsked(i) /\ calls'[i].with = calls[i].with
      BY <1>1, <2>2, <2>4, RequestMoves DEF HereAsked, Here
    <3>2. Succeeds(i) => ui'.shown = i /\ calls'[i].stage = "over"
      BY <2>1, <2>4, <3>1 DEF CardMoves, HereAsked
    <3>3. calls'[i].stage \notin {"settling", "closing"}
      BY <1>1, <2>4, <3>1, <3>2, RequestMoves DEF LastOfCard
    <3>4. ASSUME calls'[i].stage = "over", ~ Succeeds(i),
                 \A j \in DOMAIN calls' : calls'[j].visit = visit /\ Asked(calls'[j].kind)
                   => j <= i /\ j \notin calls'[i].with
          PROVE  ui'.shown = i \/ (page = "inventory" /\ ui'.shown = 0)
      <4>1. calls[i].stage = "over"
        BY <1>1, <2>4, <3>1, <3>4, RequestMoves DEF LastOfCard
      <4>2. \A j \in DOMAIN calls : HereAsked(j) => j <= i /\ j \notin calls[i].with
        BY <1>1, <3>1, <3>4, RequestMoves DEF HereAsked, Here
      <4>3. ui.shown = i \/ (page = "inventory" /\ ui.shown = 0)
        BY <2>4, <3>1, <4>1, <4>2 DEF LastOfCard
      <4>4. CASE ui'.shown \in DOMAIN calls /\ Succeeds(ui'.shown)
                 /\ Here(ui'.shown) /\ Asked(calls[ui'.shown].kind)
        <5> DEFINE j == ui'.shown
        <5>1. j \in Unanswered /\ j \in DOMAIN calls /\ j # i
          BY <3>4, <4>4 DEF Succeeds, Unanswered
        <5>2. j <= i /\ j \notin calls[i].with
          BY <4>2, <4>4 DEF HereAsked
        <5>3. j < i
          BY <1>1, <2>4, <5>1, <5>2, CallFacts
        <5> QED BY <2>4, <5>1, <5>2, <5>3 DEF WithEarlier
      <4> QED BY <2>1, <4>3, <4>4 DEF CardMoves
    <3> QED BY <3>2, <3>3, <3>4
  <2> QED BY <2>3, <2>4
<1> QED BY <1>2, <1>3 DEF CallsAndPage

(* Two actions on an order that overlap have one on another in between. *)
LEMMA RepeatNext ==
  ASSUME ConsoleTypes, CallsAdvance, WithEarlier, RepeatOnlyAfterAnother
  PROVE  RepeatOnlyAfterAnother'
<1>0. CallTypes
  BY DEF ConsoleTypes
<1>1. SUFFICES ASSUME NEW i \in DOMAIN calls', NEW j \in DOMAIN calls',
                      calls'[i].kind \in ActionHook, calls'[j].kind \in ActionHook,
                      i \in calls'[j].with, calls'[i].visit = calls'[j].visit,
                      calls'[i].n = calls'[j].n
               PROVE  \E m \in i..j : calls'[m].kind \in ActionHook /\ calls'[m].n # calls'[i].n
  BY DEF RepeatOnlyAfterAnother, ActionHook
<1>2. /\ Len(calls) \in Nat /\ DOMAIN calls = 1..Len(calls)
      /\ i \in Nat \ {0} /\ j \in Nat \ {0}
  BY <1>0, <1>1, CallFactsNext
<1>3. \A m \in DOMAIN calls : /\ calls'[m].kind = calls[m].kind /\ calls'[m].visit = calls[m].visit
                              /\ calls'[m].with = calls[m].with
                              /\ calls[m].kind \in ActionHook => calls'[m].n = calls[m].n
  BY <1>0, RequestMoves, KindsAre
(* Of two requests there were already. *)
<1>4. ASSUME NEW a \in DOMAIN calls, NEW b \in DOMAIN calls,
             calls[a].kind \in ActionHook, calls[b].kind \in ActionHook,
             a \in calls[b].with, calls[a].visit = calls[b].visit
      PROVE  \/ calls[a].n # calls[b].n
             \/ \E m \in a..b : calls'[m].kind \in ActionHook /\ calls'[m].n # calls[a].n
  <2>1. SUFFICES ASSUME calls[a].n = calls[b].n
                 PROVE  \E m \in a..b : calls'[m].kind \in ActionHook /\ calls'[m].n # calls[a].n
    OBVIOUS
  <2>2. PICK m \in a..b : calls[m].kind \in ActionHook /\ calls[m].n # calls[a].n
    BY <1>4, <2>1 DEF RepeatOnlyAfterAnother
  <2>3. m \in DOMAIN calls
    BY <1>2, <2>2
  <2> QED BY <1>3, <2>2, <2>3
<1>5. CASE j \in DOMAIN calls
  <2>1. i \in DOMAIN calls
    <3>1. i \in 1..j - 1
      BY <1>1, <1>3, <1>5 DEF WithEarlier
    <3> QED BY <1>2, <1>5, <3>1
  <2> QED BY <1>1, <1>3, <1>4, <1>5, <2>1
<1>6. CASE j \notin DOMAIN calls
  <2>1. New(calls'[j]) /\ j = Len(calls) + 1
    BY <1>0, <1>1, <1>6, CallFactsNext
  <2>2. i \in Unanswered /\ i \in DOMAIN calls /\ calls[i].visit = visit /\ calls[i].kind \in ActionHook
        /\ calls'[i].n = calls[i].n
    BY <1>1, <1>3, <2>1 DEF New, Unanswered
  <2> DEFINE A == {0} \union {m \in DOMAIN calls : Here(m) /\ calls[m].kind \in ActionHook}
             cur == Current(ActionHook)
  <2>3. cur \in A /\ \A m \in A : m <= cur
    <3>1. A \subseteq 0..Len(calls) /\ A # {}
      BY <1>2
    <3>2. cur = Max(A)
      BY DEF Current
    <3> HIDE DEF A
    <3> QED BY <1>2, <3>1, <3>2, GreatestIs
  <2>4. i \in A
    BY <2>2 DEF Here
  <2>5. /\ cur \in DOMAIN calls /\ i <= cur /\ cur < j
        /\ calls[cur].visit = visit /\ calls[cur].kind \in ActionHook
        /\ calls'[cur].kind \in ActionHook /\ calls'[cur].n = calls[cur].n
    <3>1. i <= cur
      BY <2>3, <2>4
    <3>2. cur # 0
      BY <1>2, <2>3, <3>1
    <3>3. cur \in DOMAIN calls /\ calls[cur].visit = visit /\ calls[cur].kind \in ActionHook
      BY <2>3, <3>2 DEF Here
    <3> QED BY <1>2, <1>3, <2>1, <3>1, <3>3
  <2> HIDE DEF cur, A
  <2>6. cur \in i..j
    BY <1>2, <2>5
  <2>7. CASE calls[cur].n # calls[i].n
    BY <2>2, <2>5, <2>6, <2>7
  <2>8. CASE calls[cur].n = calls[i].n
    <3>1. ~ IsPending(ActionHook)
      BY <1>1, <2>1, <2>2, <2>8 DEF New, cur
    <3>2. cur \notin Pending /\ i \in Pending
      BY <2>2, <3>1 DEF IsPending, Pending, cur
    <3>3. i < cur
      BY <1>2, <2>5, <3>2
    <3>4. i \in calls[cur].with
      BY <2>2, <2>5, <3>3 DEF WithEarlier
    <3>5. PICK m \in i..cur : calls'[m].kind \in ActionHook /\ calls'[m].n # calls[i].n
      BY <1>4, <2>2, <2>5, <2>8, <3>4
    <3>6. m \in i..j
      BY <1>2, <2>5, <3>5
    <3> QED BY <2>2, <3>5, <3>6
  <2> QED BY <2>7, <2>8
<1> QED BY <1>5, <1>6

-----------------------------------------------------------------------------
(* The invariant, and what it implies. *)
ConsoleInv ==
  /\ ConsoleTypes /\ CacheSees /\ WithEarlier /\ InOrder
  /\ ReportOfCall /\ StockOfSelection /\ LastOfCard
  /\ OnlyOnward /\ PageInRange /\ RepeatOnlyAfterAnother

LEMMA ConsoleInit ==
  ASSUME TabInit
  PROVE  ConsoleInv
<1>1. Start \in States /\ Start.lists = Lists
  BY StartRooms
<1>2. shop = <<Start>> /\ shop \in Seq(States) /\ Len(shop) = 1 /\ shop[1] = Start
  BY <1>1 DEF TabInit
<1>3. ShopTypes
  BY <1>1, <1>2 DEF ShopTypes
<1>4. OnlyOnward
  <2>1. NoGaps(Start.orders)
    BY ConsoleAssumption
  <2> QED BY <1>2, <2>1 DEF OnlyOnward, Onward, Now
<1>5. calls = <<>> /\ DOMAIN calls = {} /\ calls \in Seq(CallRecords)
  BY DEF TabInit
<1>6. FreshUi \in UiRecords /\ FreshUi.tab = 1 /\ FreshUi.selected = 0 /\ FreshUi.shown = 0
      /\ FreshUi.report = 0
  BY DEF FreshUi, UiRecords
<1>7. ui = FreshUi /\ visit \in Nat /\ page \in PagesOf(TRUE)
  BY ConsoleAssumption DEF TabInit
<1>8. PageTypes
  BY <1>5, <1>6, <1>7 DEF PageTypes
<1>9. Typed(cache)
  <2>1. DOMAIN <<>> = {} /\ <<>> \in [{} -> QueryRecords]
    OBVIOUS
  <2>2. Typed(<<>>)
    BY <2>1 DEF Typed
  <2>3. Watched(page, FreshUi) \in SUBSET QueryKeys
    <3>1. FreshUi.tab \in Nat \ {0} /\ FreshUi.selected \in Orders \union {0}
          /\ FreshUi.selected \in Products \union {0}
      BY <1>6 DEF UiRecords
    <3>2. page \in PagesOf(TRUE) \union {"error"}
      BY <1>7
    <3>3. Watched(page, FreshUi) \subseteq QueryKeys
      BY <1>6, <3>1, <3>2, WatchedKeys
    <3> QED BY <3>3
  <2> QED BY <1>3, <2>2, <2>3, MountSees DEF TabInit
<1>10. PageInRange
  BY <1>6, <1>7 DEF PageInRange
<1>11. CallTypes
  BY <1>5 DEF CallTypes
<1>12. Succeeded = {} /\ Pending = {} /\ Unanswered = {}
  BY <1>5 DEF Succeeded, Pending, Unanswered
<1>13. ConsoleTypes
  BY <1>3, <1>8, <1>9, <1>11 DEF ConsoleTypes, CacheTypes, Typed
<1>14. CacheSees /\ WithEarlier /\ InOrder /\ LastOfCard /\ RepeatOnlyAfterAnother
  BY <1>5, <1>12 DEF CacheSees, WithEarlier, InOrder, LastOfCard, RepeatOnlyAfterAnother
<1>15. ReportOfCall /\ StockOfSelection
  BY <1>6, <1>7, <1>12 DEF ReportOfCall, StockOfSelection
<1> QED BY <1>4, <1>10, <1>13, <1>14, <1>15 DEF ConsoleInv

LEMMA ConsoleStep ==
  ASSUME ConsoleInv, [Next]_tabVars
  PROVE  ConsoleInv'
<1>1. /\ ConsoleTypes /\ CallTypes /\ CacheSees /\ WithEarlier /\ InOrder
      /\ ReportOfCall /\ StockOfSelection /\ LastOfCard
      /\ OnlyOnward /\ PageInRange /\ RepeatOnlyAfterAnother
  BY DEF ConsoleInv, ConsoleTypes
<1>2. CallsAndPage /\ CallsAdvance /\ ShopTypes' /\ OnlyOnward' /\ ShopGrows
  BY <1>1, EveryStep DEF CallsAndPage
<1>3. CacheTypes' /\ CacheSees'
  BY <1>1, CacheNext
<1>4. ConsoleTypes'
  BY <1>1, <1>2, <1>3, CallTypesNext, PageTypesNext DEF ConsoleTypes
<1>5. PageInRange'
  BY <1>1, <1>2, PageInRangeNext
<1>6. WithEarlier' /\ InOrder'
  BY <1>1, <1>2, WithEarlierNext, InOrderNext
<1>7. ReportOfCall' /\ StockOfSelection' /\ LastOfCard'
  BY <1>1, <1>2, ReportOfCallNext, StockOfSelectionNext, LastOfCardNext
<1>8. RepeatOnlyAfterAnother'
  BY <1>1, <1>2, RepeatNext
<1> QED BY <1>2, <1>3, <1>4, <1>5, <1>6, <1>7, <1>8 DEF ConsoleInv

(* What requests know of one another, of the cache and of the page holds   *)
(* in every state. *)
THEOREM ConsoleInvHolds == Spec => []ConsoleInv
<1>1. TabInit => ConsoleInv
  BY ConsoleInit
<1>2. ConsoleInv /\ [Next]_tabVars => ConsoleInv'
  BY ConsoleStep
<1> QED BY <1>1, <1>2, PTL DEF Spec

(* A list that passes for valid includes every acknowledged write to it,   *)
(* unless its fetch was overtaken and not started again. *)
THEOREM ReadYourWritesHolds == Spec => []ReadYourWrites
<1>1. ConsoleInv => ReadYourWrites
  <2> SUFFICES ASSUME ConsoleInv,
                      NEW k \in DOMAIN cache \ Under({"operations"}), NEW i \in Succeeded,
                      ListOf(k) \in Writes[calls[i].kind],
                      cache[k].valid, ~ cache[k].old
               PROVE  cache[k].data >= calls[i].at
    BY DEF ReadYourWrites
  <2>1. Covers(cache[k], calls[i].at)
    BY DEF ConsoleInv, CacheSees
  <2> QED BY <2>1 DEF Covers
<1> QED BY <1>1, ConsoleInvHolds, PTL

(* The card shows the product asked for last. *)
THEOREM LastAskedHolds == Spec => []LastAskedIsShown
<1>1. ConsoleInv => LastAskedIsShown
  <2> DEFINE asked == {i \in DOMAIN calls : Here(i) /\ calls[i].kind \in {"detail", "lookup"}}
             last == Max(asked)
  <2> SUFFICES ASSUME ConsoleInv, asked # {}, calls[last].stage = "over",
                      calls[last].with \intersect asked = {}
               PROVE  ui.shown = last \/ (page = "inventory" /\ ui.shown = 0)
    BY DEF LastAskedIsShown
  <2>1. Len(calls) \in Nat /\ DOMAIN calls = 1..Len(calls)
    BY CallFacts DEF ConsoleInv, ConsoleTypes
  <2>2. asked \subseteq 0..Len(calls)
    BY <2>1
  <2>3. last \in asked /\ \A j \in asked : j <= last
    <3> HIDE DEF asked
    <3> QED BY <2>1, <2>2, GreatestIs
  <2> HIDE DEF last
  <2>4. \A j \in DOMAIN calls : HereAsked(j) => j <= last /\ j \notin calls[last].with
    BY <2>3 DEF HereAsked, Asked
  <2>5. last \in DOMAIN calls /\ HereAsked(last) /\ calls[last].stage = "over"
    BY <2>3 DEF HereAsked, Asked
  <2> QED BY <2>4, <2>5 DEF ConsoleInv, LastOfCard
<1> QED BY <1>1, ConsoleInvHolds, PTL

(* The inventory card shows the selected product. *)
THEOREM InventoryOfSelectionHolds == Spec => []InventoryOfSelection
<1>1. ConsoleInv => InventoryOfSelection
  BY DEF ConsoleInv, StockOfSelection, InventoryOfSelection
<1> QED BY <1>1, ConsoleInvHolds, PTL

(* A report from before a rebuild is not shown after it. *)
THEOREM ReportNotFromBeforeHolds == Spec => []ReportNotFromBefore
<1>1. ConsoleInv => ReportNotFromBefore
  <2> SUFFICES ASSUME ConsoleInv, page = "inventory", ui.report # 0,
                      NEW i \in Succeeded, Here(i), calls[i].kind = "rebuild"
               PROVE  \/ calls[ui.report].at >= calls[i].at
                      \/ i \in calls[ui.report].with \/ ui.report \in calls[i].with
    BY DEF ReportNotFromBefore
  <2> DEFINE r == ui.report
  <2>1. /\ r \in Succeeded
        /\ i > r => r \in calls[i].with
    BY DEF ConsoleInv, ReportOfCall
  <2>2. /\ r \in DOMAIN calls /\ i \in DOMAIN calls /\ calls[r].stage \in Served
        /\ r \in Nat /\ i \in Nat
    BY <2>1, CallFacts DEF ConsoleInv, ConsoleTypes, Succeeded, Served
  <2>3. i < r => i \in calls[r].with \/ calls[r].at >= calls[i].at
    BY <2>2 DEF ConsoleInv, InOrder
  <2>4. calls[r].at \in Nat
    BY <2>2, CallFacts DEF ConsoleInv, ConsoleTypes, CallRecords
  <2>5. i = r => calls[r].at >= calls[i].at
    BY <2>4
  <2> HIDE DEF r
  <2>6. i > r \/ i < r \/ i = r
    BY <2>2
  <2> QED BY <2>1, <2>3, <2>5, <2>6 DEF r
<1> QED BY <1>1, ConsoleInvHolds, PTL

(* The page number of a list stays in its range. *)
THEOREM PageInRangeHolds == Spec => []PageInRange
<1>1. ConsoleInv => PageInRange
  BY DEF ConsoleInv
<1> QED BY <1>1, ConsoleInvHolds, PTL

(* An order is acted on again only if another one was in between. *)
THEOREM RepeatOnlyAfterAnotherHolds == Spec => []RepeatOnlyAfterAnother
<1>1. ConsoleInv => RepeatOnlyAfterAnother
  BY DEF ConsoleInv
<1> QED BY <1>1, ConsoleInvHolds, PTL

-----------------------------------------------------------------------------
(* The dashboard.  Data that pass for valid include a write that was       *)
(* acknowledged, and what it wrote there. *)
LEMMA Included ==
  ASSUME ConsoleInv, NEW k \in DOMAIN cache, ListOf(k) \in {"orders", "products", "logs"},
         cache[k].valid, ~ cache[k].old,
         NEW i \in Succeeded, ListOf(k) \in Writes[calls[i].kind]
  PROVE  /\ Data(k) \in 1..Now /\ Data(k) # 0 /\ shop[Data(k)] \in States
         /\ calls[i].at \in 2..Data(k) /\ calls[i].at \in 1..Now
         /\ Wrote(calls[i], shop) /\ calls[i].kind \in Kinds
<1>1. /\ ShopTypes /\ CacheTypes /\ CallTypes /\ CacheSees
  BY DEF ConsoleInv, ConsoleTypes
<1>2. i \in DOMAIN calls /\ calls[i].stage \in Served
  BY DEF Succeeded, Served
<1>3. calls[i].at \in 1..Now /\ Wrote(calls[i], shop) /\ calls[i].kind \in Kinds
  BY <1>1, <1>2, CallFacts DEF CallTypes, CallRecords
<1>4. calls[i].at > 1
  BY <1>3 DEF Wrote
<1>5. k \notin Under({"operations"})
  BY DEF Under
<1>6. Covers(cache[k], calls[i].at)
  BY <1>1, <1>5 DEF CacheSees
<1>7. Data(k) >= calls[i].at
  BY <1>6 DEF Covers, Data
<1>8. Data(k) \in 0..Now /\ Now \in Nat
  BY <1>1, DataFacts, ShopFacts
<1>9. Data(k) \in 1..Now /\ Data(k) # 0 /\ calls[i].at \in 2..Data(k)
  BY <1>3, <1>4, <1>7, <1>8
<1> QED BY <1>1, <1>3, <1>9, ShopFacts

LEMMA DashboardShows ==
  ASSUME Data(<<"recent", 0>>) # 0
  PROVE  LET v == Data(<<"recent", 0>>)
         IN /\ Dashboard.paid = PaidOrders(v)
            /\ Dashboard.pending = PendingOrders(v)
            /\ Dashboard.recent = RecentOrders(v)
BY DEF Dashboard

LEMMA DashboardShowsAdmin ==
  ASSUME IsAdmin
  PROVE  /\ Data(<<"offSale", 0>>) # 0 =>
              Dashboard.offSale = {p \in Products : shop[Data(<<"offSale", 0>>)].products[p] = "off"}
         /\ Data(<<"logs", 0>>) # 0 => Dashboard.logs = RecentLogs(Data(<<"logs", 0>>))
BY DEF Dashboard

(* An order written before is among the newest but for those after it. *)
LEMMA NewestHas ==
  ASSUME NEW s \in States, NoGaps(s.orders), NEW o \in Orders, s.orders[o] # "none",
         NEW m \in Nat, o > Existing(s.orders) - m
  PROVE  o \in Newest(s.orders, m)
<1>1. s.orders \in Seq(OrderStatuses) /\ o \in DOMAIN s.orders /\ o \in Nat \ {0}
      /\ Existing(s.orders) \in Nat
  BY Tables, StartRooms DEF States
<1>2. o <= Existing(s.orders)
  BY <1>1, Filled
<1> QED BY <1>1, <1>2 DEF Newest

LEMMA DashboardOrders ==
  ASSUME ConsoleInv, <<"recent", 0>> \in DOMAIN cache,
         cache[<<"recent", 0>>].valid, ~ cache[<<"recent", 0>>].old,
         NEW i \in Succeeded, calls[i].kind \in {"create"} \union ActionHook,
         NEW m \in Nat, calls[i].n > Existing(shop[Data(<<"recent", 0>>)].orders) - m
  PROVE  LET v == Data(<<"recent", 0>>)
             n == calls[i].n
         IN /\ v # 0 /\ n \in Newest(shop[v].orders, m)
            /\ calls[i].kind \in {"pay", "finish"} => shop[v].orders[n] \in {"paid", "finished"}
            /\ calls[i].kind = "cancel" => shop[v].orders[n] = "cancelled"
<1> DEFINE k == <<"recent", 0>>
           v == Data(k)
           n == calls[i].n
           at == calls[i].at
<1>1. ListOf(k) = "orders" /\ "orders" \in Writes[calls[i].kind]
  <2>1. k[1] = "recent"
    OBVIOUS
  <2> HIDE DEF k
  <2> QED BY <2>1, KindsAre DEF ListOf, Writes
<1>2. k \in DOMAIN cache /\ cache[k].valid /\ ~ cache[k].old
  OBVIOUS
<1> HIDE DEF k
<1>3. /\ v \in 1..Now /\ v # 0 /\ shop[v] \in States /\ at \in 2..v /\ at \in 1..Now
      /\ Wrote(calls[i], shop)
  BY <1>1, <1>2, Included
<1>4. n \in Orders /\ shop[at].orders[n] = Becomes[calls[i].kind]
  BY <1>1, <1>3 DEF Wrote
<1>5. at <= v
  BY <1>3
<1>6. Onward(shop[at].orders[n], shop[v].orders[n]) /\ NoGaps(shop[v].orders)
  BY <1>3, <1>4, <1>5 DEF ConsoleInv, OnlyOnward
<1>7. /\ Becomes[calls[i].kind] # "none"
      /\ calls[i].kind = "pay" => Becomes[calls[i].kind] = "paid"
      /\ calls[i].kind = "finish" => Becomes[calls[i].kind] = "finished"
      /\ calls[i].kind = "cancel" => Becomes[calls[i].kind] = "cancelled"
  BY KindsAre DEF Becomes
<1>8. /\ shop[v].orders[n] # "none"
      /\ calls[i].kind \in {"pay", "finish"} => shop[v].orders[n] \in {"paid", "finished"}
      /\ calls[i].kind = "cancel" => shop[v].orders[n] = "cancelled"
  BY <1>4, <1>6, <1>7 DEF Onward
<1>9. n > Existing(shop[v].orders) - m
  BY DEF k
<1>10. n \in Newest(shop[v].orders, m)
  BY <1>3, <1>4, <1>6, <1>8, <1>9, NewestHas
<1> QED BY <1>3, <1>8, <1>10 DEF k

(* The dashboard counts and lists what was done in this tab. *)
THEOREM DashboardCountsWritesHolds == Spec => []DashboardCountsWrites
<1>1. ConsoleInv => DashboardCountsWrites
  <2> DEFINE r == <<"recent", 0>>
             f == <<"offSale", 0>>
             l == <<"logs", 0>>
             Fresh(k) == k \in DOMAIN cache /\ cache[k].valid /\ ~ cache[k].old
             Among(i, m) == calls[i].n > Existing(shop[Data(r)].orders) - m
             Listed(o) == {row.status : row \in {x \in Dashboard.recent : x.id = o}}
  <2> SUFFICES ASSUME ConsoleInv, NEW i \in Succeeded
               PROVE  /\ Fresh(r) =>
                           /\ calls[i].kind \in {"pay", "finish"} /\ Among(i, dashboardOrderPageSize)
                                => calls[i].n \in Dashboard.paid \ Dashboard.pending
                           /\ calls[i].kind = "create" /\ Among(i, 5) => Listed(calls[i].n) # {}
                           /\ calls[i].kind = "cancel" /\ Among(i, 5) => Listed(calls[i].n) = {"cancelled"}
                      /\ IsAdmin /\ Fresh(f) /\ calls[i].kind \in {"newProduct", "offSale"}
                           => \/ calls[i].n \in Dashboard.offSale
                              \/ \E v \in calls[i].at .. Data(f) : shop[v].products[calls[i].n] = "on"
                      /\ IsAdmin /\ Fresh(l) /\ "logs" \in Writes[calls[i].kind]
                           => \/ calls[i].at \in Dashboard.logs
                              \/ Cardinality({w \in LogWrites(Data(l)) : w > calls[i].at}) >= 6
    BY DEF DashboardCountsWrites
  <2>1. ASSUME Fresh(r), calls[i].kind \in {"pay", "finish"}, Among(i, dashboardOrderPageSize)
        PROVE  calls[i].n \in Dashboard.paid \ Dashboard.pending
    <3>1. /\ Data(r) # 0 /\ calls[i].n \in Newest(shop[Data(r)].orders, dashboardOrderPageSize)
          /\ shop[Data(r)].orders[calls[i].n] \in {"paid", "finished"}
      <4>1. dashboardOrderPageSize \in Nat
        BY DEF dashboardOrderPageSize
      <4> QED BY <2>1, <4>1, DashboardOrders, KindsAre
    <3> QED BY <3>1, DashboardShows DEF PaidOrders, PendingOrders
  <2>2. ASSUME Fresh(r), calls[i].kind \in {"create", "cancel"}, Among(i, 5)
        PROVE  /\ Listed(calls[i].n) # {}
               /\ calls[i].kind = "cancel" => Listed(calls[i].n) = {"cancelled"}
    <3> DEFINE n == calls[i].n
               v == Data(r)
               row == [id |-> n, status |-> shop[v].orders[n]]
    <3>1. /\ v # 0 /\ n \in Newest(shop[v].orders, 5)
          /\ calls[i].kind = "cancel" => shop[v].orders[n] = "cancelled"
      BY <2>2, DashboardOrders, KindsAre
    <3>2. Dashboard.recent = RecentOrders(v)
      BY <3>1, DashboardShows
    <3>3. row \in RecentOrders(v) /\ \A x \in RecentOrders(v) : x.id = n => x.status = row.status
      BY <3>1 DEF RecentOrders
    <3>4. row.id = n /\ row.status = shop[v].orders[n]
      OBVIOUS
    <3> HIDE DEF row
    <3>5. row \in {x \in Dashboard.recent : x.id = n}
      BY <3>2, <3>3, <3>4
    <3>6. Listed(n) = {row.status}
      BY <3>2, <3>3, <3>5
    <3> QED BY <3>1, <3>4, <3>6
  <2>3. ASSUME IsAdmin, Fresh(f), calls[i].kind \in {"newProduct", "offSale"}
        PROVE  \/ calls[i].n \in Dashboard.offSale
               \/ \E v \in calls[i].at .. Data(f) : shop[v].products[calls[i].n] = "on"
    <3> DEFINE n == calls[i].n
               v == Data(f)
               at == calls[i].at
    <3>1. ListOf(f) = "products" /\ "products" \in Writes[calls[i].kind] /\ Becomes[calls[i].kind] = "off"
      <4>1. f[1] = "offSale"
        OBVIOUS
      <4> HIDE DEF f
      <4> QED BY <2>3, <4>1 DEF ListOf, Writes, Becomes
    <3> HIDE DEF f
    <3>2. /\ v \in 1..Now /\ v # 0 /\ shop[v] \in States /\ at \in 2..v /\ at \in 1..Now
          /\ Wrote(calls[i], shop)
      BY <2>3, <3>1, Included
    <3>3. n \in Products /\ shop[at].products[n] = "off" /\ at <= v
      BY <3>1, <3>2 DEF Wrote
    <3>4. shop[v].products[n] # "none"
      BY <3>2, <3>3 DEF ConsoleInv, OnlyOnward
    <3>5. shop[v].products[n] \in {"on", "off"}
      BY <3>2, <3>3, <3>4 DEF States, ProductStatuses
    <3>6. v \in at .. v
      BY <3>2
    <3>7. Dashboard.offSale = {p \in Products : shop[v].products[p] = "off"}
      BY <2>3, <3>2, DashboardShowsAdmin DEF f
    <3> QED BY <3>3, <3>5, <3>6, <3>7
  <2>4. ASSUME IsAdmin, Fresh(l), "logs" \in Writes[calls[i].kind]
        PROVE  \/ calls[i].at \in Dashboard.logs
               \/ Cardinality({w \in LogWrites(Data(l)) : w > calls[i].at}) >= 6
    <3> DEFINE v == Data(l)
               at == calls[i].at
               later == {w \in LogWrites(v) : w > at}
    <3>1. ListOf(l) = "logs"
      <4>1. l[1] = "logs"
        OBVIOUS
      <4> HIDE DEF l
      <4> QED BY <4>1 DEF ListOf
    <3> HIDE DEF l
    <3>2. /\ v \in 1..Now /\ v # 0 /\ at \in 2..v /\ Wrote(calls[i], shop)
      BY <2>4, <3>1, Included
    <3>3. shop[at].lists = Writes[calls[i].kind]
      BY <2>4, <3>2 DEF Wrote
    <3>4. at \in LogWrites(v)
      BY <2>4, <3>2, <3>3 DEF LogWrites
    <3>5. Dashboard.logs = RecentLogs(v)
      BY <2>4, <3>2, DashboardShowsAdmin DEF l
    <3>6. Cardinality(later) \in Nat
      <4>1. later \subseteq 1..v
        BY <3>2 DEF LogWrites
      <4>2. v \in Nat
        BY <3>2
      <4> QED BY <4>1, <4>2, UpTo, FS_Subset, FS_CardinalityType
    <3>7. Cardinality(later) < 6 => at \in RecentLogs(v)
      BY <3>4 DEF RecentLogs
    <3> HIDE DEF later
    <3>8. at \in Dashboard.logs \/ Cardinality(later) >= 6
      BY <3>5, <3>6, <3>7
    <3> QED BY <3>8 DEF later
  <2> HIDE DEF Listed, Among, Fresh
  <2> QED BY <2>1, <2>2, <2>3, <2>4
<1> QED BY <1>1, ConsoleInvHolds, PTL
=============================================================================
