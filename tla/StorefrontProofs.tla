-------------------------- MODULE StorefrontProofs --------------------------
(***************************************************************************)
(* The details of a product are stale only by a race, and a round of       *)
(* clicks carries one key, for any number of readers, writers, changes,    *)
(* failures, payloads and submissions.                                     *)
(***************************************************************************)
EXTENDS Storefront, SequenceTheorems, TLAPS

-----------------------------------------------------------------------------
(* The cache. *)
CacheTypes ==
  /\ product \in SaleStatuses \union {"absent"}
  /\ entry \in SaleStatuses \union {"null", "none"}
  /\ reader \in [Readers -> [op : {"idle", "load"}]
                              \union [op : {"store"}, found : SaleStatuses \union {"absent"}]]
  /\ writer \in [Writers -> [op : {"idle", "delete"}] \union [op : {"update"}, to : SaleStatuses]]
  /\ losses \in Nat
  /\ raced \in BOOLEAN

(* Without a race and a failure, what is about to be stored is the row,    *)
(* or that there was none; and what is stored is the row, unless it is     *)
(* about to be deleted. *)
ReadsCurrent == \A r \in Readers :
  reader[r].op = "store" => reader[r].found \in {"absent", product}

EntryCurrent ==
  \/ entry \in {"none", "null", product}
  \/ \E w \in Writers : writer[w].op = "delete"

CacheInv == CacheTypes /\ (~ raced /\ losses = 0 => ReadsCurrent /\ EntryCurrent)

LEMMA ReaderStep ==
  ASSUME CacheInv, NEW r \in Readers, Read(r)
  PROVE  CacheInv'
<1> DEFINE R == [op : {"idle", "load"}] \union [op : {"store"}, found : SaleStatuses \union {"absent"}]
<1>1. reader \in [Readers -> R] /\ losses \in Nat /\ product \in SaleStatuses \union {"absent"}
  BY DEF CacheInv, CacheTypes
<1>2. UNCHANGED <<product, writer, raced>> /\ losses' \in {losses, losses + 1}
  BY DEF Read, MissProductDetail, LoadProduct, SetProductDetail, Loses
<1>3. CASE MissProductDetail(r)
  <2>1. reader' = [reader EXCEPT ![r] = [op |-> "load"]] /\ [op |-> "load"] \in R /\ entry' = entry
    BY <1>3 DEF MissProductDetail
  <2> HIDE DEF R
  <2>2. reader' \in [Readers -> R] /\ reader'[r].op = "load"
        /\ \A q \in Readers : q # r => reader'[q] = reader[q]
    BY <1>1, <2>1
  <2> QED BY <1>1, <1>2, <2>1, <2>2 DEF CacheInv, CacheTypes, ReadsCurrent, EntryCurrent, R
<1>4. CASE LoadProduct(r)
  <2>1. PICK c \in {[op |-> "store", found |-> product], Idle} : reader' = [reader EXCEPT ![r] = c]
    BY <1>4 DEF LoadProduct
  <2>2. c \in R /\ (c.op = "store" => c.found = product)
    BY <1>1, <2>1 DEF Idle
  <2>3. entry' = entry
    BY <1>4 DEF LoadProduct
  <2> HIDE DEF R
  <2>4. reader' \in [Readers -> R] /\ reader'[r] = c
        /\ \A q \in Readers : q # r => reader'[q] = reader[q]
    BY <1>1, <2>1, <2>2
  <2> QED BY <1>1, <1>2, <2>2, <2>3, <2>4 DEF CacheInv, CacheTypes, ReadsCurrent, EntryCurrent, R
<1>5. CASE SetProductDetail(r)
  <2>1. reader' = [reader EXCEPT ![r] = Idle] /\ Idle \in R /\ Idle.op = "idle"
    BY <1>5 DEF SetProductDetail, Idle
  <2>2. reader[r].op = "store" /\ reader[r].found \in SaleStatuses \union {"absent"}
    BY <1>1, <1>5 DEF SetProductDetail
  <2>3. entry' \in {entry, Stored(reader[r].found)} /\ (losses' = losses => entry' = Stored(reader[r].found))
    BY <1>1, <1>5 DEF SetProductDetail, Loses
  <2> HIDE DEF R
  <2>4. reader' \in [Readers -> R] /\ reader'[r] = Idle
        /\ \A q \in Readers : q # r => reader'[q] = reader[q]
    BY <1>1, <2>1
  <2>5. CacheTypes'
    BY <1>1, <1>2, <2>2, <2>3, <2>4 DEF CacheInv, CacheTypes, R, Stored
  <2>6. ASSUME ~ raced', losses' = 0 PROVE ReadsCurrent' /\ EntryCurrent'
    <3>1. ~ raced /\ losses = 0 /\ losses' = losses
      BY <1>1, <1>2, <2>6
    <3>2. ReadsCurrent'
      BY <1>2, <2>1, <2>4, <3>1 DEF CacheInv, ReadsCurrent
    <3>3. entry' \in {"null", product}
      BY <2>2, <2>3, <3>1 DEF CacheInv, ReadsCurrent, Stored
    <3> QED BY <1>2, <3>2, <3>3 DEF EntryCurrent
  <2> QED BY <2>5, <2>6 DEF CacheInv
<1> QED BY <1>3, <1>4, <1>5 DEF Read

LEMMA WriterStep ==
  ASSUME CacheInv, NEW w \in Writers, (\E to \in SaleStatuses : BeginChange(w, to)) \/ Finish(w)
  PROVE  CacheInv'
<1> DEFINE W == [op : {"idle", "delete"}] \union [op : {"update"}, to : SaleStatuses]
<1>1. writer \in [Writers -> W] /\ losses \in Nat /\ raced \in BOOLEAN
  BY DEF CacheInv, CacheTypes
<1>2. Idle \in W /\ Idle.op = "idle" /\ [op |-> "delete"] \in W
  BY DEF Idle
<1>3. reader' = reader /\ losses' \in {losses, losses + 1}
  BY DEF BeginChange, Finish, UpdateProductStatus, UpdateFails, DeleteProductDetailCache, Loses
<1>4. CASE \E to \in SaleStatuses : BeginChange(w, to)
  <2>1. PICK to \in SaleStatuses : BeginChange(w, to)
    BY <1>4
  <2>2. /\ writer[w] = Idle /\ writer' = [writer EXCEPT ![w] = [op |-> "update", to |-> to]]
        /\ [op |-> "update", to |-> to] \in W
        /\ UNCHANGED <<product, entry, losses, raced>>
    BY <2>1 DEF BeginChange
  <2> HIDE DEF W
  <2>3. writer' \in [Writers -> W] /\ \A v \in Writers : v # w => writer'[v] = writer[v]
    BY <1>1, <2>2
  <2>4. \A v \in Writers : writer[v].op = "delete" => writer'[v].op = "delete"
    BY <1>2, <2>2, <2>3
  <2> QED BY <1>3, <2>2, <2>3, <2>4 DEF CacheInv, CacheTypes, ReadsCurrent, EntryCurrent, W
<1>5. CASE UpdateProductStatus(w)
  <2>1. writer[w].to \in SaleStatuses
    BY <1>1, <1>5 DEF UpdateProductStatus
  <2>2. /\ product' = writer[w].to /\ UNCHANGED <<entry, losses>>
        /\ raced' = (raced \/ \E r \in Readers : reader[r].op = "store")
        /\ writer' = [writer EXCEPT ![w] = [op |-> "delete"]]
    BY <1>5 DEF UpdateProductStatus, Changes
  <2> HIDE DEF W
  <2>3. writer' \in [Writers -> W] /\ writer'[w].op = "delete"
    BY <1>1, <1>2, <2>2
  <2>4. raced' \in BOOLEAN
    BY <1>1, <2>2
  <2>5. CacheTypes'
    BY <1>3, <2>1, <2>2, <2>3, <2>4 DEF CacheInv, CacheTypes, W
  <2>6. ~ raced' => ReadsCurrent'
    BY <1>3, <2>2 DEF ReadsCurrent
  <2>7. EntryCurrent'
    BY <2>3 DEF EntryCurrent
  <2> QED BY <2>5, <2>6, <2>7 DEF CacheInv
<1>6. CASE UpdateFails(w)
  <2>1. writer[w].to \in SaleStatuses
    BY <1>1, <1>6 DEF UpdateFails
  <2>2. /\ product' \in {product, writer[w].to} /\ UNCHANGED entry /\ losses' = losses + 1
        /\ writer' = [writer EXCEPT ![w] = Idle]
    BY <1>6 DEF UpdateFails, Changes, Loses
  <2>3. raced' \in BOOLEAN
    BY <1>1, <1>6 DEF UpdateFails, Changes
  <2> HIDE DEF W
  <2>4. writer' \in [Writers -> W]
    BY <1>1, <1>2, <2>2
  <2>5. CacheTypes' /\ losses' # 0
    BY <1>1, <1>3, <2>1, <2>2, <2>3, <2>4 DEF CacheInv, CacheTypes, W
  <2> QED BY <2>5 DEF CacheInv
<1>7. CASE DeleteProductDetailCache(w)
  <2>1. /\ UNCHANGED <<product, raced>> /\ entry' \in {entry, "none"}
        /\ losses' = losses => entry' = "none"
        /\ writer' = [writer EXCEPT ![w] = Idle]
    BY <1>1, <1>7 DEF DeleteProductDetailCache, Loses
  <2> HIDE DEF W
  <2>2. writer' \in [Writers -> W]
    BY <1>1, <1>2, <2>1
  <2>3. CacheTypes'
    BY <1>1, <1>3, <2>1, <2>2 DEF CacheInv, CacheTypes, W
  <2>4. ASSUME ~ raced', losses' = 0 PROVE ReadsCurrent' /\ EntryCurrent'
    <3>1. ~ raced /\ losses = 0 /\ losses' = losses
      BY <1>1, <1>3, <2>1, <2>4
    <3> QED BY <1>3, <2>1, <3>1 DEF CacheInv, ReadsCurrent, EntryCurrent
  <2> QED BY <2>3, <2>4 DEF CacheInv
<1> QED BY <1>4, <1>5, <1>6, <1>7 DEF Finish

LEMMA CacheStep == CacheInv /\ [Next]_vars => CacheInv'
<1> SUFFICES ASSUME CacheInv, [Next]_vars PROVE CacheInv'
  OBVIOUS
<1>1. CASE UNCHANGED cacheVars
  BY <1>1 DEF cacheVars, CacheInv, CacheTypes, ReadsCurrent, EntryCurrent
<1>2. CASE CacheNext
  <2>1. CASE CreateProduct
    <3>1. product = "absent" /\ product' = "off_sale"
          /\ UNCHANGED <<entry, reader, writer, losses, raced>>
      BY <2>1 DEF CreateProduct
    <3>2. CacheTypes'
      BY <3>1 DEF CacheInv, CacheTypes, SaleStatuses
    <3>3. ReadsCurrent => ReadsCurrent'
      BY <3>1 DEF ReadsCurrent
    <3>4. EntryCurrent => EntryCurrent'
      BY <3>1 DEF CacheInv, CacheTypes, SaleStatuses, EntryCurrent
    <3> QED BY <3>1, <3>2, <3>3, <3>4 DEF CacheInv
  <2>2. CASE ExpireProductDetail
    BY <2>2 DEF ExpireProductDetail, CacheInv, CacheTypes, ReadsCurrent, EntryCurrent
  <2> QED BY <1>2, <2>1, <2>2, ReaderStep, WriterStep DEF CacheNext
<1> QED BY <1>1, <1>2 DEF Next, vars

(* Once every change has been answered, the status in Redis is the one in  *)
(* MySQL, unless a call failed or a status changed while a reader was      *)
(* about to store the old one: reading, creating, changing and expiring    *)
(* can otherwise interleave in any way. *)
THEOREM CacheStaleOnlyByRace == Spec => []StaleOnlyByRace
<1>1. Init => CacheInv
  <2> SUFFICES ASSUME CacheInit PROVE CacheInv
    BY DEF Init
  <2>1. CacheTypes
    BY DEF CacheInit, CacheTypes, Idle
  <2>2. ReadsCurrent /\ EntryCurrent
    BY DEF CacheInit, Idle, ReadsCurrent, EntryCurrent
  <2> QED BY <2>1, <2>2 DEF CacheInv
<1>2. CacheInv => StaleOnlyByRace
  BY DEF CacheInv, EntryCurrent, StaleOnlyByRace
<1> QED BY <1>1, <1>2, CacheStep, PTL DEF Spec

-----------------------------------------------------------------------------
(* The order page. *)
Stages == {"sent", "left", "created", "refused", "settling", "answered"}

RequestRecords == [key : Nat \ {0}, payload : Payloads, round : Nat, stage : Stages]

PageTypes ==
  /\ requests \in Seq(RequestRecords)
  /\ draft \in Payloads \union {"blank"}
  /\ pending = NoSubmission \/ pending \in [key : Nat \ {0}, fingerprint : Payloads]
  /\ disabled \in BOOLEAN
  /\ watched \in Nat
  /\ round \in Nat

(* Keys and rounds are drawn one after the other. *)
DrawnInOrder == \A i \in Sent : requests[i].key <= Len(requests) /\ requests[i].round <= round

(* While a submission is pending the page waits for the server's answer,   *)
(* and the draft is what was sent or the button is disabled; the requests of this  *)
(* round are those with its key.  When none is pending, nothing was sent   *)
(* in this round. *)
RoundOfPending ==
  IF pending = NoSubmission
  THEN \A i \in Sent : requests[i].round # round
  ELSE /\ IsPending /\ requests[watched].stage # "settling"
       /\ disabled \/ draft = pending.fingerprint
       /\ pending.key <= Len(requests)
       /\ \A i \in Sent : requests[i].round = round <=> requests[i].key = pending.key

PageInv == PageTypes /\ DrawnInOrder /\ RoundOfPending /\ KeyPerRound

LEMMA PageFacts ==
  ASSUME PageTypes
  PROVE  /\ Len(requests) \in Nat
         /\ \A i \in Sent : requests[i] \in RequestRecords
         /\ requests \in [Sent -> RequestRecords]
BY DEF PageTypes, Sent

(* Requests that are only given other stages keep their keys and rounds. *)
Restages ==
  /\ Sent' = Sent /\ Len(requests') = Len(requests)
  /\ \A i \in Sent : requests'[i].key = requests[i].key /\ requests'[i].round = requests[i].round

LEMMA BecomesStage ==
  ASSUME PageTypes, NEW i \in Sent, NEW s \in Stages, Becomes(i, s)
  PROVE  /\ requests' \in Seq(RequestRecords) /\ Restages
         /\ requests'[i].stage = s
         /\ \A j \in Sent : j # i => requests'[j] = requests[j]
<1> DEFINE c == [requests[i] EXCEPT !.stage = s]
<1>1. c \in RequestRecords /\ c.key = requests[i].key /\ c.round = requests[i].round /\ c.stage = s
  BY PageFacts DEF RequestRecords
<1>2. requests' = [requests EXCEPT ![i] = c]
  BY DEF Becomes
<1>3. requests \in Seq(RequestRecords) /\ i \in 1..Len(requests)
  BY DEF PageTypes, Sent
<1> HIDE DEF c
<1>4. requests' \in Seq(RequestRecords) /\ Len(requests') = Len(requests)
      /\ requests'[i] = c /\ \A j \in 1..Len(requests) : j # i => requests'[j] = requests[j]
  BY <1>1, <1>2, <1>3, ExceptSeq
<1> QED BY <1>1, <1>4 DEF Restages, Sent

(* A round ends: the next one has no request. *)
LEMMA RoundEnds ==
  ASSUME PageInv, Restages, PageTypes', NextRound, pending' = NoSubmission
  PROVE  PageInv'
<1>1. round \in Nat /\ round' \in {round, round + 1} /\ \A i \in Sent : requests[i].round \in Nat
  BY PageFacts DEF PageInv, PageTypes, NextRound, RequestRecords
<1>2. \A i \in Sent : requests[i].round <= round /\ requests[i].key <= Len(requests)
  BY DEF PageInv, DrawnInOrder
<1>3. \A i \in Sent : requests[i].round # round'
  BY <1>1, <1>2 DEF NextRound
<1>4. DrawnInOrder'
  BY <1>1, <1>2 DEF DrawnInOrder, Restages
<1>5. RoundOfPending'
  BY <1>3 DEF RoundOfPending, Restages
<1>6. KeyPerRound'
  BY DEF PageInv, KeyPerRound, Restages
<1> QED BY <1>4, <1>5, <1>6 DEF PageInv

LEMMA ClickKeepsRound ==
  ASSUME PageInv, HandleCreateOrder
  PROVE  PageInv'
<1> DEFINE n == Len(requests)
<1>1. /\ n \in Nat /\ requests \in Seq(RequestRecords)
      /\ \A i \in Sent : /\ requests[i].key \in Nat \ {0} /\ requests[i].key <= n
                         /\ requests[i].round \in Nat /\ requests[i].round <= round
  BY PageFacts DEF PageInv, DrawnInOrder, RequestRecords, PageTypes
<1>2. draft \in Payloads /\ ~ disabled /\ round \in Nat
  BY DEF PageInv, PageTypes, HandleCreateOrder
<1>3. PICK sub : sub = PrepareOrderSubmission
  OBVIOUS
<1>4. /\ sub \in [key : Nat \ {0}, fingerprint : Payloads] /\ sub # NoSubmission
      /\ sub.fingerprint = draft /\ sub.key <= n + 1
      /\ \A i \in Sent : requests[i].round = round <=> requests[i].key = sub.key
  <2>1. CASE pending # NoSubmission /\ pending.fingerprint = draft
    <3>1. sub = pending
      BY <1>3, <2>1 DEF PrepareOrderSubmission
    <3>2. pending \in [key : Nat \ {0}, fingerprint : Payloads] /\ pending.key <= n
      BY <2>1 DEF PageInv, PageTypes, RoundOfPending
    <3>3. \A i \in Sent : requests[i].round = round <=> requests[i].key = pending.key
      BY <2>1 DEF PageInv, RoundOfPending
    <3> QED BY <1>1, <2>1, <3>1, <3>2, <3>3
  <2>2. CASE ~ (pending # NoSubmission /\ pending.fingerprint = draft)
    <3>1. sub = [key |-> 1 + n, fingerprint |-> draft]
      BY <1>3, <2>2 DEF PrepareOrderSubmission, FreshKey
    <3>2. pending = NoSubmission
      BY <1>2, <2>2 DEF PageInv, RoundOfPending
    <3>3. \A i \in Sent : requests[i].round # round
      BY <3>2 DEF PageInv, RoundOfPending
    <3>4. \A i \in Sent : requests[i].key # sub.key
      BY <1>1, <3>1
    <3>5. sub # NoSubmission
      BY <1>1, <3>1 DEF NoSubmission
    <3> QED BY <1>1, <1>2, <3>1, <3>3, <3>4, <3>5
  <2> QED BY <2>1, <2>2
<1> DEFINE new == [key |-> sub.key, payload |-> draft, round |-> round, stage |-> "sent"]
<1>5. new \in RequestRecords
  BY <1>2, <1>4 DEF RequestRecords, Stages
<1>6. /\ pending' = sub /\ requests' = Append(requests, new) /\ watched' = n + 1
      /\ UNCHANGED <<draft, disabled, round>>
  BY <1>3 DEF HandleCreateOrder
<1>7. new.key = sub.key /\ new.round = round /\ new.stage = "sent"
  OBVIOUS
<1> HIDE DEF n, new
<1>8. /\ requests' \in Seq(RequestRecords) /\ Len(requests') = n + 1 /\ requests'[n + 1] = new
      /\ \A i \in 1..n : requests'[i] = requests[i]
  BY <1>1, <1>5, <1>6 DEF n
<1>9. Sent' = 1..n + 1 /\ Sent = 1..n /\ n + 1 \in Sent'
      /\ \A i \in Sent' : i \in Sent \/ i = n + 1
  BY <1>1, <1>8 DEF Sent, n
<1>10. PageTypes'
  BY <1>1, <1>4, <1>6, <1>8 DEF PageInv, PageTypes
<1>11. DrawnInOrder'
  BY <1>1, <1>2, <1>4, <1>6, <1>7, <1>8, <1>9 DEF DrawnInOrder
<1>12. RoundOfPending'
  <2>1. IsPending' /\ requests'[watched'].stage # "settling"
    BY <1>6, <1>7, <1>8, <1>9 DEF IsPending, Unanswered
  <2>2. \A i \in Sent' : requests'[i].round = round <=> requests'[i].key = sub.key
    BY <1>4, <1>7, <1>8, <1>9
  <2> QED BY <1>4, <1>6, <1>8, <2>1, <2>2 DEF RoundOfPending
<1>13. KeyPerRound'
  BY <1>4, <1>7, <1>8, <1>9 DEF PageInv, KeyPerRound
<1> QED BY <1>10, <1>11, <1>12, <1>13 DEF PageInv

LEMMA LeavingEndsRound ==
  ASSUME PageInv, LeavePage
  PROVE  PageInv'
<1> DEFINE Stage(s) == CASE s = "sent" -> "left"
                         [] s \in {"created", "refused", "settling"} -> "answered"
                         [] OTHER -> s
           c(i) == [requests[i] EXCEPT !.stage = Stage(requests[i].stage)]
<1>1. requests' = [i \in Sent |-> c(i)] /\ NextRound /\ pending' = NoSubmission
      /\ draft' = "blank" /\ disabled' = FALSE /\ watched' = 0
  BY DEF LeavePage
<1>2. \A s \in Stages : Stage(s) \in Stages
  BY DEF Stages
<1> HIDE DEF Stage
<1>3. \A i \in Sent : /\ c(i) \in RequestRecords
                      /\ c(i).key = requests[i].key /\ c(i).round = requests[i].round
  <2> SUFFICES ASSUME NEW i \in Sent
               PROVE  /\ c(i) \in RequestRecords
                      /\ c(i).key = requests[i].key /\ c(i).round = requests[i].round
    OBVIOUS
  <2>1. requests[i] \in RequestRecords /\ Stage(requests[i].stage) \in Stages
    BY <1>2, PageFacts DEF PageInv, RequestRecords
  <2> QED BY <2>1 DEF RequestRecords
<1> HIDE DEF c
<1>4. Len(requests) \in Nat /\ Sent = 1..Len(requests)
  BY PageFacts DEF PageInv, Sent
<1>5. requests' \in Seq(RequestRecords) /\ Len(requests') = Len(requests)
  <2>1. requests' \in [1..Len(requests) -> RequestRecords]
    BY <1>1, <1>3, <1>4
  <2> QED BY <1>4, <2>1, SeqDef, LenProperties
<1>6. Restages
  BY <1>1, <1>3, <1>4, <1>5 DEF Restages, Sent
<1>7. PageTypes'
  <2>1. round' \in Nat
    BY <1>1 DEF PageInv, PageTypes, NextRound
  <2>2. disabled' \in BOOLEAN
    BY <1>1
  <2> QED BY <1>1, <1>5, <2>1, <2>2 DEF PageTypes
<1> QED BY <1>1, <1>6, <1>7, RoundEnds

LEMMA ServingKeepsRound ==
  ASSUME PageInv, NEW i \in Sent, CreateOrder(i) \/ RefuseOrder(i)
  PROVE  PageInv'
<1>1. PICK s \in {"created", "refused"} : Served(i, s)
  BY DEF CreateOrder, RefuseOrder
<1>2. PICK t \in {"created", "refused", "answered"} :
        Becomes(i, t) /\ (requests[i].stage = "sent" => t # "answered")
  BY <1>1 DEF Served
<1>3. requests[i].stage \in {"sent", "left"} /\ UNCHANGED <<draft, pending, disabled, watched, round>>
  BY <1>1 DEF Served
<1>4. PageTypes
  BY DEF PageInv
<1>5. /\ requests' \in Seq(RequestRecords) /\ Restages /\ requests'[i].stage = t
      /\ \A j \in Sent : j # i => requests'[j] = requests[j]
  BY <1>2, <1>4, BecomesStage DEF Stages
<1>6. PageTypes'
  BY <1>3, <1>4, <1>5 DEF PageTypes
<1>7. IsPending /\ requests[watched].stage # "settling"
        => IsPending' /\ requests'[watched].stage # "settling"
  BY <1>2, <1>3, <1>5 DEF IsPending, Unanswered, Restages
<1>8. DrawnInOrder'
  BY <1>3, <1>5 DEF PageInv, DrawnInOrder, Restages
<1>9. RoundOfPending'
  BY <1>3, <1>5, <1>7 DEF PageInv, RoundOfPending, Restages
<1>10. KeyPerRound'
  BY <1>5 DEF PageInv, KeyPerRound, Restages
<1> QED BY <1>6, <1>8, <1>9, <1>10 DEF PageInv

LEMMA AnswerEndsRound ==
  ASSUME PageInv, NEW i \in Sent, Answer(i)
  PROVE  PageInv'
<1>1. PICK t \in {"left", "settling", "answered"} : Becomes(i, t)
  BY DEF Answer, OnSuccess, OnError, OnTimeout
<1>2. /\ NextRound /\ pending' = NoSubmission
      /\ draft' \in {draft, "blank"} /\ UNCHANGED <<disabled, watched>>
  BY DEF Answer, OnSuccess, OnError, OnTimeout
<1>3. PageTypes
  BY DEF PageInv
<1>4. requests' \in Seq(RequestRecords) /\ Restages
  BY <1>1, <1>3, BecomesStage DEF Stages
<1>5. PageTypes'
  BY <1>2, <1>3, <1>4 DEF PageTypes, NextRound
<1> QED BY <1>2, <1>4, <1>5, RoundEnds

(* Nothing is pending when the awaited fetches of the watched request end. *)
LEMMA SettlingKeepsRound ==
  ASSUME PageInv, NEW i \in Sent, Settle(i)
  PROVE  PageInv'
<1>1. /\ requests[i].stage = "settling" /\ Becomes(i, "answered")
      /\ UNCHANGED <<draft, pending, disabled, watched, round>>
  BY DEF Settle
<1>2. PageTypes
  BY DEF PageInv
<1>3. /\ requests' \in Seq(RequestRecords) /\ Restages
      /\ \A j \in Sent : j # i => requests'[j] = requests[j]
  BY <1>1, <1>2, BecomesStage DEF Stages
<1>4. PageTypes'
  BY <1>1, <1>2, <1>3 DEF PageTypes
<1>5. IsPending /\ requests[watched].stage # "settling"
        => IsPending' /\ requests'[watched].stage # "settling"
  BY <1>1, <1>3 DEF IsPending, Unanswered, Restages
<1>6. DrawnInOrder'
  BY <1>1, <1>3 DEF PageInv, DrawnInOrder, Restages
<1>7. RoundOfPending'
  BY <1>1, <1>3, <1>5 DEF PageInv, RoundOfPending, Restages
<1>8. KeyPerRound'
  BY <1>3 DEF PageInv, KeyPerRound, Restages
<1> QED BY <1>4, <1>6, <1>7, <1>8 DEF PageInv

LEMMA PageStep == PageInv /\ [Next]_vars => PageInv'
<1> SUFFICES ASSUME PageInv, [Next]_vars PROVE PageInv'
  OBVIOUS
<1>1. CASE UNCHANGED pageVars
  <2>1. UNCHANGED <<draft, pending, disabled, watched, requests, round>>
    BY <1>1 DEF pageVars
  <2>2. Sent' = Sent /\ IsPending' = IsPending
    BY <2>1 DEF Sent, IsPending, Unanswered
  <2> QED BY <2>1, <2>2 DEF PageInv, PageTypes, DrawnInOrder, RoundOfPending, KeyPerRound
<1>2. CASE \E p \in Payloads : UpdateItems(p)
  <2>1. PICK p \in Payloads : UpdateItems(p)
    BY <1>2
  <2>2. draft' = p /\ UNCHANGED <<pending, disabled, watched, requests, round>>
    BY <2>1 DEF UpdateItems
  <2>3. Sent' = Sent /\ IsPending' = IsPending
    BY <2>2 DEF Sent, IsPending, Unanswered
  <2>4. RoundOfPending'
    BY <2>1, <2>2, <2>3 DEF PageInv, RoundOfPending, UpdateItems
  <2> QED BY <2>2, <2>3, <2>4 DEF PageInv, PageTypes, DrawnInOrder, KeyPerRound
<1>3. CASE HandleCreateOrder
  BY <1>3, ClickKeepsRound
<1>4. CASE HandleResetForm
  <2>1. /\ NextRound /\ pending' = NoSubmission /\ draft' = "blank"
        /\ UNCHANGED <<disabled, watched, requests>>
    BY <1>4 DEF HandleResetForm
  <2>2. Restages
    BY <2>1 DEF Restages, Sent
  <2>3. PageTypes'
    BY <2>1 DEF PageInv, PageTypes, NextRound
  <2> QED BY <2>1, <2>2, <2>3, RoundEnds
<1>5. CASE LeavePage
  BY <1>5, LeavingEndsRound
<1>6. CASE Render
  <2>1. disabled' = IsPending /\ UNCHANGED <<draft, pending, watched, requests, round>>
    BY <1>6 DEF Render
  <2>2. Sent' = Sent /\ IsPending' = IsPending /\ IsPending \in BOOLEAN
    BY <2>1 DEF Sent, IsPending, Unanswered
  <2>3. RoundOfPending'
    BY <2>1, <2>2 DEF PageInv, RoundOfPending
  <2> QED BY <2>1, <2>2, <2>3 DEF PageInv, PageTypes, DrawnInOrder, KeyPerRound
<1>7. CASE \E i \in Sent : Serve(i)
  BY <1>7, ServingKeepsRound DEF Serve
<1>8. CASE \E i \in Sent : Answer(i)
  BY <1>8, AnswerEndsRound
<1>9. CASE \E i \in Sent : Settle(i)
  BY <1>9, SettlingKeepsRound
<1> QED BY <1>1, <1>2, <1>3, <1>4, <1>5, <1>6, <1>7, <1>8, <1>9 DEF Next, vars, PageNext, Use

(* Clicks that no answer and no reset lies between carry one key, however  *)
(* late the button is disabled, and a click after an answer, a reset or a  *)
(* visit elsewhere carries a key no earlier one did. *)
THEOREM ClicksCarryOneKey == Spec => []KeyPerRound
<1>1. Init => PageInv
  <2> SUFFICES ASSUME PageInit PROVE PageInv
    BY DEF Init
  <2>1. Len(requests) = 0 /\ Sent = {}
    BY DEF PageInit, Sent
  <2>2. requests \in Seq(RequestRecords)
    BY EmptySeq DEF PageInit
  <2>3. PageTypes
    BY <2>2 DEF PageInit, PageTypes
  <2> QED BY <2>1, <2>3 DEF PageInit, PageInv, DrawnInOrder, RoundOfPending, KeyPerRound
<1>2. PageInv => KeyPerRound
  BY DEF PageInv
<1> QED BY <1>1, <1>2, PageStep, PTL DEF Spec
=============================================================================
