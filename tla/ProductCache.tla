---------------------------- MODULE ProductCache ----------------------------
(***************************************************************************)
(* The details of one product: its row in MySQL and its entry in Redis.    *)
(*                                                                         *)
(*   read     look into Redis; on a miss read MySQL; store what was read   *)
(*   change   read MySQL; update the status; delete the entry              *)
(*                                                                         *)
(* Each of these is a step of its own, since nothing locks both stores.  A *)
(* read that finds an entry changes nothing and is left out.  Entries of   *)
(* different products do not meet.                                         *)
(***************************************************************************)
EXTENDS Integers

CONSTANTS Readers,     \* requests that read the details at a time
          Writers,     \* requests that change the sale status at a time
          MaxChanges,  \* bound: changes of the sale status
          MaxLosses    \* bound: calls of Redis or MySQL that fail

ASSUME CacheAssumption == MaxChanges \in Nat /\ MaxLosses \in Nat

SaleStatuses == {"on_sale", "off_sale"}

VARIABLES
  product,   \* products.status, "absent" before the product is created
  entry,     \* what Redis stores: a status, "null" (the sentinel) or "none"
  reader,    \* what each reader has found so far
  writer,    \* what each writer is about to do
  changes,   \* how often the status was changed
  losses,    \* how many calls failed
  raced      \* history: a status changed while a reader held the old one

cacheVars == <<product, entry, reader, writer, changes, losses, raced>>

Idle == [op |-> "idle"]

CacheInit ==
  /\ product = "absent"
  /\ entry = "none"
  /\ reader = [r \in Readers |-> Idle]
  /\ writer = [w \in Writers |-> Idle]
  /\ changes = 0
  /\ losses = 0
  /\ raced = FALSE

Loses ==
  /\ losses < MaxLosses
  /\ losses' = losses + 1

-----------------------------------------------------------------------------
(* A new product is off sale; its entry is not touched. *)
CreateProduct ==
  /\ product = "absent"
  /\ product' = "off_sale"
  /\ UNCHANGED <<entry, reader, writer, changes, losses, raced>>

(* GetProductDetail finds nothing, or fails. *)
MissProductDetail(r) ==
  /\ reader[r] = Idle
  /\ \/ entry = "none" /\ UNCHANGED losses
     \/ entry # "none" /\ Loses
  /\ reader' = [reader EXCEPT ![r] = [op |-> "load"]]
  /\ UNCHANGED <<product, entry, writer, changes, raced>>

LoadProduct(r) ==
  /\ reader[r].op = "load"
  /\ \/ /\ reader' = [reader EXCEPT ![r] = [op |-> "store", found |-> product]]
        /\ UNCHANGED losses
     \/ /\ reader' = [reader EXCEPT ![r] = Idle]
        /\ Loses
  /\ UNCHANGED <<product, entry, writer, changes, raced>>

(* What stands for a row in Redis. *)
Stored(status) == IF status = "absent" THEN "null" ELSE status

SetProductDetail(r) ==
  /\ reader[r].op = "store"
  /\ \/ entry' = Stored(reader[r].found) /\ UNCHANGED losses
     \/ UNCHANGED entry /\ Loses
  /\ reader' = [reader EXCEPT ![r] = Idle]
  /\ UNCHANGED <<product, writer, changes, raced>>

-----------------------------------------------------------------------------
(* OnSaleProduct and OffSaleProduct: nothing to do when the product is     *)
(* absent or has the status already. *)
BeginChange(w, to) ==
  /\ writer[w] = Idle
  /\ product \notin {"absent", to}
  /\ writer' = [writer EXCEPT ![w] = [op |-> "update", to |-> to]]
  /\ UNCHANGED <<product, entry, reader, changes, losses, raced>>

Changes(status) ==
  /\ changes < MaxChanges
  /\ changes' = changes + 1
  /\ product' = status
  /\ raced' = (raced \/ \E r \in Readers : reader[r].op = "store")

(* Defect: the entry is deleted first and the row is updated afterwards. *)
UpdateAfterDelete(w) ==
  /\ writer[w].op = "update"
  /\ Changes(writer[w].to)
  /\ writer' = [writer EXCEPT ![w] = Idle]
  /\ UNCHANGED <<entry, reader, losses>>

UpdateProductStatus(w) ==
  /\ writer[w].op = "update"
  /\ Changes(writer[w].to)
  /\ writer' = [writer EXCEPT ![w] = [op |-> "delete"]]
  /\ UNCHANGED <<entry, reader, losses>>

(* The update reports an error, carried out or not: the entry is kept. *)
UpdateFails(w) ==
  /\ writer[w].op = "update"
  /\ Loses
  /\ \/ Changes(writer[w].to)
     \/ UNCHANGED <<product, changes, raced>>
  /\ writer' = [writer EXCEPT ![w] = Idle]
  /\ UNCHANGED <<entry, reader>>

DeleteProductDetailCache(w) ==
  /\ writer[w].op = "delete"
  /\ \/ entry' = "none" /\ UNCHANGED losses
     \/ UNCHANGED entry /\ Loses
  /\ writer' = [writer EXCEPT ![w] = Idle]
  /\ UNCHANGED <<product, reader, changes, raced>>

(* Defect: only the sentinel is stored with a time to live. *)
ExpireSentinel ==
  /\ entry = "null"
  /\ entry' = "none"
  /\ UNCHANGED <<product, reader, writer, changes, losses, raced>>

(* The time to live of the entry is over. *)
ExpireProductDetail ==
  /\ entry # "none"
  /\ entry' = "none"
  /\ UNCHANGED <<product, reader, writer, changes, losses, raced>>

-----------------------------------------------------------------------------
Read(r) == MissProductDetail(r) \/ LoadProduct(r) \/ SetProductDetail(r)

Finish(w) == UpdateProductStatus(w) \/ UpdateFails(w) \/ DeleteProductDetailCache(w)

CacheNext ==
  \/ CreateProduct
  \/ \E r \in Readers : Read(r)
  \/ \E w \in Writers : (\E to \in SaleStatuses : BeginChange(w, to)) \/ Finish(w)
  \/ ExpireProductDetail

(* Entries expire; no request need ever go on. *)
CacheFairness == WF_cacheVars(ExpireProductDetail)

-----------------------------------------------------------------------------
(* Once every change has been answered, the status in Redis is the one in  *)
(* MySQL, unless a call has failed or a status was changed while a         *)
(* reader was about to store the old one: there is no other way to be      *)
(* served an old status.  (The sentinel may outlive the creation.) *)
StaleOnlyByRace ==
  /\ ~ raced
  /\ losses = 0
  /\ \A w \in Writers : writer[w].op # "delete"
  => entry \in {"none", "null", product}

(* An old status, or the sentinel of a product that exists by now, is not  *)
(* served for ever, however calls were lost and readers were overtaken. *)
CacheCatchesUp == <>[](entry \in {"none", Stored(product)})
=============================================================================
