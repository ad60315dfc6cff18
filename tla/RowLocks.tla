------------------------------ MODULE RowLocks ------------------------------
(***************************************************************************)
(* The row locks of the transactions of the order and inventory services.  *)
(*                                                                         *)
(* A transaction takes its locks one at a time, waits for a row another    *)
(* one holds, and keeps them all until it commits or rolls back:           *)
(*                                                                         *)
(*   create           the idempotency key, then the stock of each item     *)
(*   cancel, expire   the order, then the stock of each item               *)
(*   pay              the order, then the stock of each item               *)
(*   finish           the order                                            *)
(*   add, initialise  the stock of one product                             *)
(*                                                                         *)
(* The stock rows of an order are locked in the order of their product     *)
(* ids, whatever order the client listed them in.                          *)
(***************************************************************************)
EXTENDS Integers

CONSTANTS Products,     \* product ids
          Orders,       \* orders, each with the products it contains
          Contents,     \* Contents[o]: the products of order o
          Keys,         \* idempotency keys
          Carts,        \* the sets of products clients order
          Transactions  \* transactions that can run at a time

ASSUME LockAssumption ==
  /\ Products \subseteq Nat
  /\ Contents \in [Orders -> SUBSET Products]
  /\ Carts \subseteq SUBSET Products

Row(table, id) == [table |-> table, id |-> id]

Stock(S) == {Row("stock", p) : p \in S}

VARIABLES
  todo,   \* the rows a transaction has still to lock
  held    \* the rows it has locked

lockVars == <<todo, held>>

LockInit ==
  /\ todo = [t \in Transactions |-> {}]
  /\ held = [t \in Transactions |-> {}]

Idle(t) == todo[t] = {} /\ held[t] = {}

Begin(t, rows) ==
  /\ Idle(t)
  /\ todo' = [todo EXCEPT ![t] = rows]
  /\ UNCHANGED held

CreateOrder(t, k, S) == Begin(t, {Row("key", k)} \union Stock(S))

(* Cancellation, by the user or the timeout worker, and payment. *)
ReleaseOrConsume(t, o) == Begin(t, {Row("order", o)} \union Stock(Contents[o]))

FinishOrder(t, o) == Begin(t, {Row("order", o)})

ChangeStock(t, p) == Begin(t, Stock({p}))

(* Defect: the items are locked in the order the client sent them. *)
AnyOrder(r, s) == s.table = "stock"

(* sortedOrderItems and aggregateAndSortOrderItems. *)
Before(r, s) ==
  /\ s.table = "stock"
  /\ r.table = "stock" => r.id < s.id

(* The rows a transaction can come to next. *)
Upcoming(t) == {r \in todo[t] : \A s \in todo[t] \ {r} : Before(r, s)}

Free(t, r) == \A u \in Transactions \ {t} : r \notin held[u]

Lock(t) ==
  /\ \E r \in Upcoming(t) :
       /\ Free(t, r)
       /\ todo' = [todo EXCEPT ![t] = @ \ {r}]
       /\ held' = [held EXCEPT ![t] = @ \union {r}]

(* The transaction has all its locks and commits, or rolls back: a         *)
(* condition failed, or the client went away. *)
End(t) ==
  /\ ~ Idle(t)
  /\ todo' = [todo EXCEPT ![t] = {}]
  /\ held' = [held EXCEPT ![t] = {}]

LockNext ==
  \E t \in Transactions :
    \/ \E k \in Keys, S \in Carts : CreateOrder(t, k, S)
    \/ \E o \in Orders : ReleaseOrConsume(t, o) \/ FinishOrder(t, o)
    \/ \E p \in Products : ChangeStock(t, p)
    \/ Lock(t)
    \/ End(t)

LockSpec == LockInit /\ [][LockNext]_lockVars

-----------------------------------------------------------------------------
(* t waits for u: it has come to a row u holds. *)
Waits(t, u) == \E r \in Upcoming(t) : r \in held[u]

(* Transactions never wait for each other in a circle, so that MySQL never *)
(* has to break a deadlock: in every set of transactions there is one that *)
(* waits for none of the others. *)
NoWaitCycle ==
  \A S \in (SUBSET Transactions) \ {{}} :
    \E t \in S : \A u \in S : ~ Waits(t, u)
=============================================================================
