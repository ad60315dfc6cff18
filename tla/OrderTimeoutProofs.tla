-------------------------- MODULE OrderTimeoutProofs --------------------------
(***************************************************************************)
(* No timeout is lost and no order is cancelled early, for any number of   *)
(* orders, workers, attempts, faults and foreign messages.                 *)
(*                                                                         *)
(* The argument: an order whose row is marked, or about to be marked, has  *)
(* a message under way or is settled.  A message leaves the queues and the *)
(* hands of the consumers only when its order is settled, or when its      *)
(* x-death header counts too many deaths, which the header of an event     *)
(* that came from the outbox never does: it counts one.                    *)
(***************************************************************************)
EXTENDS OrderTimeout, FiniteSetTheorems, TotalsProofs

Statuses == {"none", "pending", "paid", "cancelled"}

Batches == (SUBSET [order : Orders, try : 1..MaxAttempts]) \ {{}}

PubStates == {NoBatch} \union [stage : {"publish", "mark"}, rows : Batches]

ConStates == {NoDelivery} \union [stage : {"handle", "ack"}, msg : Messages]

TimeoutTypes ==
  /\ status \in [Orders -> Statuses]
  /\ due \subseteq Orders
  /\ attempts \in [Orders -> 0..MaxAttempts]
  /\ leased \subseteq Orders /\ published \subseteq Orders
  /\ pub \in [Workers -> PubStates]
  /\ con \in [Workers -> ConStates]
  /\ delayQ \subseteq Messages /\ cancelQ \subseteq Messages /\ failedQ \subseteq Messages
  /\ outlived \subseteq {"mark", "cancel"} \X Messages

(* What an event from the outbox looks like on its way. *)
Genuine(m) == m.try > 0 => m.deaths <= 1 /\ m.valid /\ status[m.order] # "none"

Delivered(w) == con[w].stage \in {"handle", "ack"}

MessagesGenuine ==
  /\ \A m \in delayQ : m.try > 0 /\ m.deaths = 0 /\ Genuine(m)
  /\ \A m \in cancelQ : Genuine(m)
  /\ \A w \in Workers : Delivered(w) => Genuine(con[w].msg)

RowsPlaced == \A w \in Workers : \A r \in pub[w].rows : status[r.order] # "none"

Closed(o) == status[o] \in {"paid", "cancelled"}

AckedClosed == \A w \in Workers :
  con[w].stage = "ack" /\ con[w].msg.try > 0 => Closed(con[w].msg.order)

(* The order is settled or will hear of its timeout. *)
Attended(o) == Closed(o) \/ \E m \in InFlight : m.order = o /\ m.try > 0

MarkedAttended ==
  /\ \A o \in published : Attended(o)
  /\ \A w \in Workers : pub[w].stage = "mark" => Attended(NextRow(w).order)
  /\ \A m : <<"mark", m>> \in outlived => Attended(m.order)

TimeoutInv == MessagesGenuine /\ RowsPlaced /\ AckedClosed /\ MarkedAttended

-----------------------------------------------------------------------------
LEMMA RowsNotEmpty ==
  ASSUME TimeoutTypes, NEW w \in Workers, pub[w].stage \in {"publish", "mark"}
  PROVE  /\ pub[w].rows \in Batches
         /\ NextRow(w) \in pub[w].rows
         /\ NextRow(w).order \in Orders /\ NextRow(w).try \in 1..MaxAttempts
<1>1. pub[w].rows \in Batches
  <2>1. pub[w] \in {NoBatch} \union [stage : {"publish", "mark"}, rows : Batches]
    BY DEF TimeoutTypes, PubStates
  <2>2. pub[w] # NoBatch
    BY DEF NoBatch
  <2> QED BY <2>1, <2>2
<1> DEFINE S == {r.order : r \in pub[w].rows}
<1>2. S \subseteq Nat /\ S # {}
  <2>1. pub[w].rows # {} /\ pub[w].rows \subseteq [order : Orders, try : 1..MaxAttempts]
    BY <1>1 DEF Batches
  <2>2. \A r \in pub[w].rows : r.order \in Nat
    BY <2>1, TimeoutAssumption
  <2> QED BY <2>1, <2>2
<1>3. PICK o \in S : \A p \in S : o <= p
  <2> HIDE DEF S
  <2> QED BY <1>2, LeastNatural
<1>4. \E r \in pub[w].rows : \A s \in pub[w].rows : r.order <= s.order
  BY <1>3
<1>5. NextRow(w) \in pub[w].rows
  BY <1>4 DEF NextRow
<1> QED BY <1>1, <1>5 DEF Batches

LEMMA PublishedMessage ==
  ASSUME TimeoutTypes, NEW w \in Workers, pub[w].stage \in {"publish", "mark"}
  PROVE  /\ Publishing(NextRow(w)) \in Messages
         /\ Publishing(NextRow(w)).order = NextRow(w).order
         /\ Publishing(NextRow(w)).try > 0 /\ Publishing(NextRow(w)).deaths = 0
         /\ Publishing(NextRow(w)).valid
BY RowsNotEmpty, TimeoutAssumption DEF Publishing, Messages

LEMMA DiedMessage ==
  ASSUME NEW m \in Messages
  PROVE  /\ Died(m) \in Messages /\ Died(m).order = m.order /\ Died(m).try = m.try
         /\ Died(m).valid = m.valid /\ Died(m).deaths = m.deaths + 1
BY DEF Died, Messages

LEMMA InHandOf ==
  ASSUME TimeoutTypes, NEW w \in Workers
  PROVE  /\ Delivered(w) => con[w].msg \in Messages /\ InHand(w) = {con[w].msg}
         /\ ~ Delivered(w) => con[w] = NoDelivery /\ InHand(w) = {}
BY DEF TimeoutTypes, ConStates, Delivered, InHand, NoDelivery

LEMMA InFlightOf ==
  ASSUME TimeoutTypes, NEW m
  PROVE  m \in InFlight <=> \/ m \in delayQ \/ m \in cancelQ
                            \/ \E w \in Workers : Delivered(w) /\ con[w].msg = m
BY InHandOf DEF InFlight

(* The rows of a claim are rows of orders that were placed. *)
LEMMA ClaimedRows ==
  ASSUME TimeoutTypes, Claimable # {}
  PROVE  /\ FirstRows(Claimable) # {} /\ FirstRows(Claimable) \subseteq Claimable
         /\ {[order |-> o, try |-> attempts[o] + 1] : o \in FirstRows(Claimable)} \in Batches
<1>1. Claimable \subseteq Nat /\ FirstRows(Claimable) \subseteq Claimable
  BY TimeoutAssumption DEF Claimable, FirstRows
<1>2. PICK o \in Claimable : \A p \in Claimable : o <= p
  BY <1>1, LeastNatural
<1>3. {p \in Claimable : p < o} = {}
  <2>1. \A p \in Claimable : ~ (p < o)
    BY <1>1, <1>2
  <2> QED BY <2>1
<1>4. o \in FirstRows(Claimable)
  <2>1. Cardinality({p \in Claimable : p < o}) = 0
    BY <1>3, FS_EmptySet
  <2> QED BY <2>1, TimeoutAssumption DEF FirstRows
<1>5. \A p \in Claimable : p \in Orders /\ attempts[p] + 1 \in 1..MaxAttempts
  BY TimeoutAssumption DEF Claimable, TimeoutTypes
<1> DEFINE rows == {[order |-> p, try |-> attempts[p] + 1] : p \in FirstRows(Claimable)}
<1>6. rows \subseteq [order : Orders, try : 1..MaxAttempts] /\ rows # {}
  <2>1. \A p \in FirstRows(Claimable) : p \in Orders /\ attempts[p] + 1 \in 1..MaxAttempts
    BY <1>1, <1>5
  <2>2. [order |-> o, try |-> attempts[o] + 1] \in rows
    BY <1>4
  <2>3. ASSUME NEW r \in rows PROVE r \in [order : Orders, try : 1..MaxAttempts]
    <3>1. PICK p \in FirstRows(Claimable) : r = [order |-> p, try |-> attempts[p] + 1]
      OBVIOUS
    <3> QED BY <2>1, <3>1
  <2> HIDE DEF rows
  <2> QED BY <2>2, <2>3
<1> QED BY <1>1, <1>4, <1>6 DEF Batches

-----------------------------------------------------------------------------
(* The session of a worker ends. *)
LEMMA SessionEnd ==
  ASSUME TimeoutTypes, NEW w \in Workers, Ends(w)
  PROVE  /\ pub' \in [Workers -> PubStates] /\ con' \in [Workers -> ConStates]
         /\ cancelQ' \subseteq Messages /\ outlived' \subseteq {"mark", "cancel"} \X Messages
         /\ pub'[w] = NoBatch /\ con'[w] = NoDelivery /\ cancelQ' = cancelQ \union InHand(w)
         /\ \A v \in Workers : v # w => pub'[v] = pub[v] /\ con'[v] = con[v]
         /\ \A m : <<"mark", m>> \in outlived' =>
              \/ <<"mark", m>> \in outlived
              \/ pub[w].stage = "mark" /\ m = Publishing(NextRow(w))
<1>1. InHand(w) \subseteq Messages
  BY InHandOf
<1>2. \A v \in Workers : pub[v] \in PubStates /\ con[v] \in ConStates
  BY DEF TimeoutTypes
<1>3. /\ pub' \in [Workers -> PubStates] /\ con' \in [Workers -> ConStates]
      /\ pub'[w] = NoBatch /\ con'[w] = NoDelivery
      /\ \A v \in Workers : v # w => pub'[v] = pub[v] /\ con'[v] = con[v]
  <2>1. NoBatch \in PubStates /\ NoDelivery \in ConStates
    BY DEF PubStates, ConStates
  <2> QED BY <2>1 DEF Ends, TimeoutTypes
<1>4. \A x \in Unfinished(w) :
        \/ pub[w].stage = "mark" /\ x = <<"mark", Publishing(NextRow(w))>>
        \/ \E m \in Messages : x = <<"cancel", m>>
  BY <1>1 DEF Unfinished
<1>5. \A x \in Unfinished(w) : x \in {"mark", "cancel"} \X Messages
  <2> SUFFICES ASSUME NEW x \in Unfinished(w) PROVE x \in {"mark", "cancel"} \X Messages
    OBVIOUS
  <2>1. CASE pub[w].stage = "mark" /\ x = <<"mark", Publishing(NextRow(w))>>
    BY <2>1, PublishedMessage
  <2>2. CASE \E m \in Messages : x = <<"cancel", m>>
    BY <2>2
  <2> QED BY <1>4, <2>1, <2>2
<1>6. outlived' = outlived \union Unfinished(w) /\ cancelQ' = cancelQ \union InHand(w)
  BY DEF Ends
<1>7. ASSUME NEW m, <<"mark", m>> \in outlived'
      PROVE  \/ <<"mark", m>> \in outlived
             \/ pub[w].stage = "mark" /\ m = Publishing(NextRow(w))
  <2> SUFFICES ASSUME <<"mark", m>> \in Unfinished(w)
               PROVE  pub[w].stage = "mark" /\ m = Publishing(NextRow(w))
    BY <1>6, <1>7
  <2>1. \A n : <<"mark", m>> # <<"cancel", n>>
    OBVIOUS
  <2>2. \A n : <<"mark", m>> = <<"mark", n>> => m = n
    OBVIOUS
  <2> QED BY <1>4, <2>1, <2>2
<1>8. outlived' \subseteq {"mark", "cancel"} \X Messages /\ cancelQ' \subseteq Messages
  BY <1>1, <1>5, <1>6 DEF TimeoutTypes
<1> QED BY <1>3, <1>6, <1>7, <1>8

(* A consumer changes what it has in hand. *)
LEMMA ConChange ==
  ASSUME TimeoutTypes, NEW w \in Workers, NEW c \in ConStates, con' = [con EXCEPT ![w] = c]
  PROVE  /\ con' \in [Workers -> ConStates] /\ con'[w] = c
         /\ \A v \in Workers : v # w => con'[v] = con[v]
BY DEF TimeoutTypes

LEMMA PubChange ==
  ASSUME TimeoutTypes, NEW w \in Workers, NEW b \in PubStates, pub' = [pub EXCEPT ![w] = b]
  PROVE  /\ pub' \in [Workers -> PubStates] /\ pub'[w] = b
         /\ \A v \in Workers : v # w => pub'[v] = pub[v]
BY DEF TimeoutTypes

(* The steps that deal with one row or one message, one by one. *)
LEMMA PublisherTypes ==
  ASSUME TimeoutTypes, NEW w \in Workers, Publish(w)
  PROVE  TimeoutTypes'
<1>1. CASE ClaimOutbox(w)
  <2> DEFINE rows == {[order |-> o, try |-> attempts[o] + 1] : o \in FirstRows(Claimable)}
  <2>1. rows \in Batches /\ FirstRows(Claimable) \subseteq Claimable
    BY <1>1, ClaimedRows DEF ClaimOutbox
  <2>2. \A o \in FirstRows(Claimable) : o \in Orders /\ attempts[o] + 1 \in 0..MaxAttempts
    <3>1. \A o \in Claimable : o \in Orders /\ attempts[o] + 1 \in 0..MaxAttempts
      BY TimeoutAssumption DEF Claimable, TimeoutTypes
    <3> QED BY <2>1, <3>1
  <2>3. attempts' \in [Orders -> 0..MaxAttempts] /\ leased' \subseteq Orders
    <3> DEFINE F == FirstRows(Claimable)
    <3>1. attempts' = [o \in Orders |-> IF o \in F THEN attempts[o] + 1 ELSE attempts[o]]
          /\ leased' = leased \union F
      BY <1>1 DEF ClaimOutbox
    <3>2. \A o \in Orders : attempts[o] \in 0..MaxAttempts
      BY DEF TimeoutTypes
    <3>3. F \subseteq Orders /\ leased \subseteq Orders
      BY <2>2 DEF TimeoutTypes
    <3> HIDE DEF F
    <3>4. \A o \in Orders : o \in F => attempts[o] + 1 \in 0..MaxAttempts
      BY <2>2 DEF F
    <3> QED BY <3>1, <3>2, <3>3, <3>4
  <2>4. [stage |-> "publish", rows |-> rows] \in PubStates
    <3> HIDE DEF rows
    <3> QED BY <2>1 DEF PubStates
  <2>5. pub' = [pub EXCEPT ![w] = [stage |-> "publish", rows |-> rows]]
    BY <1>1 DEF ClaimOutbox
  <2>6. pub' \in [Workers -> PubStates]
    <3> HIDE DEF rows
    <3> QED BY <2>4, <2>5, PubChange
  <2> QED BY <1>1, <2>3, <2>6 DEF ClaimOutbox, queues, TimeoutTypes
<1>2. CASE PublishEvent(w)
  <2>1. Publishing(NextRow(w)) \in Messages /\ pub[w].rows \in Batches
    BY <1>2, PublishedMessage, RowsNotEmpty DEF PublishEvent
  <2>2. [pub[w] EXCEPT !.stage = "mark"] \in PubStates
    <3>1. pub[w] \in PubStates
      BY DEF TimeoutTypes
    <3>2. pub[w] # NoBatch
      BY <1>2 DEF PublishEvent, NoBatch
    <3>3. pub[w] \in [stage : {"publish", "mark"}, rows : Batches]
      BY <3>1, <3>2 DEF PubStates
    <3>4. [pub[w] EXCEPT !.stage = "mark"] \in [stage : {"publish", "mark"}, rows : Batches]
      BY <3>3
    <3> QED BY <3>4 DEF PubStates
  <2>3. pub' \in [Workers -> PubStates]
    BY <1>2, <2>2 DEF PublishEvent, TimeoutTypes
  <2> QED BY <1>2, <2>1, <2>3 DEF PublishEvent, outbox, TimeoutTypes
<1>3. CASE MarkPublished(w)
  <2> DEFINE left == pub[w].rows \ {NextRow(w)}
  <2>1. NextRow(w).order \in Orders /\ pub[w].rows \in Batches
    BY <1>3, RowsNotEmpty DEF MarkPublished
  <2>2. (IF left = {} THEN NoBatch ELSE [stage |-> "publish", rows |-> left]) \in PubStates
    BY <2>1 DEF PubStates, Batches
  <2>3. pub' \in [Workers -> PubStates]
    BY <1>3, <2>2 DEF MarkPublished, TimeoutTypes
  <2> QED BY <1>3, <2>1, <2>3 DEF MarkPublished, queues, TimeoutTypes
<1> QED BY <1>1, <1>2, <1>3 DEF Publish

LEMMA ConsumerTypes ==
  ASSUME TimeoutTypes, NEW w \in Workers, Deliver(w) \/ Handle(w)
  PROVE  TimeoutTypes'
<1> USE DEF outbox, queues
<1>1. Delivered(w) => con[w].msg \in Messages
  BY InHandOf
<1>2. NoDelivery \in ConStates
  BY DEF ConStates
<1>3. CASE Deliver(w)
  <2>1. PICK m \in cancelQ : con' = [con EXCEPT ![w] = [stage |-> "handle", msg |-> m]]
    BY <1>3 DEF Deliver
  <2>2. [stage |-> "handle", msg |-> m] \in ConStates
    BY DEF TimeoutTypes, ConStates
  <2>3. con' \in [Workers -> ConStates]
    BY <2>1, <2>2, ConChange
  <2> QED BY <1>3, <2>3 DEF Deliver, TimeoutTypes
<1>4. CASE CancelExpiredOrder(w)
  <2>1. Delivered(w) /\ con[w].msg \in Messages
    BY <1>1, <1>4 DEF CancelExpiredOrder, Handles, Delivered
  <2>2. [con[w] EXCEPT !.stage = "ack"] \in ConStates
    <3>1. con[w] \in ConStates /\ con[w] # NoDelivery
      BY <2>1 DEF TimeoutTypes, Delivered, NoDelivery
    <3> QED BY <3>1 DEF ConStates
  <2>3. con' \in [Workers -> ConStates]
    BY <1>4, <2>2 DEF CancelExpiredOrder, TimeoutTypes
  <2>4. status' \in [Orders -> Statuses]
    BY <1>4 DEF CancelExpiredOrder, TimeoutTypes, Statuses
  <2> QED BY <1>4, <2>3, <2>4 DEF CancelExpiredOrder, TimeoutTypes
<1>5. CASE Ack(w)
  BY <1>2, <1>5, ConChange DEF Ack, TimeoutTypes
<1>6. CASE CancelFails(w) \/ RejectInvalid(w)
  <2>1. con[w].msg \in Messages /\ Died(con[w].msg) \in Messages
    BY <1>1, <1>6, DiedMessage DEF CancelFails, RejectInvalid, Handles, Delivered
  <2>2. con' \in [Workers -> ConStates]
    BY <1>2, <1>6, ConChange DEF CancelFails, RejectInvalid
  <2>3. /\ cancelQ' \subseteq cancelQ \union {con[w].msg}
        /\ failedQ' \subseteq failedQ \union {Died(con[w].msg)}
        /\ UNCHANGED <<status, due, attempts, leased, published, pub, delayQ, outlived>>
    BY <1>6 DEF CancelFails, RejectInvalid, Nack
  <2> QED BY <2>1, <2>2, <2>3 DEF TimeoutTypes
<1> QED BY <1>3, <1>4, <1>5, <1>6 DEF Handle

LEMMA TimeoutTypesStep == TimeoutTypes /\ [Next]_vars => TimeoutTypes'
<1> SUFFICES ASSUME TimeoutTypes, [Next]_vars PROVE TimeoutTypes'
  OBVIOUS
<1> USE DEF outbox, queues
<1>1. CASE UNCHANGED vars
  BY <1>1 DEF vars, TimeoutTypes
<1>2. ASSUME NEW o \in Orders, PlaceOrder(o) \/ SettleOrder(o) \/ Deadline(o) \/ LeaseExpires(o)
      PROVE  TimeoutTypes'
  BY <1>2 DEF PlaceOrder, SettleOrder, Deadline, LeaseExpires, TimeoutTypes, Statuses
<1>3. ASSUME NEW w \in Workers, PublishFails(w) \/ SessionEnds(w) PROVE TimeoutTypes'
  <2>1. Ends(w)
    BY <1>3 DEF PublishFails, SessionEnds
  <2>2. /\ delayQ' \subseteq Messages /\ leased' \subseteq Orders
        /\ UNCHANGED <<status, due, attempts, published, failedQ>>
    <3>1. CASE PublishFails(w)
      <4>1. Publishing(NextRow(w)) \in Messages /\ NextRow(w).order \in Orders
        BY <3>1, PublishedMessage, RowsNotEmpty DEF PublishFails
      <4> QED BY <3>1, <4>1 DEF PublishFails, TimeoutTypes
    <3>2. CASE SessionEnds(w)
      BY <3>2 DEF SessionEnds, TimeoutTypes
    <3> QED BY <1>3, <3>1, <3>2
  <2> QED BY <2>1, <2>2, SessionEnd DEF TimeoutTypes
<1>4. ASSUME NEW w \in Workers, Publish(w) \/ Deliver(w) \/ Handle(w) PROVE TimeoutTypes'
  BY <1>4, PublisherTypes, ConsumerTypes
<1>5. ASSUME NEW m \in delayQ, DelayExpires(m) PROVE TimeoutTypes'
  <2>1. Died(m) \in Messages
    BY DiedMessage DEF TimeoutTypes
  <2> QED BY <1>5, <2>1 DEF DelayExpires, TimeoutTypes
<1>6. ASSUME NEW m \in failedQ, HandleFailedDelivery(m) PROVE TimeoutTypes'
  BY <1>6 DEF HandleFailedDelivery, TimeoutTypes
<1>7. ASSUME NEW late \in outlived, LateMark(late[2]) \/ LateCancel(late[2]) PROVE TimeoutTypes'
  <2>1. late[2] \in Messages /\ late[2].order \in Orders
    BY DEF TimeoutTypes, Messages
  <2> QED BY <1>7, <2>1 DEF LateMark, LateCancel, TimeoutTypes, Statuses
<1> QED BY <1>1, <1>2, <1>3, <1>4, <1>5, <1>6, <1>7 DEF Next

LEMMA TimeoutTypeCorrect == Spec => []TimeoutTypes
<1>1. Init => TimeoutTypes
  <2> SUFFICES ASSUME Init PROVE TimeoutTypes
    OBVIOUS
  <2>1. pub \in [Workers -> PubStates] /\ con \in [Workers -> ConStates]
    BY DEF Init, PubStates, ConStates
  <2>2. Foreign \subseteq Messages
    BY ForeignAssumption
  <2> QED BY <2>1, <2>2, TimeoutAssumption DEF Init, TimeoutTypes, Statuses
<1> QED BY <1>1, TimeoutTypesStep, PTL DEF Spec

-----------------------------------------------------------------------------
(* The status of an order changes in four ways: it is placed, paid or      *)
(* cancelled by a user, and cancelled by a message that is not refused. *)
Cancels(m) ==
  /\ ~ Refused(m)
  /\ status' = [status EXCEPT ![m.order] = IF m.try > 0 /\ @ = "pending" THEN "cancelled" ELSE @]

LEMMA StatusChanges ==
  ASSUME TimeoutTypes, [Next]_vars
  PROVE  \/ UNCHANGED status
         \/ /\ UNCHANGED <<con, outlived>>
            /\ \E o \in Orders : PlaceOrder(o) \/ SettleOrder(o)
         \/ \E m \in Messages : Cancels(m)
<1>1. CASE UNCHANGED vars
  BY <1>1 DEF vars
<1>2. ASSUME NEW o \in Orders, PlaceOrder(o) \/ SettleOrder(o) PROVE UNCHANGED <<con, outlived>>
  BY <1>2 DEF PlaceOrder, SettleOrder
<1>3. ASSUME NEW o \in Orders, Deadline(o) \/ LeaseExpires(o) PROVE UNCHANGED status
  BY <1>3 DEF Deadline, LeaseExpires
<1>4. ASSUME NEW w \in Workers,
             \/ Publish(w) \/ PublishFails(w) \/ SessionEnds(w)
             \/ Deliver(w) \/ Ack(w) \/ CancelFails(w) \/ RejectInvalid(w)
      PROVE  UNCHANGED status
  BY <1>4 DEF Publish, ClaimOutbox, PublishEvent, MarkPublished, PublishFails, SessionEnds,
              Deliver, Ack, CancelFails, RejectInvalid
<1>5. ASSUME NEW w \in Workers, CancelExpiredOrder(w) PROVE \E m \in Messages : Cancels(m)
  <2>1. con[w].msg \in Messages
    BY <1>5, InHandOf DEF CancelExpiredOrder, Handles, Delivered
  <2>2. Cancels(con[w].msg)
    BY <1>5 DEF CancelExpiredOrder, Cancels
  <2> QED BY <2>1, <2>2
<1>6. ASSUME NEW m, DelayExpires(m) \/ HandleFailedDelivery(m) \/ LateMark(m)
      PROVE  UNCHANGED status
  BY <1>6 DEF DelayExpires, HandleFailedDelivery, LateMark
<1>7. ASSUME NEW late \in outlived, LateCancel(late[2]) PROVE \E m \in Messages : Cancels(m)
  <2>1. late[2] \in Messages
    BY DEF TimeoutTypes
  <2>2. Cancels(late[2])
    BY <1>7 DEF LateCancel, Cancels
  <2> QED BY <2>1, <2>2
<1> QED BY <1>1, <1>2, <1>3, <1>4, <1>5, <1>6, <1>7 DEF Next, Handle

LEMMA StatusOnward ==
  ASSUME TimeoutTypes, [Next]_vars, NEW o \in Orders
  PROVE  /\ status[o] # "none" => status'[o] # "none"
         /\ Closed(o) => Closed(o)'
<1>1. ASSUME NEW m \in Messages, Cancels(m)
      PROVE  status'[o] = status[o] \/ (status[o] = "pending" /\ status'[o] = "cancelled")
  BY <1>1 DEF Cancels, TimeoutTypes
<1>2. ASSUME NEW i \in Orders, PlaceOrder(i) \/ SettleOrder(i)
      PROVE  \/ status'[o] = status[o]
             \/ status[o] = "none" /\ status'[o] = "pending"
             \/ status[o] = "pending" /\ status'[o] \in {"paid", "cancelled"}
  BY <1>2 DEF PlaceOrder, SettleOrder, TimeoutTypes
<1> QED BY <1>1, <1>2, StatusChanges DEF Closed

(* The worker cancels an order only after its deadline, and never one that *)
(* is paid or already cancelled: CancelExpiredOrder looks at the deadline  *)
(* and at the status in the transaction that changes it, whether its       *)
(* session is still there or has ended meanwhile. *)
THEOREM CancelsNeverEarly == Spec => NeverEarly
<1> DEFINE Early ==
      \A o \in Orders :
        status'[o] # status[o] /\ (con' # con \/ outlived' # outlived) =>
          o \in due /\ status[o] = "pending" /\ status'[o] = "cancelled"
<1>1. TimeoutTypes /\ [Next]_vars => [Early]_vars
  <2> SUFFICES ASSUME TimeoutTypes, [Next]_vars, NEW o \in Orders,
                      status'[o] # status[o], con' # con \/ outlived' # outlived
               PROVE  o \in due /\ status[o] = "pending" /\ status'[o] = "cancelled"
    OBVIOUS
  <2>1. PICK m \in Messages : Cancels(m)
    BY StatusChanges
  <2>2. o = m.order /\ m.try > 0 /\ status[o] = "pending" /\ status'[o] = "cancelled"
    BY <2>1 DEF Cancels, TimeoutTypes
  <2> QED BY <2>1, <2>2 DEF Cancels, Refused
<1> QED BY <1>1, TimeoutTypeCorrect, PTL DEF Spec, NeverEarly

-----------------------------------------------------------------------------
(* What a step does to the messages.  Nothing that keeps an order attended *)
(* is lost when every message from the outbox that goes is replaced by     *)
(* another of its order, or its order is closed. *)
CarriersStay ==
  \A m \in InFlight : m.try > 0 =>
    \/ Closed(m.order)
    \/ \E n \in InFlight' : n.order = m.order /\ n.try > 0

LEMMA InFlightNext ==
  ASSUME TimeoutTypes', NEW m
  PROVE  m \in InFlight' <=> \/ m \in delayQ' \/ m \in cancelQ'
                             \/ \E w \in Workers : Delivered(w)' /\ con'[w].msg = m
BY DEF InFlight, InHand, TimeoutTypes, ConStates, Delivered, NoDelivery

LEMMA AttendedOn ==
  ASSUME TimeoutTypes, [Next]_vars, CarriersStay, NEW o \in Orders, Attended(o)
  PROVE  Attended(o)'
<1>1. Closed(o) => Closed(o)'
  BY StatusOnward
<1> QED BY <1>1 DEF Attended, CarriersStay

(* What is under way keeps its place, or moves to another one. *)
LEMMA CarriersMove ==
  ASSUME TimeoutTypes, TimeoutTypes',
         \A m \in delayQ : m \in delayQ' \/ Died(m) \in cancelQ',
         \A m \in cancelQ : m \in cancelQ' \/ \E w \in Workers : Delivered(w)' /\ con'[w].msg = m,
         \A w \in Workers : Delivered(w) /\ con[w].msg.try > 0 =>
           \/ Closed(con[w].msg.order)
           \/ con[w].msg \in cancelQ'
           \/ Delivered(w)' /\ con'[w].msg = con[w].msg
  PROVE  CarriersStay
<1> SUFFICES ASSUME NEW m \in InFlight, m.try > 0
             PROVE  Closed(m.order) \/ \E n \in InFlight' : n.order = m.order /\ n.try > 0
  BY DEF CarriersStay
<1>1. CASE m \in delayQ
  <2>1. Died(m).order = m.order /\ Died(m).try = m.try
    BY <1>1, DiedMessage DEF TimeoutTypes
  <2>2. m \in InFlight' \/ Died(m) \in InFlight'
    BY <1>1, InFlightNext
  <2> QED BY <2>1, <2>2
<1>2. CASE m \in cancelQ
  <2>1. m \in InFlight'
    BY <1>2, InFlightNext
  <2> QED BY <2>1
<1>3. CASE \E w \in Workers : Delivered(w) /\ con[w].msg = m
  <2>1. PICK w \in Workers : Delivered(w) /\ con[w].msg = m
    BY <1>3
  <2>2. Closed(m.order) \/ m \in InFlight'
    BY <2>1, InFlightNext
  <2> QED BY <2>2
<1> QED BY <1>1, <1>2, <1>3, InFlightOf

(* What the publisher or the consumer of one worker does leaves the others *)
(* alone. *)
PubOnly(w) == UNCHANGED con /\ \A v \in Workers : v # w => pub'[v] = pub[v]

ConOnly(w) == UNCHANGED <<pub, published, outlived>> /\ \A v \in Workers : v # w => con'[v] = con[v]

LEMMA PublisherKeeps ==
  ASSUME TimeoutTypes, TimeoutTypes', TimeoutInv, [Next]_vars, NEW w \in Workers, Publish(w)
  PROVE  TimeoutInv'
<1>1. /\ \A o \in Orders : status[o] # "none" => status'[o] # "none"
      /\ UNCHANGED <<status, con, cancelQ, outlived>>
  BY StatusOnward DEF Publish, ClaimOutbox, PublishEvent, MarkPublished, queues
<1>2. AckedClosed'
  BY <1>1 DEF TimeoutInv, AckedClosed, Closed
<1>3. pub[w] \in PubStates
  BY DEF TimeoutTypes
<1>4. CASE ClaimOutbox(w)
  <2> DEFINE rows == {[order |-> o, try |-> attempts[o] + 1] : o \in FirstRows(Claimable)}
             b == [stage |-> "publish", rows |-> rows]
  <2>1. rows \in Batches /\ \A r \in rows : status[r.order] # "none"
    <3>1. rows \in Batches /\ FirstRows(Claimable) \subseteq Claimable
      BY <1>4, ClaimedRows DEF ClaimOutbox
    <3>2. \A o \in Claimable : status[o] # "none"
      BY DEF Claimable
    <3> QED BY <3>1, <3>2
  <2>2. b \in PubStates /\ b.stage = "publish" /\ b.rows = rows
    <3> HIDE DEF rows
    <3> QED BY <2>1 DEF PubStates
  <2>3. pub' = [pub EXCEPT ![w] = b]
    BY <1>4 DEF ClaimOutbox
  <2> HIDE DEF rows, b
  <2>4. PubOnly(w) /\ pub'[w] = b /\ UNCHANGED <<delayQ, published>>
    BY <1>1, <1>4, <2>2, <2>3, PubChange DEF PubOnly, ClaimOutbox, queues
  <2>5. MessagesGenuine'
    BY <1>1, <2>4 DEF TimeoutInv, MessagesGenuine, Genuine, Delivered
  <2>6. RowsPlaced'
    BY <1>1, <2>1, <2>2, <2>4 DEF TimeoutInv, RowsPlaced, PubOnly
  <2>7. \A o : Attended(o)' = Attended(o)
    BY <1>1, <2>4 DEF Attended, Closed, InFlight, InHand
  <2>8. MarkedAttended'
    BY <1>1, <2>2, <2>4, <2>7 DEF TimeoutInv, MarkedAttended, PubOnly, NextRow
  <2> QED BY <1>2, <2>5, <2>6, <2>8 DEF TimeoutInv
<1>5. CASE PublishEvent(w)
  <2>0. PICK r : r = NextRow(w)
    OBVIOUS
  <2> DEFINE b == [pub[w] EXCEPT !.stage = "mark"]
  <2>1. /\ Publishing(r) \in Messages /\ Publishing(r).order = r.order
        /\ Publishing(r).try > 0 /\ Publishing(r).deaths = 0 /\ Publishing(r).valid
        /\ r \in pub[w].rows /\ r.order \in Orders
    BY <1>5, <2>0, PublishedMessage, RowsNotEmpty DEF PublishEvent
  <2>2. b \in PubStates /\ b.stage = "mark" /\ b.rows = pub[w].rows
    <3>1. pub[w] # NoBatch
      BY <1>5 DEF PublishEvent, NoBatch
    <3>2. pub[w] \in [stage : {"publish", "mark"}, rows : Batches]
      BY <1>3, <3>1 DEF PubStates
    <3>3. b \in [stage : {"publish", "mark"}, rows : Batches] /\ b.stage = "mark" /\ b.rows = pub[w].rows
      BY <3>2
    <3> QED BY <3>3 DEF PubStates
  <2>3. pub' = [pub EXCEPT ![w] = b]
    BY <1>5 DEF PublishEvent
  <2>4. delayQ' = delayQ \union {Publishing(r)} /\ UNCHANGED published
    BY <1>5, <2>0 DEF PublishEvent, outbox
  <2> HIDE DEF b
  <2>5. PubOnly(w) /\ pub'[w] = b
    BY <1>1, <2>2, <2>3, PubChange DEF PubOnly
  <2>6. NextRow(w)' = r /\ \A v \in Workers : v # w => NextRow(v)' = NextRow(v)
    BY <2>0, <2>2, <2>5 DEF NextRow, PubOnly
  <2>7. status[r.order] # "none"
    BY <2>1 DEF TimeoutInv, RowsPlaced
  <2>8. MessagesGenuine'
    BY <1>1, <2>1, <2>4, <2>7 DEF TimeoutInv, MessagesGenuine, Genuine, Delivered
  <2>9. RowsPlaced'
    BY <1>1, <2>2, <2>5 DEF TimeoutInv, RowsPlaced, PubOnly
  <2>10. CarriersStay
    BY <1>1, <2>4, CarriersMove DEF Delivered
  <2>11. Attended(r.order)'
    <3>1. Publishing(r) \in InFlight'
      BY <2>4, InFlightNext
    <3> QED BY <2>1, <3>1 DEF Attended
  <2>12. MarkedAttended'
    <3>1. \A o \in published : o \in Orders /\ Attended(o)
      BY DEF TimeoutInv, MarkedAttended, TimeoutTypes
    <3>2. \A v \in Workers : pub[v].stage = "mark" => NextRow(v).order \in Orders /\ Attended(NextRow(v).order)
      BY RowsNotEmpty DEF TimeoutInv, MarkedAttended
    <3>3. \A m : <<"mark", m>> \in outlived => m.order \in Orders /\ Attended(m.order)
      BY DEF TimeoutInv, MarkedAttended, TimeoutTypes, Messages
    <3> QED BY <1>1, <2>4, <2>5, <2>6, <2>10, <2>11, <3>1, <3>2, <3>3, AttendedOn
            DEF MarkedAttended, PubOnly
  <2> QED BY <1>2, <2>8, <2>9, <2>12 DEF TimeoutInv
<1>6. CASE MarkPublished(w)
  <2> DEFINE left == pub[w].rows \ {NextRow(w)}
             b == IF left = {} THEN NoBatch ELSE [stage |-> "publish", rows |-> left]
  <2>1. NextRow(w).order \in Orders /\ pub[w].rows \in Batches /\ pub[w].stage = "mark"
    BY <1>6, RowsNotEmpty DEF MarkPublished
  <2>2. b \in PubStates /\ b.stage # "mark" /\ b.rows \subseteq pub[w].rows
    BY <2>1 DEF PubStates, Batches, NoBatch
  <2>3. pub' = [pub EXCEPT ![w] = b]
    BY <1>6 DEF MarkPublished
  <2> HIDE DEF left, b
  <2>4. /\ PubOnly(w) /\ pub'[w] = b /\ UNCHANGED delayQ
        /\ published' = published \union {NextRow(w).order}
    BY <1>1, <1>6, <2>2, <2>3, PubChange DEF PubOnly, MarkPublished, queues
  <2>5. MessagesGenuine'
    BY <1>1, <2>4 DEF TimeoutInv, MessagesGenuine, Genuine, Delivered
  <2>6. RowsPlaced'
    BY <1>1, <2>2, <2>4 DEF TimeoutInv, RowsPlaced, PubOnly
  <2>7. \A o : Attended(o)' = Attended(o)
    BY <1>1, <2>4 DEF Attended, Closed, InFlight, InHand
  <2>8. MarkedAttended'
    BY <1>1, <2>1, <2>2, <2>4, <2>7 DEF TimeoutInv, MarkedAttended, PubOnly, NextRow
  <2> QED BY <1>2, <2>5, <2>6, <2>8 DEF TimeoutInv
<1> QED BY <1>4, <1>5, <1>6 DEF Publish

LEMMA SessionEndKeeps ==
  ASSUME TimeoutTypes, TimeoutTypes', TimeoutInv, [Next]_vars, NEW w \in Workers,
         PublishFails(w) \/ SessionEnds(w)
  PROVE  TimeoutInv'
<1>1. /\ Ends(w) /\ UNCHANGED <<status, published>>
      /\ delayQ \subseteq delayQ'
      /\ \A m \in delayQ' : \/ m \in delayQ
                            \/ pub[w].stage = "publish" /\ m = Publishing(NextRow(w))
  BY DEF PublishFails, SessionEnds, outbox
<1>2. /\ pub'[w] = NoBatch /\ con'[w] = NoDelivery /\ cancelQ' = cancelQ \union InHand(w)
      /\ \A v \in Workers : v # w => pub'[v] = pub[v] /\ con'[v] = con[v]
      /\ \A m : <<"mark", m>> \in outlived' =>
           \/ <<"mark", m>> \in outlived
           \/ pub[w].stage = "mark" /\ m = Publishing(NextRow(w))
  BY <1>1, SessionEnd
<1>3. /\ NoBatch.stage # "mark" /\ NoBatch.rows = {}
      /\ NoDelivery.stage \notin {"handle", "ack"}
  BY DEF NoBatch, NoDelivery
<1>4. Delivered(w) => InHand(w) = {con[w].msg}
  BY InHandOf
<1>5. ~ Delivered(w) => InHand(w) = {}
  BY InHandOf
<1>6. MessagesGenuine'
  <2>1. \A m \in InHand(w) : Genuine(m)
    BY <1>4, <1>5 DEF TimeoutInv, MessagesGenuine
  <2>2. pub[w].stage = "publish" =>
          Publishing(NextRow(w)).try > 0 /\ Publishing(NextRow(w)).deaths = 0
            /\ Genuine(Publishing(NextRow(w)))
    <3> SUFFICES ASSUME pub[w].stage = "publish"
                 PROVE  Publishing(NextRow(w)).try > 0 /\ Publishing(NextRow(w)).deaths = 0
                          /\ Genuine(Publishing(NextRow(w)))
      OBVIOUS
    <3>1. status[NextRow(w).order] # "none"
      BY RowsNotEmpty DEF TimeoutInv, RowsPlaced
    <3> QED BY <3>1, PublishedMessage DEF Genuine
  <2> QED BY <1>1, <1>2, <1>3, <2>1, <2>2 DEF TimeoutInv, MessagesGenuine, Genuine, Delivered
<1>7. RowsPlaced'
  BY <1>1, <1>2, <1>3 DEF TimeoutInv, RowsPlaced
<1>8. AckedClosed'
  BY <1>1, <1>2, <1>3 DEF TimeoutInv, AckedClosed, Closed
<1>9. CarriersStay
  <2>1. \A v \in Workers : Delivered(v) =>
          con[v].msg \in cancelQ' \/ (Delivered(v)' /\ con'[v].msg = con[v].msg)
    BY <1>2, <1>4 DEF Delivered
  <2>2. delayQ \subseteq delayQ' /\ cancelQ \subseteq cancelQ'
    BY <1>1, <1>2
  <2> QED BY <2>1, <2>2, CarriersMove
<1>10. MarkedAttended'
  <2>1. \A o \in published : o \in Orders /\ Attended(o)
    BY DEF TimeoutInv, MarkedAttended, TimeoutTypes
  <2>2. \A v \in Workers : pub[v].stage = "mark" =>
          /\ NextRow(v).order \in Orders /\ Attended(NextRow(v).order)
          /\ Publishing(NextRow(v)).order = NextRow(v).order
    BY RowsNotEmpty, PublishedMessage DEF TimeoutInv, MarkedAttended
  <2>3. \A m : <<"mark", m>> \in outlived => m.order \in Orders /\ Attended(m.order)
    BY DEF TimeoutInv, MarkedAttended, TimeoutTypes, Messages
  <2>4. \A v \in Workers : v # w => NextRow(v)' = NextRow(v)
    BY <1>2 DEF NextRow
  <2>5. \A o \in Orders : Attended(o) => Attended(o)'
    BY <1>9, AttendedOn
  <2>6. \A v \in Workers : pub'[v].stage = "mark" => Attended(NextRow(v).order)'
    <3> SUFFICES ASSUME NEW v \in Workers, pub'[v].stage = "mark"
                 PROVE  Attended(NextRow(v).order)'
      OBVIOUS
    <3>1. v # w /\ pub[v].stage = "mark"
      BY <1>2, <1>3
    <3>2. PICK o \in Orders : o = NextRow(v).order /\ Attended(o)
      BY <2>2, <3>1
    <3>3. NextRow(v)'.order = o
      BY <2>4, <3>1, <3>2
    <3> QED BY <2>5, <3>2, <3>3
  <2>7. \A m : <<"mark", m>> \in outlived' => Attended(m.order)'
    BY <1>2, <2>2, <2>3, <2>5
  <2>8. \A o \in published' : Attended(o)'
    BY <1>1, <2>1, <2>5
  <2> QED BY <2>6, <2>7, <2>8 DEF MarkedAttended
<1> QED BY <1>6, <1>7, <1>8, <1>10 DEF TimeoutInv

(* A step that leaves the publishers alone keeps what they have marked     *)
(* attended. *)
LEMMA MarkedOn ==
  ASSUME TimeoutTypes, TimeoutTypes', TimeoutInv, [Next]_vars, CarriersStay, UNCHANGED pub,
         \A o \in published' : o \in published \/ \E m : <<"mark", m>> \in outlived /\ m.order = o,
         outlived' \subseteq outlived
  PROVE  RowsPlaced' /\ MarkedAttended'
<1>1. \A o \in Orders : Attended(o) => Attended(o)'
  BY AttendedOn
<1>2. \A o \in published : o \in Orders /\ Attended(o)
  BY DEF TimeoutInv, MarkedAttended, TimeoutTypes
<1>3. \A m : <<"mark", m>> \in outlived => m.order \in Orders /\ Attended(m.order)
  BY DEF TimeoutInv, MarkedAttended, TimeoutTypes, Messages
<1>4. \A w \in Workers : pub'[w].stage = "mark" => Attended(NextRow(w).order)'
  <2> SUFFICES ASSUME NEW w \in Workers, pub[w].stage = "mark"
               PROVE  Attended(NextRow(w).order)'
    OBVIOUS
  <2>1. PICK o \in Orders : o = NextRow(w).order /\ Attended(o)
    BY RowsNotEmpty DEF TimeoutInv, MarkedAttended
  <2>2. NextRow(w)'.order = o
    BY <2>1 DEF NextRow
  <2> QED BY <1>1, <2>1, <2>2
<1>5. MarkedAttended'
  BY <1>1, <1>2, <1>3, <1>4 DEF MarkedAttended
<1>6. RowsPlaced'
  <2> SUFFICES ASSUME NEW w \in Workers, NEW r \in pub[w].rows PROVE status'[r.order] # "none"
    BY DEF RowsPlaced
  <2>1. r.order \in Orders
    BY DEF TimeoutTypes, PubStates, Batches, NoBatch
  <2> QED BY <2>1, StatusOnward DEF TimeoutInv, RowsPlaced
<1> QED BY <1>5, <1>6

(* An event from the outbox counts one death when it is delivered.  It is  *)
(* put back as long as retries are allowed: two are enough. *)
LEMMA ConsumerKeeps ==
  ASSUME MaxCancelRetries > 1,
         TimeoutTypes, TimeoutTypes', TimeoutInv, [Next]_vars, NEW w \in Workers,
         Deliver(w) \/ Handle(w)
  PROVE  TimeoutInv'
<1> USE DEF outbox, queues
<1>1. /\ \A m \in Messages : status[m.order] # "none" => status'[m.order] # "none"
      /\ \A m \in Messages : Closed(m.order) => Closed(m.order)'
  BY StatusOnward DEF Messages
<1>2. /\ \A m \in delayQ : m \in Messages /\ m.try > 0 /\ m.deaths = 0 /\ Genuine(m)
      /\ \A m \in cancelQ : m \in Messages /\ Genuine(m)
      /\ \A v \in Workers : Delivered(v) => con[v].msg \in Messages /\ Genuine(con[v].msg)
      /\ \A v \in Workers : con[v].stage = "ack" /\ con[v].msg.try > 0 => Closed(con[v].msg.order)
  BY InHandOf DEF TimeoutInv, MessagesGenuine, AckedClosed, TimeoutTypes
<1>3. UNCHANGED <<pub, published, outlived, delayQ>>
  BY DEF Handle, Deliver, CancelExpiredOrder, Ack, CancelFails, RejectInvalid
<1>4. CarriersStay => RowsPlaced' /\ MarkedAttended'
  BY <1>3, MarkedOn
<1>5. NoDelivery \in ConStates /\ NoDelivery.stage = "idle"
  BY DEF ConStates, NoDelivery
<1> DEFINE Rest == MessagesGenuine' /\ AckedClosed' /\ CarriersStay
<1>6. ASSUME Deliver(w) PROVE Rest
  <2>1. PICK m \in cancelQ : /\ con' = [con EXCEPT ![w] = [stage |-> "handle", msg |-> m]]
                             /\ cancelQ' = cancelQ \ {m}
    BY <1>6 DEF Deliver
  <2>2. [stage |-> "handle", msg |-> m] \in ConStates
    BY DEF TimeoutTypes, ConStates
  <2>3. /\ con'[w] = [stage |-> "handle", msg |-> m] /\ con[w] = NoDelivery
        /\ \A v \in Workers : v # w => con'[v] = con[v]
    BY <1>6, <2>1, <2>2, ConChange DEF Deliver
  <2>4. MessagesGenuine'
    BY <1>1, <1>2, <1>3, <2>1, <2>3 DEF MessagesGenuine, Genuine, Delivered
  <2>5. AckedClosed'
    BY <1>2, <1>6, <2>3 DEF Deliver, AckedClosed, Closed
  <2>6. CarriersStay
    <3>1. \A n \in cancelQ : n \in cancelQ' \/ (Delivered(w)' /\ con'[w].msg = n)
      BY <2>1, <2>3 DEF Delivered
    <3>2. \A v \in Workers : Delivered(v) => Delivered(v)' /\ con'[v].msg = con[v].msg
      BY <1>5, <2>3 DEF Delivered
    <3> QED BY <1>3, <3>1, <3>2, CarriersMove
  <2> QED BY <2>4, <2>5, <2>6
<1>7. ASSUME CancelExpiredOrder(w) PROVE Rest
  <2>1. PICK m \in Messages : con[w].msg = m /\ Genuine(m) /\ con[w] # NoDelivery /\ Delivered(w)
    BY <1>2, <1>5, <1>7 DEF CancelExpiredOrder, Handles, Delivered
  <2>2. con[w] \in [stage : {"handle", "ack"}, msg : Messages]
    BY <2>1 DEF TimeoutTypes, ConStates
  <2> DEFINE c == [con[w] EXCEPT !.stage = "ack"]
  <2>3. c \in ConStates /\ c.stage = "ack" /\ c.msg = m
    BY <2>1, <2>2 DEF ConStates
  <2>4. con' = [con EXCEPT ![w] = c] /\ UNCHANGED cancelQ
    BY <1>7 DEF CancelExpiredOrder
  <2> HIDE DEF c
  <2>5. con'[w] = c /\ \A v \in Workers : v # w => con'[v] = con[v]
    BY <2>3, <2>4, ConChange
  <2>6. MessagesGenuine'
    BY <1>1, <1>2, <1>3, <2>1, <2>3, <2>4, <2>5 DEF MessagesGenuine, Genuine, Delivered
  <2>7. m.try > 0 => Closed(m.order)'
    <3>1. m.order \in Orders /\ status[m.order] \in Statuses
      BY DEF TimeoutTypes, Messages
    <3>2. status' = [status EXCEPT ![m.order] =
                       IF m.try > 0 /\ @ = "pending" THEN "cancelled" ELSE @]
      BY <1>7, <2>1 DEF CancelExpiredOrder
    <3>3. m.try > 0 => status[m.order] # "none"
      BY <2>1 DEF Genuine
    <3> QED BY <3>1, <3>2, <3>3 DEF TimeoutTypes, Closed, Statuses
  <2>8. AckedClosed'
    BY <1>1, <1>2, <2>3, <2>5, <2>7 DEF AckedClosed, Closed, Delivered
  <2>9. CarriersStay
    <3>1. \A v \in Workers : Delivered(v) => Delivered(v)' /\ con'[v].msg = con[v].msg
      BY <2>1, <2>3, <2>5 DEF Delivered
    <3> QED BY <1>3, <2>4, <3>1, CarriersMove
  <2> QED BY <2>6, <2>8, <2>9
<1>8. ASSUME Ack(w) \/ CancelFails(w) \/ RejectInvalid(w) PROVE Rest
  <2>1. con' = [con EXCEPT ![w] = NoDelivery] /\ Delivered(w) /\ UNCHANGED status
    BY <1>8 DEF Ack, CancelFails, RejectInvalid, Handles, Delivered
  <2>2. con'[w] = NoDelivery /\ \A v \in Workers : v # w => con'[v] = con[v]
    BY <1>5, <2>1, ConChange
  <2>3. cancelQ \subseteq cancelQ' /\ \A m \in cancelQ' : m \in cancelQ \/ m = con[w].msg
    BY <1>8 DEF Ack, CancelFails, RejectInvalid, Nack
  <2>4. MessagesGenuine'
    BY <1>2, <1>3, <1>5, <2>1, <2>2, <2>3 DEF MessagesGenuine, Genuine, Delivered
  <2>5. AckedClosed'
    BY <1>2, <1>5, <2>1, <2>2 DEF AckedClosed, Closed
  <2>6. con[w].msg.try > 0 => Closed(con[w].msg.order) \/ con[w].msg \in cancelQ'
    <3> SUFFICES ASSUME con[w].msg.try > 0
                 PROVE  Closed(con[w].msg.order) \/ con[w].msg \in cancelQ'
      OBVIOUS
    <3>1. con[w].msg.valid /\ con[w].msg.deaths <= 1 /\ con[w].msg \in Messages
      BY <1>2, <2>1 DEF Genuine
    <3>2. con[w].msg.deaths \in Nat
      BY <3>1 DEF Messages
    <3>3. CASE Ack(w)
      BY <1>2, <3>3 DEF Ack
    <3>4. CASE CancelFails(w)
      <4>1. ~ (con[w].msg.deaths >= MaxCancelRetries)
        BY <3>1, <3>2, TimeoutAssumption
      <4> QED BY <3>4, <4>1 DEF CancelFails, Nack
    <3>5. CASE RejectInvalid(w)
      BY <3>1, <3>5 DEF RejectInvalid
    <3> QED BY <1>8, <3>3, <3>4, <3>5
  <2>7. CarriersStay
    <3>1. \A v \in Workers : v # w /\ Delivered(v) => Delivered(v)' /\ con'[v].msg = con[v].msg
      BY <2>2 DEF Delivered
    <3> QED BY <1>3, <2>3, <2>6, <3>1, CarriersMove
  <2> QED BY <2>4, <2>5, <2>7
<1>9. Rest
  BY <1>6, <1>7, <1>8 DEF Handle
<1> QED BY <1>4, <1>9 DEF TimeoutInv

(* Orders, leases, the broker, the failed queue and the loops that outlive *)
(* their session. *)
LEMMA OthersKeep ==
  ASSUME TimeoutTypes, TimeoutTypes', TimeoutInv, [Next]_vars,
         \/ UNCHANGED vars
         \/ \E o \in Orders : PlaceOrder(o) \/ SettleOrder(o) \/ Deadline(o) \/ LeaseExpires(o)
         \/ \E m \in delayQ : DelayExpires(m)
         \/ \E m \in failedQ : HandleFailedDelivery(m)
         \/ \E late \in outlived : LateMark(late[2]) \/ LateCancel(late[2])
  PROVE  TimeoutInv'
<1> USE DEF outbox, queues
<1>1. /\ \A m \in Messages : status[m.order] # "none" => status'[m.order] # "none"
      /\ \A m \in Messages : Closed(m.order) => Closed(m.order)'
  BY StatusOnward DEF Messages
<1>2. /\ \A m \in delayQ : m \in Messages /\ m.try > 0 /\ m.deaths = 0 /\ Genuine(m)
      /\ \A m \in cancelQ : m \in Messages /\ Genuine(m)
      /\ \A v \in Workers : Delivered(v) => con[v].msg \in Messages /\ Genuine(con[v].msg)
      /\ \A v \in Workers : con[v].stage = "ack" /\ con[v].msg.try > 0 => Closed(con[v].msg.order)
  BY InHandOf DEF TimeoutInv, MessagesGenuine, AckedClosed, TimeoutTypes
<1>3. /\ UNCHANGED <<pub, con>> /\ outlived' \subseteq outlived
      /\ \A o \in published' : o \in published \/ \E m : <<"mark", m>> \in outlived /\ m.order = o
  <2>1. CASE \E late \in outlived : LateMark(late[2])
    BY <2>1 DEF LateMark
  <2>2. CASE ~ \E late \in outlived : LateMark(late[2])
    BY <2>2 DEF vars, PlaceOrder, SettleOrder, Deadline, LeaseExpires, DelayExpires,
                HandleFailedDelivery, LateCancel
  <2> QED BY <2>1, <2>2
<1>4. /\ \A m \in delayQ : m \in delayQ' \/ Died(m) \in cancelQ'
      /\ delayQ' \subseteq delayQ /\ cancelQ \subseteq cancelQ'
      /\ \A m \in cancelQ' : m \in cancelQ \/ \E n \in delayQ : m = Died(n)
  <2>1. CASE \E m \in delayQ : DelayExpires(m)
    BY <2>1 DEF DelayExpires
  <2>2. CASE ~ \E m \in delayQ : DelayExpires(m)
    BY <2>2 DEF vars, PlaceOrder, SettleOrder, Deadline, LeaseExpires,
                HandleFailedDelivery, LateMark, LateCancel
  <2> QED BY <2>1, <2>2
<1>5. CarriersStay
  <2>1. \A v \in Workers : Delivered(v) => Delivered(v)' /\ con'[v].msg = con[v].msg
    BY <1>3 DEF Delivered
  <2> QED BY <1>4, <2>1, CarriersMove
<1>6. RowsPlaced' /\ MarkedAttended'
  BY <1>3, <1>5, MarkedOn
<1>7. AckedClosed'
  BY <1>1, <1>2, <1>3 DEF AckedClosed, Closed, Delivered
<1>8. MessagesGenuine'
  <2>1. \A n \in delayQ : Died(n).order = n.order /\ Died(n).deaths = 1 /\ Died(n).valid = n.valid
    BY <1>2, DiedMessage
  <2>2. \A m \in cancelQ' : m.try > 0 => m.deaths <= 1 /\ m.valid /\ status'[m.order] # "none"
    BY <1>1, <1>2, <1>4, <2>1 DEF Genuine
  <2> QED BY <1>1, <1>2, <1>3, <1>4, <2>2 DEF MessagesGenuine, Genuine, Delivered
<1> QED BY <1>6, <1>7, <1>8 DEF TimeoutInv

LEMMA TimeoutStep ==
  MaxCancelRetries > 1 /\ TimeoutTypes /\ TimeoutInv /\ [Next]_vars => TimeoutInv'
BY TimeoutTypesStep, PublisherKeeps, SessionEndKeeps, ConsumerKeeps, OthersKeep DEF Next

(* A delivered event counts one death, so that two retries are enough.     *)
(* Then no timeout is lost: as long as an order whose outbox row is marked *)
(* is pending, a message for it is in a queue or with a consumer, however  *)
(* sessions end, leases expire, and rows are published twice. *)
THEOREM NoTimeoutIsLost ==
  ASSUME MaxCancelRetries > 1
  PROVE  Spec => []NothingLost
<1>1. Init => TimeoutInv
  <2> SUFFICES ASSUME Init PROVE TimeoutInv
    OBVIOUS
  <2>1. MessagesGenuine
    BY ForeignAssumption DEF Init, MessagesGenuine, Genuine, Delivered, NoDelivery
  <2>2. RowsPlaced /\ AckedClosed /\ MarkedAttended
    BY DEF Init, RowsPlaced, AckedClosed, MarkedAttended, NoBatch, NoDelivery
  <2> QED BY <2>1, <2>2 DEF TimeoutInv
<1>2. TimeoutInv => NothingLost
  BY DEF TimeoutInv, MarkedAttended, Attended, Closed, NothingLost
<1>3. TimeoutTypes /\ TimeoutInv /\ [Next]_vars => TimeoutInv'
  BY TimeoutStep
<1> QED BY <1>1, <1>2, <1>3, TimeoutTypeCorrect, PTL DEF Spec
=============================================================================
