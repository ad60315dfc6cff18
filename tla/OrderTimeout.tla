---------------------------- MODULE OrderTimeout ----------------------------
(***************************************************************************)
(* The order timeout: the outbox rows written with the orders, the worker  *)
(* instances that publish and consume their events, and the RabbitMQ       *)
(* queues between them.                                                    *)
(*                                                                         *)
(*   outbox --claim, publish, confirm, mark--> delay queue (ladder)        *)
(*   delay queue --time to live--> cancel queue --consume--> CancelExpired *)
(*   cancel queue --rejected--> failed queue --consume--> dead letter row  *)
(*                                                                         *)
(* Time is not counted: a lease expires, a deadline passes and a message   *)
(* leaves the delay queue in steps of their own.  A message stays in its   *)
(* delay queue until the deadline of the order, except when the deadline   *)
(* is further away than the longest ladder.  RabbitMQ delivers at least    *)
(* once: what a session that ends had not acknowledged returns.            *)
(***************************************************************************)
EXTENDS Integers, FiniteSets

CONSTANTS Orders,            \* order ids, in the order of their outbox ids
          Workers,           \* the worker instances
          BatchSize,         \* rows claimed at a time
          MaxAttempts,       \* defaultMaxOutboxAttempts
          MaxCancelRetries,  \* defaultMaxCancelRetries
          Long,              \* orders due later than the longest ladder
          Broken,            \* orders whose cancellation always fails
          Foreign,           \* messages in the cancel queue at the start
          Faults,            \* the kinds of fault that happen
          MaxFaults          \* bound: faults in one behaviour

ASSUME TimeoutAssumption ==
  /\ Orders \subseteq Nat
  /\ BatchSize \in Nat \ {0}
  /\ MaxAttempts \in Nat \ {0}
  /\ MaxCancelRetries \in Nat \ {0}
  /\ Long \subseteq Orders
  /\ Broken \subseteq Orders
  /\ MaxFaults \in Nat

(* A message carries the order, the claim it was published under (0 for an *)
(* event that has no outbox row), the count in its x-death header and      *)
(* whether it can be decoded. *)
Messages == [order : Orders, try : 0..MaxAttempts, deaths : Nat, valid : BOOLEAN]

ASSUME ForeignAssumption == \A m \in Foreign : m \in Messages /\ m.try = 0

VARIABLES
  status,     \* orders.status
  due,        \* orders whose timeout_at has passed
  attempts,   \* outbox.attempts
  leased,     \* outbox rows with next_attempt_at in the future
  published,  \* outbox rows with published_at set
  pub,        \* the publisher of each worker: stage and rows left to publish
  con,        \* the consumer of each worker: stage and message in hand
  delayQ,     \* messages in the ladder queues
  cancelQ,    \* messages in the cancel queue
  failedQ,    \* messages in the failed queue
  dead,       \* order_timeout_dead_letters
  outlived,   \* what the loops of a session that has ended may still do
  alerted,    \* rows reported to have reached the attempts limit
  faults      \* how many faults there were

outbox == <<attempts, leased, published>>
queues == <<delayQ, cancelQ, failedQ>>
vars == <<status, due, outbox, pub, con, queues, dead, outlived, alerted, faults>>

NoBatch == [stage |-> "idle", rows |-> {}]

NoDelivery == [stage |-> "idle"]

Init ==
  /\ status = [o \in Orders |-> "none"]
  /\ due = {}
  /\ attempts = [o \in Orders |-> 0]
  /\ leased = {}
  /\ published = {}
  /\ pub = [w \in Workers |-> NoBatch]
  /\ con = [w \in Workers |-> NoDelivery]
  /\ delayQ = {}
  /\ cancelQ = Foreign
  /\ failedQ = {}
  /\ dead = {}
  /\ outlived = {}
  /\ alerted = {}
  /\ faults = 0

Fault(kind) ==
  /\ kind \in Faults
  /\ faults < MaxFaults
  /\ faults' = faults + 1

-----------------------------------------------------------------------------
(* The order service, as far as the timeout sees it: the outbox row is     *)
(* written in the transaction of the order. *)
PlaceOrder(o) ==
  /\ status[o] = "none"
  /\ status' = [status EXCEPT ![o] = "pending"]
  /\ UNCHANGED <<due, outbox, pub, con, queues, dead, outlived, alerted, faults>>

SettleOrder(o) ==
  /\ status[o] = "pending"
  /\ \E s \in {"paid", "cancelled"} : status' = [status EXCEPT ![o] = s]
  /\ UNCHANGED <<due, outbox, pub, con, queues, dead, outlived, alerted, faults>>

Deadline(o) ==
  /\ status[o] # "none"
  /\ o \notin due
  /\ due' = due \union {o}
  /\ UNCHANGED <<status, outbox, pub, con, queues, dead, outlived, alerted, faults>>

LeaseExpires(o) ==
  /\ o \in leased
  /\ leased' = leased \ {o}
  /\ UNCHANGED <<status, due, attempts, published, pub, con, queues, dead, outlived, alerted, faults>>

-----------------------------------------------------------------------------
(* The publisher. *)

(* Defect: only rows that were never tried are claimed, expired leases are *)
(* left behind. *)
ClaimableUntried == {o \in Orders : status[o] # "none" /\ o \notin published /\ attempts[o] = 0}

(* ClaimPendingOrderTimeoutOutbox: the first rows that are not published,  *)
(* not leased and below the attempts limit are leased, and every one of    *)
(* them is charged an attempt, in one transaction. *)
Claimable == {o \in Orders : /\ status[o] # "none"
                             /\ o \notin published
                             /\ o \notin leased
                             /\ attempts[o] < MaxAttempts}

FirstRows(S) == {o \in S : Cardinality({p \in S : p < o}) < BatchSize}

ClaimOutbox(w) ==
  /\ pub[w] = NoBatch
  /\ Claimable # {}
  /\ LET rows == FirstRows(Claimable) IN
       /\ attempts' = [o \in Orders |-> IF o \in rows THEN attempts[o] + 1 ELSE attempts[o]]
       /\ leased' = leased \union rows
       /\ pub' = [pub EXCEPT ![w] =
                    [stage |-> "publish",
                     rows |-> {[order |-> o, try |-> attempts[o] + 1] : o \in rows}]]
  /\ UNCHANGED <<status, due, published, con, queues, dead, outlived, alerted, faults>>

NextRow(w) == CHOOSE r \in pub[w].rows : \A s \in pub[w].rows : r.order <= s.order

Publishing(r) == [order |-> r.order, try |-> r.try, deaths |-> 0, valid |-> TRUE]

(* publishEvent: the message is routed to a ladder queue and the publisher *)
(* waits for the confirmation. *)
PublishEvent(w) ==
  /\ pub[w].stage = "publish"
  /\ delayQ' = delayQ \union {Publishing(NextRow(w))}
  /\ pub' = [pub EXCEPT ![w].stage = "mark"]
  /\ UNCHANGED <<status, due, outbox, con, cancelQ, failedQ, dead, outlived, alerted, faults>>

MarkPublished(w) ==
  /\ pub[w].stage = "mark"
  /\ published' = published \union {NextRow(w).order}
  /\ LET left == pub[w].rows \ {NextRow(w)} IN
       pub' = [pub EXCEPT ![w] =
                 IF left = {} THEN NoBatch ELSE [stage |-> "publish", rows |-> left]]
  /\ UNCHANGED <<status, due, attempts, leased, con, queues, dead, outlived, alerted, faults>>

(* The session of a worker ends: the rows it had not come to are left to   *)
(* their leases, the message in hand returns to its queue.  runSession     *)
(* does not wait for its loops: the statement one of them has sent may     *)
(* still be carried out, next to the new session. *)
InHand(w) == IF con[w] = NoDelivery THEN {} ELSE {con[w].msg}

Unfinished(w) ==
  {<<"mark", Publishing(r)>> : r \in {s \in pub[w].rows : pub[w].stage = "mark" /\ s = NextRow(w)}}
    \union {<<"cancel", m>> : m \in {n \in InHand(w) : con[w].stage = "handle" /\ n.valid}}

Ends(w) ==
  /\ outlived' = outlived \union Unfinished(w)
  /\ pub' = [pub EXCEPT ![w] = NoBatch]
  /\ con' = [con EXCEPT ![w] = NoDelivery]
  /\ cancelQ' = cancelQ \union InHand(w)

(* Defect: the row is marked before the confirmation is known. *)
PublishFailsMarked(w) ==
  /\ Fault("publish")
  /\ pub[w].stage = "publish"
  /\ published' = published \union {NextRow(w).order}
  /\ Ends(w)
  /\ UNCHANGED <<status, due, attempts, leased, delayQ, failedQ, dead, alerted>>

(* The event is not published, or not known to be: the row is given a new  *)
(* time for the next attempt (unless that fails too, or another worker has *)
(* published it meanwhile) and the session ends. *)
PublishFails(w) ==
  /\ Fault("publish")
  /\ pub[w].stage = "publish"
  /\ \E lost \in {{}, {Publishing(NextRow(w))}} : delayQ' = delayQ \union lost
  /\ \E retry \in {{}, {NextRow(w).order} \ published} : leased' = leased \union retry
  /\ alerted' = IF NextRow(w).try >= MaxAttempts THEN alerted \union {NextRow(w).order} ELSE alerted
  /\ Ends(w)
  /\ UNCHANGED <<status, due, attempts, published, failedQ, dead>>

(* The connection is lost, the process stops, or the row cannot be marked. *)
SessionEnds(w) ==
  /\ Fault("session")
  /\ pub[w] # NoBatch \/ con[w] # NoDelivery
  /\ Ends(w)
  /\ UNCHANGED <<status, due, outbox, delayQ, failedQ, dead, alerted>>

-----------------------------------------------------------------------------
(* RabbitMQ: a message whose time to live is over is dead-lettered to the  *)
(* cancel queue, which its x-death header counts. *)
Died(m) == [m EXCEPT !.deaths = @ + 1]

DelayExpires(m) ==
  /\ m \in delayQ
  /\ m.order \in due \union Long
  /\ delayQ' = delayQ \ {m}
  /\ cancelQ' = cancelQ \union {Died(m)}
  /\ UNCHANGED <<status, due, outbox, pub, con, failedQ, dead, outlived, alerted, faults>>

Deliver(w) ==
  /\ con[w] = NoDelivery
  /\ \E m \in cancelQ :
       /\ con' = [con EXCEPT ![w] = [stage |-> "handle", msg |-> m]]
       /\ cancelQ' = cancelQ \ {m}
  /\ UNCHANGED <<status, due, outbox, pub, delayQ, failedQ, dead, outlived, alerted, faults>>

-----------------------------------------------------------------------------
(* The consumer.  CancelExpiredOrder ignores an event without an outbox    *)
(* row and an order that is not pending, fails before the deadline, and    *)
(* otherwise cancels the order. *)
Handles(w) == con[w].stage = "handle" /\ con[w].msg.valid

Refused(m) == m.try > 0 /\ (m.order \notin due \/ m.order \in Broken)

(* Defect: the deadline is not checked. *)
CancelUnchecked(w) ==
  /\ Handles(w)
  /\ LET m == con[w].msg IN
       /\ m.order \notin Broken
       /\ status' = [status EXCEPT ![m.order] = IF m.try > 0 /\ @ = "pending"
                                                THEN "cancelled" ELSE @]
  /\ con' = [con EXCEPT ![w].stage = "ack"]
  /\ UNCHANGED <<due, outbox, pub, queues, dead, outlived, alerted, faults>>

CancelExpiredOrder(w) ==
  /\ Handles(w)
  /\ LET m == con[w].msg IN
       /\ ~ Refused(m)
       /\ status' = [status EXCEPT ![m.order] = IF m.try > 0 /\ @ = "pending"
                                                THEN "cancelled" ELSE @]
  /\ con' = [con EXCEPT ![w].stage = "ack"]
  /\ UNCHANGED <<due, outbox, pub, queues, dead, outlived, alerted, faults>>

Ack(w) ==
  /\ con[w].stage = "ack"
  /\ con' = [con EXCEPT ![w] = NoDelivery]
  /\ UNCHANGED <<status, due, outbox, pub, queues, dead, outlived, alerted, faults>>

(* A cancellation that failed is put back into the queue, which leaves the *)
(* x-death header as it is, or rejected when the header counts enough. *)
Nack(w) ==
  LET m == con[w].msg IN
    IF m.deaths >= MaxCancelRetries
    THEN failedQ' = failedQ \union {Died(m)} /\ UNCHANGED cancelQ
    ELSE cancelQ' = cancelQ \union {m} /\ UNCHANGED failedQ

CancelFails(w) ==
  /\ Handles(w)
  /\ \/ Refused(con[w].msg) /\ UNCHANGED faults
     \/ Fault("cancel")
  /\ Nack(w)
  /\ con' = [con EXCEPT ![w] = NoDelivery]
  /\ UNCHANGED <<status, due, outbox, pub, delayQ, dead, outlived, alerted>>

(* A message that cannot be decoded is rejected. *)
RejectInvalid(w) ==
  /\ con[w].stage = "handle"
  /\ ~ con[w].msg.valid
  /\ failedQ' = failedQ \union {Died(con[w].msg)}
  /\ con' = [con EXCEPT ![w] = NoDelivery]
  /\ UNCHANGED <<status, due, outbox, pub, delayQ, cancelQ, dead, outlived, alerted, faults>>

(* handleFailedDelivery stores a dead letter, or only logs it when the     *)
(* database fails, and acknowledges the message in both cases. *)
HandleFailedDelivery(m) ==
  /\ m \in failedQ
  /\ \/ dead' = dead \union {m} /\ UNCHANGED faults
     \/ Fault("store") /\ UNCHANGED dead
  /\ failedQ' = failedQ \ {m}
  /\ UNCHANGED <<status, due, outbox, pub, con, delayQ, cancelQ, outlived, alerted>>

(* The loops that outlive their session: a row is marked, an order is      *)
(* cancelled. *)
LateMark(m) ==
  /\ <<"mark", m>> \in outlived
  /\ published' = published \union {m.order}
  /\ outlived' = outlived \ {<<"mark", m>>}
  /\ UNCHANGED <<status, due, attempts, leased, pub, con, queues, dead, alerted, faults>>

LateCancel(m) ==
  /\ <<"cancel", m>> \in outlived
  /\ ~ Refused(m)
  /\ status' = [status EXCEPT ![m.order] = IF m.try > 0 /\ @ = "pending" THEN "cancelled" ELSE @]
  /\ outlived' = outlived \ {<<"cancel", m>>}
  /\ UNCHANGED <<due, outbox, pub, con, queues, dead, alerted, faults>>

-----------------------------------------------------------------------------
Publish(w) == ClaimOutbox(w) \/ PublishEvent(w) \/ MarkPublished(w)

Handle(w) == CancelExpiredOrder(w) \/ Ack(w) \/ CancelFails(w) \/ RejectInvalid(w)

Next ==
  \/ \E o \in Orders : PlaceOrder(o) \/ SettleOrder(o) \/ Deadline(o) \/ LeaseExpires(o)
  \/ \E w \in Workers : \/ Publish(w) \/ PublishFails(w) \/ SessionEnds(w)
                        \/ Deliver(w) \/ Handle(w)
  \/ \E m \in delayQ : DelayExpires(m)
  \/ \E m \in failedQ : HandleFailedDelivery(m)
  \/ \E late \in outlived : LateMark(late[2]) \/ LateCancel(late[2])

Spec == Init /\ [][Next]_vars

(* Time passes, the broker works, and every loop of every worker goes on:  *)
(* an error ends a session, and Run opens a new one. *)
Fairness ==
  /\ \A o \in Orders : WF_vars(Deadline(o)) /\ WF_vars(LeaseExpires(o))
  /\ \A w \in Workers : WF_vars(Publish(w)) /\ WF_vars(Deliver(w)) /\ WF_vars(Handle(w))
  /\ WF_vars(\E m \in delayQ : DelayExpires(m))
  /\ WF_vars(\E m \in failedQ : HandleFailedDelivery(m))

FairSpec == Spec /\ Fairness

-----------------------------------------------------------------------------
(* The messages on their way to a consumer, or in its hands. *)
InFlight == delayQ \union cancelQ \union UNION {InHand(w) : w \in Workers}

(* The timeout of a pending order is never lost: its outbox row can still  *)
(* be published, or a message for it is on its way, however sessions end   *)
(* and leases expire; a row that is marked always has a message. *)
NothingLost ==
  \A o \in Orders :
    status[o] = "pending" /\ o \in published =>
      \E m \in InFlight : m.order = o /\ m.try > 0

(* The worker cancels an order only after its deadline, and never one that *)
(* is paid, although messages arrive early, late and more than once. *)
NeverEarly ==
  [][\A o \in Orders :
       status'[o] # status[o] /\ (con' # con \/ outlived' # outlived) =>
         o \in due /\ status[o] = "pending" /\ status'[o] = "cancelled"]_vars

(* As long as the faults are fewer than the attempts, every pending order  *)
(* is eventually paid or cancelled: no timeout is forgotten. *)
EventuallySettled == \A o \in Orders : status[o] = "pending" ~> status[o] # "pending"

(* A publisher has order o's row in its batch. *)
Held(o) == \E w \in Workers : \E r \in pub[w].rows : r.order = o

(* A row that will never be claimed again was reported. *)
AbandonedIsAlerted ==
  \A o \in Orders :
    attempts[o] = MaxAttempts /\ o \notin published /\ ~ Held(o) => o \in alerted

(* An event whose cancellation fails over and over ends as a dead letter. *)
PoisonDeadLettered ==
  \A o \in Broken : o \in published ~> (status[o] # "pending" \/ \E m \in dead : m.order = o)
=============================================================================
