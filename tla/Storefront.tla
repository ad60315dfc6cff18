----------------------------- MODULE Storefront -----------------------------
(***************************************************************************)
(* What customers see: the order page of a browser and the details of the  *)
(* product, while staff put it on and off sale.  A key that has its order  *)
(* is answered with that order; another one gets an order only when its    *)
(* transaction read in MySQL that the product is on sale, whatever the     *)
(* page or the cache showed.  The read takes no lock: the product may go   *)
(* off sale before the order is committed.                                 *)
(***************************************************************************)
EXTENDS ProductCache, OrderSubmission

VARIABLE buying   \* requests whose transaction read the product on sale

vars == <<cacheVars, pageVars, buying>>

Init == CacheInit /\ PageInit /\ buying = {}

(* The transaction inserts its key, which other transactions with the key  *)
(* then wait for, and reads the product. *)
BeginCreate(i) ==
  /\ requests[i].stage \in {"sent", "left"}
  /\ requests[i].key \notin placed
  /\ \A j \in buying : requests[j].key # requests[i].key
  /\ product = "on_sale"
  /\ buying' = buying \union {i}

Serve(i) ==
  /\ \/ (i \in buying \/ requests[i].key \in placed) /\ CreateOrder(i)
     \/ RefuseOrder(i)
  /\ buying' = buying \ {i}

PageNext == Use \/ Render \/ \E i \in Sent : Answer(i) \/ Settle(i)

Next ==
  \/ CacheNext /\ UNCHANGED <<pageVars, buying>>
  \/ PageNext /\ UNCHANGED <<cacheVars, buying>>
  \/ \E i \in Sent : \/ BeginCreate(i) /\ UNCHANGED <<cacheVars, pageVars>>
                     \/ Serve(i) /\ UNCHANGED cacheVars

Spec == Init /\ [][Next]_vars /\ CacheFairness /\ PageFairness
=============================================================================
