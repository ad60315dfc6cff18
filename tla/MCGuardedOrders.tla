--------------------------- MODULE MCGuardedOrders ---------------------------
(* A request for the first product and one for both. *)
EXTENDS GuardedOrders

MCRequests == {[p \in Products |-> IF p = 1 THEN 1 ELSE 0],
               [p \in Products |-> 1]}
=============================================================================
