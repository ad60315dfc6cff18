-------------------------- MODULE MCOrderLifecycle --------------------------
(* A small shop: two products, requests for one of them and for both. *)
EXTENDS OrderLifecycle, TLC

CONSTANTS p1, p2

MCRequests == {[p \in Products |-> IF p = p1 THEN 1 ELSE 0],
               [p \in Products |-> 1]}

(* Handlers, users and keys are interchangeable; products are not (the     *)
(* requests tell them apart) and order numbers are integers. *)
MCSymmetry ==
  Permutations(Handlers) \union Permutations(Users) \union Permutations(Keys)
=============================================================================
