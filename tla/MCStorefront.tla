---------------------------- MODULE MCStorefront ----------------------------
(* One reader and one writer of the details, and one item list to order    *)
(* over and over. *)
EXTENDS Storefront
=============================================================================
