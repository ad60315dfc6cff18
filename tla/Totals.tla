------------------------------- MODULE Totals -------------------------------
(***************************************************************************)
(* The sum of a quantity over all orders.  The tables of the system never  *)
(* store such a sum, they keep running counters (stock_quantity,           *)
(* locked_quantity); the properties compare the counters with the sum they *)
(* stand for.  The sum is a recursive function over the order numbers      *)
(* 1..n, so that TLC evaluates it and TLAPS can reason about it.           *)
(***************************************************************************)
EXTENDS Integers

(* f[1], f[1] + f[2], ..., as a function on 0..n that starts with 0. *)
RunningTotal(f, n) ==
  LET t[i \in 0..n] == IF i = 0 THEN 0 ELSE t[i - 1] + f[i]
  IN  t

(* f[1] + ... + f[n]. *)
Total(f, n) == RunningTotal(f, n)[n]
=============================================================================
