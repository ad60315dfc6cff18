-------------------------- MODULE MCServiceProcess --------------------------
(* The generator as init builds it, three products, and two orders that    *)
(* share two of them. *)
EXTENDS ServiceProcess, TLC

DefaultWorkers == [i \in Instances |-> 1]

MCContents == [o \in Orders |-> IF o = 1 THEN {1, 2} ELSE {1, 2, 3}]

MCCarts == {{1, 3}, {2, 3}, {1, 2, 3}}

MCSymmetry == Permutations(Transactions)
=============================================================================
