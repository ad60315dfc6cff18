------------------------------ MODULE MCConsole ------------------------------
(* Two orders and two products, room for a third of each on a second page. *)
EXTENDS Console

MCStart == [orders |-> <<"paid", "pending", "none">>, products |-> <<"on", "off", "none">>,
            lists |-> {"orders", "products", "logs", "operations"}]
=============================================================================
