--------------------------- MODULE MCOrderTimeout ---------------------------
(* Messages that no outbox row sent: one that cannot be decoded, and one   *)
(* whose x-death header already counts three deaths. *)
EXTENDS OrderTimeout

MCForeign == {[order |-> 1, try |-> 0, deaths |-> 0, valid |-> FALSE],
              [order |-> 1, try |-> 0, deaths |-> 3, valid |-> TRUE]}

NoForeign == {}
=============================================================================
