------------------------------ MODULE MCBrowser ------------------------------
(* An administrator and a plain user. *)
EXTENDS Browser

MCUsers == {"ann", "bob"}
MCAdmins == {"ann"}
=============================================================================
