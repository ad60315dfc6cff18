----------------------------- MODULE MCSnowflake -----------------------------
(* The instances as the package starts them: init builds the generator of  *)
(* every process with worker id 1, and nothing sets another one. *)
EXTENDS Snowflake

DefaultWorkers == [i \in Instances |-> 1]
=============================================================================
