--------------------------- MODULE ServiceProcess ---------------------------
(***************************************************************************)
(* A creation draws its number from the generator of its process, behind   *)
(* the generator's mutex, and then locks its rows.  The mutex is released  *)
(* before the first row is locked, and no transaction draws a number, so   *)
(* that neither ever waits for the other: calls of the generator, its      *)
(* clock and the transactions take their steps in any order.               *)
(***************************************************************************)
EXTENDS Snowflake, RowLocks

ProcessInit == Init /\ LockInit

ProcessNext ==
  \/ Next /\ UNCHANGED lockVars
  \/ LockNext /\ UNCHANGED vars

ProcessSpec == ProcessInit /\ [][ProcessNext]_<<vars, lockVars>>
=============================================================================
