---------------------------- MODULE MCPageTables ----------------------------
(* Instances of PageTables for TLC. *)
EXTENDS PageTables, TLC

CONSTANTS t1, t2

\* The kernel's image in the first table, the stack in the last.
MCBootTables == 0 :> 1 @@ 4 :> 2
MCBootImage == 0 :> 3 @@ 14 :> 4
=============================================================================
