---------------------------- MODULE MCInterrupts ----------------------------
(* An instance of Interrupts for TLC.  Temporal properties are checked, so *)
(* there is no symmetry.                                                   *)
EXTENDS Interrupts

CONSTANTS first, a, b
=============================================================================
