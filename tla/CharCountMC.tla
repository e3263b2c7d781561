---------------------------- MODULE CharCountMC ----------------------------
(* Values for the constants of CharCount that a configuration cannot write. *)
EXTENDS CharCount

\* The user may type a number below zero: sscanf's %d takes it.
AnyAmounts == -1 .. 1
=============================================================================
