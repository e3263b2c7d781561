------------------------ MODULE SignalDispatcherMC ------------------------
(* Values for the constants of SignalDispatcher that a configuration cannot *)
(* write.                                                                   *)
EXTENDS SignalDispatcher

\* The user may type a number below zero: scanf's %d takes it.
AnyAmounts == {-2, 1, 3}
=============================================================================
