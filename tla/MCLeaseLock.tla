----------------------------- MODULE MCLeaseLock -----------------------------
(* Actions that compete for the lock of one controller, for TLC.             *)
EXTENDS LeaseLock

CONSTANTS k1, h1, h2

OneKey == {k1}
TwoHelpers == {h1, h2}
Shared == [h \in Helpers |-> k1]

\* Early enough, only just, and too late.
TimelyAndLate == {1, 2, 5}
==============================================================================
