----------------------------- MODULE MCShmemRing -----------------------------
(* A ring of three slots whose counter wraps after four messages, so that   *)
(* FULL and EMPTY are told apart with no value of the counter to spare.     *)
EXTENDS ShmemRing

CONSTANTS m1, m2
=============================================================================
