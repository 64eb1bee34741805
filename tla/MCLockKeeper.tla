---------------------------- MODULE MCLockKeeper ----------------------------
(* Model checking of LockKeeper. *)
EXTENDS LockKeeper
=============================================================================
