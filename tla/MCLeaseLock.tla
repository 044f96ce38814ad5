---------------------------- MODULE MCLeaseLock ----------------------------
(* Two processes that compete for the job of LeaseLock. *)
EXTENDS LeaseLock

CONSTANTS w1, w2
=============================================================================
