----------------------------- MODULE MCTransfer -----------------------------
(* An instance of Transfer for TLC: a state file, which shrinks from one    *)
(* snapshot to the next, and a disk, which the running VM writes in place.  *)
EXTENDS Transfer

TwoSizes == [state |-> <<2, 1>>, disk |-> <<2, 2>>]
=============================================================================
