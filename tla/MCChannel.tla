------------------------------ MODULE MCChannel ------------------------------
(* An instance of Channel for TLC: two commands of one user.                *)
EXTENDS Channel, TLC

CONSTANTS c1, c2, t1, t2
TwoTopics == (c1 :> t1) @@ (c2 :> t2)
=============================================================================
