------------------------------- MODULE MCProxy -------------------------------
(* An instance of Proxy for TLC: a client that comes and goes.              *)
EXTENDS Proxy

CONSTANT s1

OneClient == {s1}
=============================================================================
