---------------------------- MODULE MCEventStream ----------------------------
(* An instance of EventStream for TLC: a migration of a few events.         *)
EXTENDS EventStream
=============================================================================
