----------------------------- MODULE MCCommands -----------------------------
(* An instance of Commands for TLC: two commands of one sandbox.            *)
EXTENDS Commands
=============================================================================
