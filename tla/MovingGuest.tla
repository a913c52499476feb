----------------------------- MODULE MovingGuest -----------------------------
(***************************************************************************)
(* What live migration promises: a sandbox is one guest.  It runs in at    *)
(* most one place, it may stop and start again elsewhere, and wherever it  *)
(* runs it has made every write it ever made.                              *)
(***************************************************************************)
EXTENDS Naturals

CONSTANT Places

VARIABLES
    running,   \* the places where the guest runs, each with the writes it has there
    version    \* the writes the guest has made

Init == \E p \in Places : running = {<<p, 0>>} /\ version = 0

Write == \E p \in Places :
    /\ running = {<<p, version>>}
    /\ version' = version + 1
    /\ running' = {<<p, version'>>}

Stop == running # {} /\ running' = {} /\ UNCHANGED version

Start(p) == running = {} /\ running' = {<<p, version>>} /\ UNCHANGED version

Next == Write \/ Stop \/ \E p \in Places : Start(p)

Spec == Init /\ [][Next]_<<running, version>>
=============================================================================
