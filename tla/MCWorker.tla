------------------------------ MODULE MCWorker ------------------------------
(* A small instance of WorkerAlone for TLC. *)
EXTENDS WorkerAlone, TLC

CONSTANTS w1, w2, m1, m2

TwoWorkers    == {w1, w2}
TwoMigrations == {m1, m2}

\* There and back.
Return ==
    (m1 :> [source |-> w1, destination |-> w2, epoch |-> 1]) @@
    (m2 :> [source |-> w2, destination |-> w1, epoch |-> 2])

HomeInit == AloneInit /\ rec[w1].state = "running"
FromW1   == HomeInit /\ [][AloneNext]_aloneVars

HostCalls == {"prestage", "probe", "pause", "snapshot", "transfer", "load", "resume", "verify",
              "expose", "fence", "rollback"}
=============================================================================
