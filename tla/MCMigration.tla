----------------------------- MODULE MCMigration -----------------------------
(* Small instances of Migration for TLC. *)
EXTENDS Migration, TLC

CONSTANTS s1, w1, w2, w3

OneSandbox   == {s1}
TwoWorkers   == {w1, w2}
ThreeWorkers == {w1, w2, w3}
HostCalls    == {"prestage", "pause", "snapshot", "transfer", "load", "resume", "verify",
                 "fence", "rollback"}

\* The sandbox's first home is fixed: the workers are interchangeable.
HomeInit == MigrationInit /\ sandbox[s1].worker = w1
FromW1   == HomeInit /\ [][MigrationNext]_migrationVars
=============================================================================
