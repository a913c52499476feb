----------------------------- MODULE MCExposure -----------------------------
(* An instance of Exposure for TLC: two requests, and one migration.        *)
EXTENDS Exposure, TLC

CONSTANTS r1, r2
SamePreferred == [g \in GuestPorts |-> 0]
Symmetry == Permutations({r1, r2})

\* One failing or unanswered call, or one of the epoch store.
OneFault == faults + storeFaults <= 1
=============================================================================
