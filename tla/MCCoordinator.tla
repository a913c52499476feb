---------------------------- MODULE MCCoordinator ----------------------------
(* Small instances of Coordinator for TLC. *)
EXTENDS Coordinator

CONSTANTS s1, s2, w1, w2, nowhere

TwoSandboxes   == {s1, s2}
TwoWorkers     == {w1, w2}
SomeUnknown    == {w1, w2, nowhere}
FirstIsExposed == {s1}

=============================================================================
