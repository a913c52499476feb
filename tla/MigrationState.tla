--------------------------- MODULE MigrationState ---------------------------
(***************************************************************************)
(* The pure rules of a migration: its phases, the transitions the store    *)
(* accepts, and the decisions taken around the resume boundary when a step *)
(* fails or a runner is started again.  No state: the coordinator's rows   *)
(* are moved by these operators.                                           *)
(***************************************************************************)

\* The phases from which the store can roll the source back.
RollbackPhases == {"PAUSING", "SNAPSHOTTING", "TRANSFERRING", "LOADING"}

\* The phases before the source is touched: a failure there just ends the migration.
PrepausePhases == {"PREPARING", "RESERVING", "PRESTAGING", "PROBING", "PRECOPYING"}

\* The phases reached only after the resume intent is durable.
PostResumePhases == {"RESUMING", "VERIFYING", "CUTOVER", "CLEANUP"}

TerminalPhases == {"DONE", "FAILED", "ROLLED_BACK", "ORPHANED_AMBIGUOUS"}

Phases == PrepausePhases \cup RollbackPhases \cup PostResumePhases
            \cup {"ROLLING_BACK_SOURCE"} \cup TerminalPhases

Terminal(phase) == phase \in TerminalPhases

\* The path of a migration in which nothing goes wrong.
NormalTransitions ==
    {<<"PREPARING", "RESERVING">>,      <<"RESERVING", "PRESTAGING">>,
     <<"PRESTAGING", "PROBING">>,       <<"PROBING", "PRECOPYING">>,
     <<"PRECOPYING", "PAUSING">>,       <<"PAUSING", "SNAPSHOTTING">>,
     <<"SNAPSHOTTING", "TRANSFERRING">>, <<"TRANSFERRING", "LOADING">>,
     <<"LOADING", "RESUMING">>,         <<"RESUMING", "VERIFYING">>,
     <<"VERIFYING", "CUTOVER">>,        <<"CUTOVER", "CLEANUP">>,
     <<"CLEANUP", "DONE">>}

\* transition/2: the store refuses every other step.
CanTransition(from, to) ==
    \/ <<from, to>> \in NormalTransitions
    \/ from \in PrepausePhases /\ to = "FAILED"
    \/ from \in RollbackPhases /\ to = "ROLLING_BACK_SOURCE"
    \/ from \in PostResumePhases /\ to = "ORPHANED_AMBIGUOUS"
    \/ from = "ROLLING_BACK_SOURCE" /\ to \in {"ROLLED_BACK", "FAILED"}

-----------------------------------------------------------------------------
(* MigrationRecovery, over the two fields of the row it looks at.          *)

\* Where a failed step sends the migration.
FailureTarget(phase, resumeIssued) ==
    CASE resumeIssued                                -> "ORPHANED_AMBIGUOUS"
      [] ~resumeIssued /\ phase \in RollbackPhases   -> "ROLLING_BACK_SOURCE"
      [] OTHER                                       -> "FAILED"

\* Mutant: a row in RESUMING is driven like any other.
MutantOrphanOnStart(phase) == FALSE

\* A runner started on this row gives it up instead of driving its phase again:
\* reconcile_action answers :orphan, and driving a row in RESUMING orphans it too.
OrphanOnStart(phase) == phase = "RESUMING"

=============================================================================
