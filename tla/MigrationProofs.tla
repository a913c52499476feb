--------------------------- MODULE MigrationProofs ---------------------------
(***************************************************************************)
(* Theorems about Coordinator, and about Migration, the coordinator with   *)
(* the workers and the proxy's route behind its calls.                     *)
(*                                                                         *)
(* The first part is about the coordinator under arbitrary answers, for    *)
(* every set of sandboxes, workers, keys and migrations and every number   *)
(* of crashes: its proofs use none of Migration's assumptions.  The second *)
(* shows that the composition implements the coordinator, and goes on from *)
(* there to the requests, the route and the guest.                         *)
(***************************************************************************)
EXTENDS Migration, FiniteSetTheorems, TLAPS

(* The phase rules: the few facts about CanTransition the proofs need.     *)

\* transition/2 only relates phases, and never leaves a terminal one.
LEMMA TransitionPhases ==
    ASSUME NEW from, NEW to, CanTransition(from, to)
    PROVE  /\ from \in Phases \ TerminalPhases
           /\ to \in Phases
           /\ from # "ABSENT"
BY DEF CanTransition, NormalTransitions, Phases, PrepausePhases, RollbackPhases,
       PostResumePhases, TerminalPhases

\* The calls a runner can be left in are states a runner may have.
LEMMA FirstCallType ==
    ASSUME NEW s, NEW phase PROVE FirstCall(s, phase) \in RunnerStates
BY DEF FirstCall, RunnerStates, Calls

-----------------------------------------------------------------------------
(* Types.                                                                  *)

\* A transaction that moves a row through the phase machine keeps the store well typed.
LEMMA TransitionType ==
    ASSUME TypeOK, NEW m \in Migrations, NEW to, Transition(m, to)
    PROVE  /\ m \in Rows
           /\ sandbox' \in [Sandboxes -> SandboxRow]
           /\ migration' \in [Migrations -> MigrationRow \cup {NoRow}]
           /\ events' \in [Migrations -> Seq(Phases)]
<1>1. to \in Phases /\ migration[m].phase # "ABSENT"
  BY TransitionPhases DEF Transition
<1>2. migration[m] \in MigrationRow /\ m \in Rows
  BY <1>1 DEF TypeOK, NoRow, Rows
<1>3. migration' \in [Migrations -> MigrationRow \cup {NoRow}]
  <2>1. [migration[m] EXCEPT !.phase = to] \in MigrationRow
    BY <1>1, <1>2 DEF MigrationRow
  <2> QED BY <2>1 DEF TypeOK, Transition
<1>4. sandbox' \in [Sandboxes -> SandboxRow]
  <2>1. migration[m].sandbox \in Sandboxes
    BY <1>2 DEF MigrationRow
  <2>2. sandbox[migration[m].sandbox] \in SandboxRow
    BY <2>1 DEF TypeOK
  <2>3. Finalized(sandbox[migration[m].sandbox], to) \in SandboxRow
    BY <2>2 DEF Finalized, SandboxRow
  <2> QED BY <2>1, <2>3 DEF TypeOK, Transition
<1>5. events' \in [Migrations -> Seq(Phases)]
  <2>1. Append(events[m], to) \in Seq(Phases)
    BY <1>1 DEF TypeOK
  <2> QED BY <2>1 DEF TypeOK, Transition, InsertEvent
<1> QED BY <1>2, <1>3, <1>4, <1>5

\* A runner that goes on is in one of the runner's states.
LEMMA ContinueType ==
    ASSUME TypeOK, NEW m \in Migrations, NEW phase, Continue(m, phase)
    PROVE  call' \in [Migrations -> RunnerStates]
BY FirstCallType DEF TypeOK, Continue

\* Only the phase RESUMING sends a resume.
LEMMA CountResumeCases ==
    ASSUME NEW m, NEW phase, CountResume(m, phase)
    PROVE  resumes' = IF phase = "RESUMING" THEN [resumes EXCEPT ![m] = @ + 1] ELSE resumes
<1>1. phase = "RESUMING" <=> FirstCall(migration[m].sandbox, phase) = "resume"
  BY DEF FirstCall
<1> QED BY <1>1 DEF CountResume

\* A supervisor keeps the runners' states and its count within their types.
LEMMA SupervisorRestartType ==
    ASSUME TypeOK, NEW m \in Migrations, SupervisorRestart(m)
    PROVE  /\ call' \in [Migrations -> RunnerStates]
           /\ restarts' \in 0..MaxRestarts
<1>1. "start" \in RunnerStates /\ "idle" \in RunnerStates
  BY DEF RunnerStates
<1>2. call \in [Migrations -> RunnerStates] /\ restarts \in 0..MaxRestarts
  BY DEF TypeOK
<1>3. call' \in [Migrations -> RunnerStates]
  BY <1>1, <1>2 DEF SupervisorRestart
<1>4. restarts' \in 0..MaxRestarts
  BY <1>2, BoundsAssumption DEF SupervisorRestart
<1> QED BY <1>3, <1>4

\* Every variable keeps its type in every step.
LEMMA TypeStep == TypeOK /\ [Next]_vars => TypeOK'
<1> SUFFICES ASSUME TypeOK, [Next]_vars PROVE TypeOK'
  OBVIOUS
<1> USE DEF store
<1>1. ASSUME NEW s \in Sandboxes, NEW dest \in Destinations, NEW key \in Keys,
             NEW m \in Migrations, StartMigration(s, dest, key, m)
      PROVE  TypeOK'
  <2>1. sandbox[s] \in SandboxRow
    BY DEF TypeOK
  <2>2. sandbox' \in [Sandboxes -> SandboxRow]
    <3>1. [sandbox[s] EXCEPT !.active = m, !.state = "migrating"] \in SandboxRow
      BY <2>1 DEF SandboxRow
    <3> QED BY <1>1, <3>1 DEF TypeOK, StartMigration
  <2>3. migration' \in [Migrations -> MigrationRow \cup {NoRow}]
    <3> DEFINE row == [phase |-> "PREPARING", sandbox |-> s,
                       source |-> sandbox[s].worker, destination |-> dest, key |-> key,
                       epochBefore |-> sandbox[s].epoch, epochAfter |-> sandbox[s].epoch + 1,
                       consumed |-> FALSE, resumeIssued |-> FALSE]
    <3>1. row \in MigrationRow
      BY <2>1 DEF SandboxRow, MigrationRow, Phases, PrepausePhases
    <3>2. migration' = [migration EXCEPT ![m] = row]
      BY <1>1 DEF StartMigration
    <3> QED BY <3>1, <3>2 DEF TypeOK
  <2>4. events' \in [Migrations -> Seq(Phases)]
    <3>1. Append(events[m], "PREPARING") \in Seq(Phases)
      BY DEF TypeOK, Phases, PrepausePhases
    <3> QED BY <1>1, <3>1 DEF TypeOK, StartMigration, InsertEvent
  <2>5. call' \in [Migrations -> RunnerStates]
    BY <1>1 DEF TypeOK, StartMigration, RunnerStates
  <2> QED BY <1>1, <2>2, <2>3, <2>4, <2>5 DEF TypeOK, StartMigration
<1>2. ASSUME NEW m \in Migrations, NEW to, Advance(m, to),
             UNCHANGED <<reconciling, crashes, restarts, resumes>>
      PROVE  TypeOK'
  BY <1>2, TransitionType, ContinueType DEF Advance, TypeOK
<1>3. ASSUME NEW m \in Migrations, RunnerStep(m) PROVE TypeOK'
  <2>1. CASE RunNew(m)
    BY <1>2, <2>1 DEF RunNew
  <2>2. CASE RunOrphan(m)
    BY <1>2, <2>2 DEF RunOrphan
  <2>3. CASE RunAgain(m)
    <3>1. resumes' = resumes
      BY <2>3, CountResumeCases DEF RunAgain, OrphanOnStart
    <3> QED BY <2>3, <3>1, ContinueType DEF RunAgain, TypeOK
  <2>4. CASE Answered(m)
    BY <1>2, <2>4 DEF Answered
  <2>5. CASE CutoverBegun(m)
    BY <2>5 DEF CutoverBegun, TypeOK, RunnerStates, Calls
  <2>6. CASE Loaded(m)
    <3>1. migration[m].phase # "ABSENT"
      BY <2>6, TransitionPhases DEF Loaded, IssueResume
    <3>2. migration[m] \in MigrationRow
      BY <3>1 DEF TypeOK, NoRow
    <3>3. [migration[m] EXCEPT !.phase = "RESUMING", !.consumed = TRUE,
                               !.resumeIssued = TRUE] \in MigrationRow
      BY <3>2 DEF MigrationRow, Phases, PostResumePhases
    <3>4. migration' \in [Migrations -> MigrationRow \cup {NoRow}]
      BY <2>6, <3>3 DEF Loaded, IssueResume, TypeOK
    <3>5. migration[m].sandbox \in Sandboxes /\ migration[m].epochAfter \in Nat
      BY <3>2 DEF MigrationRow
    <3>6. [sandbox[migration[m].sandbox] EXCEPT !.epoch = migration[m].epochAfter,
                                                !.state = "resuming"] \in SandboxRow
      BY <3>5, ZenonT(60) DEF TypeOK, SandboxRow
    <3>7. sandbox' \in [Sandboxes -> SandboxRow]
      BY <2>6, <3>5, <3>6 DEF Loaded, IssueResume, TypeOK
    <3>8. Append(events[m], "RESUMING") \in Seq(Phases)
      BY DEF TypeOK, Phases, PostResumePhases
    <3>9. events' \in [Migrations -> Seq(Phases)]
      BY <2>6, <3>8 DEF Loaded, IssueResume, InsertEvent, TypeOK
    <3>10. call' \in [Migrations -> RunnerStates]
      BY <2>6 DEF Loaded, TypeOK, RunnerStates
    <3> QED BY <2>6, <3>4, <3>7, <3>9, <3>10 DEF Loaded, TypeOK
  <2>7. CASE PortExposed(m)
    BY <2>7 DEF PortExposed, TypeOK, RunnerStates, Calls
  <2>8. CASE TransferOwnership(m)
    <3>1. migration[m].phase # "ABSENT"
      BY <2>8, TransitionPhases DEF TransferOwnership, CompleteCutover
    <3>2. migration[m] \in MigrationRow
      BY <3>1 DEF TypeOK, NoRow
    <3>3. [migration[m] EXCEPT !.phase = "CLEANUP"] \in MigrationRow
      BY <3>2 DEF MigrationRow, Phases, PostResumePhases
    <3>4. migration' \in [Migrations -> MigrationRow \cup {NoRow}]
      BY <2>8, <3>3 DEF TransferOwnership, CompleteCutover, TypeOK
    <3>5. /\ migration[m].sandbox \in Sandboxes
          /\ migration[m].destination \in Destinations
      BY <3>2 DEF MigrationRow
    <3>6. [sandbox[migration[m].sandbox] EXCEPT !.worker = migration[m].destination,
                                                !.generation = @ + 1,
                                                !.state = "running"] \in SandboxRow
      <4>1. sandbox[migration[m].sandbox] \in SandboxRow
        BY <3>5 DEF TypeOK
      <4>2. sandbox[migration[m].sandbox].generation + 1 \in Nat
        BY <4>1 DEF SandboxRow
      <4> QED BY <3>5, <4>1, <4>2 DEF SandboxRow
    <3>7. sandbox' \in [Sandboxes -> SandboxRow]
      BY <2>8, <3>5, <3>6 DEF TransferOwnership, CompleteCutover, TypeOK
    <3>8. Append(events[m], "CLEANUP") \in Seq(Phases)
      BY DEF TypeOK, Phases, PostResumePhases
    <3>9. events' \in [Migrations -> Seq(Phases)]
      BY <2>8, <3>8 DEF TransferOwnership, CompleteCutover, InsertEvent, TypeOK
    <3>10. call' \in [Migrations -> RunnerStates]
      BY <2>8, ContinueType DEF TransferOwnership
    <3> QED BY <2>8, <3>4, <3>7, <3>9, <3>10 DEF TransferOwnership, TypeOK
  <2>9. CASE CallFailed(m)
    BY <1>2, <2>9 DEF CallFailed, HandleFailure
  <2>10. CASE RollbackFailed(m)
    BY <1>2, <2>10 DEF RollbackFailed
  <2>11. CASE UnaddressableCrash(m)
    BY <2>11, SupervisorRestartType DEF UnaddressableCrash, TypeOK
  <2>12. CASE ResumeSent(m)
    <3>1. call' \in [Migrations -> RunnerStates]
      BY <2>12, ContinueType DEF ResumeSent
    <3>2. resumes' = [resumes EXCEPT ![m] = @ + 1]
      BY <2>12, CountResumeCases DEF ResumeSent
    <3>3. resumes[m] + 1 \in Nat
      BY DEF TypeOK
    <3> QED BY <2>12, <3>1, <3>2, <3>3 DEF ResumeSent, TypeOK
  <2> QED BY <1>3, <2>1, <2>2, <2>3, <2>4, <2>5, <2>6, <2>7, <2>8, <2>9, <2>10, <2>11, <2>12
          DEF RunnerStep
<1>4. ASSUME NEW m \in Migrations, RunnerCrash(m) PROVE TypeOK'
  BY <1>4, SupervisorRestartType, BoundsAssumption DEF RunnerCrash, TypeOK
<1>5. CASE Crash
  BY <1>5, BoundsAssumption DEF Crash, TypeOK, RunnerStates
<1>6. CASE Reconcile
  BY <1>6 DEF Reconcile, TypeOK, RunnerStates
<1>7. CASE UNCHANGED vars
  BY <1>7 DEF vars, TypeOK
<1> QED BY <1>1, <1>3, <1>4, <1>5, <1>6, <1>7 DEF Next

\* The sandboxes that have booted are well typed.
LEMMA TypeInit == Init => TypeOK
<1> SUFFICES ASSUME Init PROVE TypeOK
  OBVIOUS
<1>1. PICK home \in [Sandboxes -> Workers] :
         sandbox = [s \in Sandboxes |->
                      [worker |-> home[s], epoch |-> 1, generation |-> 1,
                       state |-> "running", active |-> None]]
  BY DEF Init
<1>2. sandbox \in [Sandboxes -> SandboxRow]
  BY <1>1, WorkersAssumption DEF SandboxRow
<1>3. crashes \in 0..MaxCrashes /\ restarts \in 0..MaxRestarts
  BY BoundsAssumption DEF Init
<1>4. events \in [Migrations -> Seq(Phases)]
  BY DEF Init
<1>5. resumes \in [Migrations -> Nat] /\ call \in [Migrations -> RunnerStates]
  BY DEF Init, RunnerStates
<1> QED BY <1>2, <1>3, <1>4, <1>5 DEF Init, TypeOK

\* Every behaviour of the coordinator is well typed.
THEOREM TypeCorrect == Spec => []TypeOK
BY TypeInit, TypeStep, PTL DEF Spec

-----------------------------------------------------------------------------
(* What a step may do to the store.  Every invariant below is proved over  *)
(* these five cases instead of over the sixteen actions.                   *)

\* The phases a runner reaches by a plain Advance: not the two with a transaction of their own.
PlainTargets == Phases \ {"RESUMING", "CLEANUP"}

\* A step that moves no row starts a rollback call only for a row that is rolling back.
Bystander ==
    /\ UNCHANGED store
    /\ \A n \in Migrations : call'[n] = "rollback" =>
          call[n] = "rollback" \/ migration[n].phase = "ROLLING_BACK_SOURCE"

\* Answers and failures lead a runner to phases a plain Advance reaches.
LEMMA AdvanceTargets ==
    /\ \A c \in AdvancingCalls : PhaseAfter(c) \in PlainTargets
    /\ \A phase, issued : FailureTarget(phase, issued) \in PlainTargets
<1>1. ASSUME NEW c \in AdvancingCalls PROVE PhaseAfter(c) \in PlainTargets
  BY DEF AdvancingCalls, Calls, PhaseAfter, PlainTargets, Phases, PrepausePhases,
         RollbackPhases, PostResumePhases, TerminalPhases
<1>2. ASSUME NEW phase, NEW issued PROVE FailureTarget(phase, issued) \in PlainTargets
  BY DEF FailureTarget, PlainTargets, Phases, TerminalPhases
<1> QED BY <1>1, <1>2

\* What a step does to the store: one of four kinds of transaction, or nothing.
LEMMA StoreStep ==
    ASSUME TypeOK, [Next]_vars
    PROVE  \/ \E s \in Sandboxes, dest \in Destinations, key \in Keys, m \in Migrations :
                 StartMigration(s, dest, key, m)
           \/ \E m \in Migrations, to \in PlainTargets : Advance(m, to)
           \/ \E m \in Migrations : Loaded(m)
           \/ \E m \in Migrations : TransferOwnership(m)
           \/ Bystander
<1> USE DEF store
<1>1. ASSUME NEW m \in Migrations, SupervisorRestart(m), UNCHANGED store
      PROVE  Bystander
  BY <1>1 DEF SupervisorRestart, Bystander, TypeOK
<1>2. ASSUME NEW m \in Migrations, RunnerStep(m)
      PROVE  \/ \E to \in PlainTargets : Advance(m, to)
             \/ Loaded(m)
             \/ TransferOwnership(m)
             \/ Bystander
  <2>1. {"RESERVING", "ORPHANED_AMBIGUOUS", "FAILED"} \subseteq PlainTargets
    BY DEF PlainTargets, Phases, PrepausePhases, TerminalPhases
  <2>2. CASE RunNew(m)
    BY <2>1, <2>2 DEF RunNew
  <2>3. CASE RunOrphan(m)
    BY <2>1, <2>3 DEF RunOrphan
  <2>4. CASE RunAgain(m)
    BY <2>4 DEF RunAgain, Continue, FirstCall, Bystander, TypeOK
  <2>5. CASE Answered(m)
    BY <2>5, AdvanceTargets DEF Answered
  <2>6. CASE CutoverBegun(m)
    BY <2>6 DEF CutoverBegun, Bystander, TypeOK
  <2>7. CASE PortExposed(m)
    BY <2>7 DEF PortExposed, Bystander, TypeOK
  <2>8. CASE CallFailed(m)
    BY <2>8, AdvanceTargets DEF CallFailed, HandleFailure
  <2>9. CASE RollbackFailed(m)
    BY <2>1, <2>9 DEF RollbackFailed
  <2>10. CASE UnaddressableCrash(m)
    BY <1>1, <2>10 DEF UnaddressableCrash
  <2>11. CASE ResumeSent(m)
    BY <2>11 DEF ResumeSent, Continue, FirstCall, Bystander, TypeOK
  <2> QED BY <1>2, <2>2, <2>3, <2>4, <2>5, <2>6, <2>7, <2>8, <2>9, <2>10, <2>11 DEF RunnerStep
<1>3. ASSUME NEW m \in Migrations, RunnerCrash(m) PROVE Bystander
  BY <1>1, <1>3 DEF RunnerCrash
<1>4. CASE Crash
  BY <1>4 DEF Crash, Bystander, TypeOK
<1>5. CASE Reconcile
  BY <1>5 DEF Reconcile, Bystander, TypeOK
<1>6. CASE UNCHANGED vars
  BY <1>6 DEF vars, Bystander
<1> QED BY <1>2, <1>3, <1>4, <1>5, <1>6 DEF Next

-----------------------------------------------------------------------------
(* The resume boundary.                                                    *)

\* The inductive form of NoRollbackAfterResume: the two flags of a row are set together, they
\* say on which side of the boundary its phase is, and only a row that is rolling back has a
\* runner in a rollback call.
ResumeBoundary ==
    \A m \in Rows :
        /\ migration[m].resumeIssued <=>
              migration[m].phase \in PostResumePhases \cup {"DONE", "ORPHANED_AMBIGUOUS"}
        /\ migration[m].consumed <=> migration[m].resumeIssued
        /\ call[m] = "rollback" => migration[m].phase = "ROLLING_BACK_SOURCE"

\* A plain transition never crosses the boundary.
LEMMA PlainTransitionsKeepSide ==
    ASSUME NEW from, NEW to \in PlainTargets, CanTransition(from, to)
    PROVE  from \in PostResumePhases \cup {"DONE", "ORPHANED_AMBIGUOUS"}
             <=> to \in PostResumePhases \cup {"DONE", "ORPHANED_AMBIGUOUS"}
BY DEF CanTransition, NormalTransitions, PlainTargets, Phases, PrepausePhases, RollbackPhases,
       PostResumePhases, TerminalPhases

\* Every step keeps the resume boundary.
LEMMA ResumeBoundaryStep == TypeOK /\ ResumeBoundary /\ [Next]_vars => ResumeBoundary'
<1> DEFINE After == PostResumePhases \cup {"DONE", "ORPHANED_AMBIGUOUS"}
           Good(n) == /\ migration[n].resumeIssued <=> migration[n].phase \in After
                      /\ migration[n].consumed <=> migration[n].resumeIssued
                      /\ call[n] = "rollback" => migration[n].phase = "ROLLING_BACK_SOURCE"
<1> SUFFICES ASSUME TypeOK, ResumeBoundary, [Next]_vars, NEW n \in Migrations, n \in Rows'
             PROVE  Good(n)'
  BY DEF ResumeBoundary, Rows
<1>1. n \in Rows => Good(n)
  BY DEF ResumeBoundary
<1>2. ASSUME NEW s \in Sandboxes, NEW dest \in Destinations, NEW key \in Keys,
             NEW m \in Migrations, StartMigration(s, dest, key, m)
      PROVE  Good(n)'
  <2>1. CASE n = m
    BY <1>2, <2>1 DEF StartMigration, TypeOK, PostResumePhases
  <2>2. CASE n # m
    BY <1>1, <1>2, <2>2 DEF StartMigration, TypeOK, Rows
  <2> QED BY <2>1, <2>2
<1>3. ASSUME NEW m \in Migrations, NEW to \in PlainTargets, Advance(m, to)
      PROVE  Good(n)'
  <2>1. CASE n = m
    <3>1. n \in Rows /\ CanTransition(migration[n].phase, to)
      BY <1>3, <2>1, TransitionType DEF Advance, Transition
    <3>2. migration[n] \in MigrationRow
      BY <3>1 DEF Rows, TypeOK
    <3>3. /\ migration'[n].phase = to
          /\ migration'[n].consumed = migration[n].consumed
          /\ migration'[n].resumeIssued = migration[n].resumeIssued
      BY <1>3, <2>1, <3>2 DEF Advance, Transition, TypeOK, MigrationRow
    <3>4. call'[n] = "rollback" => to = "ROLLING_BACK_SOURCE"
      BY <1>3, <2>1 DEF Advance, Continue, FirstCall, TypeOK
    <3>5. migration[n].phase \in After <=> to \in After
      BY <3>1, PlainTransitionsKeepSide
    <3> QED BY <1>1, <3>1, <3>3, <3>4, <3>5
  <2>2. CASE n # m
    BY <1>1, <1>3, <2>2 DEF Advance, Transition, Continue, TypeOK, Rows
  <2> QED BY <2>1, <2>2
<1>4. ASSUME NEW m \in Migrations, Loaded(m) PROVE Good(n)'
  <2>1. CASE n = m
    <3>1. n \in Rows /\ migration[n] \in MigrationRow
      BY <1>4, <2>1, TransitionPhases DEF Loaded, IssueResume, Rows, TypeOK, NoRow
    <3>2. /\ migration'[n].phase = "RESUMING"
          /\ migration'[n].consumed /\ migration'[n].resumeIssued
      BY <1>4, <2>1, <3>1 DEF Loaded, IssueResume, TypeOK, MigrationRow
    <3>3. call'[n] = "issued"
      BY <1>4, <2>1 DEF Loaded, TypeOK
    <3> QED BY <3>2, <3>3 DEF PostResumePhases
  <2>2. CASE n # m
    BY <1>1, <1>4, <2>2 DEF Loaded, IssueResume, TypeOK, Rows
  <2> QED BY <2>1, <2>2
<1>5. ASSUME NEW m \in Migrations, TransferOwnership(m) PROVE Good(n)'
  <2>1. CASE n = m
    <3>1. n \in Rows /\ migration[n] \in MigrationRow
      BY <1>5, <2>1, TransitionPhases DEF TransferOwnership, CompleteCutover, Rows, TypeOK, NoRow
    <3>2. migration[n].phase = "CUTOVER"
      BY <1>5, <2>1 DEF TransferOwnership, CompleteCutover, CanTransition, NormalTransitions
    <3>3. /\ migration'[n].phase = "CLEANUP"
          /\ migration'[n].consumed = migration[n].consumed
          /\ migration'[n].resumeIssued = migration[n].resumeIssued
      BY <1>5, <2>1, <3>1 DEF TransferOwnership, CompleteCutover, TypeOK, MigrationRow
    <3>4. call'[n] = "fence"
      BY <1>5, <2>1 DEF TransferOwnership, Continue, FirstCall, TypeOK
    <3> QED BY <1>1, <3>1, <3>2, <3>3, <3>4 DEF PostResumePhases
  <2>2. CASE n # m
    BY <1>1, <1>5, <2>2 DEF TransferOwnership, CompleteCutover, Continue, TypeOK, Rows
  <2> QED BY <2>1, <2>2
<1>6. CASE Bystander
  BY <1>1, <1>6 DEF Bystander, store, Rows
<1> QED BY <1>2, <1>3, <1>4, <1>5, <1>6, StoreStep

\* Whatever fails and whenever the coordinator crashes, once the resume intent is durable the
\* source is never asked to resume and the migration never ends as failed or rolled back
\* (MigrationRecovery.failure_action and the guards of transition/2, over every interleaving).
THEOREM NeverRollsBackAfterResume == Spec => []NoRollbackAfterResume
<1>1. Init => ResumeBoundary
  BY DEF Init, ResumeBoundary, Rows
<1>2. ResumeBoundary => NoRollbackAfterResume
  BY DEF ResumeBoundary, NoRollbackAfterResume, PostResumePhases
<1> QED BY <1>1, <1>2, ResumeBoundaryStep, TypeCorrect, PTL DEF Spec

-----------------------------------------------------------------------------
(* The sandbox row and the migration rows.                                 *)

\* The row of a runner that moves it is there and is not terminal.
LEMMA MovedRow ==
    ASSUME TypeOK, NEW m \in Migrations, NEW to, CanTransition(migration[m].phase, to)
    PROVE  /\ Nonterminal(m)
           /\ migration[m] \in MigrationRow
           /\ migration[m].sandbox \in Sandboxes
           /\ sandbox[migration[m].sandbox] \in SandboxRow
BY TransitionPhases DEF TypeOK, NoRow, Nonterminal, Rows, Terminal, MigrationRow

\* Every step keeps the sandbox and migration rows in agreement.
LEMMA ActiveRowStep == TypeOK /\ ActiveRowAgrees /\ [Next]_vars => ActiveRowAgrees'
<1> SUFFICES ASSUME TypeOK, ActiveRowAgrees, [Next]_vars PROVE ActiveRowAgrees'
  OBVIOUS
<1> USE DEF ActiveRowAgrees
<1>1. ASSUME NEW s \in Sandboxes, NEW dest \in Destinations, NEW key \in Keys,
             NEW m \in Migrations, StartMigration(s, dest, key, m)
      PROVE  ActiveRowAgrees'
  <2>1. /\ migration'[m].phase = "PREPARING" /\ migration'[m].sandbox = s
        /\ migration'[m] # NoRow
        /\ \A n \in Migrations : n # m => migration'[n] = migration[n]
    BY <1>1 DEF StartMigration, TypeOK, NoRow
  <2>2. /\ sandbox'[s].active = m /\ sandbox[s].active = None
        /\ \A z \in Sandboxes : z # s => sandbox'[z] = sandbox[z]
    BY <1>1 DEF StartMigration, Startable, TypeOK, SandboxRow
  <2>3. m \notin Rows
    BY <1>1 DEF StartMigration
  <2>4. \A n \in Migrations :
          n \in Rows' /\ ~Terminal(migration'[n].phase) <=> n = m \/ Nonterminal(n)
    BY <2>1, <2>3 DEF Nonterminal, Rows, Terminal, TerminalPhases
  <2>5. \A n \in Migrations : Nonterminal(n) => migration[n].sandbox \in Sandboxes
    BY DEF Nonterminal, Rows, TypeOK, MigrationRow
  <2>6. ASSUME NEW z \in Sandboxes, NEW a, a = sandbox'[z].active, a # None
        PROVE  a \in Rows' /\ ~Terminal(migration'[a].phase) /\ migration'[a].sandbox = z
    <3>1. CASE z = s
      BY <2>1, <2>2, <2>4, <2>6, <3>1
    <3>2. CASE z # s
      <4>1. a = sandbox[z].active /\ Nonterminal(a) /\ migration[a].sandbox = z
        BY <2>2, <2>6, <3>2
      <4>2. a \in Migrations /\ a # m
        BY <2>3, <4>1 DEF Nonterminal, Rows
      <4> QED BY <2>1, <2>2, <2>4, <3>2, <4>1, <4>2
    <3> QED BY <3>1, <3>2
  <2>7. ASSUME NEW n \in Migrations, n \in Rows', ~Terminal(migration'[n].phase)
        PROVE  sandbox'[migration'[n].sandbox].active = n
    <3>1. CASE n = m
      BY <2>1, <2>2, <3>1
    <3>2. CASE n # m
      <4>1. Nonterminal(n) /\ sandbox[migration[n].sandbox].active = n
        BY <2>4, <2>7, <3>2
      <4>2. migration[n].sandbox # s
        BY <2>2, <4>1, NoneAssumption
      <4> QED BY <2>1, <2>2, <2>5, <3>2, <4>1, <4>2
    <3> QED BY <3>1, <3>2
  <2> QED BY <2>6, <2>7 DEF Nonterminal
<1>2. ASSUME NEW m \in Migrations, NEW to, Advance(m, to) PROVE ActiveRowAgrees'
  <2> DEFINE s == migration[m].sandbox
  <2>1. /\ Nonterminal(m) /\ migration[m] \in MigrationRow
        /\ s \in Sandboxes /\ sandbox[s] \in SandboxRow
    BY <1>2, MovedRow DEF Advance, Transition
  <2>2. /\ migration'[m].phase = to /\ migration'[m].sandbox = s
        /\ migration'[m] # NoRow
        /\ \A n \in Migrations : n # m => migration'[n] = migration[n]
    BY <1>2, <2>1 DEF Advance, Transition, TypeOK, MigrationRow, NoRow
  <2>3. /\ \A z \in Sandboxes : z # s => sandbox'[z] = sandbox[z]
        /\ sandbox'[s].active = IF Terminal(to) THEN None ELSE sandbox[s].active
    BY <1>2, <2>1 DEF Advance, Transition, Finalized, TypeOK, SandboxRow
  <2>4. sandbox[s].active = m
    BY <2>1
  <2>5. \A n \in Migrations :
          n \in Rows' /\ ~Terminal(migration'[n].phase)
            <=> (n = m /\ ~Terminal(to)) \/ (n # m /\ Nonterminal(n))
    BY <2>2 DEF Nonterminal, Rows
  <2>6. \A n \in Migrations : Nonterminal(n) => migration[n].sandbox \in Sandboxes
    BY DEF Nonterminal, Rows, TypeOK, MigrationRow
  <2>7. ASSUME NEW z \in Sandboxes, NEW a, a = sandbox'[z].active, a # None
        PROVE  a \in Rows' /\ ~Terminal(migration'[a].phase) /\ migration'[a].sandbox = z
    <3>1. CASE z = s
      BY <2>1, <2>2, <2>3, <2>4, <2>5, <2>7, <3>1
    <3>2. CASE z # s
      <4>1. a = sandbox[z].active /\ Nonterminal(a) /\ migration[a].sandbox = z
        BY <2>3, <2>7, <3>2
      <4>2. a \in Migrations /\ a # m
        BY <3>2, <4>1 DEF Nonterminal, Rows
      <4> QED BY <2>2, <2>3, <2>5, <3>2, <4>1, <4>2
    <3> QED BY <3>1, <3>2
  <2>8. ASSUME NEW n \in Migrations, n \in Rows', ~Terminal(migration'[n].phase)
        PROVE  sandbox'[migration'[n].sandbox].active = n
    <3>1. CASE n = m
      BY <2>2, <2>3, <2>4, <2>5, <2>8, <3>1
    <3>2. CASE n # m
      <4>1. Nonterminal(n) /\ sandbox[migration[n].sandbox].active = n
        BY <2>5, <2>8, <3>2
      <4>2. migration[n].sandbox # s
        BY <2>4, <3>2, <4>1
      <4> QED BY <2>2, <2>3, <2>6, <3>2, <4>1, <4>2
    <3> QED BY <3>1, <3>2
  <2> QED BY <2>7, <2>8 DEF Nonterminal
<1>3. ASSUME NEW m \in Migrations, NEW to \in {"RESUMING", "CLEANUP"},
             CanTransition(migration[m].phase, to),
             migration'[m].phase = to, migration'[m].sandbox = migration[m].sandbox,
             migration'[m] # NoRow,
             \A n \in Migrations : n # m => migration'[n] = migration[n],
             \A z \in Sandboxes : sandbox'[z].active = sandbox[z].active
      PROVE  ActiveRowAgrees'
  <2>1. Nonterminal(m)
    BY <1>3, MovedRow
  <2>2. \A n \in Migrations : /\ Nonterminal(n)' <=> Nonterminal(n)
                              /\ migration'[n].sandbox = migration[n].sandbox
    BY <1>3, <2>1 DEF Nonterminal, Rows, Terminal, TerminalPhases
  <2>3. \A n \in Migrations : Nonterminal(n) => migration[n].sandbox \in Sandboxes
    BY DEF Nonterminal, Rows, TypeOK, MigrationRow
  <2> QED BY <1>3, <2>2, <2>3 DEF Nonterminal, Rows
<1>4. ASSUME NEW m \in Migrations, Loaded(m) PROVE ActiveRowAgrees'
  <2>1. /\ migration[m] \in MigrationRow /\ migration[m].sandbox \in Sandboxes
        /\ sandbox[migration[m].sandbox] \in SandboxRow
        /\ CanTransition(migration[m].phase, "RESUMING")
    BY <1>4, MovedRow DEF Loaded, IssueResume
  <2>2. /\ migration'[m].phase = "RESUMING" /\ migration'[m].sandbox = migration[m].sandbox
        /\ migration'[m] # NoRow
        /\ \A n \in Migrations : n # m => migration'[n] = migration[n]
    BY <1>4, <2>1, ZenonT(60) DEF Loaded, IssueResume, TypeOK, MigrationRow, NoRow
  <2>3. \A z \in Sandboxes : sandbox'[z].active = sandbox[z].active
    BY <1>4, <2>1 DEF Loaded, IssueResume, TypeOK, SandboxRow
  <2> QED BY <1>3, <2>1, <2>2, <2>3
<1>5. ASSUME NEW m \in Migrations, TransferOwnership(m) PROVE ActiveRowAgrees'
  <2>1. /\ migration[m] \in MigrationRow /\ migration[m].sandbox \in Sandboxes
        /\ sandbox[migration[m].sandbox] \in SandboxRow
        /\ CanTransition(migration[m].phase, "CLEANUP")
    BY <1>5, MovedRow DEF TransferOwnership, CompleteCutover
  <2>2. /\ migration'[m].phase = "CLEANUP" /\ migration'[m].sandbox = migration[m].sandbox
        /\ migration'[m] # NoRow
        /\ \A n \in Migrations : n # m => migration'[n] = migration[n]
    BY <1>5, <2>1 DEF TransferOwnership, CompleteCutover, TypeOK, MigrationRow, NoRow
  <2>3. \A z \in Sandboxes : sandbox'[z].active = sandbox[z].active
    BY <1>5, <2>1 DEF TransferOwnership, CompleteCutover, TypeOK, SandboxRow
  <2> QED BY <1>3, <2>1, <2>2, <2>3
<1>6. CASE Bystander
  BY <1>6 DEF Bystander, store, Nonterminal, Rows
<1> QED BY <1>1, <1>2, <1>4, <1>5, <1>6, StoreStep

\* A sandbox row names a migration exactly while that migration is its one nonterminal row, over
\* every interleaving of requests, transitions and crashes (Writer.create_migration,
\* maybe_finalize_sandbox).
THEOREM ActiveRowsAgree == Spec => []ActiveRowAgrees
<1>1. Init => ActiveRowAgrees
  <2> SUFFICES ASSUME Init PROVE ActiveRowAgrees
    OBVIOUS
  <2>1. \A s \in Sandboxes : sandbox[s].active = None
    BY DEF Init
  <2>2. Rows = {}
    BY DEF Init, Rows
  <2> QED BY <2>1, <2>2 DEF ActiveRowAgrees, Nonterminal
<1> QED BY <1>1, ActiveRowStep, TypeCorrect, PTL DEF Spec

-----------------------------------------------------------------------------
(* Ownership.                                                              *)

\* Every step keeps the owner on its side of the cutover.
LEMMA OwnerStep ==
    TypeOK /\ ActiveRowAgrees /\ OwnerFollowsCutover /\ [Next]_vars => OwnerFollowsCutover'
<1> SUFFICES ASSUME TypeOK, ActiveRowAgrees, OwnerFollowsCutover, [Next]_vars,
                    NEW n \in Migrations, Nonterminal(n)'
             PROVE  sandbox'[migration'[n].sandbox].worker =
                      IF migration'[n].phase = "CLEANUP" THEN migration'[n].destination
                                                         ELSE migration'[n].source
  BY DEF OwnerFollowsCutover
<1>0. Nonterminal(n) =>
        /\ migration[n].sandbox \in Sandboxes
        /\ sandbox[migration[n].sandbox].active = n
        /\ sandbox[migration[n].sandbox].worker =
             IF migration[n].phase = "CLEANUP" THEN migration[n].destination ELSE migration[n].source
  BY DEF OwnerFollowsCutover, ActiveRowAgrees, Nonterminal, Rows, TypeOK, MigrationRow
<1>1. ASSUME NEW s \in Sandboxes, NEW dest \in Destinations, NEW key \in Keys,
             NEW m \in Migrations, StartMigration(s, dest, key, m)
      PROVE  sandbox'[migration'[n].sandbox].worker =
               IF migration'[n].phase = "CLEANUP" THEN migration'[n].destination
                                                  ELSE migration'[n].source
  <2>1. \A z \in Sandboxes : sandbox'[z].worker = sandbox[z].worker
    BY <1>1 DEF StartMigration, TypeOK, SandboxRow
  <2>2. CASE n = m
    BY <1>1, <2>1, <2>2 DEF StartMigration, TypeOK
  <2>3. CASE n # m
    BY <1>0, <1>1, <2>1, <2>3 DEF StartMigration, TypeOK, Nonterminal, Rows
  <2> QED BY <2>2, <2>3
<1>2. ASSUME NEW m \in Migrations, NEW to \in PlainTargets, Advance(m, to)
      PROVE  sandbox'[migration'[n].sandbox].worker =
               IF migration'[n].phase = "CLEANUP" THEN migration'[n].destination
                                                  ELSE migration'[n].source
  <2>1. /\ Nonterminal(m) /\ migration[m] \in MigrationRow
        /\ migration[m].sandbox \in Sandboxes
        /\ CanTransition(migration[m].phase, to)
    BY <1>2, MovedRow DEF Advance, Transition
  <2>2. \A z \in Sandboxes : sandbox'[z].worker = sandbox[z].worker
    BY <1>2, <2>1 DEF Advance, Transition, Finalized, TypeOK, SandboxRow
  <2>3. CASE n = m
    <3>1. /\ migration'[n].phase = to /\ migration'[n].source = migration[n].source
          /\ migration'[n].destination = migration[n].destination
          /\ migration'[n].sandbox = migration[n].sandbox
      BY <1>2, <2>1, <2>3 DEF Advance, Transition, TypeOK, MigrationRow
    <3>2. migration[n].phase # "CLEANUP"
      BY <2>1, <2>3, <3>1 DEF CanTransition, NormalTransitions, Nonterminal, Terminal,
         TerminalPhases, PrepausePhases, RollbackPhases
    <3>3. to # "CLEANUP"
      BY DEF PlainTargets
    <3> QED BY <1>0, <2>1, <2>2, <2>3, <3>1, <3>2, <3>3
  <2>4. CASE n # m
    BY <1>0, <1>2, <2>2, <2>4 DEF Advance, Transition, TypeOK, Nonterminal, Rows
  <2> QED BY <2>3, <2>4
<1>3. ASSUME NEW m \in Migrations, Loaded(m)
      PROVE  sandbox'[migration'[n].sandbox].worker =
               IF migration'[n].phase = "CLEANUP" THEN migration'[n].destination
                                                  ELSE migration'[n].source
  <2>1. /\ Nonterminal(m) /\ migration[m] \in MigrationRow
        /\ migration[m].sandbox \in Sandboxes
        /\ migration[m].phase = "LOADING"
    BY <1>3, MovedRow DEF Loaded, IssueResume, CanTransition, NormalTransitions, TerminalPhases
  <2>2. \A z \in Sandboxes : sandbox'[z].worker = sandbox[z].worker
    BY <1>3, <2>1 DEF Loaded, IssueResume, TypeOK, SandboxRow
  <2>3. CASE n = m
    BY <1>0, <1>3, <2>1, <2>2, <2>3 DEF Loaded, IssueResume, TypeOK, MigrationRow
  <2>4. CASE n # m
    BY <1>0, <1>3, <2>2, <2>4 DEF Loaded, IssueResume, TypeOK, Nonterminal, Rows
  <2> QED BY <2>3, <2>4
<1>4. ASSUME NEW m \in Migrations, TransferOwnership(m)
      PROVE  sandbox'[migration'[n].sandbox].worker =
               IF migration'[n].phase = "CLEANUP" THEN migration'[n].destination
                                                  ELSE migration'[n].source
  <2>1. /\ Nonterminal(m) /\ migration[m] \in MigrationRow
        /\ migration[m].sandbox \in Sandboxes
        /\ sandbox[migration[m].sandbox].active = m
    BY <1>4, MovedRow DEF TransferOwnership, CompleteCutover, ActiveRowAgrees
  <2>2. CASE n = m
    BY <1>4, <2>1, <2>2 DEF TransferOwnership, CompleteCutover, TypeOK, MigrationRow, SandboxRow
  <2>3. CASE n # m
    <3>1. Nonterminal(n) /\ migration'[n] = migration[n]
      BY <1>4, <2>3 DEF TransferOwnership, CompleteCutover, TypeOK, Nonterminal, Rows
    <3>2. sandbox'[migration[n].sandbox] = sandbox[migration[n].sandbox]
      BY <1>0, <1>4, <2>1, <2>3, <3>1 DEF TransferOwnership, CompleteCutover, TypeOK
    <3> QED BY <1>0, <3>1, <3>2
  <2> QED BY <2>2, <2>3
<1>5. CASE Bystander
  BY <1>0, <1>5 DEF Bystander, store, Nonterminal, Rows
<1> QED BY <1>1, <1>2, <1>3, <1>4, <1>5, StoreStep

\* The sandbox belongs to the source of its migration until complete_cutover commits and to the
\* destination from then on.
THEOREM OwnerAlwaysFollowsCutover == Spec => []OwnerFollowsCutover
<1>1. Init => OwnerFollowsCutover
  BY DEF Init, OwnerFollowsCutover, Nonterminal, Rows
<1> QED BY <1>1, OwnerStep, TypeCorrect, ActiveRowsAgree, PTL DEF Spec

-----------------------------------------------------------------------------
(* Resuming the destination.                                               *)

\* The inductive form of ResumeSentOnce: a runner that is about to send the resume finds none
\* sent before it.
ResumeCount ==
    \A m \in Migrations :
        /\ resumes[m] <= 1
        /\ resumes[m] = 1 => m \in Rows /\ migration[m].consumed
        /\ call[m] = "issued" => resumes[m] = 0 /\ m \in Rows /\ migration[m].consumed

\* Resumes are counted, and runners come to send one, in one step each.
LEMMA ResumeStep ==
    ASSUME TypeOK, [Next]_vars
    PROVE  \/ \E m \in Migrations : ResumeSent(m)
           \/ /\ UNCHANGED resumes
              /\ \A n \in Migrations : call'[n] = "issued" => call[n] = "issued" \/ Loaded(n)
<1> DEFINE Silent == /\ UNCHANGED resumes
                     /\ \A n \in Migrations : call'[n] = "issued" => call[n] = "issued" \/ Loaded(n)
<1>0. call \in [Migrations -> RunnerStates]
  BY DEF TypeOK
<1>1. ASSUME NEW m \in Migrations, NEW to, Continue(m, to), UNCHANGED resumes PROVE Silent
  BY <1>0, <1>1 DEF Continue, FirstCall
<1>2. ASSUME NEW m \in Migrations, SupervisorRestart(m), UNCHANGED resumes PROVE Silent
  BY <1>0, <1>2 DEF SupervisorRestart
<1>3. ASSUME NEW m \in Migrations, RunnerStep(m), ~ResumeSent(m) PROVE Silent
  <2>1. CASE RunNew(m)
    BY <1>1, <2>1 DEF RunNew, Advance
  <2>2. CASE RunOrphan(m)
    BY <1>1, <2>2 DEF RunOrphan, Advance
  <2>3. CASE RunAgain(m)
    BY <1>1, <2>3, CountResumeCases DEF RunAgain, OrphanOnStart
  <2>4. CASE Answered(m)
    BY <1>1, <2>4 DEF Answered, Advance
  <2>5. CASE CutoverBegun(m)
    BY <1>0, <2>5 DEF CutoverBegun
  <2>6. CASE Loaded(m)
    BY <1>0, <2>6 DEF Loaded
  <2>7. CASE PortExposed(m)
    BY <1>0, <2>7 DEF PortExposed
  <2>8. CASE TransferOwnership(m)
    BY <1>1, <2>8 DEF TransferOwnership
  <2>9. CASE CallFailed(m)
    BY <1>1, <2>9 DEF CallFailed, HandleFailure, Advance
  <2>10. CASE RollbackFailed(m)
    BY <1>1, <2>10 DEF RollbackFailed, Advance
  <2>11. CASE UnaddressableCrash(m)
    BY <1>2, <2>11 DEF UnaddressableCrash
  <2> QED BY <1>3, <2>1, <2>2, <2>3, <2>4, <2>5, <2>6, <2>7, <2>8, <2>9, <2>10, <2>11
          DEF RunnerStep
<1>4. ASSUME NEW s \in Sandboxes, NEW dest \in Destinations, NEW key \in Keys,
             NEW m \in Migrations, StartMigration(s, dest, key, m)
      PROVE  Silent
  BY <1>0, <1>4 DEF StartMigration
<1>5. ASSUME NEW m \in Migrations, RunnerCrash(m) PROVE Silent
  BY <1>2, <1>5 DEF RunnerCrash
<1>6. CASE Crash
  BY <1>6 DEF Crash
<1>7. CASE Reconcile
  BY <1>0, <1>7 DEF Reconcile
<1>8. CASE UNCHANGED vars
  BY <1>8 DEF vars
<1> QED BY <1>3, <1>4, <1>5, <1>6, <1>7, <1>8 DEF Next

\* A row once consumed stays consumed.
LEMMA ConsumedStays ==
    ASSUME TypeOK, [Next]_vars, NEW n \in Migrations, n \in Rows, migration[n].consumed
    PROVE  n \in Rows' /\ migration'[n].consumed
<1>1. ASSUME NEW s \in Sandboxes, NEW dest \in Destinations, NEW key \in Keys,
             NEW m \in Migrations, StartMigration(s, dest, key, m)
      PROVE  n \in Rows' /\ migration'[n].consumed
  BY <1>1 DEF StartMigration, TypeOK, Rows
<1>2. ASSUME NEW m \in Migrations, m \in Rows, migration'[m] # NoRow,
             migration[m].consumed => migration'[m].consumed,
             \A k \in Migrations : k # m => migration'[k] = migration[k]
      PROVE  n \in Rows' /\ migration'[n].consumed
  BY <1>2 DEF Rows
<1>3. ASSUME NEW m \in Migrations, NEW to, Advance(m, to)
      PROVE  n \in Rows' /\ migration'[n].consumed
  <2>1. m \in Rows /\ migration[m] \in MigrationRow
    BY <1>3, MovedRow DEF Advance, Transition, Nonterminal
  <2>2. migration'[m] # NoRow /\ migration'[m].consumed = migration[m].consumed
    BY <1>3, <2>1 DEF Advance, Transition, TypeOK, MigrationRow, NoRow
  <2>3. \A k \in Migrations : k # m => migration'[k] = migration[k]
    BY <1>3 DEF Advance, Transition, TypeOK
  <2> QED BY <1>2, <2>1, <2>2, <2>3
<1>4. ASSUME NEW m \in Migrations, Loaded(m) PROVE n \in Rows' /\ migration'[n].consumed
  <2>1. m \in Rows /\ migration[m] \in MigrationRow
    BY <1>4, MovedRow DEF Loaded, IssueResume, Nonterminal
  <2>2. migration'[m] # NoRow /\ migration'[m].consumed
    BY <1>4, <2>1 DEF Loaded, IssueResume, TypeOK, MigrationRow, NoRow
  <2>3. \A k \in Migrations : k # m => migration'[k] = migration[k]
    BY <1>4 DEF Loaded, IssueResume, TypeOK
  <2> QED BY <1>2, <2>1, <2>2, <2>3
<1>5. ASSUME NEW m \in Migrations, TransferOwnership(m)
      PROVE  n \in Rows' /\ migration'[n].consumed
  <2>1. m \in Rows /\ migration[m] \in MigrationRow
    BY <1>5, MovedRow DEF TransferOwnership, CompleteCutover, Nonterminal
  <2>2. migration'[m] # NoRow /\ migration'[m].consumed = migration[m].consumed
    BY <1>5, <2>1 DEF TransferOwnership, CompleteCutover, TypeOK, MigrationRow, NoRow
  <2>3. \A k \in Migrations : k # m => migration'[k] = migration[k]
    BY <1>5 DEF TransferOwnership, CompleteCutover, TypeOK
  <2> QED BY <1>2, <2>1, <2>2, <2>3
<1>6. CASE Bystander
  BY <1>6 DEF Bystander, store, Rows
<1> QED BY <1>1, <1>3, <1>4, <1>5, <1>6, StoreStep

\* Every step keeps the count of resumes at one, and behind the row's commit.
LEMMA ResumeCountStep == TypeOK /\ ResumeCount /\ [Next]_vars => ResumeCount'
<1> DEFINE Count(n) == /\ resumes[n] <= 1
                       /\ resumes[n] = 1 => n \in Rows /\ migration[n].consumed
                       /\ call[n] = "issued" =>
                             resumes[n] = 0 /\ n \in Rows /\ migration[n].consumed
<1> SUFFICES ASSUME TypeOK, ResumeCount, [Next]_vars, NEW n \in Migrations
             PROVE  Count(n)'
  BY DEF ResumeCount
<1>0. /\ Count(n) /\ resumes[n] \in Nat
      /\ call \in [Migrations -> RunnerStates] /\ resumes \in [Migrations -> Nat]
  BY DEF ResumeCount, TypeOK
<1>1. n \in Rows /\ migration[n].consumed => n \in Rows' /\ migration'[n].consumed
  BY ConsumedStays
<1>2. ASSUME NEW m \in Migrations, ResumeSent(m) PROVE Count(n)'
  <2>1. resumes' = [resumes EXCEPT ![m] = @ + 1]
    BY <1>2, CountResumeCases DEF ResumeSent
  <2>2. CASE n = m
    <3>1. call'[n] = "resume" /\ call[n] = "issued"
      BY <1>0, <1>2, <2>2 DEF ResumeSent, Continue, FirstCall
    <3>2. resumes'[n] = 1
      BY <1>0, <2>1, <2>2, <3>1
    <3> QED BY <1>0, <1>1, <3>1, <3>2
  <2>3. CASE n # m
    <3>1. call'[n] = call[n] /\ resumes'[n] = resumes[n]
      BY <1>0, <1>2, <2>1, <2>3 DEF ResumeSent, Continue
    <3> QED BY <1>0, <1>1, <3>1
  <2> QED BY <2>2, <2>3
<1>3. CASE /\ UNCHANGED resumes
           /\ \A k \in Migrations : call'[k] = "issued" => call[k] = "issued" \/ Loaded(k)
  <2>1. ASSUME Loaded(n) PROVE resumes[n] = 0 /\ n \in Rows' /\ migration'[n].consumed
    <3>1. /\ n \in Rows /\ migration[n] \in MigrationRow /\ ~migration[n].consumed
      BY <2>1, MovedRow DEF Loaded, IssueResume, Nonterminal
    <3>2. migration'[n] # NoRow /\ migration'[n].consumed
      BY <2>1, <3>1 DEF Loaded, IssueResume, TypeOK, MigrationRow, NoRow
    <3> QED BY <1>0, <3>1, <3>2 DEF Rows
  <2> QED BY <1>0, <1>1, <1>3, <2>1
<1> QED BY <1>2, <1>3, ResumeStep

\* A destination is asked to resume at most once per migration, and only after the row records
\* that its snapshot is consumed: restarted runners and the reconciler never send it again
\* (Store.issue_resume, MigrationRecovery.reconcile_action).
THEOREM ResumeIsSentOnce == Spec => []ResumeSentOnce
<1>1. Init => ResumeCount
  BY DEF Init, ResumeCount
<1>2. ResumeCount => ResumeSentOnce
  BY DEF ResumeCount, ResumeSentOnce
<1> QED BY <1>1, <1>2, ResumeCountStep, TypeCorrect, PTL DEF Spec

-----------------------------------------------------------------------------
(* Fencing epochs.                                                         *)

\* The inductive form of ResumeEpochsDiffer: a migration that has not resumed yet and still may
\* is the only one to hold the next epoch of its sandbox; every epoch resumed under is passed.
EpochOrder ==
    \A m \in Rows :
        /\ migration[m].resumeIssued =>
              migration[m].epochAfter <= sandbox[migration[m].sandbox].epoch
        /\ Nonterminal(m) /\ ~migration[m].resumeIssued =>
              migration[m].epochAfter = sandbox[migration[m].sandbox].epoch + 1

\* Every step keeps the order of the epochs.
LEMMA EpochStep ==
    /\ TypeOK /\ ActiveRowAgrees /\ ResumeBoundary /\ EpochOrder /\ ResumeEpochsDiffer
    /\ [Next]_vars
    => EpochOrder' /\ ResumeEpochsDiffer'
<1> SUFFICES ASSUME TypeOK, ActiveRowAgrees, ResumeBoundary, EpochOrder, ResumeEpochsDiffer,
                    [Next]_vars
             PROVE  EpochOrder' /\ ResumeEpochsDiffer'
  OBVIOUS
<1>0. \A m \in Rows : /\ migration[m] \in MigrationRow
                      /\ migration[m].epochAfter \in Nat
                      /\ migration[m].sandbox \in Sandboxes
                      /\ sandbox[migration[m].sandbox].epoch \in Nat
  BY DEF Rows, TypeOK, MigrationRow, SandboxRow
<1>1. ASSUME NEW m \in Migrations, m \in Rows, Nonterminal(m), Rows' = Rows,
             \A n \in Rows : /\ migration'[n].sandbox = migration[n].sandbox
                             /\ migration'[n].epochAfter = migration[n].epochAfter
                             /\ migration'[n].resumeIssued = migration[n].resumeIssued
                             /\ n # m => migration'[n] = migration[n],
             \A s \in Sandboxes : sandbox'[s].epoch = sandbox[s].epoch
      PROVE  EpochOrder' /\ ResumeEpochsDiffer'
  <2>1. \A n \in Rows : Nonterminal(n)' => Nonterminal(n)
    BY <1>1 DEF Nonterminal
  <2>2. EpochOrder'
    BY <1>0, <1>1, <2>1 DEF EpochOrder
  <2>3. ResumeEpochsDiffer'
    BY <1>0, <1>1 DEF ResumeEpochsDiffer
  <2> QED BY <2>2, <2>3
<1>2. ASSUME NEW s \in Sandboxes, NEW dest \in Destinations, NEW key \in Keys,
             NEW m \in Migrations, StartMigration(s, dest, key, m)
      PROVE  EpochOrder' /\ ResumeEpochsDiffer'
  <2>1. /\ m \notin Rows /\ Rows' = Rows \cup {m}
        /\ \A n \in Rows : migration'[n] = migration[n]
        /\ migration'[m].sandbox = s /\ ~migration'[m].resumeIssued
        /\ migration'[m].epochAfter = sandbox[s].epoch + 1
    BY <1>2 DEF StartMigration, TypeOK, Rows, NoRow
  <2>2. \A z \in Sandboxes : sandbox'[z].epoch = sandbox[z].epoch
    BY <1>2 DEF StartMigration, TypeOK, SandboxRow
  <2>3. \A n \in Rows : Nonterminal(n)' => Nonterminal(n)
    BY <2>1 DEF Nonterminal
  <2>4. EpochOrder'
    BY <1>0, <2>1, <2>2, <2>3 DEF EpochOrder
  <2>5. ResumeEpochsDiffer'
    BY <1>0, <2>1, <2>2 DEF ResumeEpochsDiffer
  <2> QED BY <2>4, <2>5
<1>3. ASSUME NEW m \in Migrations, NEW to, Advance(m, to)
      PROVE  EpochOrder' /\ ResumeEpochsDiffer'
  <2>1. Nonterminal(m) /\ migration[m] \in MigrationRow /\ m \in Rows
    BY <1>3, MovedRow DEF Advance, Transition, Nonterminal
  <2>2. migration'[m] # NoRow /\ \A n \in Migrations : n # m => migration'[n] = migration[n]
    BY <1>3, <2>1 DEF Advance, Transition, TypeOK, MigrationRow, NoRow
  <2>3. /\ migration'[m].sandbox = migration[m].sandbox
        /\ migration'[m].epochAfter = migration[m].epochAfter
        /\ migration'[m].resumeIssued = migration[m].resumeIssued
    BY <1>3, <2>1 DEF Advance, Transition, TypeOK, MigrationRow
  <2>4. Rows' = Rows
    BY <2>1, <2>2 DEF Rows
  <2>5. \A s \in Sandboxes : sandbox'[s].epoch = sandbox[s].epoch
    BY <1>0, <1>3, <2>1 DEF Advance, Transition, Finalized, TypeOK, SandboxRow
  <2> QED BY <1>1, <2>1, <2>2, <2>3, <2>4, <2>5 DEF Rows
<1>4. ASSUME NEW m \in Migrations, TransferOwnership(m)
      PROVE  EpochOrder' /\ ResumeEpochsDiffer'
  <2>1. Nonterminal(m) /\ migration[m] \in MigrationRow /\ m \in Rows
    BY <1>4, MovedRow DEF TransferOwnership, CompleteCutover, Nonterminal
  <2>2. migration'[m] # NoRow /\ \A n \in Migrations : n # m => migration'[n] = migration[n]
    BY <1>4, <2>1 DEF TransferOwnership, CompleteCutover, TypeOK, MigrationRow, NoRow
  <2>3. /\ migration'[m].sandbox = migration[m].sandbox
        /\ migration'[m].epochAfter = migration[m].epochAfter
        /\ migration'[m].resumeIssued = migration[m].resumeIssued
    BY <1>4, <2>1 DEF TransferOwnership, CompleteCutover, TypeOK, MigrationRow
  <2>4. Rows' = Rows
    BY <2>1, <2>2 DEF Rows
  <2>5. \A s \in Sandboxes : sandbox'[s].epoch = sandbox[s].epoch
    BY <1>0, <1>4, <2>1 DEF TransferOwnership, CompleteCutover, TypeOK, SandboxRow
  <2> QED BY <1>1, <2>1, <2>2, <2>3, <2>4, <2>5 DEF Rows
<1>5. ASSUME NEW m \in Migrations, Loaded(m) PROVE EpochOrder' /\ ResumeEpochsDiffer'
  <2> DEFINE s == migration[m].sandbox
  <2>1. /\ Nonterminal(m) /\ migration[m] \in MigrationRow /\ m \in Rows
        /\ s \in Sandboxes /\ migration[m].phase = "LOADING"
    BY <1>5, MovedRow DEF Loaded, IssueResume, Nonterminal, CanTransition, NormalTransitions,
       TerminalPhases
  <2>2. /\ migration'[m].sandbox = s /\ migration'[m].epochAfter = migration[m].epochAfter
        /\ migration'[m].resumeIssued /\ migration'[m] # NoRow
        /\ \A n \in Migrations : n # m => migration'[n] = migration[n]
    BY <1>5, <2>1 DEF Loaded, IssueResume, TypeOK, MigrationRow, NoRow
  <2>3. Rows' = Rows
    BY <2>1, <2>2 DEF Rows
  <2>4. /\ sandbox'[s].epoch = migration[m].epochAfter
        /\ \A z \in Sandboxes : z # s => sandbox'[z] = sandbox[z]
    BY <1>5, <2>1 DEF Loaded, IssueResume, TypeOK, SandboxRow
  <2>5. ~migration[m].resumeIssued
    BY <2>1 DEF ResumeBoundary, PostResumePhases
  <2>6. migration[m].epochAfter = sandbox[s].epoch + 1
    BY <2>1, <2>5 DEF EpochOrder
  <2>7. \A n \in Rows : n # m /\ migration[n].sandbox = s => ~Nonterminal(n)
    BY <2>1 DEF ActiveRowAgrees, Rows
  <2>8. \A n \in Rows : n # m => (Nonterminal(n)' <=> Nonterminal(n))
    BY <2>2, <2>3 DEF Nonterminal, Rows
  <2>9. EpochOrder'
    <3> SUFFICES ASSUME NEW n \in Rows
                 PROVE  /\ migration'[n].resumeIssued =>
                             migration'[n].epochAfter <= sandbox'[migration'[n].sandbox].epoch
                        /\ Nonterminal(n)' /\ ~migration'[n].resumeIssued =>
                             migration'[n].epochAfter = sandbox'[migration'[n].sandbox].epoch + 1
      BY <2>3 DEF EpochOrder
    <3>1. CASE n = m
      BY <1>0, <2>1, <2>2, <2>4, <3>1
    <3>2. CASE n # m /\ migration[n].sandbox = s
      BY <1>0, <2>1, <2>2, <2>4, <2>6, <2>7, <2>8, <3>2 DEF EpochOrder, Rows
    <3>3. CASE n # m /\ migration[n].sandbox # s
      BY <1>0, <2>1, <2>2, <2>4, <2>8, <3>3 DEF EpochOrder, Rows
    <3> QED BY <3>1, <3>2, <3>3
  <2>10. ResumeEpochsDiffer'
    <3> SUFFICES ASSUME NEW k \in Rows, NEW n \in Rows, migration'[k].resumeIssued,
                        migration'[k].sandbox = migration'[n].sandbox
                 PROVE  /\ migration'[k].epochAfter <= sandbox'[migration'[k].sandbox].epoch
                        /\ k # n /\ migration'[n].resumeIssued =>
                              migration'[k].epochAfter # migration'[n].epochAfter
      BY <2>3 DEF ResumeEpochsDiffer
    <3>1. migration'[k].epochAfter <= sandbox'[migration'[k].sandbox].epoch
      BY <2>3, <2>9 DEF EpochOrder
    <3>2. ASSUME k # n, migration'[n].resumeIssued
          PROVE  migration'[k].epochAfter # migration'[n].epochAfter
      <4>1. CASE k = m
        BY <1>0, <2>2, <2>6, <3>2, <4>1 DEF EpochOrder, Rows
      <4>2. CASE n = m
        BY <1>0, <2>2, <2>6, <3>2, <4>2 DEF EpochOrder, Rows
      <4>3. CASE k # m /\ n # m
        BY <2>2, <3>2, <4>3 DEF ResumeEpochsDiffer, Rows
      <4> QED BY <4>1, <4>2, <4>3
    <3> QED BY <3>1, <3>2
  <2> QED BY <2>9, <2>10
<1>6. CASE Bystander
  BY <1>6 DEF Bystander, store, EpochOrder, ResumeEpochsDiffer, Nonterminal, Rows
<1> QED BY <1>2, <1>3, <1>4, <1>5, <1>6, StoreStep

\* No two migrations of a sandbox ever resume a destination under the same fencing epoch, and no
\* epoch resumed under is ahead of the sandbox's row (Writer.create_migration's
\* fencing_epoch_after, Store.issue_resume).
THEOREM ResumeEpochsAlwaysDiffer == Spec => []ResumeEpochsDiffer
<1>1. Init => ResumeBoundary /\ EpochOrder /\ ResumeEpochsDiffer
  BY DEF Init, ResumeBoundary, EpochOrder, ResumeEpochsDiffer, Rows
<1>2. TypeOK /\ ActiveRowAgrees /\ ResumeBoundary /\ EpochOrder /\ ResumeEpochsDiffer
        /\ [Next]_vars
        => ResumeBoundary' /\ EpochOrder' /\ ResumeEpochsDiffer'
  BY EpochStep, ResumeBoundaryStep
<1> QED BY <1>1, <1>2, TypeCorrect, ActiveRowsAgree, PTL DEF Spec

-----------------------------------------------------------------------------
(* The event log.                                                          *)

\* The log of m says that ownership moved.
Moved(m) == \E i \in 1..Len(events[m]) : events[m][i] = "CLEANUP"

MovedOf(s) == {m \in Rows : migration[m].sandbox = s /\ Moved(m)}

\* What EventLogFaithful needs to be inductive: only rows have a log, there are finitely many
\* of them at any time, and ownership is moved by the one transition into CLEANUP.
LogsFollowRows ==
    /\ IsFiniteSet(Rows)
    /\ \A m \in Migrations \ Rows : events[m] = <<>>
    /\ \A m \in Rows :
          Moved(m) => migration[m].phase \in {"CLEANUP", "DONE", "ORPHANED_AMBIGUOUS"}

\* An insertion adds one entry to one log and leaves the entries it has.
LEMMA Logged ==
    ASSUME TypeOK, NEW m \in Migrations, NEW to \in Phases, InsertEvent(m, to)
    PROVE  /\ Len(events[m]) \in Nat
           /\ Len(events'[m]) = Len(events[m]) + 1
           /\ events'[m][Len(events[m]) + 1] = to
           /\ \A i \in 1..Len(events[m]) : events'[m][i] = events[m][i]
           /\ \A n \in Migrations : n # m => events'[n] = events[n] /\ Moved(n)' = Moved(n)
           /\ Moved(m)' <=> Moved(m) \/ to = "CLEANUP"
<1>1. events[m] \in Seq(Phases) /\ events'[m] = Append(events[m], to)
  BY DEF TypeOK, InsertEvent
<1>2. /\ Len(events[m]) \in Nat
      /\ Len(events'[m]) = Len(events[m]) + 1
      /\ events'[m][Len(events[m]) + 1] = to
      /\ \A i \in 1..Len(events[m]) : events'[m][i] = events[m][i]
  BY <1>1
<1>3. \A n \in Migrations : n # m => events'[n] = events[n]
  BY DEF TypeOK, InsertEvent
<1>4. Moved(m)' <=> Moved(m) \/ to = "CLEANUP"
  <2>1. ASSUME Moved(m)' PROVE Moved(m) \/ to = "CLEANUP"
    <3>1. PICK i \in 1..Len(events'[m]) : events'[m][i] = "CLEANUP"
      BY <2>1 DEF Moved
    <3>2. i \in 1..Len(events[m]) \/ i = Len(events[m]) + 1
      BY <1>2, <3>1
    <3> QED BY <1>2, <3>1, <3>2 DEF Moved
  <2>2. ASSUME Moved(m) PROVE Moved(m)'
    <3>1. PICK i \in 1..Len(events[m]) : events[m][i] = "CLEANUP"
      BY <2>2 DEF Moved
    <3>2. i \in 1..Len(events'[m]) /\ events'[m][i] = "CLEANUP"
      BY <1>2, <3>1
    <3> QED BY <3>2 DEF Moved
  <2>3. ASSUME to = "CLEANUP" PROVE Moved(m)'
    <3>1. Len(events[m]) + 1 \in 1..Len(events'[m])
      BY <1>2
    <3> QED BY <1>2, <2>3, <3>1 DEF Moved
  <2> QED BY <2>1, <2>2, <2>3
<1>5. \A n \in Migrations : n # m => Moved(n)' = Moved(n)
  BY <1>3 DEF Moved
<1> QED BY <1>2, <1>3, <1>4, <1>5

\* Every step keeps the logs and the generations.
LEMMA LogStep ==
    TypeOK /\ LogsFollowRows /\ EventLogFaithful /\ [Next]_vars
    => LogsFollowRows' /\ EventLogFaithful'
<1> SUFFICES ASSUME TypeOK, LogsFollowRows, EventLogFaithful, [Next]_vars
             PROVE  LogsFollowRows' /\ EventLogFaithful'
  OBVIOUS
<1> DEFINE Path(n) == /\ events[n] # <<>>
                      /\ events[n][Len(events[n])] = migration[n].phase
                      /\ \A i \in 1..(Len(events[n]) - 1) :
                            CanTransition(events[n][i], events[n][i + 1])
           Late(n) == Moved(n) => migration[n].phase \in {"CLEANUP", "DONE", "ORPHANED_AMBIGUOUS"}
<1>a. /\ \A n \in Rows : Path(n) /\ Late(n)
      /\ \A s \in Sandboxes : sandbox[s].generation = 1 + Cardinality(MovedOf(s))
      /\ \A s \in Sandboxes : sandbox[s].generation \in Nat /\ IsFiniteSet(MovedOf(s))
  <2>1. \A s \in Sandboxes : MovedOf(s) \in SUBSET Rows
    BY DEF MovedOf
  <2>2. \A s \in Sandboxes : IsFiniteSet(MovedOf(s))
    BY <2>1, FS_Subset DEF LogsFollowRows
  <2>3. \A s \in Sandboxes : sandbox[s].generation \in Nat
    BY DEF TypeOK, SandboxRow
  <2> QED BY <2>2, <2>3 DEF LogsFollowRows, EventLogFaithful, MovedOf, Moved
<1>b. ASSUME /\ IsFiniteSet(Rows)' /\ \A n \in Migrations \ Rows' : events'[n] = <<>>
             /\ \A n \in Rows' : Path(n)' /\ Late(n)'
             /\ \A s \in Sandboxes : sandbox'[s].generation = 1 + Cardinality(MovedOf(s)')
      PROVE  LogsFollowRows' /\ EventLogFaithful'
  BY <1>b DEF LogsFollowRows, EventLogFaithful, MovedOf, Moved
<1>c. \A n \in Rows : n \in Migrations
  BY DEF Rows
<1>1. ASSUME NEW m \in Rows, NEW to \in Phases, CanTransition(migration[m].phase, to),
             InsertEvent(m, to), Rows' = Rows, migration'[m].phase = to,
             migration'[m].sandbox = migration[m].sandbox,
             \A n \in Rows : n # m => migration'[n] = migration[n],
             \A s \in Sandboxes : sandbox'[s].generation =
                IF to = "CLEANUP" /\ s = migration[m].sandbox
                THEN sandbox[s].generation + 1 ELSE sandbox[s].generation
      PROVE  LogsFollowRows' /\ EventLogFaithful'
  <2>1. /\ Len(events[m]) \in Nat /\ Len(events'[m]) = Len(events[m]) + 1
        /\ events'[m][Len(events[m]) + 1] = to
        /\ \A i \in 1..Len(events[m]) : events'[m][i] = events[m][i]
        /\ \A n \in Migrations : n # m => events'[n] = events[n] /\ Moved(n)' = Moved(n)
        /\ Moved(m)' <=> Moved(m) \/ to = "CLEANUP"
    BY <1>1, <1>c, Logged
  <2>2. Path(m)'
    <3>1. events'[m] # <<>>
      BY <2>1
    <3>2. Len(events[m]) > 0
      <4>1. events[m] \in Seq(Phases) /\ events[m] # <<>>
        BY <1>a, <1>c DEF TypeOK
      <4> QED BY <4>1
    <3>3. ASSUME NEW i \in 1..(Len(events'[m]) - 1)
          PROVE  CanTransition(events'[m][i], events'[m][i + 1])
      <4>1. CASE i = Len(events[m])
        BY <1>1, <1>a, <2>1, <3>2, <4>1
      <4>2. CASE i # Len(events[m])
        <5>1. i \in 1..(Len(events[m]) - 1)
          BY <2>1, <4>2
        <5>2. i + 1 \in 1..Len(events[m]) /\ i \in 1..Len(events[m])
          BY <2>1, <5>1
        <5> QED BY <1>a, <2>1, <5>1, <5>2
      <4> QED BY <4>1, <4>2
    <3> QED BY <1>1, <2>1, <3>1, <3>3
  <2>3. Late(m)'
    BY <1>1, <1>a, <2>1 DEF CanTransition, NormalTransitions, PrepausePhases, RollbackPhases,
       PostResumePhases
  <2>4. \A n \in Rows : n # m => Path(n)' /\ Late(n)'
    BY <1>1, <1>a, <1>c, <2>1
  <2>5. ASSUME NEW s \in Sandboxes
        PROVE  sandbox'[s].generation = 1 + Cardinality(MovedOf(s)')
    <3>1. CASE to = "CLEANUP" /\ s = migration[m].sandbox
      <4>1. ~Moved(m)
        BY <1>1, <1>a, <3>1 DEF CanTransition, NormalTransitions
      <4>2. MovedOf(s)' = MovedOf(s) \cup {m} /\ m \notin MovedOf(s)
        BY <1>1, <1>c, <2>1, <3>1, <4>1 DEF MovedOf
      <4>3. Cardinality(MovedOf(s)') = Cardinality(MovedOf(s)) + 1
        BY <1>a, <4>2, FS_AddElement
      <4>4. Cardinality(MovedOf(s)) \in Nat
        BY <1>a, FS_CardinalityType
      <4> QED BY <1>1, <1>a, <3>1, <4>3, <4>4
    <3>2. CASE ~(to = "CLEANUP" /\ s = migration[m].sandbox)
      <4>1. MovedOf(s)' = MovedOf(s)
        BY <1>1, <1>c, <2>1, <3>2 DEF MovedOf
      <4> QED BY <1>1, <1>a, <3>2, <4>1
    <3> QED BY <3>1, <3>2
  <2>6. \A n \in Migrations \ Rows : events'[n] = <<>>
    BY <2>1 DEF LogsFollowRows
  <2>7. IsFiniteSet(Rows)'
    BY <1>1 DEF LogsFollowRows
  <2> QED BY <1>1, <1>b, <2>2, <2>3, <2>4, <2>5, <2>6, <2>7
<1>2. ASSUME NEW s \in Sandboxes, NEW dest \in Destinations, NEW key \in Keys,
             NEW m \in Migrations, StartMigration(s, dest, key, m)
      PROVE  LogsFollowRows' /\ EventLogFaithful'
  <2>1. /\ m \notin Rows /\ Rows' = Rows \cup {m}
        /\ \A n \in Rows : migration'[n] = migration[n]
        /\ migration'[m].phase = "PREPARING"
    BY <1>2 DEF StartMigration, TypeOK, Rows, NoRow
  <2>2. "PREPARING" \in Phases
    BY DEF Phases, PrepausePhases
  <2>3. /\ Len(events[m]) \in Nat /\ Len(events'[m]) = Len(events[m]) + 1
        /\ events'[m][Len(events[m]) + 1] = "PREPARING"
        /\ \A n \in Migrations : n # m => events'[n] = events[n] /\ Moved(n)' = Moved(n)
        /\ Moved(m)' <=> Moved(m)
    BY <1>2, <2>2, Logged DEF StartMigration
  <2>4. events[m] = <<>>
    BY <2>1 DEF LogsFollowRows
  <2>5. Len(events[m]) = 0 /\ ~Moved(m)
    BY <2>4 DEF Moved
  <2>6. Path(m)' /\ Late(m)'
    <3>1. events'[m] # <<>> /\ events'[m][Len(events'[m])] = migration'[m].phase
      BY <2>1, <2>3, <2>5
    <3>2. 1..(Len(events'[m]) - 1) = {}
      BY <2>3, <2>5
    <3> QED BY <2>3, <2>5, <3>1, <3>2
  <2>7. \A n \in Rows : Path(n)' /\ Late(n)'
    BY <1>a, <1>c, <2>1, <2>3
  <2>8. \A z \in Sandboxes : MovedOf(z)' = MovedOf(z)
    BY <1>c, <2>1, <2>3, <2>5 DEF MovedOf
  <2>9. \A z \in Sandboxes : sandbox'[z].generation = sandbox[z].generation
    BY <1>2 DEF StartMigration, TypeOK, SandboxRow
  <2>10. IsFiniteSet(Rows)'
    BY <2>1, FS_AddElement DEF LogsFollowRows
  <2>11. \A n \in Migrations \ Rows' : events'[n] = <<>>
    BY <2>1, <2>3 DEF LogsFollowRows
  <2> QED BY <1>a, <1>b, <2>1, <2>6, <2>7, <2>8, <2>9, <2>10, <2>11
<1>3. ASSUME NEW m \in Migrations, NEW to \in PlainTargets, Advance(m, to)
      PROVE  LogsFollowRows' /\ EventLogFaithful'
  <2>1. /\ m \in Rows /\ to \in Phases /\ to # "CLEANUP"
        /\ CanTransition(migration[m].phase, to) /\ InsertEvent(m, to)
        /\ migration[m] \in MigrationRow /\ migration[m].sandbox \in Sandboxes
    BY <1>3, MovedRow DEF Advance, Transition, Nonterminal, PlainTargets
  <2>2. /\ migration'[m] # NoRow /\ migration'[m].phase = to
        /\ migration'[m].sandbox = migration[m].sandbox
        /\ \A n \in Migrations : n # m => migration'[n] = migration[n]
    BY <1>3, <2>1 DEF Advance, Transition, TypeOK, MigrationRow, NoRow
  <2>3. Rows' = Rows
    BY <2>1, <2>2 DEF Rows
  <2>4. \A s \in Sandboxes : sandbox'[s].generation = sandbox[s].generation
    BY <1>3, <2>1 DEF Advance, Transition, Finalized, TypeOK, SandboxRow
  <2> QED BY <1>1, <1>c, <2>1, <2>2, <2>3, <2>4
<1>4. ASSUME NEW m \in Migrations, Loaded(m)
      PROVE  LogsFollowRows' /\ EventLogFaithful'
  <2>1. /\ m \in Rows /\ CanTransition(migration[m].phase, "RESUMING")
        /\ InsertEvent(m, "RESUMING")
        /\ migration[m] \in MigrationRow /\ migration[m].sandbox \in Sandboxes
    BY <1>4, MovedRow DEF Loaded, IssueResume, Nonterminal
  <2>2. /\ migration'[m] # NoRow /\ migration'[m].phase = "RESUMING"
        /\ migration'[m].sandbox = migration[m].sandbox
        /\ \A n \in Migrations : n # m => migration'[n] = migration[n]
    BY <1>4, <2>1 DEF Loaded, IssueResume, TypeOK, MigrationRow, NoRow
  <2>3. Rows' = Rows
    BY <2>1, <2>2 DEF Rows
  <2>4. \A s \in Sandboxes : sandbox'[s].generation = sandbox[s].generation
    BY <1>4, <2>1 DEF Loaded, IssueResume, TypeOK, SandboxRow
  <2>5. "RESUMING" \in Phases
    BY DEF Phases, PostResumePhases
  <2> QED BY <1>1, <1>c, <2>1, <2>2, <2>3, <2>4, <2>5
<1>5. ASSUME NEW m \in Migrations, TransferOwnership(m)
      PROVE  LogsFollowRows' /\ EventLogFaithful'
  <2>1. /\ m \in Rows /\ CanTransition(migration[m].phase, "CLEANUP")
        /\ InsertEvent(m, "CLEANUP")
        /\ migration[m] \in MigrationRow /\ migration[m].sandbox \in Sandboxes
        /\ sandbox[migration[m].sandbox] \in SandboxRow
    BY <1>5, MovedRow DEF TransferOwnership, CompleteCutover, Nonterminal
  <2>2. /\ migration'[m] # NoRow /\ migration'[m].phase = "CLEANUP"
        /\ migration'[m].sandbox = migration[m].sandbox
        /\ \A n \in Migrations : n # m => migration'[n] = migration[n]
    BY <1>5, <2>1 DEF TransferOwnership, CompleteCutover, TypeOK, MigrationRow, NoRow
  <2>3. Rows' = Rows
    BY <2>1, <2>2 DEF Rows
  <2>4. \A s \in Sandboxes : sandbox'[s].generation =
           IF s = migration[m].sandbox THEN sandbox[s].generation + 1
                                       ELSE sandbox[s].generation
    BY <1>5, <2>1 DEF TransferOwnership, CompleteCutover, TypeOK, SandboxRow
  <2>5. "CLEANUP" \in Phases
    BY DEF Phases, PostResumePhases
  <2> QED BY <1>1, <1>c, <2>1, <2>2, <2>3, <2>4, <2>5
<1>6. CASE Bystander
  <2>1. UNCHANGED <<sandbox, migration, events>>
    BY <1>6 DEF Bystander, store
  <2> QED BY <2>1 DEF LogsFollowRows, EventLogFaithful, Moved, Rows
<1> QED BY <1>2, <1>3, <1>4, <1>5, <1>6, StoreStep

\* The log a client replays is a path of the phase machine that ends at the row's phase, and a
\* sandbox's generation is the number of times its owner changed, as the logs tell it
\* (Writer.persist_transition, Store.complete_cutover; the row and the log in one transaction).
THEOREM EventLogsAreFaithful == Spec => []EventLogFaithful
<1>1. Init => LogsFollowRows /\ EventLogFaithful
  <2> SUFFICES ASSUME Init PROVE LogsFollowRows /\ EventLogFaithful
    OBVIOUS
  <2>1. Rows = {} /\ \A m \in Migrations : events[m] = <<>>
    BY DEF Init, Rows
  <2>2. IsFiniteSet({}) /\ Cardinality({}) = 0
    BY FS_EmptySet
  <2>3. \A s \in Sandboxes : sandbox[s].generation = 1
    BY DEF Init
  <2>4. LogsFollowRows
    BY <2>1, <2>2 DEF LogsFollowRows
  <2>5. \A s \in Sandboxes :
           {m \in Rows : /\ migration[m].sandbox = s
                         /\ \E i \in 1..Len(events[m]) : events[m][i] = "CLEANUP"} = {}
    BY <2>1
  <2> QED BY <2>1, <2>2, <2>3, <2>4, <2>5 DEF EventLogFaithful
<1> QED BY <1>1, LogStep, TypeCorrect, PTL DEF Spec

-----------------------------------------------------------------------------
(* The coordinator inside the composition.                                 *)

\* What a step of Migration does to the coordinator's state is a step of Coordinator, or nothing:
\* behind their calls, the workers and the proxy only choose which answers come.
LEMMA StepImplementsCoordinator == [MigrationNext]_migrationVars => [Next]_vars
<1> SUFFICES ASSUME [MigrationNext]_migrationVars PROVE [Next]_vars
  OBVIOUS
<1>1. CASE CoordinatorStep
  <2>1. ASSUME NEW m \in Migrations,
               \/ RunnerStarts(m) \/ CallSucceeds(m) \/ CallIsRefused(m) \/ CallTimesOut(m)
        PROVE  RunnerStep(m)
    BY <2>1 DEF RunnerStarts, CallSucceeds, CallIsRefused, CallTimesOut, RunnerStep
  <2>2. ASSUME NEW m \in Migrations, RunnerDies(m) PROVE RunnerCrash(m)
    BY <2>2 DEF RunnerDies
  <2>3. CoordinatorDies => Crash
    BY DEF CoordinatorDies
  <2> QED BY <1>1, <2>1, <2>2, <2>3 DEF CoordinatorStep, Next
<1>2. CASE ProxyStep
  BY <1>2 DEF ProxyStep, coordinator, store, vars
<1>3. CASE WorkerStep /\ UNCHANGED <<coordinator, manifest, route>>
  BY <1>3 DEF coordinator, store, vars
<1>4. CASE UNCHANGED migrationVars
  BY <1>4 DEF migrationVars, coordinator, store, vars
<1> QED BY <1>1, <1>2, <1>3, <1>4 DEF MigrationNext

\* Every behaviour of the whole system is one of the coordinator's: what is proved of Coordinator
\* under arbitrary answers holds with the workers and the proxy behind the calls.
THEOREM MigrationImplementsCoordinator == MigrationSpec => Spec
<1>1. MigrationInit => Init
  BY DEF MigrationInit
<1> QED BY <1>1, StepImplementsCoordinator, PTL DEF MigrationSpec, Spec
-----------------------------------------------------------------------------
(* What the rows say of one another and of the calls.                      *)

\* The phase that makes a call.
PhaseOf(c) ==
    CASE c = "reserve"                        -> "RESERVING"
      [] c = "prestage"                       -> "PRESTAGING"
      [] c = "probe"                          -> "PROBING"
      [] c = "precopy"                        -> "PRECOPYING"
      [] c \in {"begin_cutover", "pause"}     -> "PAUSING"
      [] c = "snapshot"                       -> "SNAPSHOTTING"
      [] c = "transfer"                       -> "TRANSFERRING"
      [] c = "load"                           -> "LOADING"
      [] c \in {"issued", "resume"}           -> "RESUMING"
      [] c = "verify"                         -> "VERIFYING"
      [] c \in {"expose", "repoint", "commit"} -> "CUTOVER"
      [] c = "fence"                          -> "CLEANUP"
      [] c = "rollback"                       -> "ROLLING_BACK_SOURCE"

Blocked == Calls \cup {"issued", "commit"}

\* There is no runner of a migration that ended, and a runner is blocked in a call of its row's
\* phase; only an exposed sandbox has a route to move.
CallOfPhase(m) ==
    /\ call[m] # "idle" => Nonterminal(m)
    /\ call[m] \in Blocked => migration[m].phase = PhaseOf(call[m])
    /\ call[m] \in {"begin_cutover", "expose", "repoint"} => migration[m].sandbox \in Exposed
    /\ call[m] = "commit" => migration[m].sandbox \notin Exposed

CallsOfPhases == \A m \in Migrations : CallOfPhase(m)

LEMMA FirstCallPhase ==
    ASSUME NEW s, NEW phase, NEW c, c = FirstCall(s, phase)
    PROVE  /\ c \in Blocked => PhaseOf(c) = phase
           /\ c \in {"begin_cutover", "expose", "repoint"} => s \in Exposed
           /\ c = "commit" => s \notin Exposed
           /\ c # "idle" => c \in Blocked /\ ~Terminal(phase)
BY DEF FirstCall, PhaseOf, Blocked, Calls, Terminal, TerminalPhases

\* Every step keeps the calls with their phases.
LEMMA CallsOfPhasesStep == TypeOK /\ CallsOfPhases /\ [Next]_vars => CallsOfPhases'
<1> SUFFICES ASSUME TypeOK, CallsOfPhases, [Next]_vars, NEW n \in Migrations
             PROVE  CallOfPhase(n)'
  BY DEF CallsOfPhases
<1> USE DEF store
<1>0. CallOfPhase(n) /\ call \in [Migrations -> RunnerStates]
  BY DEF CallsOfPhases, TypeOK
\* A step that moves no row and sends n to no new call.
<1>1. ASSUME UNCHANGED store, \/ call'[n] \in {call[n], "idle"}
                              \/ call'[n] = "start" /\ Nonterminal(n)
      PROVE  CallOfPhase(n)'
  BY <1>0, <1>1 DEF CallOfPhase, Nonterminal, Rows, Blocked, Calls
\* A step that moves a row and goes on with its runner.
<1>2. ASSUME NEW m \in Migrations, NEW to, Continue(m, to),
             \A k \in Migrations : k # m => migration'[k] = migration[k],
             m \in Rows', migration'[m].phase = to, m \in Rows,
             migration'[m].sandbox = migration[m].sandbox
      PROVE  CallOfPhase(n)'
  <2>1. CASE n = m
    <3>1. PICK c : c = FirstCall(migration[m].sandbox, to)
      OBVIOUS
    <3>2. call'[n] = c
      BY <1>0, <1>2, <2>1, <3>1 DEF Continue
    <3> QED BY <1>2, <2>1, <3>1, <3>2, FirstCallPhase DEF CallOfPhase, Nonterminal
  <2>2. CASE n # m
    <3>1. call'[n] = call[n] /\ migration'[n] = migration[n]
      BY <1>0, <1>2, <2>2 DEF Continue
    <3> QED BY <1>0, <3>1 DEF CallOfPhase, Nonterminal, Rows
  <2> QED BY <2>1, <2>2
<1>3. ASSUME NEW m \in Migrations, NEW to, Advance(m, to) PROVE CallOfPhase(n)'
  <2>1. migration[m] \in MigrationRow /\ m \in Rows
    BY <1>3, MovedRow DEF Advance, Transition, Nonterminal
  <2>2. migration' = [migration EXCEPT ![m].phase = to] /\ Continue(m, to)
    BY <1>3 DEF Advance, Transition
  <2>3. /\ migration'[m].phase = to /\ migration'[m].sandbox = migration[m].sandbox
        /\ migration'[m] # NoRow
        /\ \A k \in Migrations : k # m => migration'[k] = migration[k]
    BY <2>1, <2>2 DEF TypeOK, MigrationRow, NoRow
  <2> QED BY <1>2, <2>1, <2>2, <2>3 DEF Rows
<1>4. ASSUME NEW m \in Migrations, SupervisorRestart(m), UNCHANGED store, call[m] # "idle"
      PROVE  CallOfPhase(n)'
  BY <1>0, <1>1, <1>4 DEF SupervisorRestart, CallsOfPhases, CallOfPhase
<1>5. ASSUME NEW m \in Migrations, RunnerStep(m) PROVE CallOfPhase(n)'
  <2>1. CASE RunNew(m)
    BY <1>3, <2>1 DEF RunNew
  <2>2. CASE RunOrphan(m)
    BY <1>3, <2>2 DEF RunOrphan
  <2>3. CASE RunAgain(m)
    <3>1. m \in Rows
      BY <2>3 DEF RunAgain, CallsOfPhases, CallOfPhase, Nonterminal
    <3> QED BY <1>2, <2>3, <3>1 DEF RunAgain, Rows
  <2>4. CASE Answered(m)
    BY <1>3, <2>4 DEF Answered
  <2>5. CASE CutoverBegun(m)
    <3>1. n # m => call'[n] = call[n]
      BY <1>0, <2>5 DEF CutoverBegun
    <3>2. n = m => call'[n] = "pause" /\ call[n] = "begin_cutover"
      BY <1>0, <2>5 DEF CutoverBegun
    <3> QED BY <1>0, <1>1, <2>5, <3>1, <3>2
            DEF CutoverBegun, CallOfPhase, PhaseOf, Blocked, Calls, Nonterminal, Rows
  <2>6. CASE Loaded(m)
    <3>1. m \in Rows /\ migration[m] \in MigrationRow
      BY <2>6, MovedRow DEF Loaded, IssueResume, Nonterminal
    <3>2. /\ migration'[m].phase = "RESUMING" /\ migration'[m].sandbox = migration[m].sandbox
          /\ migration'[m] # NoRow
          /\ \A k \in Migrations : k # m => migration'[k] = migration[k]
      BY <2>6, <3>1 DEF Loaded, IssueResume, TypeOK, MigrationRow, NoRow
    <3>3. n # m => call'[n] = call[n]
      BY <1>0, <2>6 DEF Loaded
    <3>4. n = m => call'[n] = "issued"
      BY <1>0, <2>6 DEF Loaded
    <3> QED BY <1>0, <3>2, <3>3, <3>4
            DEF CallOfPhase, PhaseOf, Nonterminal, Rows, Terminal, TerminalPhases
  <2>7. CASE PortExposed(m)
    <3>1. n # m => call'[n] = call[n]
      BY <1>0, <2>7 DEF PortExposed
    <3>2. n = m => call'[n] = "repoint" /\ call[n] = "expose"
      BY <1>0, <2>7 DEF PortExposed
    <3> QED BY <1>0, <1>1, <2>7, <3>1, <3>2
            DEF PortExposed, CallOfPhase, PhaseOf, Blocked, Calls, Nonterminal, Rows
  <2>8. CASE TransferOwnership(m)
    <3>1. m \in Rows /\ migration[m] \in MigrationRow
      BY <2>8, MovedRow DEF TransferOwnership, CompleteCutover, Nonterminal
    <3>2. Continue(m, "CLEANUP")
      BY <2>8 DEF TransferOwnership
    <3>3. /\ migration'[m].phase = "CLEANUP" /\ migration'[m].sandbox = migration[m].sandbox
          /\ migration'[m] # NoRow
          /\ \A k \in Migrations : k # m => migration'[k] = migration[k]
      BY <2>8, <3>1 DEF TransferOwnership, CompleteCutover, TypeOK, MigrationRow, NoRow
    <3> QED BY <1>2, <3>1, <3>2, <3>3 DEF Rows
  <2>9. CASE CallFailed(m)
    BY <1>3, <2>9 DEF CallFailed, HandleFailure
  <2>10. CASE RollbackFailed(m)
    BY <1>3, <2>10 DEF RollbackFailed
  <2>11. CASE UnaddressableCrash(m)
    BY <1>4, <2>11 DEF UnaddressableCrash, Unaddressable, Calls
  <2>12. CASE ResumeSent(m)
    <3>1. m \in Rows /\ migration[m].phase = "RESUMING"
      BY <2>12 DEF ResumeSent, CallsOfPhases, CallOfPhase, Nonterminal, Blocked, PhaseOf
    <3> QED BY <1>2, <2>12, <3>1 DEF ResumeSent, Rows
  <2> QED BY <1>5, <2>1, <2>2, <2>3, <2>4, <2>5, <2>6, <2>7, <2>8, <2>9, <2>10, <2>11, <2>12
          DEF RunnerStep
<1>6. ASSUME NEW s \in Sandboxes, NEW dest \in Destinations, NEW key \in Keys,
             NEW m \in Migrations, StartMigration(s, dest, key, m)
      PROVE  CallOfPhase(n)'
  <2>1. n = m => call'[n] = "start" /\ n \in Rows' /\ migration'[n].phase = "PREPARING"
    BY <1>0, <1>6 DEF StartMigration, TypeOK, Rows, NoRow
  <2>2. n # m => call'[n] = call[n] /\ migration'[n] = migration[n]
    BY <1>0, <1>6 DEF StartMigration, TypeOK
  <2> QED BY <1>0, <2>1, <2>2
          DEF CallOfPhase, Nonterminal, Terminal, TerminalPhases, Rows, Blocked, Calls
<1>7. ASSUME NEW m \in Migrations, RunnerCrash(m) PROVE CallOfPhase(n)'
  BY <1>4, <1>7 DEF RunnerCrash
<1>8. CASE Crash
  BY <1>0, <1>1, <1>8 DEF Crash
<1>9. CASE Reconcile
  BY <1>0, <1>1, <1>9 DEF Reconcile
<1>10. CASE UNCHANGED vars
  BY <1>0, <1>1, <1>10 DEF vars
<1> QED BY <1>5, <1>6, <1>7, <1>8, <1>9, <1>10 DEF Next

\* The row of m and its sandbox's: which side of the resume boundary the sandbox is on, under
\* which epoch, and who has it once the epoch of m is the sandbox's.
RowAgrees(m) ==
    LET row == migration[m]
        sb  == sandbox[row.sandbox]
    IN  /\ row.epochAfter = row.epochBefore + 1
        /\ row.source # row.destination
        /\ ~Terminal(row.phase) /\ ~row.resumeIssued =>
              sb.epoch = row.epochBefore /\ sb.state = "migrating"
        /\ ~Terminal(row.phase) /\ row.resumeIssued =>
              sb.epoch = row.epochAfter /\ sb.state = IF row.phase = "CLEANUP" THEN "running"
                                                                               ELSE "resuming"
        /\ row.resumeIssued /\ row.epochAfter = sb.epoch =>
              /\ row.phase \in {"CLEANUP", "DONE"} => sb.worker = row.destination
              /\ row.phase = "ORPHANED_AMBIGUOUS" => sb.state = "orphaned_ambiguous"

RowsAgree == \A m \in Rows : RowAgrees(m)

\* Every step keeps the rows and their sandboxes in agreement.
LEMMA RowsAgreeStep ==
    /\ TypeOK /\ ActiveRowAgrees /\ ResumeBoundary /\ EpochOrder /\ ResumeEpochsDiffer
    /\ RowsAgree /\ [Next]_vars
    => RowsAgree'
<1> SUFFICES ASSUME TypeOK, ActiveRowAgrees, ResumeBoundary, EpochOrder, ResumeEpochsDiffer,
                    RowsAgree, [Next]_vars, NEW n \in Migrations, n \in Rows'
             PROVE  RowAgrees(n)'
  BY DEF RowsAgree, Rows
<1>0. /\ sandbox \in [Sandboxes -> SandboxRow]
      /\ migration \in [Migrations -> MigrationRow \cup {NoRow}]
      /\ \A k \in Rows : migration[k] \in MigrationRow /\ migration[k].sandbox \in Sandboxes
  BY DEF TypeOK, Rows, MigrationRow
\* Two rows that are not terminal are of different sandboxes.
<1>a. ASSUME NEW m \in Migrations, Nonterminal(m), m # n, n \in Rows, ~Terminal(migration[n].phase)
      PROVE  migration[n].sandbox # migration[m].sandbox
  BY <1>a DEF ActiveRowAgrees, Nonterminal
<1>1. ASSUME NEW s \in Sandboxes, NEW dest \in Destinations, NEW key \in Keys,
             NEW m \in Migrations, StartMigration(s, dest, key, m)
      PROVE  RowAgrees(n)'
  <2>1. CASE n = m
    <3>1. migration'[n] = [phase |-> "PREPARING", sandbox |-> s,
                           source |-> sandbox[s].worker, destination |-> dest, key |-> key,
                           epochBefore |-> sandbox[s].epoch, epochAfter |-> sandbox[s].epoch + 1,
                           consumed |-> FALSE, resumeIssued |-> FALSE]
      BY <1>0, <1>1, <2>1 DEF StartMigration
    <3>2. sandbox'[s] = [sandbox[s] EXCEPT !.active = m, !.state = "migrating"]
      BY <1>0, <1>1 DEF StartMigration
    <3>3. sandbox'[s].epoch = sandbox[s].epoch /\ sandbox'[s].state = "migrating"
      BY <1>0, <3>2 DEF SandboxRow
    <3>4. /\ migration'[n].sandbox = s /\ ~migration'[n].resumeIssued
          /\ migration'[n].source = sandbox[s].worker /\ migration'[n].destination = dest
          /\ migration'[n].epochBefore = sandbox[s].epoch
          /\ migration'[n].epochAfter = sandbox[s].epoch + 1
      BY <3>1
    <3>5. sandbox[s].worker # dest
      BY <1>1 DEF StartMigration, Startable
    <3> QED BY <3>3, <3>4, <3>5 DEF RowAgrees
  <2>2. CASE n # m
    <3>1. n \in Rows /\ migration'[n] = migration[n] /\ RowAgrees(n)
      BY <1>0, <1>1, <2>2 DEF StartMigration, Rows, RowsAgree
    <3>2. CASE migration[n].sandbox # s
      BY <1>0, <1>1, <3>1, <3>2 DEF StartMigration, RowAgrees
    <3>3. CASE migration[n].sandbox = s
      <4>1. Terminal(migration[n].phase)
        BY <1>1, <3>1, <3>3, NoneAssumption
           DEF StartMigration, Startable, ActiveRowAgrees, Nonterminal
      <4>2. /\ sandbox'[s].worker = sandbox[s].worker /\ sandbox'[s].epoch = sandbox[s].epoch
            /\ sandbox[s].state = "running"
        BY <1>0, <1>1 DEF StartMigration, Startable, SandboxRow
      <4> QED BY <3>1, <3>3, <4>1, <4>2 DEF RowAgrees
    <3> QED BY <3>2, <3>3
  <2> QED BY <2>1, <2>2
<1>2. ASSUME NEW m \in Migrations, NEW to \in PlainTargets, Advance(m, to)
      PROVE  RowAgrees(n)'
  <2> DEFINE s == migration[m].sandbox
  <2>0. /\ Nonterminal(m) /\ m \in Rows /\ migration[m] \in MigrationRow /\ s \in Sandboxes
        /\ CanTransition(migration[m].phase, to)
        /\ migration' = [migration EXCEPT ![m].phase = to]
        /\ sandbox' = [sandbox EXCEPT ![s] = Finalized(@, to)]
        /\ RowAgrees(m)
    BY <1>2, MovedRow DEF Advance, Transition, Nonterminal, RowsAgree
  <2>1. /\ sandbox'[s].worker = sandbox[s].worker /\ sandbox'[s].epoch = sandbox[s].epoch
        /\ sandbox'[s].state = IF Terminal(to)
                               THEN IF to = "ORPHANED_AMBIGUOUS" THEN "orphaned_ambiguous"
                                                                 ELSE "running"
                               ELSE sandbox[s].state
    BY <1>0, <2>0 DEF Finalized, SandboxRow
  <2>2. CASE n = m
    <3>1. /\ migration'[n].phase = to
          /\ migration'[n].sandbox = s
          /\ migration'[n].epochAfter = migration[n].epochAfter
          /\ migration'[n].epochBefore = migration[n].epochBefore
          /\ migration'[n].source = migration[n].source
          /\ migration'[n].destination = migration[n].destination
          /\ migration'[n].resumeIssued = migration[n].resumeIssued
      BY <1>0, <2>0, <2>2 DEF MigrationRow
    <3>2. /\ ~Terminal(to) => migration[m].phase # "CLEANUP" /\ to # "CLEANUP"
          /\ to = "DONE" => migration[m].phase = "CLEANUP"
          /\ ~Terminal(migration[m].phase)
      BY <2>0 DEF CanTransition, NormalTransitions, Terminal, TerminalPhases, PrepausePhases,
                  RollbackPhases, PostResumePhases, PlainTargets, Nonterminal
    <3>3. to # "CLEANUP" /\ (to = "ORPHANED_AMBIGUOUS" => Terminal(to))
      BY DEF PlainTargets, Terminal, TerminalPhases
    <3>4. RowAgrees(m)
      BY <2>0
    <3>5. /\ ~Terminal(to) => sandbox'[s].state = sandbox[s].state
          /\ to = "ORPHANED_AMBIGUOUS" => sandbox'[s].state = "orphaned_ambiguous"
      BY <2>1, <3>3
    <3>6. /\ migration'[n].epochAfter = migration'[n].epochBefore + 1
          /\ migration'[n].source # migration'[n].destination
      BY <2>2, <3>1, <3>4 DEF RowAgrees
    <3>7. ~Terminal(to) => /\ ~migration[m].resumeIssued =>
                                sandbox'[s].epoch = migration[m].epochBefore
                                /\ sandbox'[s].state = "migrating"
                           /\ migration[m].resumeIssued =>
                                sandbox'[s].epoch = migration[m].epochAfter
                                /\ sandbox'[s].state = "resuming"
      BY <2>1, <3>2, <3>4, <3>5 DEF RowAgrees
    <3>8. migration[m].resumeIssued /\ migration[m].epochAfter = sandbox'[s].epoch /\ to = "DONE"
            => sandbox'[s].worker = migration[m].destination
      BY <2>1, <3>2, <3>4 DEF RowAgrees
    <3> QED BY <2>2, <3>1, <3>3, <3>5, <3>6, <3>7, <3>8 DEF RowAgrees
  <2>3. CASE n # m
    <3>1. n \in Rows /\ migration'[n] = migration[n] /\ RowAgrees(n)
      BY <1>0, <2>0, <2>3 DEF Rows, RowsAgree
    <3>2. CASE migration[n].sandbox # s
      BY <1>0, <2>0, <3>1, <3>2 DEF RowAgrees
    <3>3. CASE migration[n].sandbox = s
      <4>1. Terminal(migration[n].phase)
        BY <1>a, <2>0, <2>3, <3>1, <3>3
      <4>2. sandbox[s].state # "orphaned_ambiguous"
        BY <2>0 DEF RowAgrees, Nonterminal
      <4> QED BY <2>1, <3>1, <3>3, <4>1, <4>2 DEF RowAgrees
    <3> QED BY <3>2, <3>3
  <2> QED BY <2>2, <2>3
<1>3. ASSUME NEW m \in Migrations, Loaded(m) PROVE RowAgrees(n)'
  <2> DEFINE s == migration[m].sandbox
  <2>0. /\ Nonterminal(m) /\ m \in Rows /\ migration[m] \in MigrationRow /\ s \in Sandboxes
        /\ CanTransition(migration[m].phase, "RESUMING")
        /\ migration' = [migration EXCEPT ![m].phase = "RESUMING", ![m].consumed = TRUE,
                                          ![m].resumeIssued = TRUE]
        /\ sandbox' = [sandbox EXCEPT ![s].epoch = migration[m].epochAfter,
                                      ![s].state = "resuming"]
        /\ RowAgrees(m)
    BY <1>3, MovedRow DEF Loaded, IssueResume, Nonterminal, RowsAgree
  <2>1. sandbox'[s].epoch = migration[m].epochAfter /\ sandbox'[s].state = "resuming"
    BY <1>0, <2>0 DEF SandboxRow
  <2>2. CASE n = m
    <3>1. /\ migration'[n].phase = "RESUMING"
          /\ migration'[n].sandbox = s
          /\ migration'[n].epochAfter = migration[n].epochAfter
          /\ migration'[n].epochBefore = migration[n].epochBefore
          /\ migration'[n].source = migration[n].source
          /\ migration'[n].destination = migration[n].destination
          /\ migration'[n].resumeIssued
      BY <1>0, <2>0, <2>2 DEF MigrationRow
    <3> QED BY <2>0, <2>1, <2>2, <3>1 DEF RowAgrees, Terminal, TerminalPhases
  <2>3. CASE n # m
    <3>1. n \in Rows /\ migration'[n] = migration[n] /\ RowAgrees(n)
      BY <1>0, <2>0, <2>3 DEF Rows, RowsAgree
    <3>2. CASE migration[n].sandbox # s
      BY <1>0, <2>0, <3>1, <3>2 DEF RowAgrees
    <3>3. CASE migration[n].sandbox = s
      <4>1. Terminal(migration[n].phase)
        BY <1>a, <2>0, <2>3, <3>1, <3>3
      <4>2. ~migration[m].resumeIssued
        BY <2>0 DEF ResumeBoundary, CanTransition, NormalTransitions, PrepausePhases,
                    RollbackPhases, PostResumePhases
      <4>3. migration[m].epochAfter = sandbox[s].epoch + 1 /\ sandbox[s].epoch \in Nat
        BY <1>0, <2>0, <4>2 DEF EpochOrder, SandboxRow
      <4>4. migration[n].resumeIssued => migration[n].epochAfter # migration[m].epochAfter
        <5>1. migration[n].epochAfter \in Nat
          BY <1>0, <3>1 DEF MigrationRow
        <5> QED BY <3>1, <3>3, <4>3, <5>1 DEF EpochOrder
      <4> QED BY <2>1, <3>1, <3>3, <4>1, <4>4 DEF RowAgrees
    <3> QED BY <3>2, <3>3
  <2> QED BY <2>2, <2>3
<1>4. ASSUME NEW m \in Migrations, TransferOwnership(m) PROVE RowAgrees(n)'
  <2> DEFINE s == migration[m].sandbox
  <2>0. /\ Nonterminal(m) /\ m \in Rows /\ migration[m] \in MigrationRow /\ s \in Sandboxes
        /\ migration[m].phase = "CUTOVER"
        /\ migration' = [migration EXCEPT ![m].phase = "CLEANUP"]
        /\ sandbox' = [sandbox EXCEPT ![s].worker = migration[m].destination,
                                      ![s].generation = @ + 1, ![s].state = "running"]
        /\ RowAgrees(m)
    <3>1. CanTransition(migration[m].phase, "CLEANUP")
      BY <1>4 DEF TransferOwnership, CompleteCutover
    <3>2. migration[m].phase = "CUTOVER"
      BY <3>1 DEF CanTransition, NormalTransitions
    <3> QED BY <1>4, <3>1, <3>2, MovedRow
            DEF TransferOwnership, CompleteCutover, Nonterminal, RowsAgree
  <2>1. /\ sandbox'[s].worker = migration[m].destination /\ sandbox'[s].state = "running"
        /\ sandbox'[s].epoch = sandbox[s].epoch
    BY <1>0, <2>0 DEF SandboxRow
  <2>2. migration[m].resumeIssued /\ sandbox[s].epoch = migration[m].epochAfter
    BY <2>0 DEF ResumeBoundary, PostResumePhases, RowAgrees, Nonterminal
  <2>3. CASE n = m
    <3>1. /\ migration'[n].phase = "CLEANUP"
          /\ migration'[n].sandbox = s
          /\ migration'[n].epochAfter = migration[n].epochAfter
          /\ migration'[n].epochBefore = migration[n].epochBefore
          /\ migration'[n].source = migration[n].source
          /\ migration'[n].destination = migration[n].destination
          /\ migration'[n].resumeIssued = migration[n].resumeIssued
      BY <1>0, <2>0, <2>3 DEF MigrationRow
    <3>2. /\ migration[n].epochAfter = migration[n].epochBefore + 1
          /\ migration[n].source # migration[n].destination
      BY <2>0, <2>3 DEF RowAgrees
    <3> QED BY <2>1, <2>2, <2>3, <3>1, <3>2 DEF RowAgrees
  <2>4. CASE n # m
    <3>1. n \in Rows /\ migration'[n] = migration[n] /\ RowAgrees(n)
      BY <1>0, <2>0, <2>4 DEF Rows, RowsAgree
    <3>2. CASE migration[n].sandbox # s
      BY <1>0, <2>0, <3>1, <3>2 DEF RowAgrees
    <3>3. CASE migration[n].sandbox = s
      <4>1. Terminal(migration[n].phase)
        BY <1>a, <2>0, <2>4, <3>1, <3>3
      <4>2. migration[n].resumeIssued => migration[n].epochAfter # sandbox[s].epoch
        BY <2>0, <2>2, <2>4, <3>1, <3>3 DEF ResumeEpochsDiffer
      <4> QED BY <2>1, <3>1, <3>3, <4>1, <4>2 DEF RowAgrees
    <3> QED BY <3>2, <3>3
  <2> QED BY <2>3, <2>4
<1>5. CASE Bystander
  BY <1>5 DEF Bystander, store, RowsAgree, RowAgrees, Rows
<1> QED BY <1>1, <1>2, <1>3, <1>4, <1>5, StoreStep

\* What is proved of the coordinator, as the proofs below use it.
CoordinatorInv ==
    /\ TypeOK /\ ActiveRowAgrees /\ OwnerFollowsCutover
    /\ ResumeBoundary /\ EpochOrder /\ ResumeEpochsDiffer
    /\ CallsOfPhases /\ RowsAgree

LEMMA CoordinatorStepKeeps == CoordinatorInv /\ [Next]_vars => CoordinatorInv'
BY TypeStep, ActiveRowStep, OwnerStep, ResumeBoundaryStep, EpochStep, CallsOfPhasesStep,
   RowsAgreeStep DEF CoordinatorInv

LEMMA CoordinatorInit == Init => CoordinatorInv
<1> SUFFICES ASSUME Init PROVE CoordinatorInv
  OBVIOUS
<1>1. Rows = {} /\ \A m \in Migrations : call[m] = "idle"
  BY DEF Init, Rows
<1>2. \A s \in Sandboxes : sandbox[s].active = None
  BY DEF Init
<1> QED BY <1>1, <1>2, TypeInit
        DEF CoordinatorInv, ActiveRowAgrees, OwnerFollowsCutover, ResumeBoundary, EpochOrder,
            ResumeEpochsDiffer, CallsOfPhases, CallOfPhase, RowsAgree, Nonterminal, Blocked, Calls

THEOREM CoordinatorInvariant == MigrationSpec => []CoordinatorInv
<1>1. MigrationInit => Init
  BY DEF MigrationInit
<1> QED BY <1>1, CoordinatorInit, StepImplementsCoordinator, CoordinatorStepKeeps, PTL
        DEF MigrationSpec

\* A row keeps its endpoints and its epochs, and once it resumes it has resumed.
LEMMA RowKeeps ==
    ASSUME CoordinatorInv, [Next]_vars, NEW n \in Rows
    PROVE  /\ n \in Rows'
           /\ migration'[n].sandbox     = migration[n].sandbox
           /\ migration'[n].source      = migration[n].source
           /\ migration'[n].destination = migration[n].destination
           /\ migration'[n].epochBefore = migration[n].epochBefore
           /\ migration'[n].epochAfter  = migration[n].epochAfter
           /\ migration[n].resumeIssued => migration'[n].resumeIssued
<1>0. TypeOK /\ migration[n] \in MigrationRow /\ n \in Migrations
  BY DEF CoordinatorInv, TypeOK, Rows
<1>1. ASSUME NEW s \in Sandboxes, NEW dest \in Destinations, NEW key \in Keys,
             NEW m \in Migrations, StartMigration(s, dest, key, m)
      PROVE  migration'[n] = migration[n]
  BY <1>0, <1>1 DEF StartMigration, TypeOK
<1>2. ASSUME NEW m \in Migrations, NEW to \in PlainTargets, Advance(m, to)
      PROVE  migration'[n] = migration[n] \/ migration'[n] = [migration[n] EXCEPT !.phase = to]
  BY <1>0, <1>2 DEF Advance, Transition, TypeOK
<1>3. ASSUME NEW m \in Migrations, Loaded(m)
      PROVE  \/ migration'[n] = migration[n]
             \/ migration'[n] = [migration[n] EXCEPT !.phase = "RESUMING", !.consumed = TRUE,
                                                     !.resumeIssued = TRUE]
  BY <1>0, <1>3 DEF Loaded, IssueResume, TypeOK
<1>4. ASSUME NEW m \in Migrations, TransferOwnership(m)
      PROVE  \/ migration'[n] = migration[n]
             \/ migration'[n] = [migration[n] EXCEPT !.phase = "CLEANUP"]
  BY <1>0, <1>4 DEF TransferOwnership, CompleteCutover, TypeOK
<1>5. Bystander => migration'[n] = migration[n]
  BY DEF Bystander, store
<1>6. \/ migration'[n] = migration[n]
      \/ \E to : migration'[n] = [migration[n] EXCEPT !.phase = to]
      \/ migration'[n] = [migration[n] EXCEPT !.phase = "RESUMING", !.consumed = TRUE,
                                              !.resumeIssued = TRUE]
  BY <1>0, <1>1, <1>2, <1>3, <1>4, <1>5, StoreStep
<1>7. migration[n] # NoRow
  BY DEF Rows
<1> QED BY <1>0, <1>6, <1>7 DEF MigrationRow, NoRow, Rows

\* One migration at a time: there is one sandbox, and it has one nonterminal row.
LEMMA OneAtATime ==
    ASSUME CoordinatorInv, NEW m, NEW n, Nonterminal(m), Nonterminal(n)
    PROVE  m = n
<1>1. m \in Migrations /\ n \in Migrations
  BY DEF Nonterminal, Rows
<1>2. migration[m].sandbox \in Sandboxes /\ migration[n].sandbox \in Sandboxes
  BY <1>1 DEF CoordinatorInv, TypeOK, MigrationRow, Nonterminal, Rows
<1>3. migration[m].sandbox = migration[n].sandbox
  BY <1>2, OneSandboxAssumption
<1> QED BY <1>1, <1>3 DEF CoordinatorInv, ActiveRowAgrees

-----------------------------------------------------------------------------
(* Firecracker's queues.                                                   *)

\* Turns are distinct and none is beyond the queue's length.
QueueOK(S) ==
    /\ IsFiniteSet(S)
    /\ \A q \in S : q.turn \in Nat /\ 0 < q.turn /\ q.turn <= Cardinality(S)
    /\ \A q, r \in S : q.turn = r.turn => q = r

\* A set whose elements are replaced one by one keeps its size.
LEMMA ReplacedOneByOne ==
    ASSUME NEW S, IsFiniteSet(S), NEW f, \A q, r \in S : f[q] = f[r] => q = r,
           NEW T, T = {f[q] : q \in S}
    PROVE  IsFiniteSet(T) /\ Cardinality(T) = Cardinality(S)
<1> DEFINE g == [q \in S |-> f[q]]
<1>1. g \in [S -> T] /\ \A q \in S : g[q] = f[q]
  OBVIOUS
<1>2. \A t \in T : \E q \in S : g[q] = t
  BY <1>1
<1>3. g \in Surjection(S, T)
  BY <1>1, <1>2 DEF Surjection
<1>4. g \in Injection(S, T)
  BY <1>1 DEF Injection, IsInjective
<1> HIDE DEF g
<1> QED BY <1>3, <1>4, FS_Surjection

\* A queue whose requests keep their turns.
LEMMA SameTurns ==
    ASSUME NEW S, QueueOK(S), NEW f, \A q \in S : f[q].turn = q.turn,
           NEW T, T = {f[q] : q \in S}
    PROVE  QueueOK(T)
<1>1. \A q, r \in S : f[q] = f[r] => q = r
  BY DEF QueueOK
<1>2. IsFiniteSet(S)
  BY DEF QueueOK
<1>3. IsFiniteSet(T) /\ Cardinality(T) = Cardinality(S)
  BY <1>1, <1>2, ReplacedOneByOne
<1>4. \A t \in T : \E q \in S : t = f[q] /\ t.turn = q.turn
  OBVIOUS
<1>5. \A t \in T : t.turn \in Nat /\ 0 < t.turn /\ t.turn <= Cardinality(T)
  BY <1>3, <1>4 DEF QueueOK
<1>6. \A t, u \in T : t.turn = u.turn => t = u
  BY <1>4 DEF QueueOK
<1> QED BY <1>3, <1>5, <1>6 DEF QueueOK

\* The first of a queue leaves it.
LEMMA FirstLeaves ==
    ASSUME NEW S, QueueOK(S), NEW first \in S, first.turn = 1,
           NEW f, \A q \in S \ {first} : f[q].turn = q.turn - 1,
           NEW T, T = {f[q] : q \in S \ {first}}
    PROVE  QueueOK(T)
<1> DEFINE R == S \ {first}
<1>1. IsFiniteSet(R) /\ Cardinality(R) = Cardinality(S) - 1 /\ Cardinality(S) \in Nat
  BY FS_RemoveElement, FS_CardinalityType DEF QueueOK
<1>2. \A q \in R : q.turn \in Nat /\ q.turn > 1 /\ q.turn <= Cardinality(S)
  BY DEF QueueOK
<1>3. \A q, r \in R : f[q] = f[r] => q = r
  BY <1>2 DEF QueueOK
<1>5. IsFiniteSet(T) /\ Cardinality(T) = Cardinality(R)
  BY <1>1, <1>3, ReplacedOneByOne
<1>6. \A q \in R : f[q].turn \in Nat /\ 0 < f[q].turn /\ f[q].turn <= Cardinality(T)
  BY <1>1, <1>2, <1>5
<1>7. \A q, r \in R : f[q].turn = f[r].turn => f[q] = f[r]
  BY <1>2 DEF QueueOK
<1> QED BY <1>5, <1>6, <1>7 DEF QueueOK

\* Another one joins it.
LEMMA LastJoins ==
    ASSUME NEW S, QueueOK(S), NEW last, last.turn = Cardinality(S) + 1
    PROVE  QueueOK(S \cup {last}) /\ \A q \in S : q.turn < last.turn
<1>1. Cardinality(S) \in Nat
  BY FS_CardinalityType DEF QueueOK
<1>2. last \notin S /\ \A q \in S : q.turn < last.turn
  BY <1>1 DEF QueueOK
<1>3. IsFiniteSet(S \cup {last}) /\ Cardinality(S \cup {last}) = Cardinality(S) + 1
  BY <1>2, FS_AddElement DEF QueueOK
<1> QED BY <1>1, <1>2, <1>3 DEF QueueOK

-----------------------------------------------------------------------------
(* The requests of the runners.                                            *)

CallRequest ==
    [op : Operations \cup ProxyOperations, m : Migrations, worker : Workers, source : Workers,
     epoch : Nat, image : Nat, awaited : BOOLEAN, stage : {"sent", "running"}, turn : Nat]

CallReply == [status : {"none", "ok", "error"}, image : Nat]

RequestTypes ==
    /\ requests \subseteq CallRequest
    /\ replies \in [Migrations -> CallReply]
    /\ manifest \in [Migrations -> Nat]

DestinationCalls ==
    {"reserve", "prestage", "transfer", "load", "resume", "verify", "expose", "repoint"}

\* A request is one its migration's row would make; while it is waited for, its runner is
\* blocked in that call without an answer.  One that is not waited for was taken already, unless
\* the network delivers late.
RequestOK(r) ==
    /\ r.m \in Rows
    /\ r.worker = IF r.op \in DestinationCalls THEN migration[r.m].destination
                                               ELSE migration[r.m].source
    /\ r.source = migration[r.m].source
    /\ r.epoch = EpochOf(r.m, r.op)
    /\ r.awaited => call[r.m] = r.op /\ replies[r.m] = NoReply
    /\ r.stage = "sent" => r.awaited \/ LateDelivery
    /\ r.turn > 0 => r.stage = "running" /\ r.op \in FirecrackerCalls
    /\ r.stage = "running" /\ r.op \in FirecrackerCalls \ {"snapshot"} => r.turn > 0

RequestsInv ==
    /\ RequestTypes
    /\ \A r \in requests : RequestOK(r)
    /\ \A q, r \in requests : q.awaited /\ r.awaited /\ q.m = r.m => q = r
    /\ \A w \in Workers : QueueOK(Queued(w))

\* What a request keeps until it is answered.
Same(q, p) == /\ q.op = p.op /\ q.m = p.m /\ q.worker = p.worker /\ q.source = p.source
              /\ q.epoch = p.epoch /\ q.image = p.image /\ q.stage = p.stage

\* The requests of kept are still there, as f says, and the others are those of new: nobody
\* overtakes anybody in a queue.
Carried(kept, f, new) ==
    /\ kept \subseteq requests
    /\ \A q \in kept : /\ Same(f[q], q) /\ f[q] \in requests'
                       /\ f[q].awaited => q.awaited
                       /\ f[q].turn > 0 <=> q.turn > 0
    /\ \A p, q \in kept : p.worker = q.worker /\ 0 < p.turn /\ p.turn < q.turn
                             => f[p].turn < f[q].turn
    /\ \A r \in requests' : r \in new \/ \E q \in kept : r = f[q]

\* The handlers that return: none that queues, the first of a queue, or all of a queue.
MayReturn(done) ==
    \A w \in Workers :
        \/ done \cap Queued(w) = {}
        \/ Queued(w) \subseteq done
        \/ \E first \in Queued(w) : first.turn = 1 /\ done \cap Queued(w) = {first}

\* Those that stay when some leave their queues: where they are in them then.
LEMMA MovingUp ==
    ASSUME RequestsInv, NEW done \in SUBSET requests, MayReturn(done),
           NEW f, \A q \in requests \ done : f[q] = MovedUp(q, done)
    PROVE  /\ \A q \in requests \ done :
                 /\ f[q] \in CallRequest /\ Same(f[q], q) /\ f[q].awaited = q.awaited
                 /\ f[q].turn > 0 <=> q.turn > 0
           /\ \A p, q \in requests \ done :
                 p.worker = q.worker /\ 0 < p.turn /\ p.turn < q.turn => f[p].turn < f[q].turn
           /\ \A w \in Workers :
                 QueueOK({f[q] : q \in {q \in requests \ done : q.worker = w /\ q.turn > 0}})
<1> DEFINE kept == requests \ done
           Moves(q) == q.turn > 0 /\ \E r \in done : r.worker = q.worker /\ r.turn > 0
<1>0. requests \subseteq CallRequest /\ \A w \in Workers : QueueOK(Queued(w))
  BY DEF RequestsInv, RequestTypes
<1>1. \A q \in kept : f[q] = MovedUp(q, done)
  OBVIOUS
<1>2. ASSUME NEW q \in kept, Moves(q)
      PROVE  /\ f[q] = [q EXCEPT !.turn = q.turn - 1]
             /\ \E first \in Queued(q.worker) : /\ first.turn = 1
                                                /\ done \cap Queued(q.worker) = {first}
             /\ q.turn > 1 /\ q.turn - 1 \in Nat
  <2>1. q.worker \in Workers /\ q \in Queued(q.worker) /\ q \in CallRequest /\ q.turn \in Nat
    BY <1>0, <1>2 DEF Queued, CallRequest
  <2>2. done \cap Queued(q.worker) # {}
    BY <1>2 DEF Queued
  <2>3. PICK first \in Queued(q.worker) : first.turn = 1 /\ done \cap Queued(q.worker) = {first}
    BY <2>1, <2>2 DEF MayReturn
  <2>4. q # first
    BY <2>3
  <2>5. q.turn # 1
    BY <1>0, <2>1, <2>3, <2>4 DEF QueueOK
  <2>6. f[q] = [q EXCEPT !.turn = q.turn - 1]
    BY <1>1, <1>2 DEF MovedUp
  <2> QED BY <1>2, <2>1, <2>3, <2>5, <2>6
<1>3. ASSUME NEW q \in kept, ~Moves(q) PROVE f[q] = q
  BY <1>1, <1>3 DEF MovedUp
<1>4. ASSUME NEW q \in kept
      PROVE  /\ f[q] \in CallRequest /\ Same(f[q], q) /\ f[q].awaited = q.awaited
             /\ f[q].turn = IF Moves(q) THEN q.turn - 1 ELSE q.turn
             /\ f[q].turn > 0 <=> q.turn > 0
  <2>0. q \in CallRequest
    BY <1>0
  <2>1. CASE Moves(q)
    <3>1. f[q] = [q EXCEPT !.turn = q.turn - 1] /\ q.turn > 1 /\ q.turn - 1 \in Nat
      BY <1>2, <2>1
    <3> QED BY <2>0, <2>1, <3>1 DEF CallRequest, Same
  <2>2. CASE ~Moves(q)
    BY <1>3, <2>0, <2>2 DEF Same
  <2> QED BY <2>1, <2>2
<1>5. ASSUME NEW p \in kept, NEW q \in kept, p.worker = q.worker, 0 < p.turn, p.turn < q.turn
      PROVE  f[p].turn < f[q].turn
  <2>1. p.turn \in Nat /\ q.turn \in Nat
    BY <1>0 DEF CallRequest
  <2>2. Moves(p) <=> Moves(q)
    BY <1>5, <2>1
  <2>3. /\ f[p].turn = IF Moves(p) THEN p.turn - 1 ELSE p.turn
        /\ f[q].turn = IF Moves(q) THEN q.turn - 1 ELSE q.turn
    BY <1>4
  <2> QED BY <1>5, <2>1, <2>2, <2>3
<1>6. ASSUME NEW w \in Workers
      PROVE  QueueOK({f[q] : q \in {q \in kept : q.worker = w /\ q.turn > 0}})
  <2> DEFINE Q == {q \in kept : q.worker = w /\ q.turn > 0}
  <2>1. PICK T : T = {f[q] : q \in Q}
    OBVIOUS
  <2>2. Q = Queued(w) \ done /\ \A q \in Q : q \in kept
    BY DEF Queued
  <2>3. CASE done \cap Queued(w) = {}
    <3>1. Q = Queued(w)
      BY <2>2, <2>3
    <3>2. \A q \in Q : f[q].turn = q.turn
      BY <1>4, <2>2, <2>3 DEF Queued
    <3>3. T = {f[q] : q \in Queued(w)}
      BY <2>1, <3>1
    <3>4. QueueOK(T)
      BY <1>0, <3>1, <3>2, <3>3, SameTurns
    <3> QED BY <2>1, <3>4
  <2>4. CASE Queued(w) \subseteq done
    <3>1. {f[q] : q \in Q} = {}
      BY <2>2, <2>4
    <3>2. IsFiniteSet({})
      BY FS_EmptySet
    <3> QED BY <3>1, <3>2 DEF QueueOK
  <2>5. ASSUME NEW first \in Queued(w), first.turn = 1, done \cap Queued(w) = {first}
        PROVE  QueueOK({f[q] : q \in Q})
    <3>1. Q = Queued(w) \ {first}
      BY <2>2, <2>5
    <3>2. \A q \in Q : Moves(q)
      BY <2>5 DEF Queued
    <3>3. \A q \in Queued(w) \ {first} : f[q].turn = q.turn - 1
      BY <1>4, <2>2, <3>1, <3>2
    <3>4. T = {f[q] : q \in Queued(w) \ {first}}
      BY <2>1, <3>1
    <3>5. QueueOK(T)
      BY <1>0, <2>5, <3>3, <3>4, FirstLeaves
    <3> QED BY <2>1, <3>5
  <2> QED BY <2>3, <2>4, <2>5 DEF MayReturn
<1> QED BY <1>4, <1>5, <1>6

\* A request goes on as it was, whatever becomes of the others.
LEMMA GoesOn ==
    ASSUME NEW q \in CallRequest, RequestOK(q), NEW p \in CallRequest, Same(p, q),
           p.awaited = q.awaited, p.turn > 0 <=> q.turn > 0,
           UNCHANGED <<migration, call>>, q.awaited => replies'[q.m] = NoReply
    PROVE  RequestOK(p)'
<1>1. /\ p.m \in Rows'
      /\ p.worker = IF p.op \in DestinationCalls THEN migration'[p.m].destination
                                                 ELSE migration'[p.m].source
      /\ p.source = migration'[p.m].source
  BY DEF RequestOK, Same, Rows
<1>2. p.epoch = EpochOf(p.m, p.op)'
  BY DEF RequestOK, Same, EpochOf
<1>3. p.awaited => call'[p.m] = p.op /\ replies'[p.m] = NoReply
  BY DEF RequestOK, Same
<1>4. /\ p.stage = "sent" => p.awaited \/ LateDelivery
      /\ p.turn > 0 => p.stage = "running" /\ p.op \in FirecrackerCalls
      /\ p.stage = "running" /\ p.op \in FirecrackerCalls \ {"snapshot"} => p.turn > 0
  BY DEF RequestOK, Same
<1> QED BY <1>1, <1>2, <1>3, <1>4 DEF RequestOK

\* Handlers return.
LEMMA Replying ==
    ASSUME RequestsInv, NEW done \in SUBSET requests, MayReturn(done),
           NEW status \in {"ok", "error"}, NEW img \in Nat, Reply(done, status, img),
           UNCHANGED <<coordinator, manifest>>
    PROVE  /\ RequestsInv'
           /\ \E f : Carried(requests \ done, f, {}) /\
                     \A q \in requests \ done : f[q].awaited = q.awaited
<1> DEFINE kept == requests \ done
<1>0. /\ requests \subseteq CallRequest /\ replies \in [Migrations -> CallReply]
      /\ \A q \in requests : RequestOK(q)
      /\ UNCHANGED <<migration, call>>
  BY DEF RequestsInv, RequestTypes, coordinator, store
<1>a. PICK f : f = [q \in kept |-> MovedUp(q, done)]
  OBVIOUS
<1>1. requests' = {f[q] : q \in kept} /\ \A q \in kept : f[q] = MovedUp(q, done)
  BY <1>a DEF Reply
<1>2. /\ \A q \in kept : /\ f[q] \in CallRequest /\ Same(f[q], q) /\ f[q].awaited = q.awaited
                         /\ f[q].turn > 0 <=> q.turn > 0
      /\ \A p, q \in kept :
            p.worker = q.worker /\ 0 < p.turn /\ p.turn < q.turn => f[p].turn < f[q].turn
      /\ \A w \in Workers : QueueOK({f[q] : q \in {q \in kept : q.worker = w /\ q.turn > 0}})
  BY <1>1, MovingUp
<1>3. Carried(kept, f, {})
  BY <1>1, <1>2 DEF Carried
<1>4. RequestTypes'
  <2>1. requests' \subseteq CallRequest
    BY <1>1, <1>2
  <2>2. replies' \in [Migrations -> CallReply]
    BY <1>0 DEF Reply, CallReply
  <2> QED BY <2>1, <2>2 DEF RequestTypes, RequestsInv
<1>5. ASSUME NEW q \in kept PROVE RequestOK(f[q])'
  <2>1. RequestOK(q) /\ q \in CallRequest
    BY <1>0
  <2>2. q.awaited => replies'[q.m] = NoReply
    <3>1. ASSUME q.awaited, NEW r \in done, r.m = q.m, r.awaited PROVE FALSE
      BY <3>1 DEF RequestsInv
    <3>2. q.awaited => replies'[q.m] = replies[q.m]
      BY <2>1, <3>1 DEF Reply, CallRequest
    <3> QED BY <2>1, <3>2 DEF RequestOK
  <2> QED BY <1>0, <1>2, <2>1, <2>2, GoesOn
<1>6. ASSUME NEW p \in requests', NEW r \in requests', p.awaited, r.awaited, p.m = r.m
      PROVE  p = r
  <2>1. PICK q1 \in kept : p = f[q1]
    BY <1>1
  <2>2. PICK q2 \in kept : r = f[q2]
    BY <1>1
  <2>3. q1.awaited /\ q2.awaited /\ q1.m = q2.m
    BY <1>2, <1>6, <2>1, <2>2 DEF Same
  <2> QED BY <2>1, <2>2, <2>3 DEF RequestsInv
<1>7. ASSUME NEW w \in Workers PROVE QueueOK(Queued(w)')
  <2>1. Queued(w)' = {f[q] : q \in {q \in kept : q.worker = w /\ q.turn > 0}}
    BY <1>1, <1>2 DEF Queued, Same
  <2> QED BY <1>2, <2>1
<1>8. RequestsInv'
  BY <1>1, <1>4, <1>5, <1>6, <1>7 DEF RequestsInv
<1> QED BY <1>2, <1>3, <1>8

\* Firecracker has written the snapshot of r, which leaves its queue and goes on to the disk.
Written(r, img) ==
    /\ requests' = {MovedUp(q, {r}) : q \in requests \ {r}} \cup
                     {[r EXCEPT !.turn = 0, !.image = img]}
    /\ UNCHANGED replies

LEMMA LeavingItsQueue ==
    ASSUME RequestsInv, NEW r \in requests, r.op = "snapshot", r.stage = "running", r.turn = 1,
           NEW img \in Nat, Written(r, img), UNCHANGED <<coordinator, manifest>>
    PROVE  /\ RequestsInv'
           /\ \E n, f : /\ n.op = "snapshot" /\ n.m = r.m /\ n.worker = r.worker
                        /\ n.epoch = r.epoch /\ n.stage = "running" /\ n.turn = 0
                        /\ Carried(requests \ {r}, f, {n})
<1> DEFINE kept == requests \ {r}
<1>0. /\ requests \subseteq CallRequest /\ replies \in [Migrations -> CallReply]
      /\ \A q \in requests : RequestOK(q)
      /\ UNCHANGED <<migration, call, replies, manifest>>
  BY DEF RequestsInv, RequestTypes, coordinator, store, Written
<1>a. PICK f : f = [q \in kept |-> MovedUp(q, {r})]
  OBVIOUS
<1>b. PICK n : n = [r EXCEPT !.turn = 0, !.image = img]
  OBVIOUS
<1>c. /\ n \in CallRequest /\ n.op = r.op /\ n.m = r.m /\ n.worker = r.worker
      /\ n.source = r.source /\ n.epoch = r.epoch /\ n.awaited = r.awaited
      /\ n.stage = r.stage /\ n.turn = 0
  BY <1>0, <1>b DEF CallRequest
<1>1. requests' = {f[q] : q \in kept} \cup {n} /\ \A q \in kept : f[q] = MovedUp(q, {r})
  BY <1>a, <1>b DEF Written
<1>2. MayReturn({r})
  <2>1. ASSUME NEW w \in Workers, r \in Queued(w) PROVE {r} \cap Queued(w) = {r}
    BY <2>1
  <2> QED BY <2>1 DEF MayReturn
<1>3. /\ \A q \in kept : /\ f[q] \in CallRequest /\ Same(f[q], q) /\ f[q].awaited = q.awaited
                         /\ f[q].turn > 0 <=> q.turn > 0
      /\ \A p, q \in kept :
            p.worker = q.worker /\ 0 < p.turn /\ p.turn < q.turn => f[p].turn < f[q].turn
      /\ \A w \in Workers : QueueOK({f[q] : q \in {q \in kept : q.worker = w /\ q.turn > 0}})
  <2>1. {r} \in SUBSET requests
    OBVIOUS
  <2> QED BY <1>1, <1>2, <2>1, MovingUp
<1>4. Carried(kept, f, {n})
  BY <1>1, <1>3 DEF Carried
<1>5. RequestTypes'
  BY <1>0, <1>1, <1>3, <1>c DEF RequestTypes, RequestsInv
<1>6. ASSUME NEW q \in kept PROVE RequestOK(f[q])'
  <2>1. RequestOK(q) /\ q \in CallRequest
    BY <1>0
  <2>2. q.awaited => replies'[q.m] = NoReply
    BY <1>0, <2>1 DEF RequestOK
  <2> QED BY <1>0, <1>3, <2>1, <2>2, GoesOn
<1>7. RequestOK(n)'
  <2>1. RequestOK(r)
    BY <1>0
  <2>2. /\ n.m \in Rows'
        /\ n.worker = IF n.op \in DestinationCalls THEN migration'[n.m].destination
                                                   ELSE migration'[n.m].source
        /\ n.source = migration'[n.m].source
    BY <1>0, <1>c, <2>1 DEF RequestOK, Rows
  <2>3. n.epoch = EpochOf(n.m, n.op)'
    BY <1>0, <1>c, <2>1 DEF RequestOK, EpochOf
  <2>4. n.awaited => call'[n.m] = n.op /\ replies'[n.m] = NoReply
    BY <1>0, <1>c, <2>1 DEF RequestOK
  <2> QED BY <1>c, <2>2, <2>3, <2>4 DEF RequestOK
<1>8. ASSUME NEW p \in requests', NEW t \in requests', p.awaited, t.awaited, p.m = t.m
      PROVE  p = t
  <2>1. ASSUME NEW q \in requests', q.awaited
        PROVE  \/ q = n /\ r.awaited /\ q.m = r.m
               \/ \E k \in kept : q = f[k] /\ k.awaited /\ k.m = q.m
    BY <1>1, <1>3, <1>c, <2>1 DEF Same
  <2> QED BY <1>8, <2>1 DEF RequestsInv
<1>9. ASSUME NEW w \in Workers PROVE QueueOK(Queued(w)')
  <2>1. Queued(w)' = {f[q] : q \in {q \in kept : q.worker = w /\ q.turn > 0}}
    BY <1>1, <1>3, <1>c DEF Queued, Same
  <2> QED BY <1>3, <2>1
<1>10. RequestsInv'
  BY <1>1, <1>5, <1>6, <1>7, <1>8, <1>9 DEF RequestsInv
<1> QED BY <1>4, <1>10, <1>c

\* A handler takes its request and waits, behind all that queue already.
LEMMA Awaiting ==
    ASSUME RequestsInv, NEW r \in requests, r.stage = "sent", Await(r),
           UNCHANGED <<coordinator, manifest>>
    PROVE  /\ RequestsInv' /\ replies' = replies
           /\ \E n \in CallRequest :
                 /\ requests' = (requests \ {r}) \cup {n}
                 /\ n.op = r.op /\ n.m = r.m /\ n.worker = r.worker /\ n.source = r.source
                 /\ n.epoch = r.epoch /\ n.image = r.image /\ n.awaited = r.awaited
                 /\ n.stage = "running" /\ (n.op \in FirecrackerCalls => n.turn > 0)
                 /\ n.turn > 0 => \A q \in Queued(r.worker) : q.turn < n.turn
                 /\ Carried(requests \ {r}, [q \in requests |-> q], {n})
<1>0. /\ requests \subseteq CallRequest /\ r \in CallRequest /\ RequestOK(r)
      /\ \A w \in Workers : QueueOK(Queued(w))
      /\ UNCHANGED <<migration, call, replies, manifest>>
      /\ r.worker \in Workers
  BY DEF RequestsInv, RequestTypes, coordinator, store, CallRequest, Await
<1>1. r.turn = 0
  BY <1>0 DEF RequestOK, CallRequest
<1>2. Cardinality(Queued(r.worker)) \in Nat
  BY <1>0, FS_CardinalityType DEF QueueOK
<1>a. PICK t : t = IF r.op \in FirecrackerCalls THEN Cardinality(Queued(r.worker)) + 1 ELSE 0
  OBVIOUS
<1>b. PICK n : n = [r EXCEPT !.stage = "running", !.turn = t]
  OBVIOUS
<1>3. requests' = (requests \ {r}) \cup {n}
  BY <1>a, <1>b DEF Await
<1>4. t \in Nat /\ (t > 0 <=> r.op \in FirecrackerCalls)
  BY <1>2, <1>a
<1>5. /\ n \in CallRequest
      /\ n.op = r.op /\ n.m = r.m /\ n.worker = r.worker /\ n.source = r.source
      /\ n.epoch = r.epoch /\ n.image = r.image /\ n.awaited = r.awaited
      /\ n.stage = "running" /\ n.turn = t
  BY <1>0, <1>4, <1>b DEF CallRequest
<1>6. t > 0 => QueueOK(Queued(r.worker) \cup {n}) /\ \A q \in Queued(r.worker) : q.turn < t
  <2>1. t > 0 => n.turn = Cardinality(Queued(r.worker)) + 1
    BY <1>a, <1>4, <1>5
  <2> QED BY <1>0, <1>5, <2>1, LastJoins
<1>7. ASSUME NEW w \in Workers PROVE QueueOK(Queued(w)')
  <2>1. CASE w = r.worker /\ t > 0
    <3>1. Queued(w)' = Queued(w) \cup {n}
      BY <1>1, <1>3, <1>5, <2>1 DEF Queued
    <3> QED BY <1>6, <2>1, <3>1
  <2>2. CASE w # r.worker \/ t = 0
    <3>1. Queued(w)' = Queued(w)
      BY <1>1, <1>3, <1>5, <2>2 DEF Queued
    <3> QED BY <1>0, <3>1
  <2> QED BY <1>4, <2>1, <2>2
<1>8. ASSUME NEW q \in requests' PROVE RequestOK(q)'
  <2>1. CASE q \in requests
    BY <1>0, <2>1 DEF RequestsInv, RequestOK, EpochOf, Rows
  <2>2. CASE q = n
    BY <1>0, <1>4, <1>5, <2>2 DEF RequestOK, EpochOf, Rows
  <2> QED BY <1>3, <2>1, <2>2
<1>9. \A p, q \in requests' : p.awaited /\ q.awaited /\ p.m = q.m => p = q
  BY <1>3, <1>5 DEF RequestsInv
<1>10. RequestsInv'
  BY <1>0, <1>3, <1>5, <1>7, <1>8, <1>9 DEF RequestsInv, RequestTypes
<1>11. Carried(requests \ {r}, [q \in requests |-> q], {n})
  BY <1>3 DEF Carried, Same
<1>12. n.op \in FirecrackerCalls => n.turn > 0
  BY <1>4, <1>5
<1> QED BY <1>0, <1>3, <1>5, <1>6, <1>10, <1>11, <1>12

-----------------------------------------------------------------------------
(* What the runners' steps do to the requests.                             *)

Unwaited(q) == [q EXCEPT !.awaited = FALSE]

\* Of the requests gone is waited for no more; those that run are there still.
Left(gone, left) ==
    /\ gone \subseteq requests
    /\ \A r \in left : \/ r \in requests \ gone
                       \/ \E q \in gone : r = Unwaited(q) /\ (q.stage = "running" \/ LateDelivery)
    /\ \A q \in requests : q.stage = "running" =>
          IF q \in gone THEN Unwaited(q) \in left ELSE q \in left

LEMMA AbandonedLeft ==
    ASSUME RequestsInv, NEW gone \in SUBSET requests, NEW left \in Abandoned(gone)
    PROVE  Left(gone, left)
<1>1. PICK kept \in SUBSET gone :
         /\ \A r \in gone : IF r \in kept THEN r.stage = "running" \/ LateDelivery
                                          ELSE r.stage = "sent"
         /\ left = (requests \ gone) \cup {[r EXCEPT !.awaited = FALSE] : r \in kept}
  BY DEF Abandoned
<1> QED BY <1>1 DEF Left, Unwaited

\* A runner, or none, is left behind by its call, and another call may go out.
LEMMA Dispatching ==
    ASSUME RequestsInv, CoordinatorInv, [Next]_vars,
           NEW gone, NEW left, Left(gone, left),
           NEW new, requests' = left \cup new,
           \A n \in new : /\ \E m \in Migrations : n = NextRequest(m) /\ Nonterminal(m)
                          /\ call'[n.m] \in Calls /\ replies'[n.m] = NoReply
                          /\ \A q \in requests \ gone : q.awaited => q.m # n.m,
           \A n1, n2 \in new : n1 = n2,
           \A q \in requests \ gone : q.awaited =>
                call'[q.m] = call[q.m] /\ replies'[q.m] = replies[q.m],
           replies' \in [Migrations -> CallReply], manifest' \in [Migrations -> Nat]
    PROVE  RequestsInv' /\ \E kept, f : Carried(kept, f, new)
<1> DEFINE kept == {q \in requests : IF q \in gone THEN Unwaited(q) \in left ELSE q \in left}
<1>a. PICK f : f = [q \in requests |-> IF q \in gone THEN Unwaited(q) ELSE q]
  OBVIOUS
<1>0. /\ requests \subseteq CallRequest /\ \A w \in Workers : QueueOK(Queued(w))
      /\ \A q \in requests : RequestOK(q)
  BY DEF RequestsInv, RequestTypes
<1>1. ASSUME NEW q \in requests
      PROVE  /\ f[q] \in CallRequest /\ Same(f[q], q) /\ f[q].turn = q.turn
             /\ f[q].awaited => f[q] = q /\ q \notin gone
             /\ q \notin gone => f[q] = q
  <2>1. CASE q \in gone
    <3>1. f[q] = [q EXCEPT !.awaited = FALSE]
      BY <1>a, <2>1 DEF Unwaited
    <3> QED BY <1>0, <2>1, <3>1 DEF CallRequest, Same
  <2>2. CASE q \notin gone
    BY <1>0, <1>a, <2>2 DEF Same
  <2> QED BY <2>1, <2>2
<1>2. \A r \in left : \E q \in kept : r = f[q]
  <2> SUFFICES ASSUME NEW r \in left PROVE \E q \in kept : r = f[q]
    OBVIOUS
  <2>1. CASE r \in requests \ gone
    BY <1>a, <2>1
  <2>2. ASSUME NEW q \in gone, r = Unwaited(q) PROVE q \in kept /\ r = f[q]
    BY <1>a, <2>2 DEF Left
  <2> QED BY <2>1, <2>2 DEF Left
<1>3. \A q \in kept : f[q] \in left
  BY <1>a
<1>4. ASSUME NEW n \in new
      PROVE  /\ n \in CallRequest /\ RequestOK(n)' /\ n.turn = 0 /\ n.stage = "sent"
             /\ n.awaited
  <2>1. PICK m \in Migrations : n = NextRequest(m) /\ Nonterminal(m)
    OBVIOUS
  <2>2. PICK c : c = call'[m]
    OBVIOUS
  <2>3. /\ n.op = c /\ n.m = m /\ n.source = migration[m].source /\ n.epoch = EpochOf(m, c)
        /\ n.worker = IF c = "repoint" THEN migration[m].destination ELSE Addressee(m, c)
        /\ n.image = IF c \in {"transfer", "load"} THEN manifest'[m] ELSE 0
        /\ n.awaited = TRUE /\ n.stage = "sent" /\ n.turn = 0
        /\ n = [op |-> n.op, m |-> n.m, worker |-> n.worker, source |-> n.source,
                epoch |-> n.epoch, image |-> n.image, awaited |-> TRUE, stage |-> "sent",
                turn |-> 0]
    BY <2>1, <2>2 DEF NextRequest
  <2>4. m \in Rows /\ migration[m] \in MigrationRow
    BY <2>1 DEF Nonterminal, Rows, CoordinatorInv, TypeOK
  <2>5. c \in Calls /\ replies'[m] = NoReply
    BY <2>2, <2>3
  <2>6. /\ m \in Rows'
        /\ migration'[m].source = migration[m].source
        /\ migration'[m].destination = migration[m].destination
        /\ migration'[m].epochBefore = migration[m].epochBefore
        /\ migration'[m].epochAfter = migration[m].epochAfter
    BY <2>4, RowKeeps
  <2>7. n.worker = IF c \in DestinationCalls THEN migration[m].destination ELSE migration[m].source
    BY <2>3 DEF DestinationCalls, Addressee
  <2>8. /\ migration[m].source \in Workers /\ migration[m].destination \in Workers
        /\ migration[m].epochBefore \in Nat /\ migration[m].epochAfter \in Nat
    BY <2>4, DestinationsAssumption DEF MigrationRow
  <2>9. n.epoch \in Nat
    BY <2>3, <2>8 DEF EpochOf
  <2>10. n.image \in Nat
    BY <2>3
  <2>11. n.op \in Operations \cup ProxyOperations
    BY <2>3, <2>5 DEF Calls, Operations, ProxyOperations
  <2>12. n \in CallRequest
    <3>1. /\ n.m \in Migrations /\ n.worker \in Workers /\ n.source \in Workers
          /\ n.op \in Operations \cup ProxyOperations /\ n.epoch \in Nat /\ n.image \in Nat
          /\ 0 \in Nat
      BY <2>1, <2>3, <2>7, <2>8, <2>9, <2>10, <2>11
    <3> QED BY <2>3, <3>1 DEF CallRequest
  <2>13. n.epoch = EpochOf(n.m, n.op)'
    BY <2>3, <2>6 DEF EpochOf
  <2>14. RequestOK(n)'
    BY <2>2, <2>3, <2>5, <2>6, <2>7, <2>13 DEF RequestOK
  <2> QED BY <2>3, <2>12, <2>14
<1>5. Carried(kept, f, new)
  BY <1>1, <1>2, <1>3 DEF Carried
<1>6. requests' \subseteq CallRequest
  BY <1>1, <1>2, <1>4
<1>7. ASSUME NEW q \in kept PROVE RequestOK(f[q])'
  <2>1. q \in requests /\ RequestOK(q) /\ q \in CallRequest
    BY <1>0
  <2>2. PICK p : p = f[q]
    OBVIOUS
  <2>3. /\ Same(p, q) /\ p.turn = q.turn
        /\ p.awaited => q.awaited /\ q \notin gone
    BY <1>1, <2>1, <2>2
  <2>4. /\ q.m \in Rows'
        /\ migration'[q.m].source = migration[q.m].source
        /\ migration'[q.m].destination = migration[q.m].destination
        /\ migration'[q.m].epochBefore = migration[q.m].epochBefore
        /\ migration'[q.m].epochAfter = migration[q.m].epochAfter
    BY <2>1, RowKeeps DEF RequestOK
  <2>5. p.epoch = EpochOf(p.m, p.op)'
    BY <2>1, <2>3, <2>4 DEF RequestOK, Same, EpochOf
  <2>6. p.stage = "sent" => p.awaited \/ LateDelivery
    <3>1. CASE q \in gone
      <4>1. p = Unwaited(q) /\ p \in left
        BY <1>3, <1>a, <2>1, <2>2, <3>1
      <4>2. p.awaited = FALSE
        BY <2>1, <4>1 DEF Unwaited, CallRequest
      <4>3. \/ p \in requests \ gone
            \/ \E g \in gone : p = Unwaited(g) /\ (g.stage = "running" \/ LateDelivery)
        BY <4>1 DEF Left
      <4>4. CASE p \in requests \ gone
        BY <1>0, <4>4 DEF RequestOK
      <4>5. ASSUME NEW g \in gone, p = Unwaited(g), g.stage = "running" \/ LateDelivery
            PROVE  p.stage = "sent" => LateDelivery
        <5>1. g \in CallRequest
          BY <1>0 DEF Left
        <5> QED BY <4>5, <5>1 DEF Unwaited, CallRequest
      <4> QED BY <4>3, <4>4, <4>5
    <3>2. CASE q \notin gone
      <4>1. p = q
        BY <1>1, <2>1, <2>2, <3>2
      <4> QED BY <2>1, <4>1 DEF RequestOK
    <3> QED BY <3>1, <3>2
  <2>7. p.awaited => call'[p.m] = p.op /\ replies'[p.m] = NoReply
    BY <2>1, <2>3 DEF RequestOK, Same
  <2>8. /\ p.turn > 0 => p.stage = "running" /\ p.op \in FirecrackerCalls
        /\ p.stage = "running" /\ p.op \in FirecrackerCalls \ {"snapshot"} => p.turn > 0
    BY <2>1, <2>3 DEF RequestOK, Same
  <2> QED BY <2>1, <2>2, <2>3, <2>4, <2>5, <2>6, <2>7, <2>8 DEF RequestOK, Same
<1>8. ASSUME NEW p \in requests', NEW r \in requests', p.awaited, r.awaited, p.m = r.m
      PROVE  p = r
  <2>1. ASSUME NEW q \in requests', q.awaited
        PROVE  q \in new \/ q \in requests \ gone
    BY <1>1, <1>2, <2>1
  <2>2. ASSUME NEW n \in new, NEW q \in requests \ gone, q.awaited PROVE q.m # n.m
    BY <2>2
  <2> QED BY <1>8, <2>1, <2>2 DEF RequestsInv
<1>9. ASSUME NEW w \in Workers PROVE QueueOK(Queued(w)')
  <2>1. \A q \in Queued(w) : q \in kept /\ q \in requests
    BY <1>0 DEF Queued, RequestOK, Left
  <2>2. Queued(w)' = {f[q] : q \in Queued(w)}
    <3>1. ASSUME NEW r \in requests', r.worker = w, r.turn > 0
          PROVE  \E q \in Queued(w) : r = f[q]
      <4>1. PICK q \in kept : r = f[q]
        BY <1>2, <1>4, <3>1
      <4> QED BY <1>1, <3>1, <4>1 DEF Queued, Same
    <3>2. ASSUME NEW q \in Queued(w) PROVE f[q] \in Queued(w)'
      BY <1>1, <1>3, <2>1 DEF Queued, Same
    <3> QED BY <3>1, <3>2 DEF Queued
  <2> QED BY <1>0, <1>1, <2>1, <2>2, SameTurns
<1>10. RequestsInv'
  BY <1>2, <1>4, <1>6, <1>7, <1>8, <1>9 DEF RequestsInv, RequestTypes
<1> QED BY <1>5, <1>10

\* A runner that is not idle is the only one, and the only one who may wait for an answer.
LEMMA OneWaits ==
    ASSUME RequestsInv, CoordinatorInv, NEW m \in Migrations, call[m] # "idle"
    PROVE  /\ Nonterminal(m)
           /\ \A q \in requests : q.awaited =>
                 q.m = m /\ q.op = call[m] /\ call[m] \in Calls /\ replies[m] = NoReply
<1>1. Nonterminal(m)
  BY DEF CoordinatorInv, CallsOfPhases, CallOfPhase
<1>2. ASSUME NEW q \in requests, q.awaited
      PROVE  q.m = m /\ q.op = call[m] /\ call[m] \in Calls /\ replies[m] = NoReply
  <2>1. q \in CallRequest /\ call[q.m] = q.op /\ replies[q.m] = NoReply
    BY <1>2 DEF RequestsInv, RequestTypes, RequestOK
  <2>2. q.op \in Calls /\ q.m \in Migrations
    BY <2>1 DEF CallRequest, Operations, ProxyOperations, Calls
  <2>3. Nonterminal(q.m)
    BY <2>1, <2>2 DEF CoordinatorInv, CallsOfPhases, CallOfPhase, Calls
  <2>4. q.m = m
    BY <1>1, <2>3, OneAtATime
  <2> QED BY <2>1, <2>2, <2>4
<1> QED BY <1>1, <1>2

\* The requests of new are those their runners send in this step.
Sending(new) ==
    \A n \in new : /\ n.m \in Migrations /\ Nonterminal(n.m) /\ n = NextRequest(n.m)
                   /\ n.op = call'[n.m] /\ n.op \in Calls
                   /\ n.stage = "sent" /\ n.turn = 0 /\ n.awaited

\* Nobody gets an answer in this step.
NoAnswers ==
    \A m \in Migrations :
        replies'[m].status # "none" /\ call'[m] \in Calls
            => replies'[m] = replies[m] /\ call'[m] = call[m]

\* What a step of the coordinator does to the requests.
LEMMA CoordinatorRequests ==
    ASSUME RequestsInv, CoordinatorInv, CoordinatorStep
    PROVE  RequestsInv' /\ NoAnswers /\ \E kept, f, new : Carried(kept, f, new) /\ Sending(new)
<1>0. /\ [Next]_vars /\ CoordinatorInv'
      /\ requests \subseteq CallRequest /\ replies \in [Migrations -> CallReply]
      /\ manifest \in [Migrations -> Nat]
      /\ call \in [Migrations -> RunnerStates]
  <2>1. [Next]_vars
    BY StepImplementsCoordinator DEF MigrationNext
  <2> QED BY <2>1, CoordinatorStepKeeps DEF RequestsInv, RequestTypes, CoordinatorInv, TypeOK
<1>a. NoReply \in CallReply
  BY DEF NoReply, CallReply
\* A runner goes on, and nobody but it may wait for the requests of left.
<1>1. ASSUME NEW m \in Migrations, call[m] # "idle",
             NEW gone, NEW left, Left(gone, left), Dispatch(m, left),
             \A q \in requests \ gone : ~q.awaited,
             manifest' \in [Migrations -> Nat],
             \A k \in Migrations : k # m => call'[k] = call[k]
      PROVE  RequestsInv' /\ NoAnswers /\ \E kept, f, new : Carried(kept, f, new) /\ Sending(new)
  <2>1. PICK new : new = IF call'[m] \in Calls THEN {NextRequest(m)} ELSE {}
    OBVIOUS
  <2>2. requests' = left \cup new /\ replies' = [replies EXCEPT ![m] = NoReply]
    BY <1>1, <2>1 DEF Dispatch
  <2>3. Nonterminal(m)
    BY <1>1, OneWaits
  <2>4. ASSUME NEW n \in new
        PROVE  /\ n = NextRequest(m) /\ n.m = m /\ call'[n.m] \in Calls /\ n.op = call'[n.m]
               /\ n.stage = "sent" /\ n.turn = 0 /\ n.awaited
               /\ replies'[n.m] = NoReply
    <3>1. n = NextRequest(m) /\ call'[m] \in Calls
      BY <2>1
    <3> QED BY <1>0, <2>2, <3>1 DEF NextRequest
  <2>5. replies' \in [Migrations -> CallReply]
    BY <1>0, <1>a, <2>2
  <2>6. \A n1, n2 \in new : n1 = n2
    BY <2>4
  <2>7. RequestsInv' /\ \E kept, f : Carried(kept, f, new)
    BY <1>0, <1>1, <2>2, <2>3, <2>4, <2>5, <2>6, Dispatching
  <2>8. Sending(new)
    BY <2>3, <2>4 DEF Sending
  <2>9. NoAnswers
    BY <1>0, <1>1, <2>2 DEF NoAnswers, NoReply
  <2> QED BY <2>7, <2>8, <2>9
\* No call goes out.
<1>2. ASSUME NEW gone, Left(gone, requests'),
             \A q \in requests \ gone : q.awaited =>
                  call'[q.m] = call[q.m] /\ replies'[q.m] = replies[q.m],
             replies' \in [Migrations -> CallReply], UNCHANGED manifest
      PROVE  RequestsInv' /\ \E kept, f, new : Carried(kept, f, new) /\ Sending(new)
  <2>1. requests' = requests' \cup {}
    OBVIOUS
  <2>2. RequestsInv' /\ \E kept, f : Carried(kept, f, {})
    BY <1>0, <1>2, <2>1, Dispatching
  <2> QED BY <2>2 DEF Sending
<1>3. Left({}, requests)
  BY DEF Left
<1>4. ASSUME NEW m \in Migrations, NEW to, Continue(m, to)
      PROVE  \A k \in Migrations : k # m => call'[k] = call[k]
  BY <1>0, <1>4 DEF Continue
<1>5. ASSUME NEW m \in Migrations, RunnerStarts(m)
      PROVE  RequestsInv' /\ NoAnswers /\ \E kept, f, new : Carried(kept, f, new) /\ Sending(new)
  <2>1. call[m] \in {"start", "issued", "commit"}
    BY <1>5 DEF RunnerStarts, RunNew, RunOrphan, RunAgain, ResumeSent
  <2>2. \A q \in requests : ~q.awaited
    BY <2>1, OneWaits DEF Calls
  <2>3. \E to : Continue(m, to)
    BY <1>5 DEF RunnerStarts, RunNew, RunOrphan, RunAgain, ResumeSent, TransferOwnership, Advance
  <2> QED BY <1>0, <1>1, <1>3, <1>4, <1>5, <2>1, <2>2, <2>3 DEF RunnerStarts
<1>6. ASSUME NEW m \in Migrations, CallSucceeds(m) \/ CallIsRefused(m)
      PROVE  RequestsInv' /\ NoAnswers /\ \E kept, f, new : Carried(kept, f, new) /\ Sending(new)
  <2>1. call[m] \in Calls \cup {"commit"} /\ call[m] # "idle"
    BY <1>6 DEF CallSucceeds, CallIsRefused, Answered, CutoverBegun, Loaded, PortExposed,
                TransferOwnership, CallFailed, RollbackFailed, Waiting, Calls
  <2>2. \A q \in requests : ~q.awaited
    BY <1>6, <2>1, OneWaits DEF CallSucceeds, CallIsRefused, NoReply
  <2>3. \A k \in Migrations : k # m => call'[k] = call[k]
    <3>1. \/ \E to : Continue(m, to)
          \/ CutoverBegun(m) \/ Loaded(m) \/ PortExposed(m)
      BY <1>6 DEF CallSucceeds, CallIsRefused, Answered, Loaded, TransferOwnership, CallFailed,
                  RollbackFailed, Advance, HandleFailure
    <3> QED BY <1>0, <1>4, <3>1 DEF CutoverBegun, Loaded, PortExposed
  <2>4. manifest' \in [Migrations -> Nat]
    BY <1>0, <1>6 DEF CallSucceeds, CallIsRefused, CallReply
  <2>5. Dispatch(m, requests)
    BY <1>6 DEF CallSucceeds, CallIsRefused
  <2> QED BY <1>1, <1>3, <2>1, <2>2, <2>3, <2>4, <2>5
<1>7. ASSUME NEW m \in Migrations, CallTimesOut(m)
      PROVE  RequestsInv' /\ NoAnswers /\ \E kept, f, new : Carried(kept, f, new) /\ Sending(new)
  <2>1. call[m] # "idle"
    BY <1>7 DEF CallTimesOut, CallFailed, RollbackFailed, Waiting, Calls
  <2>2. PICK left \in Abandoned(AwaitedBy(m)) : Dispatch(m, left)
    BY <1>7 DEF CallTimesOut
  <2>3. Left(AwaitedBy(m), left)
    BY AbandonedLeft DEF AwaitedBy
  <2>4. \A q \in requests \ AwaitedBy(m) : ~q.awaited
    BY <2>1, OneWaits DEF AwaitedBy
  <2>5. \E to : Continue(m, to)
    BY <1>7 DEF CallTimesOut, CallFailed, RollbackFailed, HandleFailure, Advance
  <2>6. manifest' \in [Migrations -> Nat]
    BY <1>0, <1>7 DEF CallTimesOut
  <2> QED BY <1>1, <1>4, <2>1, <2>2, <2>3, <2>4, <2>5, <2>6
<1>8. ASSUME NEW m \in Migrations, RunnerDies(m)
      PROVE  RequestsInv' /\ NoAnswers /\ \E kept, f, new : Carried(kept, f, new) /\ Sending(new)
  <2>1. call[m] # "idle" /\ SupervisorRestart(m)
    BY <1>8 DEF RunnerDies, RunnerCrash
  <2>2. requests' \in Abandoned(AwaitedBy(m)) /\ replies' = [replies EXCEPT ![m] = NoReply]
        /\ UNCHANGED manifest
    BY <1>8 DEF RunnerDies
  <2>3. Left(AwaitedBy(m), requests')
    BY <2>2, AbandonedLeft DEF AwaitedBy
  <2>4. \A q \in requests \ AwaitedBy(m) : ~q.awaited
    BY <2>1, OneWaits DEF AwaitedBy
  <2>5. replies' \in [Migrations -> CallReply]
    BY <1>0, <1>a, <2>2
  <2>6. NoAnswers
    <3>1. \A k \in Migrations : k # m => call'[k] = call[k] \/ call'[k] = "idle"
      BY <1>0, <2>1 DEF SupervisorRestart
    <3> QED BY <1>0, <2>2, <3>1 DEF NoAnswers, NoReply, Calls
  <2> QED BY <1>2, <2>2, <2>3, <2>4, <2>5, <2>6
<1>9. CASE CoordinatorDies
  <2> DEFINE gone == {r \in requests : r.awaited}
  <2>1. requests' \in Abandoned(gone) /\ replies' = [m \in Migrations |-> NoReply]
        /\ UNCHANGED manifest
    BY <1>9 DEF CoordinatorDies
  <2>2. Left(gone, requests')
    BY <2>1, AbandonedLeft
  <2>3. replies' \in [Migrations -> CallReply]
    BY <1>a, <2>1
  <2>4. NoAnswers
    BY <2>1 DEF NoAnswers, NoReply
  <2> QED BY <1>2, <2>1, <2>2, <2>3, <2>4
<1>10. ASSUME UNCHANGED <<requests, replies, manifest>>,
              \A q \in requests : q.awaited => call'[q.m] = call[q.m],
              \A k \in Migrations : call'[k] = call[k] \/ call'[k] = "start"
       PROVE  RequestsInv' /\ NoAnswers /\ \E kept, f, new : Carried(kept, f, new) /\ Sending(new)
  <2>1. NoAnswers
    BY <1>10 DEF NoAnswers, Calls
  <2> QED BY <1>0, <1>2, <1>3, <1>10, <2>1
<1>11. ASSUME NEW q \in requests, q.awaited
       PROVE  q.m \in Rows /\ q.m \in Migrations /\ call[q.m] \in Calls
  BY <1>0, <1>11 DEF RequestsInv, RequestOK, CallRequest, Operations, ProxyOperations, Calls
<1>12. CASE Reconcile /\ UNCHANGED <<requests, replies, manifest>>
  <2>1. \A k \in Migrations : call'[k] = call[k] \/ (call[k] = "idle" /\ call'[k] = "start")
    BY <1>0, <1>12 DEF Reconcile
  <2> QED BY <1>10, <1>11, <1>12, <2>1 DEF Calls
<1>13. ASSUME NEW s \in Sandboxes, NEW dest \in Destinations, NEW key \in Keys,
              NEW m \in Migrations, StartMigration(s, dest, key, m),
              UNCHANGED <<requests, replies, manifest>>
       PROVE  RequestsInv' /\ NoAnswers /\ \E kept, f, new : Carried(kept, f, new) /\ Sending(new)
  <2>1. m \notin Rows /\ call'[m] = "start" /\ \A k \in Migrations : k # m => call'[k] = call[k]
    BY <1>0, <1>13 DEF StartMigration
  <2>2. \A k \in Migrations : call'[k] = call[k] \/ call'[k] = "start"
    BY <2>1
  <2> QED BY <1>10, <1>11, <1>13, <2>1, <2>2
<1> QED BY <1>5, <1>6, <1>7, <1>8, <1>9, <1>12, <1>13 DEF CoordinatorStep

-----------------------------------------------------------------------------
(* What the workers' handlers do to the requests and to the guests.        *)

Processes == {"none", "idle", "running", "paused"}

HostTypes ==
    /\ vm        \in [Workers -> Processes]
    /\ image     \in [Workers -> Nat]
    /\ files     \in [Workers -> Nat]
    /\ manifests \in [Workers -> SUBSET (Migrations \X Nat)]

\* The calls that let a guest run.
Starts == {"resume", "rollback"}

\* A handler takes its request and waits.
Takes == \E r \in requests : r.stage = "sent" /\ Await(r) /\ UNCHANGED <<vm, manifests>>

\* The source of r is stopped and about to write the snapshot r asks for, and it does.
SnapshotDue(r) ==
    /\ r \in AtFirecracker("snapshot") /\ r.stage = "running" /\ r.op = "snapshot"
    /\ vm[r.worker] = "paused"

Writes ==
    \E r \in requests, img \in Nat :
        SnapshotDue(r) /\ Written(r, img) /\ UNCHANGED <<vm, manifests>>

\* The snapshot r asks for was written, and becomes the record's.
SnapshotTaken(r) ==
    /\ r \in SnapshotWritten /\ r.op = "snapshot" /\ UNCHANGED vm
    /\ \A w \in Workers : \A entry \in manifests'[w] :
          entry \in manifests[w] \/ (w = r.worker /\ entry[1] = r.m)

SnapshotKept(r) == \E entry \in manifests[r.worker] : entry[1] = r.m

\* Handlers of call c return. Only those of a resume or a rollback let a guest run, and only
\* one that has a snapshot written, or finds it taken, answers that it is there.
Return(c, done, status, img) ==
    /\ MayReturn(done) /\ Reply(done, status, img)
    /\ \A r \in done : r.op = c
    /\ \A w \in Workers : RunsOn(w)' =>
          RunsOn(w) \/ (c \in Starts /\ \E r \in done : r.worker = w)
    /\ \/ UNCHANGED manifests
       \/ \E r \in done : SnapshotTaken(r)
    /\ c = "snapshot" /\ status = "ok" =>
          \A r \in done : SnapshotTaken(r) \/ (SnapshotKept(r) /\ UNCHANGED <<vm, manifests>>)

Returns ==
    \E c \in Operations, done \in SUBSET requests, status \in {"ok", "error"}, img \in Nat :
        Return(c, done, status, img)

\* One handler returns, having waited for nothing or being the first of its queue.
LEMMA OneMayReturn ==
    ASSUME RequestsInv, NEW r \in requests,
           r.stage = "sent" \/ r.turn \in {0, 1} \/ r.op \notin FirecrackerCalls
    PROVE  MayReturn({r})
<1>1. RequestOK(r) /\ r \in CallRequest
  BY DEF RequestsInv, RequestTypes
<1>2. r.turn = 0 \/ r.turn = 1
  BY <1>1 DEF RequestOK, CallRequest
<1>3. ASSUME NEW w \in Workers, r \in Queued(w) PROVE r.turn = 1 /\ {r} \cap Queued(w) = {r}
  BY <1>2, <1>3 DEF Queued
<1> QED BY <1>3 DEF MayReturn

\* A request that is answered without anything else being done.
LEMMA PlainReturn ==
    ASSUME RequestsInv, NEW r \in requests, r.op \in Operations,
           r.stage = "sent" \/ r.turn \in {0, 1} \/ r.op \notin FirecrackerCalls,
           NEW status \in {"ok", "error"}, Reply({r}, status, 0),
           status = "ok" => r.op # "snapshot",
           \A w \in Workers : RunsOn(w)' => RunsOn(w) \/ (r.op \in Starts /\ r.worker = w),
           UNCHANGED manifests
    PROVE  Returns
<1>1. Return(r.op, {r}, status, 0)
  BY OneMayReturn DEF Return
<1> QED BY <1>1 DEF Returns

LEMMA NotAdmittedReturns ==
    ASSUME RequestsInv, HostTypes, NEW r \in requests, r.op \in Operations, r.stage = "sent",
           NEW expected, NotAdmitted(r, expected)
    PROVE  Returns /\ HostTypes'
<1>0. r \in CallRequest
  BY DEF RequestsInv, RequestTypes
<1>1. CASE FenceQuietly(r)
  <2>1. UNCHANGED <<image, files, manifests>> /\ Reply({r}, "error", 0)
    BY <1>1 DEF FenceQuietly, Error
  <2>2. vm' \in [Workers -> Processes] /\ \A w \in Workers : RunsOn(w)' => RunsOn(w)
    BY <1>1 DEF FenceQuietly, HostTypes, Processes, RunsOn
  <2> QED BY <2>1, <2>2, PlainReturn DEF HostTypes
<1>2. CASE Refuse(r, expected)
  <2>1. UNCHANGED <<vm, image, files, manifests>> /\ Reply({r}, "error", 0)
    BY <1>2 DEF Refuse, Error, record, host
  <2> QED BY <2>1, PlainReturn DEF HostTypes, RunsOn
<1> QED BY <1>1, <1>2 DEF NotAdmitted

\* An answer, with nothing else changed that matters here.
LEMMA AnswerReturns ==
    ASSUME RequestsInv, HostTypes, NEW r \in requests, r.op \in Operations \ {"snapshot"},
           r.stage = "sent" \/ r.turn = 1 \/ r.op \notin FirecrackerCalls,
           Ok(r) \/ Error(r), UNCHANGED <<vm, image, files, manifests>>
    PROVE  Returns /\ HostTypes'
<1>1. \E status \in {"ok", "error"} : Reply({r}, status, 0)
  BY DEF Ok, Error
<1> QED BY <1>1, PlainReturn DEF HostTypes, RunsOn

LEMMA Waits ==
    ASSUME RequestsInv, HostTypes, NEW r \in requests, r.stage = "sent",
           Await(r), UNCHANGED <<vm, image, files, manifests>>
    PROVE  Takes /\ HostTypes'
BY DEF Takes, HostTypes

\* A handler that is called: it is not admitted, answers at once, or waits for the host.
Begins(r) ==
    \/ \E expected : NotAdmitted(r, expected)
    \/ /\ Ok(r) \/ Error(r) \/ Await(r)
       /\ UNCHANGED <<vm, image, files, manifests>>

LEMMA BeginningEffect ==
    ASSUME RequestsInv, HostTypes,
           NEW r \in requests, r.op \in Operations \ {"snapshot"}, r.stage = "sent", Begins(r)
    PROVE  (Takes \/ Returns) /\ HostTypes'
<1>1. ASSUME NEW expected, NotAdmitted(r, expected) PROVE Returns /\ HostTypes'
  BY <1>1, NotAdmittedReturns
<1>2. CASE (Ok(r) \/ Error(r)) /\ UNCHANGED <<vm, image, files, manifests>>
  BY <1>2, AnswerReturns
<1>3. CASE Await(r) /\ UNCHANGED <<vm, image, files, manifests>>
  BY <1>3, Waits
<1> QED BY <1>1, <1>2, <1>3 DEF Begins

LEMMA ResumeSandboxBegins ==
    ASSUME NEW r \in requests, BeginResumeSandbox(r) PROVE Begins(r)
BY DEF BeginResumeSandbox, Begins, record, host, StartWork

\* Every handler that is called, but for the source's snapshot.
LEMMA Beginning ==
    ASSUME RequestsInv, HostTypes,
           \/ Reserve \/ BeginPrestage \/ Probe \/ Precopy \/ BeginPause \/ BeginTransfer
           \/ BeginLoad \/ BeginResume \/ BeginRollback \/ Verify \/ Expose \/ BeginFence
    PROVE  (Takes \/ Returns) /\ HostTypes'
<1>1. SUFFICES \E r \in requests : /\ r.op \in Operations \ {"snapshot"} /\ r.stage = "sent"
                                   /\ Begins(r)
  BY BeginningEffect
<1> USE DEF Sent, Operations
<1>2. CASE Reserve
  BY <1>2 DEF Reserve, Answer, Begins, record, host
<1>3. CASE BeginPrestage
  <2>1. PICK r \in Sent("prestage") :
           /\ Ok(r) \/ Error(r) \/ Await(r)
           /\ UNCHANGED <<vm, image, files, manifests>>
    BY <1>3 DEF BeginPrestage, Answer, StartWork, record, host
  <2> QED BY <2>1 DEF Begins
<1>4. CASE Probe \/ Precopy \/ Verify \/ Expose
  <2>1. PICK r \in requests : /\ r.op \in {"probe", "precopy", "verify", "expose"}
                              /\ r.stage = "sent" /\ \E expected : Check(r, expected)
    BY <1>4 DEF Probe, Precopy, Verify, Expose
  <2>2. Begins(r)
    BY <2>1 DEF Check, OkOrHostError, Begins, record, host
  <2> QED BY <2>1, <2>2
<1>5. CASE BeginPause
  <2>1. PICK r \in Sent("pause") :
           \/ NotAdmitted(r, RecordStates) \/ Answer(r, TRUE)
           \/ StartWork(r) /\ UNCHANGED <<record, host>>
    BY <1>5 DEF BeginPause
  <2> QED BY <2>1 DEF Answer, StartWork, Begins, record, host
<1>6. CASE BeginTransfer
  <2>1. PICK r \in Sent("transfer") :
           \/ NotAdmitted(r, {"booting"})
           \/ (Ok(r) \/ Error(r) \/ StartWork(r)) /\ UNCHANGED <<record, host>>
    BY <1>6 DEF BeginTransfer, OkOrHostError
  <2> QED BY <2>1 DEF StartWork, Begins, record, host
<1>7. CASE BeginLoad
  <2>1. PICK r \in Sent("load") :
           \/ NotAdmitted(r, {"booting"}) \/ Answer(r, FALSE) \/ Answer(r, TRUE)
           \/ (Error(r) \/ StartWork(r)) /\ UNCHANGED <<record, host>>
    BY <1>7 DEF BeginLoad
  <2> QED BY <2>1 DEF Answer, StartWork, Begins, record, host
<1>8. CASE BeginResume
  <2>1. PICK r \in Sent("resume") : Answer(r, TRUE) \/ BeginResumeSandbox(r)
    BY <1>8 DEF BeginResume
  <2> QED BY <2>1, ResumeSandboxBegins DEF Answer, Begins, record, host
<1>9. CASE BeginRollback
  <2>1. PICK r \in Sent("rollback") :
           \/ Answer(r, FALSE) \/ BeginResumeSandbox(r)
           \/ OkOrHostError(r) /\ UNCHANGED <<record, host, accepted>>
    BY <1>9 DEF BeginRollback
  <2> QED BY <2>1, ResumeSandboxBegins DEF Answer, OkOrHostError, Begins, record, host
<1>10. CASE BeginFence
  <2>1. PICK r \in Sent("fence") :
           \/ Answer(r, FALSE) \/ Answer(r, TRUE)
           \/ StartWork(r) /\ UNCHANGED <<prepared, consumed, registered, manifests, host>>
    BY <1>10 DEF BeginFence
  <2> QED BY <2>1 DEF Answer, StartWork, Begins, record, host
<1> QED BY <1>2, <1>3, <1>4, <1>5, <1>6, <1>7, <1>8, <1>9, <1>10

LEMMA SnapshotBegins ==
    ASSUME RequestsInv, HostTypes, BeginSnapshot
    PROVE  (Takes \/ Returns) /\ HostTypes'
<1>1. PICK r \in Sent("snapshot") :
         \/ /\ \E entry \in manifests[r.worker] : entry[1] = r.m /\ Reply({r}, "ok", entry[2])
            /\ UNCHANGED <<record, host, accepted>>
         \/ NotAdmitted(r, {"paused"})
         \/ StartWork(r) /\ UNCHANGED <<record, host>>
  BY DEF BeginSnapshot
<1>2. r \in requests /\ r.op = "snapshot" /\ r.stage = "sent" /\ r \in CallRequest
      /\ r.op \in Operations
  BY <1>1 DEF Sent, RequestsInv, RequestTypes, Operations
<1>3. ASSUME NEW entry \in manifests[r.worker], entry[1] = r.m, Reply({r}, "ok", entry[2]),
             UNCHANGED <<record, host, accepted>>
      PROVE  Returns /\ HostTypes'
  <2>1. entry[2] \in Nat
    BY <1>2, <1>3 DEF HostTypes, CallRequest
  <2>2. UNCHANGED <<vm, image, files, manifests>>
    BY <1>3 DEF record, host
  <2>3. MayReturn({r})
    BY <1>2, OneMayReturn
  <2>4. SnapshotKept(r)
    BY <1>3 DEF SnapshotKept
  <2>5. Return("snapshot", {r}, "ok", entry[2])
    BY <1>2, <1>3, <2>2, <2>3, <2>4 DEF Return, RunsOn
  <2>6. "snapshot" \in Operations
    BY DEF Operations
  <2> QED BY <1>2, <2>1, <2>2, <2>5, <2>6 DEF Returns, HostTypes
<1>4. CASE NotAdmitted(r, {"paused"})
  BY <1>2, <1>4, NotAdmittedReturns
<1>5. CASE StartWork(r) /\ UNCHANGED <<record, host>>
  BY <1>2, <1>5, Waits DEF StartWork, record, host
<1> QED BY <1>1, <1>3, <1>4, <1>5

LEMMA SnapshotIsWritten ==
    ASSUME RequestsInv, HostTypes, TakeSnapshot
    PROVE  (Writes \/ Returns) /\ HostTypes'
<1>1. PICK r \in AtFirecracker("snapshot") :
         \/ /\ vm[r.worker] = "paused" /\ Written(r, image[r.worker])
            /\ UNCHANGED <<vm, image, files, manifests>>
         \/ WorkFails(r)
  BY DEF TakeSnapshot, Written, record, host
<1>2. /\ r \in requests /\ r.op = "snapshot" /\ r.stage = "running" /\ r.turn = 1
      /\ r \in CallRequest /\ r.worker \in Workers /\ r.op \in Operations
  BY <1>1 DEF AtFirecracker, Running, RequestsInv, RequestTypes, CallRequest, Operations
<1>3. CASE /\ vm[r.worker] = "paused" /\ Written(r, image[r.worker])
           /\ UNCHANGED <<vm, image, files, manifests>>
  <2>1. image[r.worker] \in Nat
    BY <1>2 DEF HostTypes
  <2> QED BY <1>1, <1>2, <1>3, <2>1 DEF Writes, SnapshotDue, HostTypes
<1>4. CASE WorkFails(r)
  <2>1. Reply({r}, "error", 0) /\ UNCHANGED <<vm, image, files, manifests>>
    BY <1>4 DEF WorkFails, Error, record, host
  <2> QED BY <1>2, <2>1, PlainReturn DEF HostTypes, RunsOn
<1> QED BY <1>1, <1>3, <1>4

LEMMA SnapshotEnds ==
    ASSUME RequestsInv, HostTypes, EndSnapshot
    PROVE  Returns /\ HostTypes'
<1>1. PICK r \in SnapshotWritten :
         \/ /\ files' = [files EXCEPT ![r.worker] = r.image]
            /\ manifests' = [manifests EXCEPT ![r.worker] =
                               {entry \in @ : entry[1] # r.m} \cup {<<r.m, r.image>>}]
            /\ Reply({r}, "ok", r.image)
            /\ UNCHANGED <<vm, image>>
         \/ WorkFails(r)
  BY DEF EndSnapshot
<1>2. /\ r \in requests /\ r.op = "snapshot" /\ r.turn = 0 /\ r.image \in Nat
      /\ r \in CallRequest /\ r.worker \in Workers /\ r.m \in Migrations /\ r.op \in Operations
  BY <1>1 DEF SnapshotWritten, Running, RequestsInv, RequestTypes, CallRequest, Operations
<1>3. CASE /\ files' = [files EXCEPT ![r.worker] = r.image]
           /\ manifests' = [manifests EXCEPT ![r.worker] =
                              {entry \in @ : entry[1] # r.m} \cup {<<r.m, r.image>>}]
           /\ Reply({r}, "ok", r.image)
           /\ UNCHANGED <<vm, image>>
  <2>1. HostTypes'
    <3>1. files' \in [Workers -> Nat]
      BY <1>2, <1>3 DEF HostTypes
    <3>2. manifests' \in [Workers -> SUBSET (Migrations \X Nat)]
      <4>1. <<r.m, r.image>> \in Migrations \X Nat
        BY <1>2
      <4> QED BY <1>2, <1>3, <4>1 DEF HostTypes
    <3> QED BY <1>3, <3>1, <3>2 DEF HostTypes
  <2>2. SnapshotTaken(r)
    <3>1. ASSUME NEW w \in Workers, NEW entry \in manifests'[w]
          PROVE  entry \in manifests[w] \/ (w = r.worker /\ entry[1] = r.m)
      BY <1>2, <1>3, <3>1 DEF HostTypes
    <3> QED BY <1>1, <1>2, <1>3, <3>1 DEF SnapshotTaken
  <2>3. MayReturn({r})
    BY <1>2, OneMayReturn
  <2>4. Return("snapshot", {r}, "ok", r.image)
    BY <1>2, <1>3, <2>2, <2>3 DEF Return, RunsOn
  <2>5. "snapshot" \in Operations
    BY DEF Operations
  <2> QED BY <1>2, <2>1, <2>4, <2>5 DEF Returns
<1>4. CASE WorkFails(r)
  <2>1. Reply({r}, "error", 0) /\ UNCHANGED <<vm, image, files, manifests>>
    BY <1>4 DEF WorkFails, Error, record, host
  <2> QED BY <1>2, <2>1, PlainReturn DEF HostTypes, RunsOn
<1> QED BY <1>1, <1>3, <1>4

\* The call to the host is over: the guest may run if that was the call.
Ends(r) ==
    /\ Ok(r) \/ Error(r)
    /\ \A w \in Workers : RunsOn(w)' => RunsOn(w) \/ (r.op \in Starts /\ r.worker = w)
    /\ HostTypes' /\ UNCHANGED manifests

LEMMA EndingEffect ==
    ASSUME RequestsInv, HostTypes,
           NEW r \in requests, r.op \in Operations \ {"snapshot"},
           r.turn = 1 \/ r.op \notin FirecrackerCalls, Ends(r)
    PROVE  Returns /\ HostTypes'
<1>1. \E status \in {"ok", "error"} : Reply({r}, status, 0)
  BY DEF Ends, Ok, Error
<1> QED BY <1>1, PlainReturn DEF Ends

LEMMA WorkFailsEnds ==
    ASSUME HostTypes, NEW r, WorkFails(r) PROVE Ends(r)
BY DEF WorkFails, Ends, HostTypes, RunsOn, record, host

LEMMA ResumeSandboxEnds ==
    ASSUME HostTypes, NEW r \in requests, r.worker \in Workers, r.op \in Starts,
           EndResumeSandbox(r)
    PROVE  Ends(r)
<1>1. CASE /\ vm' = [vm EXCEPT ![r.worker] = "running"]
           /\ Ok(r) \/ Error(r)
           /\ UNCHANGED <<manifests, image, files>>
  BY <1>1 DEF Ends, HostTypes, Processes, RunsOn
<1>2. CASE WorkFails(r)
  BY <1>2, WorkFailsEnds
<1> QED BY <1>1, <1>2 DEF EndResumeSandbox, OkOrHostError

\* Every handler that goes on after the host's answer, but for the prestage and the snapshot.
LEMMA Ending ==
    ASSUME RequestsInv, HostTypes,
           EndPause \/ EndTransfer \/ EndLoad \/ EndResume \/ EndRollback \/ EndFence
    PROVE  Returns /\ HostTypes'
<1>0. \A r \in requests : r \in CallRequest /\ r.worker \in Workers /\ r.image \in Nat
  BY DEF RequestsInv, RequestTypes, CallRequest
<1>1. SUFFICES \E r \in requests : /\ r.op \in Operations \ {"snapshot"}
                                   /\ r.turn = 1 \/ r.op \notin FirecrackerCalls
                                   /\ Ends(r)
  BY EndingEffect
<1> USE DEF AtFirecracker, Running, Operations
<1>2. CASE EndPause
  <2>1. PICK r \in AtFirecracker("pause") :
           \/ /\ vm' = [vm EXCEPT ![r.worker] = "paused"]
              /\ Ok(r) \/ Error(r)
              /\ UNCHANGED <<manifests, image, files>>
           \/ WorkFails(r)
    BY <1>2 DEF EndPause
  <2>2. CASE WorkFails(r)
    BY <2>1, <2>2, WorkFailsEnds
  <2>3. CASE /\ vm' = [vm EXCEPT ![r.worker] = "paused"]
             /\ Ok(r) \/ Error(r)
             /\ UNCHANGED <<manifests, image, files>>
    BY <1>0, <2>3 DEF Ends, HostTypes, Processes, RunsOn
  <2> QED BY <2>1, <2>2, <2>3
<1>3. CASE EndTransfer
  <2>1. PICK r \in Running("transfer") :
           \/ /\ files' = [files EXCEPT ![r.worker] = r.image]
              /\ Ok(r) \/ Error(r)
              /\ UNCHANGED <<manifests, vm, image>>
           \/ WorkFails(r)
    BY <1>3 DEF EndTransfer, OkOrHostError
  <2>2. CASE WorkFails(r)
    BY <2>1, <2>2, WorkFailsEnds DEF FirecrackerCalls
  <2>3. CASE /\ files' = [files EXCEPT ![r.worker] = r.image]
             /\ Ok(r) \/ Error(r)
             /\ UNCHANGED <<manifests, vm, image>>
    <3>1. Ends(r)
      BY <1>0, <2>3 DEF Ends, HostTypes, RunsOn
    <3> QED BY <2>1, <3>1 DEF FirecrackerCalls
  <2> QED BY <2>1, <2>2, <2>3
<1>4. CASE EndLoad
  <2>1. PICK r \in AtFirecracker("load") :
           \/ /\ vm' = [vm EXCEPT ![r.worker] = "paused"]
              /\ image' = [image EXCEPT ![r.worker] = files[r.worker]]
              /\ Ok(r) \/ Error(r)
              /\ UNCHANGED <<manifests, files>>
           \/ WorkFails(r)
    BY <1>4 DEF EndLoad
  <2>2. CASE WorkFails(r)
    BY <2>1, <2>2, WorkFailsEnds
  <2>3. CASE /\ vm' = [vm EXCEPT ![r.worker] = "paused"]
             /\ image' = [image EXCEPT ![r.worker] = files[r.worker]]
             /\ Ok(r) \/ Error(r)
             /\ UNCHANGED <<manifests, files>>
    <3>1. image' \in [Workers -> Nat]
      BY <1>0, <2>3 DEF HostTypes
    <3> QED BY <1>0, <2>3, <3>1 DEF Ends, HostTypes, Processes, RunsOn
  <2> QED BY <2>1, <2>2, <2>3
<1>5. CASE EndResume
  <2>1. PICK r \in AtFirecracker("resume") : EndResumeSandbox(r)
    BY <1>5 DEF EndResume
  <2> QED BY <1>0, <2>1, ResumeSandboxEnds DEF Starts
<1>6. CASE EndRollback
  <2>1. PICK r \in AtFirecracker("rollback") : EndResumeSandbox(r)
    BY <1>6 DEF EndRollback
  <2> QED BY <1>0, <2>1, ResumeSandboxEnds DEF Starts
<1>7. CASE EndFence
  <2>1. PICK r \in Running("fence") :
           /\ vm' = vm \/ \E left \in {vm[r.worker], "none", "paused"} :
                             vm' = [vm EXCEPT ![r.worker] = left]
           /\ Ok(r) \/ Error(r)
           /\ UNCHANGED <<manifests, image, files>>
    BY <1>7 DEF EndFence, Answer, record, host
  <2>2. Ends(r)
    BY <1>0, <2>1 DEF Ends, HostTypes, Processes, RunsOn
  <2> QED BY <2>1, <2>2 DEF FirecrackerCalls
<1> QED BY <1>2, <1>3, <1>4, <1>5, <1>6, <1>7

\* Handlers that wait for no turn may return together.
LEMMA ManyMayReturn ==
    ASSUME RequestsInv, NEW done \in SUBSET requests, \A r \in done : r.op \notin FirecrackerCalls
    PROVE  MayReturn(done)
<1>1. \A r \in done : ~(r.turn > 0)
  BY DEF RequestsInv, RequestOK
<1> QED BY <1>1 DEF MayReturn, Queued

LEMMA PrestageEnds ==
    ASSUME RequestsInv, HostTypes, EndPrestage
    PROVE  Returns /\ HostTypes'
<1>1. PICK r \in Running("prestage"), status \in {"ok", "error"} :
         /\ \/ /\ vm' = [vm EXCEPT ![r.worker] = "idle"]
               /\ files' = [files EXCEPT ![r.worker] = NoFiles]
            \/ UNCHANGED <<vm, files>>
         /\ Reply(Preparing(r.worker, r.m), status, 0)
         /\ UNCHANGED <<image, manifests>>
  BY DEF EndPrestage, record
<1>2. r.worker \in Workers
  BY DEF Running, RequestsInv, RequestTypes, CallRequest
<1>3. NoFiles \in Nat
  BY MigrationBoundsAssumption DEF NoFiles
<1>4. HostTypes' /\ \A w \in Workers : RunsOn(w)' => RunsOn(w)
  BY <1>1, <1>2, <1>3 DEF HostTypes, Processes, RunsOn
<1>5. /\ Preparing(r.worker, r.m) \in SUBSET requests
      /\ \A q \in Preparing(r.worker, r.m) : q.op = "prestage"
  BY DEF Preparing, Running
<1>6. MayReturn(Preparing(r.worker, r.m))
  BY <1>5, ManyMayReturn DEF FirecrackerCalls
<1>7. Return("prestage", Preparing(r.worker, r.m), status, 0)
  BY <1>1, <1>4, <1>5, <1>6 DEF Return
<1>8. "prestage" \in Operations
  BY DEF Operations
<1> QED BY <1>4, <1>5, <1>7, <1>8 DEF Returns

LEMMA HandlerEffect ==
    ASSUME RequestsInv, HostTypes, Handler
    PROVE  (Takes \/ Writes \/ Returns) /\ HostTypes'
BY Beginning, SnapshotBegins, SnapshotIsWritten, SnapshotEnds, Ending, PrestageEnds DEF Handler

\* A worker restarts: its handlers are gone, and no guest begins to run.
Restarts ==
    \E w \in Workers :
        /\ Reply({r \in requests : r.worker = w /\ r.stage = "running"}, "error", 0)
        /\ \A v \in Workers : RunsOn(v)' => RunsOn(v)
        /\ \A v \in Workers : manifests'[v] \subseteq manifests[v]

LEMMA RestartEffect ==
    ASSUME HostTypes, NEW w \in Workers, WorkerRestart(w)
    PROVE  Restarts /\ HostTypes'
<1>1. PICK left \in {vm[w], "none"} : vm' = [vm EXCEPT ![w] = left]
  BY DEF WorkerRestart
<1>2. manifests' = [manifests EXCEPT ![w] = {}] /\ UNCHANGED <<image, files>>
  BY DEF WorkerRestart
<1>3. HostTypes' /\ \A v \in Workers : RunsOn(v)' => RunsOn(v)
  BY <1>1, <1>2 DEF HostTypes, Processes, RunsOn
<1>4. \A v \in Workers : manifests'[v] \subseteq manifests[v]
  BY <1>2 DEF HostTypes
<1> QED BY <1>3, <1>4 DEF Restarts, WorkerRestart

LEMMA WriteEffect ==
    ASSUME HostTypes, NEW w \in Workers, GuestWrite(w)
    PROVE  UNCHANGED <<vm, manifests, requests, replies>> /\ HostTypes'
BY DEF GuestWrite, HostTypes, record

-----------------------------------------------------------------------------
(* The coordinator's transactions, with the answers they rest on.          *)

\* The answer a successful step of m's runner rests on.
Got(m, c) == call[m] = c /\ replies[m].status = "ok"

\* A runner moves its row to the phase after its call only when the answer says so.
LEMMA TransactionStep ==
    ASSUME CoordinatorInv, CoordinatorStep
    PROVE  \/ \E s \in Sandboxes, dest \in Destinations, key \in Keys, m \in Migrations :
                 StartMigration(s, dest, key, m)
           \/ \E m \in Migrations, to \in PlainTargets :
                 /\ Advance(m, to)
                 /\ \/ to \in {"RESERVING", "FAILED", "ROLLING_BACK_SOURCE", "ORPHANED_AMBIGUOUS"}
                    \/ \E c \in AdvancingCalls : to = PhaseAfter(c) /\ Got(m, c)
           \/ \E m \in Migrations : Loaded(m) /\ Got(m, "load")
           \/ \E m \in Migrations : TransferOwnership(m) /\ (Got(m, "repoint") \/ call[m] = "commit")
           \/ UNCHANGED store
<1>1. ASSUME NEW m \in Migrations, CallFailed(m) \/ RollbackFailed(m)
      PROVE  \E to \in {"FAILED", "ROLLING_BACK_SOURCE", "ORPHANED_AMBIGUOUS"} : Advance(m, to)
  BY <1>1 DEF CallFailed, RollbackFailed, HandleFailure, FailureTarget
<1>2. {"RESERVING", "FAILED", "ROLLING_BACK_SOURCE", "ORPHANED_AMBIGUOUS"} \subseteq PlainTargets
  BY DEF PlainTargets, Phases, PrepausePhases, TerminalPhases
<1>3. ASSUME NEW m \in Migrations, RunnerStarts(m)
      PROVE  \/ Advance(m, "RESERVING") \/ Advance(m, "ORPHANED_AMBIGUOUS")
             \/ call[m] = "commit" /\ TransferOwnership(m)
             \/ UNCHANGED store
  BY <1>3 DEF RunnerStarts, RunNew, RunOrphan, RunAgain, ResumeSent
<1>4. ASSUME NEW m \in Migrations, CallSucceeds(m)
      PROVE  \/ \E c \in AdvancingCalls : Advance(m, PhaseAfter(c)) /\ Got(m, c)
             \/ Loaded(m) /\ Got(m, "load")
             \/ TransferOwnership(m) /\ (Got(m, "repoint") \/ call[m] = "commit")
             \/ UNCHANGED store
  BY <1>4 DEF CallSucceeds, Answered, CutoverBegun, Loaded, PortExposed, TransferOwnership, Got
<1>5. ASSUME NEW m \in Migrations, CallIsRefused(m) \/ CallTimesOut(m)
      PROVE  CallFailed(m) \/ RollbackFailed(m)
  BY <1>5 DEF CallIsRefused, CallTimesOut
<1>6. ASSUME NEW m \in Migrations, RunnerDies(m) PROVE UNCHANGED store
  BY <1>6 DEF RunnerDies, RunnerCrash
<1>7. CoordinatorDies \/ Reconcile => UNCHANGED store
  BY DEF CoordinatorDies, Crash, Reconcile
<1>8. CASE \E m \in Migrations : RunnerStarts(m)
  BY <1>2, <1>3, <1>8
<1>9. CASE \E m \in Migrations : CallSucceeds(m)
  BY <1>4, <1>9, AdvanceTargets
<1>10. CASE \E m \in Migrations : CallIsRefused(m) \/ CallTimesOut(m)
  BY <1>1, <1>2, <1>5, <1>10
<1> QED BY <1>6, <1>7, <1>8, <1>9, <1>10 DEF CoordinatorStep

\* A runner gets the answer of the request it waits for, or none.
LEMMA Answering ==
    ASSUME RequestsInv, NEW done \in SUBSET requests, NEW status, NEW img,
           Reply(done, status, img), NEW m \in Migrations
    PROVE  \/ replies'[m] = replies[m]
           \/ \E r \in done : /\ r.m = m /\ r.awaited /\ call[m] = r.op
                              /\ replies'[m].status = status
BY DEF Reply, RequestsInv, RequestOK

\* Every request is one that was there, though it may be taken now.
OldRequests ==
    \A r \in requests' : \E q \in requests : q.op = r.op /\ q.m = r.m /\ q.worker = r.worker

\* The requests are kept as they should be when handlers return.
LEMMA ReturnKeepsRequests ==
    ASSUME RequestsInv, NEW done \in SUBSET requests, MayReturn(done),
           NEW status \in {"ok", "error"}, NEW img \in Nat, Reply(done, status, img),
           UNCHANGED <<coordinator, manifest>>
    PROVE  RequestsInv' /\ OldRequests
<1>1. RequestsInv' /\ \E f : Carried(requests \ done, f, {})
  BY Replying
<1> QED BY <1>1 DEF Carried, Same, OldRequests

LEMMA TakeKeepsRequests ==
    ASSUME RequestsInv, Takes, UNCHANGED <<coordinator, manifest>>
    PROVE  RequestsInv' /\ OldRequests /\ replies' = replies
<1>1. PICK r \in requests : r.stage = "sent" /\ Await(r)
  BY DEF Takes
<1>2. /\ RequestsInv' /\ replies' = replies
      /\ \E n \in CallRequest : /\ requests' = (requests \ {r}) \cup {n}
                                /\ n.op = r.op /\ n.m = r.m /\ n.worker = r.worker
  BY <1>1, Awaiting
<1> QED BY <1>2 DEF OldRequests

LEMMA WriteKeepsRequests ==
    ASSUME RequestsInv, Writes, UNCHANGED <<coordinator, manifest>>
    PROVE  RequestsInv' /\ OldRequests /\ replies' = replies
<1>1. PICK r \in requests, img \in Nat : SnapshotDue(r) /\ Written(r, img)
  BY DEF Writes
<1>2. r.op = "snapshot" /\ r.stage = "running" /\ r.turn = 1
  BY <1>1 DEF SnapshotDue, AtFirecracker
<1>3. RequestsInv' /\ \E n, f : /\ n.op = r.op /\ n.m = r.m /\ n.worker = r.worker
                                /\ Carried(requests \ {r}, f, {n})
  BY <1>1, <1>2, LeavingItsQueue
<1>4. PICK n, f : /\ n.op = r.op /\ n.m = r.m /\ n.worker = r.worker
                  /\ Carried(requests \ {r}, f, {n})
  BY <1>3
<1>5. ASSUME NEW p \in requests'
      PROVE  \E q \in requests : q.op = p.op /\ q.m = p.m /\ q.worker = p.worker
  <2>1. p = n \/ \E q \in requests \ {r} : Same(p, q)
    BY <1>4 DEF Carried
  <2> QED BY <1>4, <2>1 DEF Same
<1> QED BY <1>1, <1>3, <1>5 DEF OldRequests, Written

LEMMA AllMayReturn ==
    ASSUME RequestsInv, NEW w \in Workers, NEW done,
           done = {r \in requests : r.worker = w /\ r.stage = "running"}
    PROVE  MayReturn(done)
<1>1. \A v \in Workers : \A r \in Queued(v) : r.worker = v /\ r.stage = "running" /\ r \in requests
  BY DEF RequestsInv, RequestOK, Queued
<1> QED BY <1>1 DEF MayReturn

\* What a step of a worker does to the requests.
LEMMA WorkerRequests ==
    ASSUME RequestsInv, HostTypes, WorkerStep, UNCHANGED <<coordinator, manifest>>
    PROVE  /\ RequestsInv' /\ HostTypes' /\ OldRequests
           /\ \A m \in Migrations, c \in ProxyOperations : Got(m, c)' => Got(m, c)
<1>0. UNCHANGED call
  BY DEF coordinator
<1>1. CASE Takes /\ HostTypes'
  BY <1>0, <1>1, TakeKeepsRequests DEF Got
<1>5. CASE Writes /\ HostTypes'
  BY <1>0, <1>5, WriteKeepsRequests DEF Got
<1>2. CASE Returns /\ HostTypes'
  <2>1. PICK c \in Operations, done \in SUBSET requests, status \in {"ok", "error"}, img \in Nat :
           /\ MayReturn(done) /\ Reply(done, status, img)
           /\ \A r \in done : r.op = c
    BY <1>2 DEF Returns, Return
  <2>2. ASSUME NEW m \in Migrations, call[m] \in ProxyOperations PROVE replies'[m] = replies[m]
    BY <2>1, <2>2, Answering DEF Operations, ProxyOperations
  <2> QED BY <1>0, <1>2, <2>1, <2>2, ReturnKeepsRequests DEF Got
<1>3. ASSUME NEW w \in Workers, WorkerRestart(w) PROVE
           /\ RequestsInv' /\ HostTypes' /\ OldRequests
           /\ \A m \in Migrations, c \in ProxyOperations : Got(m, c)' => Got(m, c)
  <2>1. PICK done : done = {r \in requests : r.worker = w /\ r.stage = "running"}
    OBVIOUS
  <2>2. done \in SUBSET requests /\ Reply(done, "error", 0) /\ MayReturn(done)
    BY <1>3, <2>1, AllMayReturn DEF WorkerRestart
  <2>3. RequestsInv' /\ OldRequests
    BY <2>2, ReturnKeepsRequests
  <2>4. \A m \in Migrations : replies'[m] = replies[m] \/ replies'[m].status = "error"
    BY <2>2, Answering
  <2> QED BY <1>0, <1>3, <2>3, <2>4, RestartEffect DEF Got
<1>4. ASSUME NEW w \in Workers, GuestWrite(w) PROVE
           /\ RequestsInv' /\ HostTypes' /\ OldRequests
           /\ \A m \in Migrations, c \in ProxyOperations : Got(m, c)' => Got(m, c)
  <2>1. UNCHANGED <<requests, replies, migration, call, manifest>> /\ HostTypes'
    BY <1>4, WriteEffect DEF coordinator, store
  <2> QED BY <2>1 DEF RequestsInv, RequestTypes, RequestOK, EpochOf, Rows, Queued, OldRequests, Got
<1> QED BY <1>1, <1>2, <1>3, <1>4, <1>5, HandlerEffect DEF WorkerStep

RouteTypes ==
    route \in [phase : {"active", "cutover", "reconnecting"}, epoch : Nat, worker : Workers]

\* What a step of the proxy does to them, and to the route.
LEMMA ProxyRequests ==
    ASSUME RequestsInv, RouteTypes, ProxyStep
    PROVE  /\ RequestsInv' /\ RouteTypes' /\ OldRequests
           /\ \/ /\ route'.worker = route.worker /\ route'.epoch = route.epoch
                 /\ \A m \in Migrations : Got(m, "repoint")' => Got(m, "repoint")
              \/ \E r \in requests : /\ r.op = "repoint" /\ r.epoch > route.epoch
                                     /\ route'.worker = r.worker /\ route'.epoch = r.epoch
                                     /\ \A m \in Migrations : Got(m, "repoint")' =>
                                           m = r.m \/ Got(m, "repoint")
<1>0. /\ UNCHANGED <<coordinator, manifest>> /\ UNCHANGED call
      /\ \A r \in requests : r \in CallRequest /\ r.worker \in Workers /\ r.epoch \in Nat
  BY DEF ProxyStep, coordinator, RequestsInv, RequestTypes, CallRequest
\* A request of the proxy's is answered.
<1>1. ASSUME NEW r \in requests, r.op \in ProxyOperations, Ok(r) \/ Error(r)
      PROVE  /\ RequestsInv' /\ OldRequests
             /\ \A m \in Migrations : Got(m, "repoint")' =>
                   Got(m, "repoint") \/ (m = r.m /\ r.op = "repoint" /\ Ok(r))
  <2>1. PICK status \in {"ok", "error"} : Reply({r}, status, 0) /\ (status = "ok" => Ok(r))
    BY <1>1 DEF Ok, Error
  <2>2. MayReturn({r})
    BY <1>1, OneMayReturn DEF ProxyOperations, FirecrackerCalls
  <2>3. RequestsInv' /\ OldRequests
    BY <1>0, <2>1, <2>2, ReturnKeepsRequests
  <2>4. ASSUME NEW m \in Migrations
        PROVE  \/ replies'[m] = replies[m]
               \/ r.m = m /\ call[m] = r.op /\ replies'[m].status = status
    BY <2>1, Answering
  <2> QED BY <1>0, <2>1, <2>3, <2>4 DEF Got
<1>2. CASE BeginCutover
  <2>1. PICK r \in requests : r.op = "begin_cutover" /\ (Ok(r) \/ Error(r))
    BY <1>2 DEF BeginCutover, Sent
  <2>2. /\ RouteTypes' /\ route'.worker = route.worker /\ route'.epoch = route.epoch
    BY <1>2 DEF BeginCutover, RouteTypes
  <2> QED BY <1>1, <2>1, <2>2 DEF ProxyOperations
<1>3. CASE Repoint
  <2>1. PICK r \in requests :
           /\ r.op = "repoint"
           /\ \/ /\ r.epoch > route.epoch /\ Ok(r)
                 /\ \E phase \in {"active", "reconnecting"} :
                       route' = [phase |-> phase, epoch |-> r.epoch, worker |-> r.worker]
              \/ Error(r) /\ UNCHANGED route
    BY <1>3 DEF Repoint, Sent
  <2>2. r.op \in ProxyOperations
    BY <2>1 DEF ProxyOperations
  <2>3. CASE /\ r.epoch > route.epoch /\ Ok(r)
             /\ \E phase \in {"active", "reconnecting"} :
                   route' = [phase |-> phase, epoch |-> r.epoch, worker |-> r.worker]
    <3>1. RouteTypes' /\ route'.worker = r.worker /\ route'.epoch = r.epoch
      BY <1>0, <2>1, <2>3 DEF RouteTypes
    <3> QED BY <1>1, <2>1, <2>2, <2>3, <3>1
  <2>4. CASE Error(r) /\ UNCHANGED route
    <3>1. \A m \in Migrations : Got(m, "repoint")' => Got(m, "repoint")
      <4>1. Reply({r}, "error", 0) /\ {r} \in SUBSET requests
        BY <2>4 DEF Error
      <4>2. \A m \in Migrations : replies'[m] = replies[m] \/ replies'[m].status = "error"
        BY <4>1, Answering
      <4> QED BY <1>0, <4>2 DEF Got
    <3> QED BY <1>1, <2>2, <2>4, <3>1 DEF RouteTypes
  <2> QED BY <2>1, <2>3, <2>4
<1>4. CASE SessionsReconnected
  <2>1. UNCHANGED <<requests, replies, migration, call, manifest>>
    BY <1>0, <1>4 DEF SessionsReconnected, coordinator, store
  <2>2. RequestsInv' /\ OldRequests /\ \A m \in Migrations : Got(m, "repoint")' => Got(m, "repoint")
    BY <2>1 DEF RequestsInv, RequestTypes, RequestOK, EpochOf, Rows, Queued, OldRequests, Got
  <2>3. /\ RouteTypes' /\ route'.worker = route.worker /\ route'.epoch = route.epoch
    BY <1>4 DEF SessionsReconnected, RouteTypes
  <2> QED BY <2>2, <2>3
<1> QED BY <1>2, <1>3, <1>4 DEF ProxyStep

-----------------------------------------------------------------------------
(* The route follows the owner.                                            *)

Points(w, e) == route.worker = w /\ route.epoch = e

AtDestination(m) == Points(migration[m].destination, migration[m].epochAfter)

\* The inductive form of RouteFollowsOwner: the route points at the owner under the sandbox's
\* epoch until the resume moves the epoch on, and catches up with the repoint, whose answer the
\* cutover waits for.  Whoever may still ask for a repoint, late, has resumed.
RouteInv ==
    /\ RouteTypes
    /\ \A s \in Exposed :
          /\ sandbox[s].state \in {"running", "migrating"} =>
                Points(sandbox[s].worker, sandbox[s].epoch)
          /\ sandbox[s].state = "resuming" =>
                \/ route.worker = sandbox[s].worker /\ route.epoch + 1 = sandbox[s].epoch
                \/ \E m \in Rows : /\ migration[m].resumeIssued /\ AtDestination(m)
                                   /\ migration[m].epochAfter = sandbox[s].epoch
    /\ \A m \in Migrations : Got(m, "repoint") => AtDestination(m)
    /\ \A r \in requests : r.op = "repoint" => migration[r.m].resumeIssued

LEMMA RouteCoordinatorStep ==
    ASSUME CoordinatorInv, RequestsInv, RouteInv, CoordinatorStep
    PROVE  RouteInv'
<1>0. /\ [Next]_vars /\ CoordinatorInv' /\ UNCHANGED route
      /\ sandbox \in [Sandboxes -> SandboxRow] /\ Exposed \subseteq Sandboxes
      /\ \A s, t \in Sandboxes : s = t
      /\ \A m \in Rows : migration[m] \in MigrationRow /\ RowAgrees(m)
                         /\ m \in Migrations /\ migration[m].sandbox \in Sandboxes
  <2>1. [Next]_vars
    BY StepImplementsCoordinator DEF MigrationNext
  <2>2. CoordinatorInv'
    BY <2>1, CoordinatorStepKeeps
  <2> QED BY <2>1, <2>2, ExposedAssumption, OneSandboxAssumption
          DEF CoordinatorStep, CoordinatorInv, TypeOK, Rows, RowsAgree, MigrationRow
<1>1. /\ NoAnswers /\ RequestsInv'
      /\ \E kept, f, new : Carried(kept, f, new) /\ Sending(new)
  BY CoordinatorRequests
<1>2. \A m \in Migrations : Got(m, "repoint")' => AtDestination(m)'
  <2> SUFFICES ASSUME NEW m \in Migrations, Got(m, "repoint")' PROVE AtDestination(m)'
    OBVIOUS
  <2>1. Got(m, "repoint")
    BY <1>1 DEF NoAnswers, Got, Calls
  <2>2. m \in Rows
    BY <2>1 DEF CoordinatorInv, CallsOfPhases, CallOfPhase, Got, Nonterminal
  <2> QED BY <1>0, <2>1, <2>2, RowKeeps DEF RouteInv, AtDestination, Points
<1>3. \A r \in requests' : r.op = "repoint" => migration'[r.m].resumeIssued
  <2> SUFFICES ASSUME NEW r \in requests', r.op = "repoint" PROVE migration'[r.m].resumeIssued
    OBVIOUS
  <2>1. PICK kept, f, new : Carried(kept, f, new) /\ Sending(new)
    BY <1>1
  <2>2. CASE r \in new
    <3>1. call'[r.m] = "repoint" /\ r.m \in Rows' /\ r.m \in Migrations
      BY <1>1, <2>1, <2>2 DEF Sending, RequestsInv, RequestOK, Rows
    <3>2. migration'[r.m].phase = "CUTOVER"
      BY <1>0, <3>1 DEF CoordinatorInv, CallsOfPhases, CallOfPhase, Blocked, Calls, PhaseOf
    <3> QED BY <1>0, <3>1, <3>2 DEF CoordinatorInv, ResumeBoundary, PostResumePhases
  <2>3. ASSUME NEW q \in kept, r = f[q] PROVE migration'[r.m].resumeIssued
    <3>1. q \in requests /\ q.op = "repoint" /\ q.m = r.m
      BY <2>1, <2>3 DEF Carried, Same
    <3>2. migration[q.m].resumeIssued /\ q.m \in Rows
      BY <3>1 DEF RouteInv, RequestsInv, RequestOK
    <3> QED BY <1>0, <3>1, <3>2, RowKeeps
  <2> QED BY <2>1, <2>2, <2>3 DEF Carried
<1>4. ASSUME NEW s \in Exposed,
             sandbox'[s].worker = sandbox[s].worker, sandbox'[s].epoch = sandbox[s].epoch,
             sandbox'[s].state = "resuming" => sandbox[s].state = "resuming",
             sandbox'[s].state \in {"running", "migrating"} =>
                  sandbox[s].state \in {"running", "migrating"}
      PROVE  /\ sandbox'[s].state \in {"running", "migrating"} =>
                   Points(sandbox[s].worker, sandbox[s].epoch)'
             /\ sandbox'[s].state = "resuming" =>
                   \/ route'.worker = sandbox'[s].worker /\ route'.epoch + 1 = sandbox'[s].epoch
                   \/ \E m \in Rows' : /\ migration'[m].resumeIssued /\ AtDestination(m)'
                                       /\ migration'[m].epochAfter = sandbox'[s].epoch
  <2>1. sandbox'[s].state \in {"running", "migrating"} => Points(sandbox[s].worker, sandbox[s].epoch)'
    BY <1>0, <1>4 DEF RouteInv, Points
  <2>2. ASSUME NEW m \in Rows, migration[m].resumeIssued, AtDestination(m),
               migration[m].epochAfter = sandbox[s].epoch
        PROVE  m \in Rows' /\ migration'[m].resumeIssued /\ AtDestination(m)'
               /\ migration'[m].epochAfter = sandbox'[s].epoch
    BY <1>0, <1>4, <2>2, RowKeeps DEF AtDestination, Points
  <2> QED BY <1>0, <1>4, <2>1, <2>2 DEF RouteInv
<1>5. ASSUME NEW s \in Exposed
      PROVE  /\ sandbox'[s].state \in {"running", "migrating"} =>
                   Points(sandbox[s].worker, sandbox[s].epoch)'
             /\ sandbox'[s].state = "resuming" =>
                   \/ route'.worker = sandbox'[s].worker /\ route'.epoch + 1 = sandbox'[s].epoch
                   \/ \E m \in Rows' : /\ migration'[m].resumeIssued /\ AtDestination(m)'
                                       /\ migration'[m].epochAfter = sandbox'[s].epoch
  <2>0. s \in Sandboxes /\ sandbox[s] \in SandboxRow
    BY <1>0
  <2>1. ASSUME NEW t \in Sandboxes, NEW dest \in Destinations, NEW key \in Keys,
               NEW m \in Migrations, StartMigration(t, dest, key, m)
        PROVE  /\ sandbox'[s].worker = sandbox[s].worker /\ sandbox'[s].epoch = sandbox[s].epoch
               /\ sandbox'[s].state = "migrating" /\ sandbox[s].state = "running"
    <3>1. s = t
      BY <1>0, <2>0
    <3>2. sandbox'[s] = [sandbox[s] EXCEPT !.active = m, !.state = "migrating"]
      BY <1>0, <2>1, <3>1 DEF StartMigration
    <3>3. sandbox[s].state = "running"
      BY <2>1, <3>1 DEF StartMigration, Startable
    <3>4. /\ sandbox'[s].worker = sandbox[s].worker /\ sandbox'[s].epoch = sandbox[s].epoch
          /\ sandbox'[s].state = "migrating"
      BY <2>0, <3>2 DEF SandboxRow
    <3> QED BY <3>3, <3>4
  <2>2. ASSUME NEW m \in Migrations, NEW to \in PlainTargets, Advance(m, to)
        PROVE  /\ sandbox'[s].worker = sandbox[s].worker /\ sandbox'[s].epoch = sandbox[s].epoch
               /\ sandbox'[s].state = "resuming" => sandbox[s].state = "resuming"
               /\ sandbox'[s].state \in {"running", "migrating"} =>
                    sandbox[s].state \in {"running", "migrating"}
    <3>1. /\ Nonterminal(m) /\ m \in Rows /\ CanTransition(migration[m].phase, to)
          /\ sandbox' = [sandbox EXCEPT ![migration[m].sandbox] = Finalized(@, to)]
      BY <2>2, MovedRow DEF Advance, Transition, CoordinatorInv, Nonterminal
    <3>2. s = migration[m].sandbox /\ RowAgrees(m)
      BY <1>0, <2>0, <3>1
    <3>3. sandbox'[s] = Finalized(sandbox[s], to)
      BY <1>0, <3>1, <3>2
    <3>4. /\ sandbox'[s].worker = sandbox[s].worker /\ sandbox'[s].epoch = sandbox[s].epoch
          /\ sandbox'[s].state = IF Terminal(to)
                                 THEN IF to = "ORPHANED_AMBIGUOUS" THEN "orphaned_ambiguous"
                                                                   ELSE "running"
                                 ELSE sandbox[s].state
      BY <2>0, <3>3 DEF Finalized, SandboxRow
    <3>5. Terminal(to) /\ to # "ORPHANED_AMBIGUOUS" => sandbox[s].state \in {"running", "migrating"}
      <4>1. SUFFICES ASSUME to \in {"DONE", "FAILED", "ROLLED_BACK"}
                     PROVE  sandbox[s].state \in {"running", "migrating"}
        BY DEF Terminal, TerminalPhases
      <4>2. migration[m].phase = "CLEANUP" \/ migration[m].phase \notin PostResumePhases
        BY <3>1, <4>1 DEF CanTransition, NormalTransitions, PostResumePhases, PrepausePhases,
                          RollbackPhases
      <4>3. ~Terminal(migration[m].phase)
        BY <3>1 DEF Nonterminal
      <4>4. migration[m].phase \notin PostResumePhases => ~migration[m].resumeIssued
        BY <3>1, <4>3 DEF CoordinatorInv, ResumeBoundary, Terminal, TerminalPhases
      <4> QED BY <3>2, <4>2, <4>3, <4>4 DEF RowAgrees
    <3> QED BY <3>4, <3>5
  <2>3. ASSUME NEW m \in Migrations, Loaded(m)
        PROVE  /\ sandbox'[s].state = "resuming"
               /\ route'.worker = sandbox'[s].worker /\ route'.epoch + 1 = sandbox'[s].epoch
    <3>1. /\ Nonterminal(m) /\ m \in Rows /\ CanTransition(migration[m].phase, "RESUMING")
          /\ sandbox' = [sandbox EXCEPT ![migration[m].sandbox].epoch = migration[m].epochAfter,
                                        ![migration[m].sandbox].state = "resuming"]
      BY <2>3, MovedRow DEF Loaded, IssueResume, CoordinatorInv, Nonterminal
    <3>2. s = migration[m].sandbox /\ RowAgrees(m)
      BY <1>0, <2>0, <3>1
    <3>3. sandbox'[s] = [sandbox[s] EXCEPT !.epoch = migration[m].epochAfter, !.state = "resuming"]
      BY <1>0, <3>1, <3>2
    <3>4. /\ sandbox'[s].worker = sandbox[s].worker /\ sandbox'[s].state = "resuming"
          /\ sandbox'[s].epoch = migration[m].epochAfter
      BY <2>0, <3>3 DEF SandboxRow
    <3>5. migration[m].phase \notin PostResumePhases /\ ~Terminal(migration[m].phase)
      BY <3>1 DEF CanTransition, NormalTransitions, PostResumePhases, Nonterminal, PrepausePhases,
                  RollbackPhases
    <3>6. ~migration[m].resumeIssued
      BY <3>1, <3>5 DEF CoordinatorInv, ResumeBoundary, Terminal, TerminalPhases
    <3>7. sandbox[s].state = "migrating" /\ sandbox[s].epoch + 1 = migration[m].epochAfter
      BY <3>2, <3>5, <3>6 DEF RowAgrees
    <3>8. Points(sandbox[s].worker, sandbox[s].epoch)
      BY <3>7 DEF RouteInv
    <3> QED BY <1>0, <3>4, <3>7, <3>8 DEF Points
  <2>4. ASSUME NEW m \in Migrations, TransferOwnership(m), Got(m, "repoint") \/ call[m] = "commit"
        PROVE  sandbox'[s].state = "running" /\ Points(sandbox[s].worker, sandbox[s].epoch)'
    <3>1. /\ Nonterminal(m) /\ m \in Rows /\ CanTransition(migration[m].phase, "CLEANUP")
          /\ sandbox' = [sandbox EXCEPT ![migration[m].sandbox].worker = migration[m].destination,
                                        ![migration[m].sandbox].generation = @ + 1,
                                        ![migration[m].sandbox].state = "running"]
      BY <2>4, MovedRow DEF TransferOwnership, CompleteCutover, CoordinatorInv, Nonterminal
    <3>2. s = migration[m].sandbox /\ RowAgrees(m)
      BY <1>0, <2>0, <3>1
    <3>3. sandbox'[s] = [sandbox[s] EXCEPT !.worker = migration[m].destination,
                                           !.generation = @ + 1, !.state = "running"]
      BY <1>0, <3>1, <3>2
    <3>4. /\ sandbox'[s].worker = migration[m].destination /\ sandbox'[s].state = "running"
          /\ sandbox'[s].epoch = sandbox[s].epoch
      BY <2>0, <3>3 DEF SandboxRow
    <3>5. call[m] # "commit"
      BY <3>2 DEF CoordinatorInv, CallsOfPhases, CallOfPhase
    <3>6. AtDestination(m)
      BY <2>4, <3>5 DEF RouteInv
    <3>7. migration[m].phase = "CUTOVER"
      BY <3>1 DEF CanTransition, NormalTransitions
    <3>8. migration[m].resumeIssued
      BY <3>1, <3>7 DEF CoordinatorInv, ResumeBoundary, PostResumePhases
    <3>9. sandbox[s].epoch = migration[m].epochAfter
      BY <3>1, <3>2, <3>8 DEF RowAgrees, Nonterminal
    <3> QED BY <1>0, <3>4, <3>6, <3>9 DEF AtDestination, Points
  <2>5. CASE UNCHANGED store
    BY <1>4, <2>5 DEF store
  <2> QED BY <1>4, <2>1, <2>2, <2>3, <2>4, <2>5, TransactionStep
<1>6. RouteTypes'
  BY <1>0 DEF RouteInv, RouteTypes
<1> QED BY <1>2, <1>3, <1>5, <1>6 DEF RouteInv

\* A repoint the proxy accepts is the one of the epoch the sandbox has resumed under: a late
\* one comes after the route has moved on.
LEMMA RouteProxyStep ==
    ASSUME CoordinatorInv, RequestsInv, RouteInv, ProxyStep
    PROVE  RouteInv'
<1>0. /\ UNCHANGED <<sandbox, migration, call>>
      /\ sandbox \in [Sandboxes -> SandboxRow] /\ Exposed \subseteq Sandboxes
      /\ \A s, t \in Sandboxes : s = t
      /\ \A m \in Rows : migration[m] \in MigrationRow /\ migration[m].sandbox \in Sandboxes
                         /\ m \in Migrations
  BY ExposedAssumption, OneSandboxAssumption
     DEF ProxyStep, coordinator, store, CoordinatorInv, TypeOK, Rows, MigrationRow
<1>1. RouteTypes' /\ OldRequests
  BY ProxyRequests DEF RouteInv
<1>2. \A r \in requests' : r.op = "repoint" => migration'[r.m].resumeIssued
  BY <1>0, <1>1 DEF OldRequests, RouteInv
<1>3. CASE /\ route'.worker = route.worker /\ route'.epoch = route.epoch
           /\ \A m \in Migrations : Got(m, "repoint")' => Got(m, "repoint")
  BY <1>0, <1>1, <1>2, <1>3 DEF RouteInv, Points, AtDestination, Rows
<1>4. ASSUME NEW r \in requests, r.op = "repoint", r.epoch > route.epoch,
             route'.worker = r.worker, route'.epoch = r.epoch,
             \A m \in Migrations : Got(m, "repoint")' => m = r.m \/ Got(m, "repoint")
      PROVE  RouteInv'
  <2>0. PICK s \in Sandboxes : s = migration[r.m].sandbox
    BY <1>0, <1>4 DEF RequestsInv, RequestOK
  <2>1. /\ r.m \in Rows /\ migration[r.m].resumeIssued
        /\ r.worker = migration[r.m].destination /\ r.epoch = migration[r.m].epochAfter
    BY <1>4 DEF RequestsInv, RequestOK, DestinationCalls, EpochOf, RouteInv
  <2>2. r.epoch <= sandbox[s].epoch
    BY <2>0, <2>1 DEF CoordinatorInv, ResumeEpochsDiffer
  <2>3. r.epoch \in Nat /\ route.epoch \in Nat /\ sandbox[s].epoch \in Nat
    BY <1>0, <2>1 DEF RouteInv, RouteTypes, MigrationRow, SandboxRow
  <2>4. ASSUME NEW t \in Exposed
        PROVE  /\ sandbox[t].state \notin {"running", "migrating"}
               /\ sandbox[t].state = "resuming" => migration[r.m].epochAfter = sandbox[t].epoch
    <3>1. t = s
      BY <1>0
    <3>2. ~(sandbox[s].epoch <= route.epoch)
      BY <1>4, <2>2, <2>3
    <3>3. sandbox[t].state \notin {"running", "migrating"}
      BY <2>3, <3>1, <3>2 DEF RouteInv, Points
    <3>4. ASSUME sandbox[t].state = "resuming" PROVE r.epoch = sandbox[s].epoch
      <4>1. route.epoch + 1 = sandbox[s].epoch \/ route.epoch = sandbox[s].epoch
        BY <3>1, <3>4 DEF RouteInv, AtDestination, Points
      <4> QED BY <1>4, <2>2, <2>3, <4>1
    <3> QED BY <2>1, <3>1, <3>3, <3>4
  <2>5. AtDestination(r.m)'
    BY <1>0, <1>4, <2>1 DEF AtDestination, Points
  <2>6. ASSUME NEW m \in Migrations, Got(m, "repoint") PROVE m = r.m
    <3>1. m \in Rows /\ migration[m].phase = "CUTOVER" /\ Nonterminal(m)
      BY <2>6 DEF Got, CoordinatorInv, CallsOfPhases, CallOfPhase, Nonterminal, Blocked, Calls,
                  PhaseOf
    <3>2. migration[m].resumeIssued /\ migration[m].sandbox = s
      BY <1>0, <3>1 DEF CoordinatorInv, ResumeBoundary, PostResumePhases
    <3>3. migration[m].epochAfter = sandbox[s].epoch
      BY <3>1, <3>2 DEF CoordinatorInv, RowsAgree, RowAgrees, Terminal, TerminalPhases
    <3>4. route.epoch = sandbox[s].epoch
      BY <2>6, <3>3 DEF RouteInv, AtDestination, Points
    <3> QED BY <1>4, <2>2, <2>3, <3>4
  <2>7. \A m \in Migrations : Got(m, "repoint")' => AtDestination(m)'
    BY <1>4, <2>5, <2>6
  <2>8. r.m \in Rows'
    BY <1>0, <2>1 DEF Rows
  <2> QED BY <1>0, <1>1, <1>2, <2>1, <2>4, <2>5, <2>7, <2>8 DEF RouteInv
<1> QED BY <1>3, <1>4, ProxyRequests DEF RouteInv

LEMMA RouteWorkerStep ==
    ASSUME RequestsInv, HostTypes, RouteInv,
           WorkerStep, UNCHANGED <<coordinator, manifest, route>>
    PROVE  RouteInv'
<1>1. /\ OldRequests /\ UNCHANGED <<sandbox, migration, call, route>>
      /\ \A m \in Migrations : Got(m, "repoint")' => Got(m, "repoint")
  BY WorkerRequests DEF ProxyOperations, coordinator, store
<1>2. \A r \in requests' : r.op = "repoint" => migration'[r.m].resumeIssued
  BY <1>1 DEF OldRequests, RouteInv
<1> QED BY <1>1, <1>2 DEF RouteInv, RouteTypes, Points, AtDestination, Rows

-----------------------------------------------------------------------------
(* The invariant of the whole.                                             *)

SystemInv == CoordinatorInv /\ RequestsInv /\ HostTypes /\ RouteInv

LEMMA SystemInit == MigrationInit => SystemInv
<1> SUFFICES ASSUME MigrationInit PROVE SystemInv
  OBVIOUS
<1>1. CoordinatorInv
  BY CoordinatorInit DEF MigrationInit
<1>2. PICK s \in Sandboxes : /\ WorkerInit(sandbox[s].worker)
                             /\ route = [phase |-> "active", epoch |-> 1,
                                         worker |-> sandbox[s].worker]
  BY DEF MigrationInit
<1>3. /\ requests = {} /\ replies = [m \in Migrations |-> NoReply]
      /\ manifest = [m \in Migrations |-> 0]
      /\ vm = [w \in Workers |-> IF w = sandbox[s].worker THEN "running" ELSE "none"]
      /\ image = [w \in Workers |-> 0] /\ files = [w \in Workers |-> NoFiles]
      /\ manifests = [w \in Workers |-> {}]
  BY <1>2 DEF WorkerInit, MigrationInit
<1>4. sandbox[s].worker \in Workers /\ sandbox[s].epoch = 1 /\ sandbox[s].state = "running"
      /\ \A m \in Migrations : call[m] = "idle"
  BY DEF MigrationInit, Init
<1>5. RequestsInv
  <2>1. RequestTypes
    BY <1>3 DEF RequestTypes, CallReply, NoReply
  <2>2. QueueOK({}) /\ \A w \in Workers : Queued(w) = {}
    BY <1>3, FS_EmptySet DEF QueueOK, Queued
  <2> QED BY <1>3, <2>1, <2>2 DEF RequestsInv
<1>6. HostTypes
  BY <1>3, MigrationBoundsAssumption DEF HostTypes, Processes, NoFiles
<1>7. RouteInv
  <2>1. \A t \in Exposed : t = s
    BY ExposedAssumption, OneSandboxAssumption
  <2> QED BY <1>2, <1>3, <1>4, <2>1 DEF RouteInv, RouteTypes, Points, Got
<1> QED BY <1>1, <1>5, <1>6, <1>7 DEF SystemInv

LEMMA SystemStep == SystemInv /\ [MigrationNext]_migrationVars => SystemInv'
<1> SUFFICES ASSUME SystemInv, [MigrationNext]_migrationVars PROVE SystemInv'
  OBVIOUS
<1> USE DEF SystemInv
<1>1. CoordinatorInv'
  BY StepImplementsCoordinator, CoordinatorStepKeeps
<1>2. CASE CoordinatorStep
  <2>1. HostTypes'
    BY <1>2 DEF CoordinatorStep, workers, HostTypes
  <2> QED BY <1>1, <1>2, <2>1, CoordinatorRequests, RouteCoordinatorStep
<1>3. CASE ProxyStep
  <2>1. HostTypes'
    BY <1>3 DEF ProxyStep, workers, HostTypes
  <2> QED BY <1>1, <1>3, <2>1, ProxyRequests, RouteProxyStep DEF RouteInv
<1>4. CASE WorkerStep /\ UNCHANGED <<coordinator, manifest, route>>
  BY <1>1, <1>4, WorkerRequests, RouteWorkerStep
<1>5. CASE UNCHANGED migrationVars
  <2>1. UNCHANGED <<sandbox, migration, call, requests, replies, manifest, vm, image, files,
                    manifests, route>>
    BY <1>5 DEF migrationVars, coordinator, store, workers
  <2>2. RequestsInv'
    BY <2>1 DEF RequestsInv, RequestTypes, RequestOK, EpochOf, Rows, Queued
  <2>3. RouteInv'
    BY <2>1 DEF RouteInv, RouteTypes, Points, AtDestination, Got, Rows
  <2> QED BY <1>1, <2>1, <2>2, <2>3 DEF HostTypes
<1> QED BY <1>2, <1>3, <1>4, <1>5 DEF MigrationNext

THEOREM SystemInvariant == MigrationSpec => []SystemInv
BY SystemInit, SystemStep, PTL DEF MigrationSpec

\* Clients are sent to the owner, whatever call of whatever migration comes late, is lost, or
\* is repeated by a restarted runner.
THEOREM RouteAlwaysFollowsOwner == MigrationSpec => []RouteFollowsOwner
<1>1. SystemInv => RouteFollowsOwner
  BY DEF SystemInv, RouteInv, RouteFollowsOwner, Points
<1> QED BY <1>1, SystemInvariant, PTL

-----------------------------------------------------------------------------
(* One live guest: where it may run.                                       *)

\* The resume of m was the sandbox's last.
Resumed(m) ==
    /\ m \in Rows /\ migration[m].resumeIssued
    /\ migration[m].epochAfter = sandbox[migration[m].sandbox].epoch

\* The one worker the guest may run on: the destination of the last resume, before any the
\* owner.  (Until the cutover commits it is not the owner; it may never be, if the migration is
\* orphaned.)
MayRun(w) ==
    IF \E m \in Migrations : Resumed(m)
    THEN \E m \in Migrations : Resumed(m) /\ migration[m].destination = w
    ELSE \E s \in Sandboxes : sandbox[s].worker = w

LEMMA OneMayRun ==
    ASSUME CoordinatorInv, NEW v, NEW w, MayRun(v), MayRun(w) PROVE v = w
<1>1. ASSUME NEW m \in Migrations, NEW n \in Migrations, Resumed(m), Resumed(n) PROVE m = n
  <2>1. migration[m].sandbox \in Sandboxes /\ migration[n].sandbox \in Sandboxes
    BY <1>1 DEF Resumed, Rows, CoordinatorInv, TypeOK, MigrationRow
  <2>2. migration[m].sandbox = migration[n].sandbox
    BY <2>1, OneSandboxAssumption
  <2> QED BY <1>1, <2>2 DEF Resumed, CoordinatorInv, ResumeEpochsDiffer
<1> QED BY <1>1, OneSandboxAssumption DEF MayRun

\* While the row says that the guest runs, or still runs, on the owner, that is where it may.
LEMMA OwnerMayRun ==
    ASSUME CoordinatorInv, NEW s \in Sandboxes, sandbox[s].state \in {"running", "migrating"}
    PROVE  MayRun(sandbox[s].worker)
<1>1. ASSUME NEW m \in Migrations, Resumed(m) PROVE migration[m].destination = sandbox[s].worker
  <2>1. m \in Rows /\ RowAgrees(m) /\ migration[m].sandbox \in Sandboxes
        /\ migration[m] \in MigrationRow
    BY <1>1 DEF Resumed, Rows, CoordinatorInv, RowsAgree, TypeOK, MigrationRow
  <2>2. migration[m].sandbox = s
    BY <2>1, OneSandboxAssumption
  <2>3. migration[m].phase \in PostResumePhases \cup {"DONE", "ORPHANED_AMBIGUOUS"}
    BY <1>1 DEF Resumed, CoordinatorInv, ResumeBoundary
  <2>4. CASE migration[m].phase \in {"CLEANUP", "DONE"}
    BY <1>1, <2>1, <2>2, <2>4 DEF RowAgrees, Resumed
  <2>5. migration[m].phase # "ORPHANED_AMBIGUOUS"
    BY <1>1, <2>1, <2>2 DEF RowAgrees, Resumed
  <2>6. migration[m].phase \notin {"RESUMING", "VERIFYING", "CUTOVER"}
    BY <1>1, <2>1, <2>2 DEF RowAgrees, Resumed, Terminal, TerminalPhases
  <2> QED BY <2>3, <2>4, <2>5, <2>6 DEF PostResumePhases
<1> QED BY <1>1 DEF MayRun

OwnersMayRun ==
    \A s \in Sandboxes : sandbox[s].state \in {"running", "migrating"} => MayRun(sandbox[s].worker)

ThereIsOnePlace == \A v, w : MayRun(v) /\ MayRun(w) => v = w

OneMigration == \A m, n : Nonterminal(m) /\ Nonterminal(n) => m = n

\* The same of a step's next state.
LEMMA OneNow == CoordinatorInv => OwnersMayRun /\ ThereIsOnePlace /\ OneMigration
<1>1. CoordinatorInv => OwnersMayRun
  BY OwnerMayRun DEF OwnersMayRun
<1>2. CoordinatorInv => ThereIsOnePlace
  BY OneMayRun DEF ThereIsOnePlace
<1>3. CoordinatorInv => OneMigration
  BY OneAtATime DEF OneMigration
<1> QED BY <1>1, <1>2, <1>3

LEMMA OneNext == CoordinatorInv' => OwnersMayRun' /\ ThereIsOnePlace' /\ OneMigration'
BY OneNow, PTL

\* Only the resume moves it.
LEMMA MayRunStays ==
    ASSUME CoordinatorInv, CoordinatorStep, NEW w, MayRun(w), \A m \in Migrations : ~Loaded(m)
    PROVE  MayRun(w)'
<1>0. /\ [Next]_vars /\ CoordinatorInv'
      /\ sandbox \in [Sandboxes -> SandboxRow]
      /\ migration \in [Migrations -> MigrationRow \cup {NoRow}]
      /\ \A s, t \in Sandboxes : s = t
      /\ \A m \in Rows : migration[m] \in MigrationRow /\ RowAgrees(m)
                         /\ m \in Migrations /\ migration[m].sandbox \in Sandboxes
  <2>1. [Next]_vars
    BY StepImplementsCoordinator DEF MigrationNext
  <2>2. CoordinatorInv'
    BY <2>1, CoordinatorStepKeeps
  <2> QED BY <2>1, <2>2, OneSandboxAssumption
          DEF CoordinatorInv, TypeOK, Rows, RowsAgree, MigrationRow
\* The epoch stays, nothing more is resumed, and the owner changes after a resume only.
<1>1. ASSUME \A s \in Sandboxes : sandbox'[s].epoch = sandbox[s].epoch,
             \A m \in Rows' : migration'[m].resumeIssued => m \in Rows /\ migration[m].resumeIssued,
             \/ \A s \in Sandboxes : sandbox'[s].worker = sandbox[s].worker
             \/ \E m \in Migrations : Resumed(m)
      PROVE  MayRun(w)'
  <2>1. ASSUME NEW m \in Migrations, Resumed(m)
        PROVE  Resumed(m)' /\ migration'[m].destination = migration[m].destination
    BY <1>0, <1>1, <2>1, RowKeeps DEF Resumed
  <2>2. ASSUME NEW m \in Migrations, Resumed(m)' PROVE Resumed(m)
    <3>1. m \in Rows /\ migration[m].resumeIssued
      BY <1>1, <2>2 DEF Resumed
    <3> QED BY <1>0, <1>1, <2>2, <3>1, RowKeeps DEF Resumed
  <2> QED BY <1>1, <2>1, <2>2 DEF MayRun
<1>2. ASSUME NEW s \in Sandboxes, NEW dest \in Destinations, NEW key \in Keys,
             NEW m \in Migrations, StartMigration(s, dest, key, m)
      PROVE  MayRun(w)'
  <2>1. \A t \in Sandboxes : sandbox'[t].epoch = sandbox[t].epoch
                             /\ sandbox'[t].worker = sandbox[t].worker
    BY <1>0, <1>2 DEF StartMigration, SandboxRow
  <2>2. ASSUME NEW n \in Rows', migration'[n].resumeIssued
        PROVE  n \in Rows /\ migration[n].resumeIssued
    <3>1. n # m => migration'[n] = migration[n]
      BY <1>0, <1>2, <2>2 DEF StartMigration, Rows
    <3>2. migration'[m].resumeIssued = FALSE
      BY <1>0, <1>2 DEF StartMigration
    <3> QED BY <2>2, <3>1, <3>2 DEF Rows
  <2> QED BY <1>1, <2>1, <2>2
<1>3. ASSUME NEW m \in Migrations, NEW to \in PlainTargets, Advance(m, to)
      PROVE  MayRun(w)'
  <2>1. /\ m \in Rows
        /\ migration' = [migration EXCEPT ![m].phase = to]
        /\ sandbox' = [sandbox EXCEPT ![migration[m].sandbox] = Finalized(@, to)]
    BY <1>0, <1>3, MovedRow DEF Advance, Transition, CoordinatorInv, Nonterminal
  <2>2. \A t \in Sandboxes : sandbox'[t].epoch = sandbox[t].epoch
                             /\ sandbox'[t].worker = sandbox[t].worker
    BY <1>0, <2>1 DEF Finalized, SandboxRow
  <2>3. ASSUME NEW n \in Rows', migration'[n].resumeIssued
        PROVE  n \in Rows /\ migration[n].resumeIssued
    BY <1>0, <2>1, <2>3 DEF Rows, MigrationRow
  <2> QED BY <1>1, <2>2, <2>3
<1>4. ASSUME NEW m \in Migrations, TransferOwnership(m) PROVE MayRun(w)'
  <2>1. /\ m \in Rows /\ CanTransition(migration[m].phase, "CLEANUP") /\ Nonterminal(m)
        /\ migration' = [migration EXCEPT ![m].phase = "CLEANUP"]
        /\ sandbox' = [sandbox EXCEPT ![migration[m].sandbox].worker = migration[m].destination,
                                      ![migration[m].sandbox].generation = @ + 1,
                                      ![migration[m].sandbox].state = "running"]
    BY <1>0, <1>4, MovedRow DEF TransferOwnership, CompleteCutover, CoordinatorInv, Nonterminal
  <2>2. migration[m].phase = "CUTOVER"
    BY <2>1 DEF CanTransition, NormalTransitions
  <2>3. migration[m].resumeIssued
    BY <2>1, <2>2 DEF CoordinatorInv, ResumeBoundary, PostResumePhases
  <2>4. Resumed(m)
    BY <1>0, <2>1, <2>3 DEF Resumed, RowAgrees, Nonterminal
  <2>5. \A t \in Sandboxes : sandbox'[t].epoch = sandbox[t].epoch
    BY <1>0, <2>1 DEF SandboxRow
  <2>6. ASSUME NEW n \in Rows', migration'[n].resumeIssued
        PROVE  n \in Rows /\ migration[n].resumeIssued
    BY <1>0, <2>1, <2>6 DEF Rows, MigrationRow
  <2> QED BY <1>1, <2>4, <2>5, <2>6
<1>5. CASE UNCHANGED store
  BY <1>1, <1>5 DEF store, Rows
<1> QED BY <1>2, <1>3, <1>4, <1>5, TransactionStep

-----------------------------------------------------------------------------
(* One live guest: the snapshot stops it first.                            *)

\* The guest does not run on w, and no handler there is to let it.
Stopped(w) ==
    /\ ~RunsOn(w)
    /\ \A r \in requests : r.op \in Starts => r.worker # w

\* The guest runs, and is let run, only where it may.
OnePlace ==
    /\ \A w \in Workers : RunsOn(w) => MayRun(w)
    /\ \A r \in requests : r.op \in Starts => MayRun(r.worker)

\* m has got as far as its snapshot.
Asked(m) == m \in Rows /\ migration[m].phase \notin PrepausePhases \cup {"PAUSING"}

SnapshotsAsked ==
    /\ \A r \in requests : r.op = "snapshot" => Asked(r.m)
    /\ \A w \in Workers : \A entry \in manifests[w] : Asked(entry[1])

\* A snapshot still to be written that its migration waits for, or would again, is behind
\* whatever might still let the guest run: an abandoned rollback of the migration before.
SnapshotsLast ==
    \A q \in requests :
        q.op = "snapshot" /\ q.turn > 0 /\ migration[q.m].phase = "SNAPSHOTTING" =>
            \A r \in requests : r.op \in Starts /\ r.worker = q.worker =>
                0 < r.turn /\ r.turn < q.turn

\* m has its snapshot, or its source has it for m, be it only with the handler.
HasSnapshot(m) ==
    \/ migration[m].phase \in {"TRANSFERRING", "LOADING"}
    \/ /\ migration[m].phase = "SNAPSHOTTING"
       /\ \/ Got(m, "snapshot")
          \/ \E entry \in manifests[migration[m].source] : entry[1] = m
          \/ \E q \in SnapshotWritten : q.m = m

\* From the snapshot to the resume the source is stopped, whatever is late.
SnapshotStops == \A m \in Rows : HasSnapshot(m) => Stopped(migration[m].source)

LiveInv == ~LateDelivery /\ OnePlace /\ SnapshotsAsked /\ SnapshotsLast /\ SnapshotStops

\* n comes to this phase by the answer to its call.
RestsOnAnswer(n, phase) ==
    /\ phase = "PROBING"      => Got(n, "prestage")
    /\ phase = "TRANSFERRING" => Got(n, "snapshot")
    /\ phase = "DONE"         => Got(n, "fence")

\* The phase of a row moves as the rules say.
LEMMA PhaseMoves ==
    ASSUME CoordinatorInv, CoordinatorStep, NEW n \in Rows
    PROVE  \/ migration'[n].phase = migration[n].phase
           \/ /\ CanTransition(migration[n].phase, migration'[n].phase)
              /\ RestsOnAnswer(n, migration'[n].phase)
<1>0. TypeOK /\ migration[n] \in MigrationRow /\ n \in Migrations
  BY DEF CoordinatorInv, TypeOK, Rows
<1>1. ASSUME NEW s \in Sandboxes, NEW dest \in Destinations, NEW key \in Keys,
             NEW m \in Migrations, StartMigration(s, dest, key, m)
      PROVE  migration'[n] = migration[n]
  BY <1>0, <1>1 DEF StartMigration, TypeOK
<1>2. ASSUME NEW m \in Migrations, NEW to \in PlainTargets, Advance(m, to),
             \/ to \in {"RESERVING", "FAILED", "ROLLING_BACK_SOURCE", "ORPHANED_AMBIGUOUS"}
             \/ \E c \in AdvancingCalls : to = PhaseAfter(c) /\ Got(m, c)
      PROVE  \/ migration'[n].phase = migration[n].phase
             \/ /\ CanTransition(migration[n].phase, migration'[n].phase)
                /\ RestsOnAnswer(n, migration'[n].phase)
  <2>1. migration' = [migration EXCEPT ![m].phase = to] /\ CanTransition(migration[m].phase, to)
    BY <1>2 DEF Advance, Transition
  <2>2. CASE n # m
    BY <1>0, <2>1, <2>2 DEF TypeOK
  <2>3. CASE n = m
    <3>1. migration'[n].phase = to
      BY <1>0, <2>1, <2>3 DEF TypeOK, MigrationRow
    <3>2. RestsOnAnswer(n, to)
      BY <1>2, <2>3 DEF PhaseAfter, AdvancingCalls, Calls, RestsOnAnswer
    <3> QED BY <2>1, <2>3, <3>1, <3>2
  <2> QED BY <2>2, <2>3
<1>3. ASSUME NEW m \in Migrations, NEW to \in {"RESUMING", "CLEANUP"},
             CanTransition(migration[m].phase, to), n # m => migration'[n] = migration[n],
             n = m => migration'[n].phase = to
      PROVE  \/ migration'[n].phase = migration[n].phase
             \/ /\ CanTransition(migration[n].phase, migration'[n].phase)
                /\ RestsOnAnswer(n, migration'[n].phase)
  BY <1>3 DEF RestsOnAnswer
<1>4. ASSUME NEW m \in Migrations, Loaded(m)
      PROVE  /\ CanTransition(migration[m].phase, "RESUMING")
             /\ n # m => migration'[n] = migration[n]
             /\ n = m => migration'[n].phase = "RESUMING"
  BY <1>0, <1>4 DEF Loaded, IssueResume, TypeOK, MigrationRow
<1>5. ASSUME NEW m \in Migrations, TransferOwnership(m)
      PROVE  /\ CanTransition(migration[m].phase, "CLEANUP")
             /\ n # m => migration'[n] = migration[n]
             /\ n = m => migration'[n].phase = "CLEANUP"
  BY <1>0, <1>5 DEF TransferOwnership, CompleteCutover, TypeOK, MigrationRow
<1>6. UNCHANGED store => migration'[n] = migration[n]
  BY DEF store
<1> QED BY <1>1, <1>2, <1>3, <1>4, <1>5, <1>6, TransactionStep

LEMMA NewRow ==
    ASSUME CoordinatorInv, CoordinatorStep, NEW n \in Rows', n \notin Rows
    PROVE  migration'[n].phase = "PREPARING"
<1>0. n \in Migrations /\ TypeOK /\ migration[n] = NoRow
  BY DEF Rows, CoordinatorInv
<1>1. ASSUME NEW s \in Sandboxes, NEW dest \in Destinations, NEW key \in Keys,
             NEW m \in Migrations, StartMigration(s, dest, key, m)
      PROVE  migration'[n].phase = "PREPARING"
  BY <1>0, <1>1 DEF StartMigration, TypeOK, Rows
<1>2. ASSUME NEW m \in Migrations, NEW to \in PlainTargets, Advance(m, to)
      PROVE  migration'[n] = migration[n]
  BY <1>0, <1>2, MovedRow DEF Advance, Transition, Nonterminal, TypeOK
<1>3. ASSUME NEW m \in Migrations, Loaded(m) PROVE migration'[n] = migration[n]
  BY <1>0, <1>3, MovedRow DEF Loaded, IssueResume, Nonterminal, TypeOK
<1>4. ASSUME NEW m \in Migrations, TransferOwnership(m) PROVE migration'[n] = migration[n]
  BY <1>0, <1>4, MovedRow DEF TransferOwnership, CompleteCutover, Nonterminal, TypeOK
<1>5. UNCHANGED store => migration'[n] = migration[n]
  BY DEF store
<1> QED BY <1>0, <1>1, <1>2, <1>3, <1>4, <1>5, TransactionStep DEF Rows

\* What the requests of a coordinator's step that let the guest run say of their rows.
LEMMA StartsSent ==
    ASSUME CoordinatorInv', RequestsInv', NEW new, Sending(new), NEW r \in new, r \in requests'
    PROVE  /\ r.m \in Rows' /\ Nonterminal(r.m)'
           /\ migration'[r.m].phase = PhaseOf(r.op)
           /\ r.op \in Starts => MayRun(r.worker)'
<1>1. /\ r.m \in Migrations /\ r.m \in Rows' /\ call'[r.m] = r.op /\ r.op \in Calls
      /\ r.worker = IF r.op \in DestinationCalls THEN migration'[r.m].destination
                                                 ELSE migration'[r.m].source
  BY DEF Sending, RequestsInv, RequestOK, Rows
<1>2. CallOfPhase(r.m)' /\ RowAgrees(r.m)' /\ migration'[r.m].sandbox \in Sandboxes
  BY <1>1 DEF CoordinatorInv, CallsOfPhases, RowsAgree, TypeOK, Rows, MigrationRow
<1>3. Nonterminal(r.m)' /\ migration'[r.m].phase = PhaseOf(r.op)
  BY <1>1, <1>2 DEF CallOfPhase, Blocked, Calls
<1>4. ASSUME r.op = "resume" PROVE MayRun(r.worker)'
  <2>1. migration'[r.m].phase = "RESUMING" /\ r.worker = migration'[r.m].destination
    BY <1>1, <1>3, <1>4 DEF PhaseOf, DestinationCalls
  <2>2. migration'[r.m].resumeIssued
    BY <1>1, <2>1 DEF CoordinatorInv, ResumeBoundary, PostResumePhases
  <2>3. Resumed(r.m)'
    BY <1>1, <1>2, <2>1, <2>2 DEF Resumed, RowAgrees, Terminal, TerminalPhases
  <2> QED BY <1>1, <2>1, <2>3 DEF MayRun
<1>5. ASSUME r.op = "rollback" PROVE MayRun(r.worker)'
  <2>1. migration'[r.m].phase = "ROLLING_BACK_SOURCE" /\ r.worker = migration'[r.m].source
    BY <1>1, <1>3, <1>5 DEF PhaseOf, DestinationCalls
  <2>2. ~migration'[r.m].resumeIssued
    BY <1>1, <2>1 DEF CoordinatorInv, ResumeBoundary, PostResumePhases
  <2>3. sandbox'[migration'[r.m].sandbox].state = "migrating"
    BY <1>2, <2>1, <2>2 DEF RowAgrees, Terminal, TerminalPhases
  <2>4. sandbox'[migration'[r.m].sandbox].worker = migration'[r.m].source
    BY <1>1, <1>3, <2>1 DEF CoordinatorInv, OwnerFollowsCutover
  <2> QED BY <1>2, <2>1, <2>3, <2>4, OneNext DEF OwnersMayRun
<1> QED BY <1>1, <1>3, <1>4, <1>5 DEF Starts

\* A source that was not taken over yet is where the guest may run.
LEMMA SourceMayRun ==
    ASSUME CoordinatorInv, NEW m, m \in Rows, migration[m].phase \in RollbackPhases
    PROVE  MayRun(migration[m].source)
<1>1. m \in Migrations /\ Nonterminal(m) /\ migration[m].sandbox \in Sandboxes /\ RowAgrees(m)
  BY DEF Rows, Nonterminal, CoordinatorInv, TypeOK, MigrationRow, RowsAgree, RollbackPhases,
         Terminal, TerminalPhases
<1>2. ~migration[m].resumeIssued
  BY DEF CoordinatorInv, ResumeBoundary, PostResumePhases, RollbackPhases
<1>3. sandbox[migration[m].sandbox].state = "migrating"
  BY <1>1, <1>2 DEF RowAgrees, Nonterminal
<1>4. sandbox[migration[m].sandbox].worker = migration[m].source
  BY <1>1 DEF CoordinatorInv, OwnerFollowsCutover, RollbackPhases
<1> QED BY <1>1, <1>3, <1>4, OneNow DEF OwnersMayRun

LEMMA AskedStays ==
    ASSUME CoordinatorInv, CoordinatorStep, NEW n, Asked(n) PROVE Asked(n)'
<1>1. n \in Rows /\ n \in Rows'
  <2>1. [Next]_vars
    BY StepImplementsCoordinator DEF MigrationNext
  <2> QED BY <2>1, RowKeeps DEF Asked
<1>2. CASE migration'[n].phase = migration[n].phase
  BY <1>1, <1>2 DEF Asked
<1>3. CASE CanTransition(migration[n].phase, migration'[n].phase)
  BY <1>1, <1>3 DEF Asked, CanTransition, NormalTransitions, PrepausePhases, RollbackPhases,
                    PostResumePhases
<1> QED BY <1>1, <1>2, <1>3, PhaseMoves

LEMMA LiveCoordinatorStep ==
    ASSUME CoordinatorInv, RequestsInv, LiveInv, CoordinatorStep PROVE LiveInv'
<1>0. /\ [Next]_vars /\ CoordinatorInv' /\ RequestsInv' /\ NoAnswers
      /\ UNCHANGED <<vm, manifests>>
  <2>1. [Next]_vars
    BY StepImplementsCoordinator DEF MigrationNext
  <2> QED BY <2>1, CoordinatorStepKeeps, CoordinatorRequests DEF CoordinatorStep, workers
<1>1. PICK kept, f, new : Carried(kept, f, new) /\ Sending(new)
  BY CoordinatorRequests
\* A request is sent in this step, or carried along.
<1>2. ASSUME NEW r \in requests', r \notin new
      PROVE  \E q \in kept : q \in requests /\ r = f[q] /\ Same(r, q)
  BY <1>1, <1>2 DEF Carried
<1>3. ASSUME NEW r \in requests', r \in new
      PROVE  /\ r.stage = "sent" /\ r.m \in Rows' /\ Nonterminal(r.m)'
             /\ migration'[r.m].phase = PhaseOf(r.op)
             /\ r.op \in Starts => MayRun(r.worker)'
  <2>1. r.stage = "sent"
    BY <1>1, <1>3 DEF Sending
  <2> QED BY <1>0, <1>1, <1>3, <2>1, StartsSent
\* None of those sent lets a guest run whose snapshot is under way.
<1>4. ASSUME NEW n \in Rows', migration'[n].phase \in {"SNAPSHOTTING", "TRANSFERRING", "LOADING"},
             NEW r \in requests', r \in new
      PROVE  r.op \notin Starts
  <2>1. Nonterminal(n)'
    BY <1>4 DEF Nonterminal, Terminal, TerminalPhases
  <2>2. n = r.m
    BY <1>0, <1>3, <1>4, <2>1, OneNext DEF OneMigration
  <2> QED BY <1>3, <1>4, <2>2 DEF Starts, PhaseOf
<1>5. OnePlace'
  <2>1. ASSUME \A w : MayRun(w) => MayRun(w)' PROVE OnePlace'
    <3>1. ASSUME NEW r \in requests', r.op \in Starts PROVE MayRun(r.worker)'
      <4>1. CASE r \in new
        BY <1>3, <3>1, <4>1
      <4>2. CASE r \notin new
        BY <1>2, <2>1, <3>1, <4>2 DEF LiveInv, OnePlace, Same
      <4> QED BY <4>1, <4>2
    <3>2. \A w \in Workers : RunsOn(w)' => MayRun(w)'
      BY <1>0, <2>1 DEF LiveInv, OnePlace, RunsOn
    <3> QED BY <3>1, <3>2 DEF OnePlace
  <2>2. ASSUME NEW m \in Migrations, Loaded(m) PROVE OnePlace'
    <3>1. m \in Rows /\ migration[m].phase = "LOADING"
      BY <2>2, MovedRow DEF Loaded, IssueResume, CanTransition, NormalTransitions,
                            CoordinatorInv, Nonterminal, PrepausePhases, RollbackPhases,
                            PostResumePhases
    <3>2. MayRun(migration[m].source)
      BY <3>1, SourceMayRun DEF RollbackPhases
    <3>3. Stopped(migration[m].source)
      BY <3>1 DEF LiveInv, SnapshotStops, HasSnapshot
    <3>4. \A w \in Workers : ~RunsOn(w)
      BY <3>2, <3>3, OneNow DEF LiveInv, OnePlace, Stopped, ThereIsOnePlace
    <3>5. \A q \in requests : q.op \notin Starts
      BY <3>2, <3>3, OneNow DEF LiveInv, OnePlace, Stopped, ThereIsOnePlace
    <3>6. ASSUME NEW r \in requests', r.op \in Starts PROVE MayRun(r.worker)'
      BY <1>2, <1>3, <3>5, <3>6 DEF Same
    <3> QED BY <1>0, <3>4, <3>6 DEF OnePlace, RunsOn
  <2> QED BY <2>1, <2>2, MayRunStays
<1>6. SnapshotsAsked'
  <2>1. ASSUME NEW r \in requests', r.op = "snapshot" PROVE Asked(r.m)'
    <3>1. CASE r \in new
      BY <1>3, <2>1, <3>1 DEF Asked, PhaseOf, PrepausePhases
    <3>2. CASE r \notin new
      BY <1>2, <2>1, <3>2, AskedStays DEF LiveInv, SnapshotsAsked, Same
    <3> QED BY <3>1, <3>2
  <2>2. ASSUME NEW w \in Workers, NEW entry \in manifests'[w] PROVE Asked(entry[1])'
    BY <1>0, <2>2, AskedStays DEF LiveInv, SnapshotsAsked
  <2> QED BY <2>1, <2>2 DEF SnapshotsAsked
\* A migration that snapshots, and did ask for it before, did so before.
<1>7. ASSUME NEW n, Asked(n), migration'[n].phase = "SNAPSHOTTING"
      PROVE  migration[n].phase = "SNAPSHOTTING"
  <2>1. n \in Rows
    BY <1>7 DEF Asked
  <2>2. CASE CanTransition(migration[n].phase, "SNAPSHOTTING")
    BY <1>7, <2>2 DEF Asked, CanTransition, NormalTransitions
  <2> QED BY <1>7, <2>1, <2>2, PhaseMoves
<1>8. SnapshotsLast'
  <2> SUFFICES ASSUME NEW q \in requests', q.op = "snapshot", q.turn > 0,
                      migration'[q.m].phase = "SNAPSHOTTING",
                      NEW r \in requests', r.op \in Starts, r.worker = q.worker
               PROVE  0 < r.turn /\ r.turn < q.turn
    BY DEF SnapshotsLast
  <2>1. q \notin new
    BY <1>0, <1>3 DEF RequestsInv, RequestOK
  <2>2. PICK q0 \in kept : q0 \in requests /\ q = f[q0] /\ Same(q, q0)
    BY <1>2, <2>1
  <2>3. migration[q0.m].phase = "SNAPSHOTTING"
    BY <1>7, <2>2 DEF LiveInv, SnapshotsAsked, Same
  <2>4. q.m \in Rows'
    BY <1>0 DEF RequestsInv, RequestOK
  <2>5. r \notin new
    BY <1>4, <2>4
  <2>6. PICK r0 \in kept : r0 \in requests /\ r = f[r0] /\ Same(r, r0)
    BY <1>2, <2>5
  <2>7. 0 < r0.turn /\ r0.turn < q0.turn
    BY <1>1, <2>2, <2>3, <2>6 DEF LiveInv, SnapshotsLast, Same, Carried
  <2>8. r.turn < q.turn /\ r.turn > 0
    BY <1>1, <2>2, <2>6, <2>7 DEF Carried, Same
  <2> QED BY <2>8
<1>9. SnapshotStops'
  <2> SUFFICES ASSUME NEW n \in Rows', HasSnapshot(n)' PROVE Stopped(migration[n].source)'
    BY DEF SnapshotStops
  <2>1. n \in Migrations /\ migration'[n].phase \in {"SNAPSHOTTING", "TRANSFERRING", "LOADING"}
    BY DEF HasSnapshot, Rows
  <2>2. n \in Rows
    BY <2>1, NewRow
  <2>3. migration'[n].source = migration[n].source
    BY <1>0, <2>2, RowKeeps
  <2>4. HasSnapshot(n)
    <3>1. CASE migration'[n].phase = "TRANSFERRING"
      <4>1. CASE CanTransition(migration[n].phase, "TRANSFERRING")
        BY <2>2, <3>1, <4>1, PhaseMoves
           DEF CanTransition, NormalTransitions, HasSnapshot, RestsOnAnswer
      <4> QED BY <2>2, <3>1, <4>1, PhaseMoves DEF HasSnapshot
    <3>2. CASE migration'[n].phase = "LOADING"
      <4>1. CASE CanTransition(migration[n].phase, "LOADING")
        BY <4>1 DEF CanTransition, NormalTransitions, HasSnapshot
      <4> QED BY <2>2, <3>2, <4>1, PhaseMoves DEF HasSnapshot
    <3>3. CASE Got(n, "snapshot")' /\ migration'[n].phase = "SNAPSHOTTING"
      <4>1. Got(n, "snapshot")
        BY <1>0, <2>1, <3>3 DEF NoAnswers, Got, Calls
      <4>2. migration[n].phase = "SNAPSHOTTING"
        BY <2>1, <4>1 DEF CoordinatorInv, CallsOfPhases, CallOfPhase, Got, Calls, Blocked, PhaseOf
      <4> QED BY <4>1, <4>2 DEF HasSnapshot
    <3>4. ASSUME NEW entry \in manifests[migration[n].source], entry[1] = n,
                 migration'[n].phase = "SNAPSHOTTING"
          PROVE  HasSnapshot(n)
      <4>1. migration[n].source \in Workers
        BY <2>1, <2>2, DestinationsAssumption DEF CoordinatorInv, TypeOK, MigrationRow, Rows
      <4>2. Asked(n)
        BY <3>4, <4>1 DEF LiveInv, SnapshotsAsked
      <4> QED BY <1>7, <3>4, <4>2 DEF HasSnapshot
    <3>5. ASSUME NEW q \in SnapshotWritten', q.m = n, migration'[n].phase = "SNAPSHOTTING"
          PROVE  HasSnapshot(n)
      <4>1. q \in requests' /\ q.op = "snapshot" /\ q.stage = "running" /\ q \notin new
        BY <1>3, <3>5 DEF SnapshotWritten, Running
      <4>2. PICK q0 \in kept : q0 \in requests /\ q = f[q0] /\ Same(q, q0)
        BY <1>2, <4>1
      <4>3. q0 \in SnapshotWritten /\ q0.m = n /\ q0.op = "snapshot"
        BY <1>1, <3>5, <4>1, <4>2 DEF SnapshotWritten, Running, Carried, Same, RequestsInv,
                                      RequestTypes, CallRequest
      <4>4. migration[n].phase = "SNAPSHOTTING"
        BY <1>7, <3>5, <4>2, <4>3 DEF LiveInv, SnapshotsAsked
      <4> QED BY <4>3, <4>4 DEF HasSnapshot
    <3> QED BY <1>0, <2>3, <3>1, <3>2, <3>3, <3>4, <3>5 DEF HasSnapshot
  <2>5. Stopped(migration[n].source)
    BY <2>2, <2>4 DEF LiveInv, SnapshotStops
  <2>6. ASSUME NEW r \in requests', r.op \in Starts PROVE r.worker # migration[n].source
    <3>1. r \notin new
      BY <1>4, <2>1, <2>6
    <3> QED BY <1>2, <2>5, <2>6, <3>1 DEF Stopped, Same
  <2> QED BY <1>0, <2>3, <2>5, <2>6 DEF Stopped, RunsOn
<1> QED BY <1>5, <1>6, <1>8, <1>9 DEF LiveInv

\* The handlers keep to it when a guest begins to run through a resume or a rollback only, and
\* a snapshot is there only when it was taken or found.
LEMMA LivePeers ==
    ASSUME CoordinatorInv, RequestsInv, LiveInv, UNCHANGED <<coordinator, manifest>>,
           OldRequests, SnapshotsLast',
           \A w \in Workers : RunsOn(w)' =>
               RunsOn(w) \/ \E r \in requests : r.op \in Starts /\ r.worker = w,
           \A w \in Workers : \A entry \in manifests'[w] :
               \/ entry \in manifests[w]
               \/ \E r \in requests : SnapshotTaken(r) /\ r.worker = w /\ entry[1] = r.m,
           \A m \in Migrations : Got(m, "snapshot")' =>
               \/ Got(m, "snapshot")
               \/ \E r \in requests : /\ r.m = m /\ r.op = "snapshot"
                                      /\ SnapshotTaken(r) \/ SnapshotKept(r),
           \A q \in SnapshotWritten' : \E r \in requests :
               r.m = q.m /\ (r \in SnapshotWritten \/ SnapshotDue(r))
    PROVE  LiveInv'
<1>0. UNCHANGED <<sandbox, migration, call>>
  BY DEF coordinator, store
<1>1. \A w : MayRun(w) => MayRun(w)'
  BY <1>0 DEF MayRun, Resumed, Rows
<1>2. \A n : Asked(n) => Asked(n)'
  BY <1>0 DEF Asked, Rows
<1>3. OnePlace'
  BY <1>1 DEF LiveInv, OnePlace, OldRequests
<1>4. SnapshotsAsked'
  <2>1. \A r \in requests' : r.op = "snapshot" => Asked(r.m)'
    BY <1>2 DEF LiveInv, SnapshotsAsked, OldRequests
  <2>2. ASSUME NEW w \in Workers, NEW entry \in manifests'[w] PROVE Asked(entry[1])'
    <3>1. CASE entry \in manifests[w]
      BY <1>2, <3>1 DEF LiveInv, SnapshotsAsked
    <3>2. ASSUME NEW r \in requests, SnapshotTaken(r), entry[1] = r.m PROVE Asked(entry[1])'
      BY <1>2, <3>2 DEF LiveInv, SnapshotsAsked, SnapshotTaken
    <3> QED BY <2>2, <3>1, <3>2
  <2> QED BY <2>1, <2>2 DEF SnapshotsAsked
\* Once stopped it stays so, and writing a snapshot finds it stopped.
<1>5. ASSUME NEW w \in Workers, Stopped(w) PROVE Stopped(w)'
  BY <1>5 DEF Stopped, OldRequests
<1>6. ASSUME NEW r \in requests, SnapshotDue(r), migration[r.m].phase = "SNAPSHOTTING"
      PROVE  Stopped(r.worker)
  <2>1. ~RunsOn(r.worker)
    BY <1>6 DEF SnapshotDue, RunsOn
  <2>2. ASSUME NEW q \in requests, q.op \in Starts, q.worker = r.worker PROVE FALSE
    <3>1. 0 < q.turn /\ q.turn < 1 /\ q.turn \in Nat
      BY <1>6, <2>2 DEF LiveInv, SnapshotsLast, SnapshotDue, AtFirecracker, RequestsInv,
                        RequestTypes, CallRequest
    <3> QED BY <3>1
  <2> QED BY <2>1, <2>2 DEF Stopped
<1>7. SnapshotStops'
  <2> SUFFICES ASSUME NEW n \in Rows', HasSnapshot(n)' PROVE Stopped(migration[n].source)'
    BY DEF SnapshotStops
  <2>1. n \in Rows /\ n \in Migrations /\ migration[n].source \in Workers
    BY <1>0, DestinationsAssumption DEF Rows, CoordinatorInv, TypeOK, MigrationRow
  <2>2. ASSUME NEW r \in requests, r.m = n, r.op = "snapshot" PROVE r.worker = migration[n].source
    BY <2>2 DEF RequestsInv, RequestOK, DestinationCalls
  <2>a. ASSUME NEW r \in requests, r.m = n, r.op = "snapshot", SnapshotTaken(r) \/ SnapshotKept(r),
               migration[n].phase = "SNAPSHOTTING"
        PROVE  HasSnapshot(n)
    BY <2>2, <2>a DEF SnapshotTaken, SnapshotKept, HasSnapshot
  <2>3. \/ HasSnapshot(n)
        \/ /\ migration[n].phase = "SNAPSHOTTING"
           /\ \E r \in requests : r.m = n /\ SnapshotDue(r) /\ r.worker = migration[n].source
    <3>1. CASE Got(n, "snapshot")' /\ migration[n].phase = "SNAPSHOTTING"
      <4>1. CASE Got(n, "snapshot")
        BY <3>1, <4>1 DEF HasSnapshot
      <4> QED BY <2>1, <2>a, <3>1, <4>1
    <3>2. ASSUME NEW entry \in manifests'[migration[n].source], entry[1] = n,
                 migration[n].phase = "SNAPSHOTTING"
          PROVE  HasSnapshot(n)
      BY <2>1, <2>a, <3>2 DEF HasSnapshot, SnapshotTaken
    <3>3. CASE migration[n].phase \in {"TRANSFERRING", "LOADING"}
      BY <3>3 DEF HasSnapshot
    <3>4. ASSUME NEW q \in SnapshotWritten', q.m = n, migration[n].phase = "SNAPSHOTTING"
          PROVE  \/ HasSnapshot(n)
                 \/ \E r \in requests : r.m = n /\ SnapshotDue(r) /\ r.worker = migration[n].source
      <4>1. PICK r \in requests : r.m = n /\ (r \in SnapshotWritten \/ SnapshotDue(r))
        BY <3>4
      <4>2. CASE r \in SnapshotWritten
        BY <3>4, <4>1, <4>2 DEF HasSnapshot
      <4>3. CASE SnapshotDue(r)
        BY <2>2, <4>1, <4>3 DEF SnapshotDue
      <4> QED BY <4>1, <4>2, <4>3
    <3>5. \/ migration[n].phase \in {"TRANSFERRING", "LOADING"}
          \/ /\ migration[n].phase = "SNAPSHOTTING"
             /\ \/ Got(n, "snapshot")'
                \/ \E entry \in manifests'[migration[n].source] : entry[1] = n
                \/ \E q \in SnapshotWritten' : q.m = n
      BY <1>0 DEF HasSnapshot
    <3> QED BY <3>1, <3>2, <3>3, <3>4, <3>5
  <2>4. Stopped(migration[n].source)
    BY <1>6, <2>1, <2>3 DEF LiveInv, SnapshotStops
  <2> QED BY <1>0, <1>5, <2>1, <2>4
<1> QED BY <1>3, <1>4, <1>7 DEF LiveInv

\* Nobody overtakes a snapshot.
LEMMA CarriedSnapshotsLast ==
    ASSUME LiveInv, UNCHANGED migration, NEW kept, NEW f, NEW new, Carried(kept, f, new),
           \A n \in new : n.op \notin Starts /\ ~(n.turn > 0)
    PROVE  SnapshotsLast'
<1> SUFFICES ASSUME NEW q \in requests', q.op = "snapshot", q.turn > 0,
                    migration[q.m].phase = "SNAPSHOTTING",
                    NEW r \in requests', r.op \in Starts, r.worker = q.worker
             PROVE  0 < r.turn /\ r.turn < q.turn
  BY DEF SnapshotsLast
<1>1. PICK q0 \in kept : q0 \in requests /\ q = f[q0] /\ Same(q, q0) /\ q0.turn > 0
  BY DEF Carried
<1>2. PICK r0 \in kept : r0 \in requests /\ r = f[r0] /\ Same(r, r0)
  BY DEF Carried
<1>3. 0 < r0.turn /\ r0.turn < q0.turn
  BY <1>1, <1>2 DEF LiveInv, SnapshotsLast, Same
<1> QED BY <1>1, <1>2, <1>3 DEF Carried, Same

\* A snapshot that is written was so, or is new.
LEMMA CarriedWritten ==
    ASSUME RequestsInv, NEW kept, NEW f, NEW new, Carried(kept, f, new), NEW q \in SnapshotWritten'
    PROVE  q \in new \/ \E r \in SnapshotWritten : r.m = q.m
<1>1. q \in requests' /\ q.op = "snapshot" /\ q.stage = "running" /\ q.turn = 0
  BY DEF SnapshotWritten, Running
<1>2. ASSUME NEW q0 \in kept, q = f[q0] PROVE q0 \in SnapshotWritten /\ q0.m = q.m
  <2>1. q0 \in requests /\ Same(q, q0) /\ ~(q0.turn > 0)
    BY <1>1, <1>2 DEF Carried
  <2>2. q0.turn \in Nat
    BY <2>1 DEF RequestsInv, RequestTypes, CallRequest
  <2> QED BY <1>1, <2>1, <2>2 DEF SnapshotWritten, Running, Same
<1> QED BY <1>1, <1>2 DEF Carried

\* While a migration snapshots, nobody asks to let the guest run; late handlers only are left.
LEMMA NoStartSent ==
    ASSUME CoordinatorInv, RequestsInv, ~LateDelivery,
           NEW n \in Rows, migration[n].phase = "SNAPSHOTTING",
           NEW r \in requests, r.op \in Starts
    PROVE  r.stage = "running" /\ r.turn > 0
<1>1. r.stage \in {"sent", "running"}
  BY DEF RequestsInv, RequestTypes, CallRequest
<1>2. ASSUME r.stage = "sent" PROVE FALSE
  <2>1. r.m \in Migrations /\ call[r.m] = r.op /\ r.op \in Calls
    BY <1>2 DEF RequestsInv, RequestTypes, RequestOK, CallRequest, Starts, Calls
  <2>2. Nonterminal(r.m) /\ migration[r.m].phase = PhaseOf(r.op)
    BY <2>1 DEF CoordinatorInv, CallsOfPhases, CallOfPhase, Blocked, Calls
  <2>3. Nonterminal(n)
    BY DEF Nonterminal, Terminal, TerminalPhases
  <2>4. n = r.m
    BY <2>2, <2>3, OneAtATime
  <2> QED BY <2>2, <2>4 DEF Starts, PhaseOf
<1>3. r.stage = "running"
  BY <1>1, <1>2
<1> QED BY <1>3 DEF RequestsInv, RequestOK, Starts, FirecrackerCalls

LEMMA LiveTakes ==
    ASSUME CoordinatorInv, RequestsInv, LiveInv, Takes, UNCHANGED <<coordinator, manifest>>
    PROVE  LiveInv'
<1>0. UNCHANGED <<call, migration, vm, manifests>> /\ UNCHANGED Rows
  BY DEF coordinator, store, Takes, Rows
<1>1. PICK s \in requests : s.stage = "sent" /\ Await(s)
  BY DEF Takes
<1>2. PICK n \in CallRequest :
         /\ RequestsInv' /\ replies' = replies
         /\ requests' = (requests \ {s}) \cup {n}
         /\ n.op = s.op /\ n.m = s.m /\ n.worker = s.worker
         /\ n.stage = "running" /\ (n.op \in FirecrackerCalls => n.turn > 0)
         /\ n.turn > 0 => \A q \in Queued(s.worker) : q.turn < n.turn
  BY <1>1, Awaiting
<1>4. \A q \in SnapshotWritten' : q \in SnapshotWritten
  BY <1>2 DEF SnapshotWritten, Running, FirecrackerCalls
<1>3. SnapshotsLast'
  <2> SUFFICES ASSUME NEW q \in requests', q.op = "snapshot", q.turn > 0,
                      migration[q.m].phase = "SNAPSHOTTING",
                      NEW r \in requests', r.op \in Starts, r.worker = q.worker
               PROVE  0 < r.turn /\ r.turn < q.turn
    BY <1>0 DEF SnapshotsLast
  <2>1. q.m \in Rows /\ q.turn > 0
    BY <1>0, <1>2 DEF RequestsInv, RequestOK, FirecrackerCalls
  <2>2. r # n
    BY <1>1, <1>2, <2>1, NoStartSent DEF LiveInv
  <2>3. r \in requests /\ r.turn > 0
    BY <1>2, <2>1, <2>2, NoStartSent DEF LiveInv
  <2>4. CASE q = n
    BY <1>2, <2>1, <2>3, <2>4 DEF Queued
  <2>5. CASE q # n
    BY <1>2, <2>3, <2>5 DEF LiveInv, SnapshotsLast
  <2> QED BY <2>4, <2>5
<1>5. \A q \in SnapshotWritten : q \in requests
  BY DEF SnapshotWritten, Running
<1> QED BY <1>0, <1>2, <1>3, <1>4, <1>5, LivePeers, TakeKeepsRequests DEF RunsOn, Got

LEMMA LiveWrites ==
    ASSUME CoordinatorInv, RequestsInv, LiveInv, Writes, UNCHANGED <<coordinator, manifest>>
    PROVE  LiveInv'
<1>0. UNCHANGED <<call, migration, vm, manifests>>
  BY DEF coordinator, store, Writes
<1>1. PICK s \in requests, img \in Nat : SnapshotDue(s) /\ Written(s, img)
  BY DEF Writes
<1>2. s.op = "snapshot" /\ s.stage = "running" /\ s.turn = 1
  BY <1>1 DEF SnapshotDue, AtFirecracker
<1>3. PICK n, f : /\ n.op = "snapshot" /\ n.m = s.m /\ n.turn = 0
                  /\ Carried(requests \ {s}, f, {n})
  BY <1>1, <1>2, LeavingItsQueue
<1>4. RequestsInv' /\ OldRequests /\ replies' = replies
  BY WriteKeepsRequests
<1>5. SnapshotsLast'
  BY <1>0, <1>3, CarriedSnapshotsLast DEF Starts
<1>6. ASSUME NEW q \in SnapshotWritten'
      PROVE  \E r \in requests : r.m = q.m /\ (r \in SnapshotWritten \/ SnapshotDue(r))
  <2>1. q = n \/ \E r \in SnapshotWritten : r.m = q.m
    BY <1>3, CarriedWritten
  <2> QED BY <1>1, <1>3, <2>1 DEF SnapshotWritten, Running
<1> QED BY <1>0, <1>4, <1>5, <1>6, LivePeers DEF RunsOn, Got

\* The snapshots that are written were so.
StillWritten == \A q \in SnapshotWritten' : \E r \in requests : r.m = q.m /\ r \in SnapshotWritten

LEMMA ReturnsOrder ==
    ASSUME RequestsInv, LiveInv, NEW done \in SUBSET requests, MayReturn(done),
           NEW status \in {"ok", "error"}, NEW img \in Nat, Reply(done, status, img),
           UNCHANGED <<coordinator, manifest>>
    PROVE  OldRequests /\ SnapshotsLast' /\ StillWritten
<1>0. UNCHANGED migration
  BY DEF coordinator, store
<1>1. PICK f : Carried(requests \ done, f, {})
  BY Replying
<1>2. StillWritten
  BY <1>1, CarriedWritten DEF StillWritten, SnapshotWritten, Running
<1> QED BY <1>0, <1>1, <1>2, ReturnKeepsRequests, CarriedSnapshotsLast

LEMMA LiveReturns ==
    ASSUME CoordinatorInv, RequestsInv, LiveInv, Returns, UNCHANGED <<coordinator, manifest>>
    PROVE  LiveInv'
<1>0. UNCHANGED <<call, migration>>
  BY DEF coordinator, store
<1>1. PICK c \in Operations, done \in SUBSET requests, status \in {"ok", "error"}, img \in Nat :
         Return(c, done, status, img)
  BY DEF Returns
<1>2. MayReturn(done) /\ Reply(done, status, img) /\ \A r \in done : r.op = c
  BY <1>1 DEF Return
<1>3. OldRequests /\ SnapshotsLast' /\ StillWritten
  BY <1>0, <1>2, ReturnsOrder
<1>4. \A w \in Workers : RunsOn(w)' =>
          RunsOn(w) \/ \E r \in requests : r.op \in Starts /\ r.worker = w
  BY <1>1 DEF Return
<1>5. \A w \in Workers : \A entry \in manifests'[w] :
          \/ entry \in manifests[w]
          \/ \E r \in requests : SnapshotTaken(r) /\ r.worker = w /\ entry[1] = r.m
  BY <1>1 DEF Return, SnapshotTaken
<1>6. ASSUME NEW m \in Migrations, Got(m, "snapshot")'
      PROVE  \/ Got(m, "snapshot")
             \/ \E r \in requests : /\ r.m = m /\ r.op = "snapshot"
                                    /\ SnapshotTaken(r) \/ SnapshotKept(r)
  <2>1. CASE replies'[m] = replies[m]
    BY <1>0, <1>6, <2>1 DEF Got
  <2>2. ASSUME NEW r \in done, r.m = m, call[m] = r.op, replies'[m].status = status
        PROVE  r.op = "snapshot" /\ (SnapshotTaken(r) \/ SnapshotKept(r))
    BY <1>0, <1>1, <1>2, <1>6, <2>2 DEF Got, Return
  <2> QED BY <1>2, <2>1, <2>2, Answering
<1> QED BY <1>3, <1>4, <1>5, <1>6, LivePeers DEF StillWritten

LEMMA LiveRestarts ==
    ASSUME CoordinatorInv, RequestsInv, LiveInv, Restarts, UNCHANGED <<coordinator, manifest>>
    PROVE  LiveInv'
<1>0. UNCHANGED <<call, migration>>
  BY DEF coordinator, store
<1>1. PICK w \in Workers :
        /\ Reply({r \in requests : r.worker = w /\ r.stage = "running"}, "error", 0)
        /\ \A v \in Workers : RunsOn(v)' => RunsOn(v)
        /\ \A v \in Workers : manifests'[v] \subseteq manifests[v]
  BY DEF Restarts
<1>2. PICK done \in SUBSET requests : done = {r \in requests : r.worker = w /\ r.stage = "running"}
  OBVIOUS
<1>3. MayReturn(done) /\ Reply(done, "error", 0)
  BY <1>1, <1>2, AllMayReturn
<1>4. OldRequests /\ SnapshotsLast' /\ StillWritten
  BY <1>0, <1>3, ReturnsOrder
<1>5. \A m \in Migrations : Got(m, "snapshot")' => Got(m, "snapshot")
  BY <1>0, <1>3, Answering DEF Got
<1> QED BY <1>1, <1>4, <1>5, LivePeers DEF StillWritten

LEMMA LiveWorkerStep ==
    ASSUME CoordinatorInv, RequestsInv, HostTypes, LiveInv, WorkerStep,
           UNCHANGED <<coordinator, manifest>>
    PROVE  LiveInv'
<1>1. ASSUME NEW w \in Workers, GuestWrite(w) PROVE LiveInv'
  <2>1. UNCHANGED <<vm, manifests, requests, replies, call, migration, sandbox>>
    BY <1>1, WriteEffect DEF coordinator, store
  <2> QED BY <2>1 DEF LiveInv, OnePlace, SnapshotsAsked, SnapshotsLast, SnapshotStops, HasSnapshot,
                      SnapshotWritten, Running, Stopped, Asked, MayRun, Resumed, RunsOn, Got, Rows
<1> QED BY <1>1, HandlerEffect, RestartEffect, LiveTakes, LiveWrites, LiveReturns, LiveRestarts
        DEF WorkerStep

LEMMA LiveProxyStep ==
    ASSUME CoordinatorInv, RequestsInv, LiveInv, ProxyStep PROVE LiveInv'
<1>0. UNCHANGED <<coordinator, manifest>> /\ UNCHANGED <<call, migration, sandbox, vm, manifests>>
  BY DEF ProxyStep, coordinator, store, workers
<1>1. ASSUME NEW r \in requests, r.op \in ProxyOperations, r.stage = "sent",
             NEW status \in {"ok", "error"}, Reply({r}, status, 0)
      PROVE  LiveInv'
  <2>1. MayReturn({r})
    BY <1>1, OneMayReturn
  <2>2. OldRequests /\ SnapshotsLast' /\ StillWritten
    BY <1>0, <1>1, <2>1, ReturnsOrder
  <2>3. \A m \in Migrations : Got(m, "snapshot")' => Got(m, "snapshot")
    BY <1>0, <1>1, Answering DEF Got, ProxyOperations
  <2> QED BY <1>0, <2>2, <2>3, LivePeers DEF RunsOn, StillWritten
<1>2. CASE UNCHANGED <<requests, replies>>
  BY <1>0, <1>2 DEF LiveInv, OnePlace, SnapshotsAsked, SnapshotsLast, SnapshotStops, HasSnapshot,
                    SnapshotWritten, Running, Stopped, Asked, MayRun, Resumed, RunsOn, Got, Rows
<1>3. CASE BeginCutover
  BY <1>1, <1>3 DEF BeginCutover, Sent, Ok, Error, ProxyOperations
<1>4. CASE Repoint
  BY <1>1, <1>4 DEF Repoint, Sent, Ok, Error, ProxyOperations
<1> QED BY <1>2, <1>3, <1>4 DEF ProxyStep, SessionsReconnected

LEMMA LiveInit == MigrationInit /\ ~LateDelivery => LiveInv
<1> SUFFICES ASSUME MigrationInit, ~LateDelivery PROVE LiveInv
  OBVIOUS
<1>1. Rows = {} /\ requests = {}
  BY DEF MigrationInit, Init, WorkerInit, Rows
<1>2. \A w \in Workers : manifests[w] = {}
  BY DEF MigrationInit, WorkerInit
<1>3. ASSUME NEW w \in Workers, RunsOn(w) PROVE MayRun(w)
  <2>1. \E s \in Sandboxes : sandbox[s].worker = w
    BY <1>3 DEF MigrationInit, WorkerInit, RunsOn
  <2> QED BY <1>1, <2>1 DEF MayRun, Resumed
<1> QED BY <1>1, <1>2, <1>3 DEF LiveInv, OnePlace, SnapshotsAsked, SnapshotsLast, SnapshotStops

LEMMA LiveStep == SystemInv /\ LiveInv /\ [MigrationNext]_migrationVars => LiveInv'
<1> SUFFICES ASSUME SystemInv, LiveInv, [MigrationNext]_migrationVars PROVE LiveInv'
  OBVIOUS
<1>1. CoordinatorInv /\ RequestsInv /\ HostTypes
  BY DEF SystemInv
<1>2. CASE CoordinatorStep
  BY <1>1, <1>2, LiveCoordinatorStep
<1>3. CASE ProxyStep
  BY <1>1, <1>3, LiveProxyStep
<1>4. CASE WorkerStep /\ UNCHANGED <<coordinator, manifest, route>>
  BY <1>1, <1>4, LiveWorkerStep
<1>5. CASE UNCHANGED migrationVars
  BY <1>5 DEF migrationVars, coordinator, store, workers, LiveInv, OnePlace, SnapshotsAsked,
              SnapshotsLast, SnapshotStops, HasSnapshot, SnapshotWritten, Running, Stopped, Asked,
              MayRun, Resumed, RunsOn, Got, Rows
<1> QED BY <1>2, <1>3, <1>4, <1>5 DEF MigrationNext

\* The guest runs where it may and nowhere else, and not at all between its snapshot and its
\* resume: of the requests and the rows, through every lost call, crash and restart.
THEOREM LiveInvariant == ~LateDelivery /\ MigrationSpec => []LiveInv
<1>1. MigrationSpec => []SystemInv
  BY SystemInvariant
<1> QED BY <1>1, LiveInit, LiveStep, PTL DEF MigrationSpec

\* No two workers run the guest at a time, when a call that timed out does not arrive later.
THEOREM OneVMIsLive == ~LateDelivery /\ MigrationSpec => []OneLiveVM
<1>1. SystemInv /\ LiveInv => OneLiveVM
  BY OneNow DEF SystemInv, LiveInv, OnePlace, ThereIsOnePlace, OneLiveVM
<1> QED BY <1>1, SystemInvariant, LiveInvariant, PTL

\* Under the same condition nobody but the owner runs the guest of a sandbox that runs.
THEOREM OnlyTheOwnerRuns == ~LateDelivery /\ MigrationSpec => []OnlyOwnerRuns
<1>1. SystemInv /\ LiveInv => OnlyOwnerRuns
  BY OneNow DEF SystemInv, LiveInv, OnePlace, ThereIsOnePlace, OwnersMayRun, OnlyOwnerRuns
<1> QED BY <1>1, SystemInvariant, LiveInvariant, PTL

-----------------------------------------------------------------------------
(* A source that was cleaned up stays clear of its migration.              *)

\* The record of the sandbox, and what a handler may do to it.
RecordTypes ==
    /\ rec      \in [Workers -> [state : RecordStates \cup {"none"}, epoch : Nat,
                                 loaded : Migrations \cup {None}]]
    /\ accepted \in [Workers -> Nat]
    /\ occupied \in [Workers -> BOOLEAN]
    /\ prepared \in [Workers -> SUBSET Migrations]

\* The destination has answered that it is prepared for m.
Reserved(m) ==
    \/ migration[m].phase \in {"PROBING", "PRECOPYING", "ORPHANED_AMBIGUOUS"}
                                 \cup RollbackPhases \cup PostResumePhases
    \/ Got(m, "prestage")

\* The guest is on w, or may come there.
InUse(w) ==
    \/ \E s \in Sandboxes : sandbox[s].worker = w
    \/ \E m \in Rows : Reserved(m) /\ migration[m].destination = w

\* The calls that a worker checks for their epoch before all else.
Guarded == Operations \ {"reserve", "prestage", "fence"}

\* Where two migrations of a sandbox begin in one epoch, they begin on one worker.
Journeys ==
    /\ \A n \in Rows : LET sb == sandbox[migration[n].sandbox] IN
          /\ migration[n].epochBefore <= sb.epoch
          /\ migration[n].epochBefore = sb.epoch =>
                migration[n].source = sb.worker /\ sb.state # "resuming"
          /\ migration[n].phase = "ORPHANED_AMBIGUOUS" => sb.state = "orphaned_ambiguous"
    /\ \A m, n \in Rows :
          migration[m].sandbox = migration[n].sandbox
            /\ migration[m].epochBefore = migration[n].epochBefore
          => migration[m].source = migration[n].source

\* No worker is behind the epoch of what it holds, was asked, or is asked next.
EpochsAccepted ==
    /\ \A w \in Workers : /\ rec[w].epoch <= accepted[w]
                          /\ \A m \in prepared[w] : m \in Rows /\ migration[m].epochAfter <= accepted[w]
    /\ \A r \in requests : r.op \in Guarded \/ r.stage = "running" => r.epoch <= accepted[r.worker]
    /\ \A m \in Rows : Reserved(m) => migration[m].epochAfter <= accepted[migration[m].destination]
    /\ \A s \in Sandboxes : sandbox[s].state \in {"running", "migrating"} =>
          sandbox[s].epoch <= accepted[sandbox[s].worker]

\* A reservation waits on a worker without a record, alone; all else on one that has a record.
HandlersApart ==
    /\ \A r \in Running("prestage") :
          /\ rec[r.worker].state = "none" /\ occupied[r.worker]
          /\ \A q \in Running("prestage") : q.worker = r.worker => q.m = r.m
    /\ \A r \in requests : r.stage = "running" /\ r.op # "prestage" => rec[r.worker].state # "none"

\* Fences go to workers the guest has left, and nobody has come there since.
FencesOK ==
    /\ \A w \in Workers : rec[w].state = "quarantined" => vm[w] = "none" /\ ~InUse(w)
    /\ \A r \in requests : r.op = "fence" => ~InUse(r.worker) /\ migration[r.m].resumeIssued
    /\ \A r \in Running("fence") : accepted[r.worker] = r.epoch
    /\ \A m \in Rows : migration[m].phase = "CLEANUP" =>
          /\ \A r \in requests : r.op = "fence" /\ r.worker = migration[m].source => r.m = m
          /\ rec[migration[m].source].state = "quarantined" =>
                migration[m].epochAfter <= accepted[migration[m].source]

\* The source of m is clear of it.
Gone(m) ==
    LET w == migration[m].source IN
    /\ migration[m].epochAfter <= accepted[w]
    /\ vm[w] = "none" \/ migration[m].epochAfter < accepted[w]
    /\ \A r \in Running("prestage") : r.worker = w => migration[m].epochAfter < r.epoch

SourcesGone ==
    \A m \in Rows : migration[m].phase = "DONE" \/ Got(m, "fence") => Gone(m)

GoneInv ==
    /\ ~LateDelivery
    /\ RecordTypes /\ Journeys /\ EpochsAccepted /\ HandlersApart /\ FencesOK /\ SourcesGone

-----------------------------------------------------------------------------
(* The coordinator keeps to it.                                            *)

\* What the proofs use of the types.
LEMMA RowFacts ==
    ASSUME CoordinatorInv
    PROVE  /\ sandbox \in [Sandboxes -> SandboxRow] /\ \A s, t \in Sandboxes : s = t
           /\ \A m \in Rows : /\ m \in Migrations /\ migration[m] \in MigrationRow
                              /\ migration[m].sandbox \in Sandboxes /\ RowAgrees(m)
                              /\ migration[m].source \in Workers
                              /\ migration[m].destination \in Workers
                              /\ migration[m].epochBefore \in Nat /\ migration[m].epochAfter \in Nat
BY OneSandboxAssumption, DestinationsAssumption
   DEF CoordinatorInv, TypeOK, Rows, RowsAgree, MigrationRow

\* While m cleans up, the guest is not on its source, nor on its way there.
SourcesFree == \A m \in Rows : migration[m].phase = "CLEANUP" => ~InUse(migration[m].source)

LEMMA FreeNow == CoordinatorInv /\ Journeys => SourcesFree
<1> SUFFICES ASSUME CoordinatorInv, Journeys, NEW m \in Rows, migration[m].phase = "CLEANUP",
                    InUse(migration[m].source)
             PROVE  FALSE
  BY DEF SourcesFree
<1>1. /\ m \in Migrations /\ RowAgrees(m) /\ migration[m].sandbox \in Sandboxes
      /\ \A s, t \in Sandboxes : s = t
  BY RowFacts
<1>2. Nonterminal(m) /\ migration[m].resumeIssued
  BY DEF Nonterminal, Terminal, TerminalPhases, CoordinatorInv, ResumeBoundary, PostResumePhases, Rows
<1>3. /\ sandbox[migration[m].sandbox].worker = migration[m].destination
      /\ sandbox[migration[m].sandbox].state = "running"
      /\ migration[m].source # migration[m].destination
  BY <1>1, <1>2 DEF CoordinatorInv, OwnerFollowsCutover, RowAgrees, Nonterminal
<1>4. PICK n \in Rows : Reserved(n) /\ migration[n].destination = migration[m].source
  BY <1>1, <1>3 DEF InUse
<1>5. n \in Migrations /\ migration[n].sandbox = migration[m].sandbox
  BY <1>1, <1>4, RowFacts
<1>6. migration[n].phase # "ORPHANED_AMBIGUOUS"
  BY <1>3, <1>4, <1>5 DEF Journeys
<1>7. Nonterminal(n)
  <2>1. CASE Got(n, "prestage")
    BY <1>5, <2>1 DEF Got, CoordinatorInv, CallsOfPhases, CallOfPhase
  <2> QED BY <1>4, <1>6, <2>1 DEF Reserved, Nonterminal, Terminal, TerminalPhases, RollbackPhases,
                                  PostResumePhases
<1>8. n = m
  BY <1>2, <1>7, OneNow DEF OneMigration
<1> QED BY <1>3, <1>4, <1>8

LEMMA FreeNext == CoordinatorInv' /\ Journeys' => SourcesFree'
BY FreeNow, PTL

LEMMA JourneysStep == ASSUME CoordinatorInv, Journeys, CoordinatorStep PROVE Journeys'
<1>0. /\ [Next]_vars /\ CoordinatorInv'
      /\ sandbox \in [Sandboxes -> SandboxRow]
      /\ migration \in [Migrations -> MigrationRow \cup {NoRow}]
      /\ \A s, t \in Sandboxes : s = t
      /\ \A m \in Rows : /\ migration[m] \in MigrationRow /\ RowAgrees(m) /\ m \in Migrations
                         /\ migration[m].sandbox \in Sandboxes
                         /\ migration[m].epochBefore \in Nat /\ migration[m].epochAfter \in Nat
  <2>1. [Next]_vars
    BY StepImplementsCoordinator DEF MigrationNext
  <2>2. CoordinatorInv'
    BY <2>1, CoordinatorStepKeeps
  <2> QED BY <2>1, <2>2, RowFacts DEF CoordinatorInv, TypeOK
<1>1. ASSUME NEW m \in Rows, Nonterminal(m)
      PROVE  sandbox[migration[m].sandbox].state # "orphaned_ambiguous"
  BY <1>0, <1>1 DEF RowAgrees, Nonterminal
\* Rows are added, and sandboxes move, as the rows before allow.
<1>2. ASSUME \A n \in Rows : /\ n \in Rows' /\ migration'[n].sandbox = migration[n].sandbox
                             /\ migration'[n].source = migration[n].source
                             /\ migration'[n].epochBefore = migration[n].epochBefore,
             Rows' = Rows,
             \A n \in Rows : LET sb == sandbox'[migration[n].sandbox] IN
                /\ migration[n].epochBefore <= sb.epoch
                /\ migration[n].epochBefore = sb.epoch =>
                      migration[n].source = sb.worker /\ sb.state # "resuming"
                /\ migration'[n].phase = "ORPHANED_AMBIGUOUS" => sb.state = "orphaned_ambiguous"
      PROVE  Journeys'
  BY <1>2 DEF Journeys
<1>3. ASSUME NEW s \in Sandboxes, NEW dest \in Destinations, NEW key \in Keys,
             NEW m \in Migrations, StartMigration(s, dest, key, m)
      PROVE  Journeys'
  <2>1. /\ sandbox[s].state = "running" /\ m \notin Rows
        /\ sandbox'[s].epoch = sandbox[s].epoch /\ sandbox'[s].worker = sandbox[s].worker
        /\ sandbox'[s].state = "migrating"
        /\ migration'[m].phase = "PREPARING" /\ migration'[m].sandbox = s
        /\ migration'[m].epochBefore = sandbox[s].epoch
        /\ migration'[m].source = sandbox[s].worker
        /\ \A n \in Migrations : n # m => migration'[n] = migration[n]
    BY <1>0, <1>3 DEF StartMigration, Startable, SandboxRow
  <2>2. sandbox[s].epoch \in Nat
    BY <1>0 DEF SandboxRow
  <2>3. \A n \in Rows' : n = m \/ (n \in Rows /\ migration'[n] = migration[n] /\ n # m)
    BY <2>1 DEF Rows
  <2>4. \A n \in Rows : migration[n].sandbox = s
    BY <1>0
  <2>5. ASSUME NEW n \in Rows'
        PROVE  /\ migration'[n].sandbox = s
               /\ migration'[n].epochBefore <= sandbox'[s].epoch
               /\ migration'[n].epochBefore = sandbox'[s].epoch =>
                      migration'[n].source = sandbox'[s].worker
               /\ migration'[n].phase # "ORPHANED_AMBIGUOUS"
    <3>1. CASE n = m
      BY <2>1, <2>2, <3>1
    <3>2. CASE n # m
      BY <2>1, <2>3, <2>4, <3>2 DEF Journeys
    <3> QED BY <3>1, <3>2
  <2>6. ASSUME NEW k \in Rows', NEW n \in Rows', migration'[k].epochBefore = migration'[n].epochBefore
        PROVE  migration'[k].source = migration'[n].source
    <3>1. CASE k = m \/ n = m
      BY <2>1, <2>5, <2>6, <3>1
    <3>2. CASE k # m /\ n # m
      BY <2>3, <2>4, <2>6, <3>2 DEF Journeys
    <3> QED BY <3>1, <3>2
  <2> QED BY <2>1, <2>5, <2>6 DEF Journeys
<1>4. ASSUME NEW m \in Rows, NEW row, migration' = [migration EXCEPT ![m] = row]
      PROVE  /\ Rows' = Rows
             /\ \A n \in Rows : /\ n \in Rows' /\ migration'[n].sandbox = migration[n].sandbox
                                /\ migration'[n].source = migration[n].source
                                /\ migration'[n].epochBefore = migration[n].epochBefore
                                /\ n # m => migration'[n] = migration[n]
  <2>1. \A n \in Migrations : n # m => migration'[n] = migration[n]
    BY <1>0, <1>4
  <2>2. \A n \in Rows : /\ n \in Rows' /\ migration'[n].sandbox = migration[n].sandbox
                        /\ migration'[n].source = migration[n].source
                        /\ migration'[n].epochBefore = migration[n].epochBefore
    BY <1>0, RowKeeps
  <2>3. Rows' = Rows
    BY <2>1, <2>2 DEF Rows
  <2> QED BY <1>0, <2>1, <2>2, <2>3
<1>5. ASSUME NEW m \in Migrations, NEW to \in PlainTargets, Advance(m, to)
      PROVE  Journeys'
  <2>1. /\ m \in Rows /\ Nonterminal(m)
        /\ migration' = [migration EXCEPT ![m] = [migration[m] EXCEPT !.phase = to]]
        /\ sandbox' = [sandbox EXCEPT ![migration[m].sandbox] = Finalized(@, to)]
    BY <1>0, <1>5, MovedRow DEF Advance, Transition, CoordinatorInv, Nonterminal
  <2>2. \A s \in Sandboxes : sandbox'[s] = Finalized(sandbox[s], to)
    BY <1>0, <2>1
  <2>3. ASSUME NEW s \in Sandboxes
        PROVE  /\ sandbox'[s].epoch = sandbox[s].epoch /\ sandbox'[s].worker = sandbox[s].worker
               /\ sandbox'[s].state = "resuming" => sandbox[s].state = "resuming"
               /\ to = "ORPHANED_AMBIGUOUS" => sandbox'[s].state = "orphaned_ambiguous"
    <3>1. sandbox[s] \in SandboxRow /\ sandbox'[s] = Finalized(sandbox[s], to)
      BY <1>0, <2>2
    <3>2. CASE ~Terminal(to)
      BY <3>1, <3>2 DEF Finalized, Terminal, TerminalPhases
    <3>3. CASE Terminal(to)
      <4>1. sandbox'[s] = [sandbox[s] EXCEPT !.active = None,
                             !.state = IF to = "ORPHANED_AMBIGUOUS" THEN "orphaned_ambiguous"
                                                                    ELSE "running"]
        BY <3>1, <3>3 DEF Finalized
      <4> QED BY <3>1, <4>1 DEF SandboxRow
    <3> QED BY <3>2, <3>3
  <2>4. ASSUME NEW n \in Rows, migration'[n].phase = "ORPHANED_AMBIGUOUS"
        PROVE  sandbox'[migration[n].sandbox].state = "orphaned_ambiguous"
    <3>1. migration[n].sandbox = migration[m].sandbox
      BY <1>0, <2>1
    <3>2. CASE n = m
      <4>1. to = "ORPHANED_AMBIGUOUS"
        BY <1>0, <2>1, <2>4, <3>2 DEF MigrationRow
      <4> QED BY <1>0, <2>3, <4>1
    <3>3. CASE n # m
      <4>1. migration'[n] = migration[n]
        BY <1>4, <2>1, <3>3
      <4>2. sandbox[migration[n].sandbox].state = "orphaned_ambiguous"
        BY <2>4, <4>1 DEF Journeys
      <4> QED BY <1>1, <2>1, <3>1, <4>2
    <3> QED BY <3>2, <3>3
  <2>5. ASSUME NEW n \in Rows
        PROVE  LET sb == sandbox'[migration[n].sandbox] IN
                /\ migration[n].epochBefore <= sb.epoch
                /\ migration[n].epochBefore = sb.epoch =>
                      migration[n].source = sb.worker /\ sb.state # "resuming"
    BY <1>0, <2>3 DEF Journeys
  <2> QED BY <1>2, <1>4, <2>1, <2>4, <2>5
\* The row that moves is at its resume, or the sandbox under the resume's epoch.
<1>6. ASSUME NEW m \in Rows, Nonterminal(m), NEW row, row.phase # "ORPHANED_AMBIGUOUS",
             migration' = [migration EXCEPT ![m] = row],
             \A s \in Sandboxes : /\ sandbox[s].epoch <= sandbox'[s].epoch
                                  /\ sandbox[s].state = "resuming"
                                        \/ sandbox[s].epoch # sandbox'[s].epoch
      PROVE  Journeys'
  <2>1. ASSUME NEW n \in Rows
        PROVE  LET sb == sandbox'[migration[n].sandbox] IN
                /\ migration[n].epochBefore <= sb.epoch
                /\ migration[n].epochBefore # sb.epoch
                /\ migration'[n].phase # "ORPHANED_AMBIGUOUS"
    <3>1. /\ sandbox[migration[n].sandbox].epoch \in Nat
          /\ sandbox'[migration[n].sandbox].epoch \in Nat
          /\ migration[n].sandbox = migration[m].sandbox
          /\ migration[n].sandbox \in Sandboxes
      BY <1>0, <1>6 DEF CoordinatorInv, TypeOK, SandboxRow
    <3>2. migration'[n].phase # "ORPHANED_AMBIGUOUS"
      <4>1. CASE n = m
        BY <1>0, <1>6, <4>1
      <4>2. CASE n # m
        BY <1>1, <1>4, <1>6, <3>1, <4>2 DEF Journeys
      <4> QED BY <4>1, <4>2
    <3> QED BY <1>0, <1>6, <3>1, <3>2 DEF Journeys
  <2> QED BY <1>2, <1>4, <1>6, <2>1
<1>7. ASSUME NEW m \in Migrations, Loaded(m) PROVE Journeys'
  <2>1. /\ m \in Rows /\ Nonterminal(m) /\ ~migration[m].resumeIssued
        /\ migration' = [migration EXCEPT ![m] = [migration[m] EXCEPT !.phase = "RESUMING",
                                                    !.consumed = TRUE, !.resumeIssued = TRUE]]
        /\ sandbox' = [sandbox EXCEPT ![migration[m].sandbox].epoch = migration[m].epochAfter,
                                      ![migration[m].sandbox].state = "resuming"]
    <3>1. m \in Rows /\ Nonterminal(m) /\ migration[m].phase = "LOADING"
      BY <1>7, MovedRow DEF Loaded, IssueResume, CanTransition, NormalTransitions, CoordinatorInv,
                            Nonterminal, PrepausePhases, RollbackPhases, PostResumePhases
    <3>2. ~migration[m].resumeIssued
      BY <3>1 DEF CoordinatorInv, ResumeBoundary, PostResumePhases
    <3> QED BY <1>0, <1>7, <3>1, <3>2 DEF Loaded, IssueResume
  <2>2. /\ sandbox[migration[m].sandbox].epoch = migration[m].epochBefore
        /\ migration[m].epochAfter = migration[m].epochBefore + 1
    BY <1>0, <2>1 DEF RowAgrees, Nonterminal
  <2>3. \A s \in Sandboxes : /\ s = migration[m].sandbox
                             /\ sandbox'[s].epoch = sandbox[s].epoch + 1
    BY <1>0, <2>1, <2>2 DEF SandboxRow
  <2>4. PICK row : row = [migration[m] EXCEPT !.phase = "RESUMING", !.consumed = TRUE,
                                              !.resumeIssued = TRUE]
    OBVIOUS
  <2>6. migration' = [migration EXCEPT ![m] = row] /\ row.phase # "ORPHANED_AMBIGUOUS"
    BY <1>0, <2>1, <2>4 DEF MigrationRow
  <2>5. \A s \in Sandboxes : sandbox[s].epoch \in Nat
    BY <1>0 DEF SandboxRow
  <2>7. \A s \in Sandboxes : sandbox[s].epoch <= sandbox'[s].epoch /\ sandbox[s].epoch # sandbox'[s].epoch
    BY <2>3, <2>5
  <2> QED BY <1>6, <2>1, <2>6, <2>7
<1>8. ASSUME NEW m \in Migrations, TransferOwnership(m) PROVE Journeys'
  <2>1. /\ m \in Rows /\ Nonterminal(m) /\ migration[m].phase = "CUTOVER"
        /\ migration' = [migration EXCEPT ![m] = [migration[m] EXCEPT !.phase = "CLEANUP"]]
        /\ sandbox' = [sandbox EXCEPT ![migration[m].sandbox].worker = migration[m].destination,
                                      ![migration[m].sandbox].generation = @ + 1,
                                      ![migration[m].sandbox].state = "running"]
    BY <1>8, MovedRow DEF TransferOwnership, CompleteCutover, CanTransition, NormalTransitions,
                          CoordinatorInv, Nonterminal, PrepausePhases, RollbackPhases,
                          PostResumePhases
  <2>2. migration[m].resumeIssued
    BY <2>1 DEF CoordinatorInv, ResumeBoundary, PostResumePhases
  <2>3. \A s \in Sandboxes : s = migration[m].sandbox /\ sandbox[s].state = "resuming"
    BY <1>0, <2>1, <2>2 DEF RowAgrees, Nonterminal
  <2>4. \A s \in Sandboxes : sandbox'[s].epoch = sandbox[s].epoch /\ sandbox[s].epoch \in Nat
    BY <1>0, <2>1 DEF SandboxRow
  <2>5. PICK row : row = [migration[m] EXCEPT !.phase = "CLEANUP"]
    OBVIOUS
  <2>6. migration' = [migration EXCEPT ![m] = row] /\ row.phase # "ORPHANED_AMBIGUOUS"
    BY <1>0, <2>1, <2>5 DEF MigrationRow
  <2>7. \A s \in Sandboxes : sandbox[s].epoch <= sandbox'[s].epoch /\ sandbox[s].state = "resuming"
    BY <2>3, <2>4
  <2>8. m \in Rows /\ Nonterminal(m)
    BY <2>1
  <2> QED BY <1>6, <2>6, <2>7, <2>8
<1>9. CASE UNCHANGED store
  <2>1. UNCHANGED <<migration, sandbox>>
    BY <1>9 DEF store
  <2> QED BY <2>1 DEF Journeys, Rows
<1> QED BY <1>3, <1>5, <1>7, <1>8, <1>9, TransactionStep

\* Nothing is reserved in this step.
LEMMA ReservedBefore ==
    ASSUME CoordinatorInv, RequestsInv, CoordinatorStep, NEW n \in Rows', Reserved(n)'
    PROVE  n \in Rows /\ Reserved(n)
<1>0. NoAnswers /\ n \in Migrations
  BY CoordinatorRequests DEF Rows
<1>1. ASSUME Got(n, "prestage")' PROVE Got(n, "prestage") /\ n \in Rows
  <2>1. Got(n, "prestage")
    BY <1>0, <1>1 DEF NoAnswers, Got, Calls
  <2> QED BY <1>0, <2>1 DEF Got, CoordinatorInv, CallsOfPhases, CallOfPhase, Nonterminal
<1>2. CASE Got(n, "prestage")'
  BY <1>1, <1>2 DEF Reserved
<1>3. CASE ~Got(n, "prestage")'
  <2>1. migration'[n].phase \in {"PROBING", "PRECOPYING", "ORPHANED_AMBIGUOUS"}
                                  \cup RollbackPhases \cup PostResumePhases
    BY <1>3 DEF Reserved
  <2>2. n \in Rows
    BY <2>1, NewRow DEF RollbackPhases, PostResumePhases
  <2>3. CASE migration'[n].phase = migration[n].phase
    BY <2>1, <2>2, <2>3 DEF Reserved
  <2>4. CASE /\ CanTransition(migration[n].phase, migration'[n].phase)
             /\ RestsOnAnswer(n, migration'[n].phase)
    BY <2>1, <2>2, <2>4 DEF Reserved, CanTransition, NormalTransitions, RestsOnAnswer,
                            RollbackPhases, PostResumePhases
  <2> QED BY <2>2, <2>3, <2>4, PhaseMoves
<1> QED BY <1>2, <1>3

\* A sandbox stays with its owner, or goes to the destination that is reserved for it.
LEMMA OwnersNext ==
    ASSUME CoordinatorInv, CoordinatorStep, NEW s \in Sandboxes
    PROVE  \/ /\ sandbox'[s].worker = sandbox[s].worker
              /\ sandbox'[s].state \in {"running", "migrating"} =>
                    sandbox[s].state \in {"running", "migrating"} /\ sandbox'[s].epoch = sandbox[s].epoch
           \/ \E m \in Rows : /\ Reserved(m)
                              /\ sandbox'[s].worker = migration[m].destination
                              /\ sandbox'[s].epoch = migration[m].epochAfter
<1>0. /\ sandbox \in [Sandboxes -> SandboxRow] /\ \A t \in Sandboxes : t = s
      /\ \A m \in Rows : /\ m \in Migrations /\ migration[m] \in MigrationRow
                         /\ migration[m].sandbox \in Sandboxes /\ RowAgrees(m)
  BY RowFacts
<1>1. ASSUME NEW t \in Sandboxes, NEW dest \in Destinations, NEW key \in Keys,
             NEW m \in Migrations, StartMigration(t, dest, key, m)
      PROVE  /\ sandbox'[s].worker = sandbox[s].worker /\ sandbox'[s].epoch = sandbox[s].epoch
             /\ sandbox[s].state = "running"
  BY <1>0, <1>1 DEF StartMigration, Startable, SandboxRow
<1>2. ASSUME NEW m \in Migrations, NEW to \in PlainTargets, Advance(m, to)
      PROVE  /\ sandbox'[s].worker = sandbox[s].worker /\ sandbox'[s].epoch = sandbox[s].epoch
             /\ sandbox'[s].state \in {"running", "migrating"} =>
                    sandbox[s].state \in {"running", "migrating"}
  <2>1. /\ m \in Rows /\ Nonterminal(m) /\ CanTransition(migration[m].phase, to)
        /\ sandbox' = [sandbox EXCEPT ![migration[m].sandbox] = Finalized(@, to)]
    BY <1>2, MovedRow DEF Advance, Transition, CoordinatorInv, Nonterminal
  <2>2. /\ sandbox'[s] = Finalized(sandbox[s], to) /\ sandbox[s] \in SandboxRow
        /\ migration[m].sandbox = s /\ RowAgrees(m)
    BY <1>0, <2>1
  <2>3. sandbox'[s].worker = sandbox[s].worker /\ sandbox'[s].epoch = sandbox[s].epoch
    BY <2>2 DEF Finalized, SandboxRow
  <2>4. ASSUME sandbox[s].state \notin {"running", "migrating"}
        PROVE  sandbox'[s].state \notin {"running", "migrating"}
    <3>1. migration[m].resumeIssued /\ migration[m].phase # "CLEANUP"
      BY <2>1, <2>2, <2>4 DEF RowAgrees, Nonterminal
    <3>2. migration[m].phase \in {"RESUMING", "VERIFYING", "CUTOVER"}
      BY <2>1, <3>1 DEF CoordinatorInv, ResumeBoundary, PostResumePhases, Nonterminal, Terminal,
                        TerminalPhases
    <3>3. to \in {"VERIFYING", "CUTOVER", "CLEANUP", "ORPHANED_AMBIGUOUS"}
      BY <2>1, <3>2 DEF CanTransition, NormalTransitions, PrepausePhases, RollbackPhases
    <3>4. CASE to = "ORPHANED_AMBIGUOUS"
      <4>1. sandbox'[s] = [sandbox[s] EXCEPT !.active = None, !.state = "orphaned_ambiguous"]
        BY <2>2, <3>4 DEF Finalized, Terminal, TerminalPhases
      <4> QED BY <2>2, <4>1 DEF SandboxRow
    <3>5. CASE to # "ORPHANED_AMBIGUOUS"
      BY <2>2, <2>4, <3>3, <3>5 DEF Finalized, Terminal, TerminalPhases
    <3> QED BY <3>4, <3>5
  <2> QED BY <2>3, <2>4
<1>3. ASSUME NEW m \in Migrations, Loaded(m)
      PROVE  sandbox'[s].worker = sandbox[s].worker /\ sandbox'[s].state = "resuming"
  <2>1. m \in Rows
    BY <1>3, MovedRow DEF Loaded, IssueResume, CoordinatorInv, Nonterminal
  <2> QED BY <1>0, <1>3, <2>1 DEF Loaded, IssueResume, SandboxRow
<1>4. ASSUME NEW m \in Migrations, TransferOwnership(m)
      PROVE  /\ m \in Rows /\ Reserved(m)
             /\ sandbox'[s].worker = migration[m].destination
             /\ sandbox'[s].epoch = migration[m].epochAfter
  <2>1. m \in Rows /\ Nonterminal(m) /\ migration[m].phase = "CUTOVER"
    BY <1>4, MovedRow DEF TransferOwnership, CompleteCutover, CanTransition, NormalTransitions,
                          CoordinatorInv, Nonterminal, PrepausePhases, RollbackPhases,
                          PostResumePhases
  <2>2. migration[m].resumeIssued
    BY <2>1 DEF CoordinatorInv, ResumeBoundary, PostResumePhases
  <2>3. sandbox[s].epoch = migration[m].epochAfter /\ migration[m].sandbox = s
    BY <1>0, <2>1, <2>2 DEF RowAgrees, Nonterminal
  <2>4. Reserved(m)
    BY <2>1 DEF Reserved, PostResumePhases
  <2> QED BY <1>0, <1>4, <2>1, <2>3, <2>4 DEF TransferOwnership, CompleteCutover, SandboxRow
<1>5. UNCHANGED store => sandbox' = sandbox
  BY DEF store
<1> QED BY <1>1, <1>2, <1>3, <1>4, <1>5, TransactionStep

\* The guest comes nowhere else in this step.
LEMMA InUseBefore ==
    ASSUME CoordinatorInv, RequestsInv, CoordinatorStep, NEW w, InUse(w)' PROVE InUse(w)
<1>1. ASSUME NEW s \in Sandboxes, sandbox'[s].worker = w PROVE InUse(w)
  BY <1>1, OwnersNext DEF InUse
<1>2. ASSUME NEW m \in Rows', Reserved(m)', migration'[m].destination = w PROVE InUse(w)
  <2>1. [Next]_vars
    BY StepImplementsCoordinator DEF MigrationNext
  <2>2. m \in Rows /\ Reserved(m)
    BY <1>2, ReservedBefore
  <2> QED BY <1>2, <2>1, <2>2, RowKeeps DEF InUse
<1> QED BY <1>1, <1>2 DEF InUse

LEMMA GoneCoordinatorStep ==
    ASSUME CoordinatorInv, RequestsInv, GoneInv, CoordinatorStep PROVE GoneInv'
<1>0. /\ [Next]_vars /\ CoordinatorInv' /\ RequestsInv' /\ NoAnswers /\ Journeys'
      /\ UNCHANGED <<rec, accepted, occupied, prepared, vm>>
      /\ requests' \subseteq CallRequest
  <2>1. [Next]_vars
    BY StepImplementsCoordinator DEF MigrationNext
  <2>2. CoordinatorInv' /\ RequestsInv'
    BY <2>1, CoordinatorStepKeeps, CoordinatorRequests
  <2> QED BY <2>1, <2>2, CoordinatorRequests, JourneysStep
          DEF GoneInv, CoordinatorStep, workers, RequestsInv, RequestTypes
<1>1. PICK kept, f, new : Carried(kept, f, new) /\ Sending(new)
  BY CoordinatorRequests
<1>2. ASSUME NEW r \in requests', r \notin new
      PROVE  \E q \in requests : Same(r, q)
  BY <1>1, <1>2 DEF Carried
<1>3. ASSUME NEW r \in requests', r \in new
      PROVE  /\ r.stage = "sent" /\ r.m \in Rows' /\ Nonterminal(r.m)'
             /\ migration'[r.m].phase = PhaseOf(r.op) /\ r.op \in Calls
  BY <1>0, <1>1, <1>3, StartsSent DEF Sending
<1>4. \A m \in Rows : /\ m \in Rows'
                      /\ migration'[m].source      = migration[m].source
                      /\ migration'[m].destination = migration[m].destination
                      /\ migration'[m].epochAfter  = migration[m].epochAfter
                      /\ migration[m].resumeIssued => migration'[m].resumeIssued
  BY <1>0, RowKeeps
<1>5. \A m \in Rows' : Reserved(m)' => m \in Rows /\ Reserved(m)
  BY ReservedBefore
<1>6. \A w : InUse(w)' => InUse(w)
  BY InUseBefore
<1>7. \A m \in Rows' : Reserved(m)' => migration'[m].epochAfter <= accepted'[migration'[m].destination]
  BY <1>0, <1>4, <1>5 DEF GoneInv, EpochsAccepted
<1>8. ASSUME NEW s \in Sandboxes, sandbox'[s].state \in {"running", "migrating"}
      PROVE  sandbox'[s].epoch <= accepted'[sandbox'[s].worker]
  BY <1>0, <1>8, OwnersNext DEF GoneInv, EpochsAccepted
\* What is sent to the source goes under the sandbox's epoch, what is sent to the destination
\* under the one that its reservation accepted.
<1>9. ASSUME NEW r \in requests', r \in new, r.op \in Guarded
      PROVE  r.epoch <= accepted'[r.worker]
  <2>1. /\ r.m \in Rows' /\ Nonterminal(r.m)' /\ migration'[r.m].phase = PhaseOf(r.op)
        /\ RowAgrees(r.m)' /\ migration'[r.m].sandbox \in Sandboxes
        /\ r.worker = IF r.op \in DestinationCalls THEN migration'[r.m].destination
                                                   ELSE migration'[r.m].source
        /\ r.epoch = IF r.op \in {"probe", "precopy", "begin_cutover", "pause", "snapshot", "rollback"}
                     THEN migration'[r.m].epochBefore ELSE migration'[r.m].epochAfter
    <3>1. r.m \in Rows' /\ RequestOK(r)'
      BY <1>0, <1>3, <1>9 DEF RequestsInv
    <3>2. RowAgrees(r.m)' /\ migration'[r.m].sandbox \in Sandboxes
      BY <1>0, <3>1 DEF CoordinatorInv, RowsAgree, TypeOK, Rows, MigrationRow
    <3> QED BY <1>3, <1>9, <3>1, <3>2 DEF RequestOK, EpochOf
  <2>2. CASE r.op \in {"probe", "precopy", "pause", "snapshot", "rollback"}
    <3>1. migration'[r.m].phase \in {"PROBING", "PRECOPYING", "PAUSING", "SNAPSHOTTING",
                                     "ROLLING_BACK_SOURCE"}
      BY <2>1, <2>2 DEF PhaseOf
    <3>2. ~migration'[r.m].resumeIssued
      BY <1>0, <2>1, <3>1 DEF CoordinatorInv, ResumeBoundary, PostResumePhases
    <3>3. /\ sandbox'[migration'[r.m].sandbox].epoch = migration'[r.m].epochBefore
          /\ sandbox'[migration'[r.m].sandbox].state = "migrating"
      BY <2>1, <3>2 DEF RowAgrees, Nonterminal
    <3>4. sandbox'[migration'[r.m].sandbox].worker = migration'[r.m].source
      BY <1>0, <2>1, <3>1 DEF CoordinatorInv, OwnerFollowsCutover, Rows
    <3> QED BY <1>8, <2>1, <2>2, <3>3, <3>4 DEF DestinationCalls
  <2>3. CASE r.op \in {"transfer", "load", "resume", "verify", "expose"}
    <3>1. migration'[r.m].phase \in {"TRANSFERRING", "LOADING", "RESUMING", "VERIFYING", "CUTOVER"}
      BY <2>1, <2>3 DEF PhaseOf
    <3>2. Reserved(r.m)'
      BY <3>1 DEF Reserved, RollbackPhases, PostResumePhases
    <3> QED BY <1>7, <2>1, <2>3, <3>2 DEF DestinationCalls
  <2> QED BY <1>9, <2>2, <2>3 DEF Guarded, Operations
<1>10. EpochsAccepted'
  <2>1. ASSUME NEW r \in requests', r.op \in Guarded \/ r.stage = "running"
        PROVE  r.epoch <= accepted'[r.worker]
    <3>1. CASE r \in new
      BY <1>3, <1>9, <2>1, <3>1
    <3>2. CASE r \notin new
      BY <1>0, <1>2, <2>1, <3>2 DEF GoneInv, EpochsAccepted, Same
    <3> QED BY <3>1, <3>2
  <2>2. \A w \in Workers : /\ rec'[w].epoch <= accepted'[w]
                           /\ \A m \in prepared'[w] :
                                 m \in Rows' /\ migration'[m].epochAfter <= accepted'[w]
    BY <1>0, <1>4 DEF GoneInv, EpochsAccepted
  <2> QED BY <1>7, <1>8, <2>1, <2>2 DEF EpochsAccepted
<1>11. \A r \in requests' : r.stage = "running" => \E q \in requests : Same(r, q)
  BY <1>2, <1>3
<1>12. HandlersApart'
  <2>1. ASSUME NEW r \in Running("prestage")'
        PROVE  /\ rec'[r.worker].state = "none" /\ occupied'[r.worker]
               /\ \A q \in Running("prestage")' : q.worker = r.worker => q.m = r.m
    BY <1>0, <1>11, <2>1 DEF GoneInv, HandlersApart, Running, Same
  <2>2. \A r \in requests' : r.stage = "running" /\ r.op # "prestage" => rec'[r.worker].state # "none"
    BY <1>0, <1>11 DEF GoneInv, HandlersApart, Same
  <2> QED BY <2>1, <2>2 DEF HandlersApart
\* The source of a migration that cuts over now was in use.
<1>13. ASSUME NEW m \in Rows', migration'[m].phase = "CLEANUP", migration[m].phase # "CLEANUP"
       PROVE  InUse(migration'[m].source)
  <2>1. m \in Rows
    BY <1>13, NewRow
  <2>2. migration[m].phase = "CUTOVER"
    BY <1>13, <2>1, PhaseMoves DEF CanTransition, NormalTransitions
  <2>3. m \in Migrations /\ Nonterminal(m) /\ migration[m].sandbox \in Sandboxes
    BY <2>1, <2>2, RowFacts DEF Nonterminal, Terminal, TerminalPhases
  <2>4. sandbox[migration[m].sandbox].worker = migration[m].source
    BY <2>2, <2>3 DEF CoordinatorInv, OwnerFollowsCutover
  <2> QED BY <1>4, <2>1, <2>3, <2>4 DEF InUse
<1>14. FencesOK'
  <2>1. \A w \in Workers : rec'[w].state = "quarantined" => vm'[w] = "none" /\ ~InUse(w)'
    BY <1>0, <1>6 DEF GoneInv, FencesOK
  <2>2. ASSUME NEW r \in requests', r \in new, r.op = "fence"
        PROVE  ~InUse(r.worker)' /\ migration'[r.m].resumeIssued /\ r.m \in Rows'
               /\ migration'[r.m].phase = "CLEANUP" /\ Nonterminal(r.m)'
    <3>1. r.m \in Rows' /\ migration'[r.m].phase = "CLEANUP" /\ Nonterminal(r.m)'
      BY <1>3, <2>2 DEF PhaseOf
    <3>2. r.worker = migration'[r.m].source
      BY <1>0, <2>2 DEF RequestsInv, RequestOK, DestinationCalls
    <3>3. ~InUse(r.worker)'
      BY <1>0, <3>1, <3>2, FreeNext DEF SourcesFree
    <3> QED BY <1>0, <3>1, <3>3 DEF CoordinatorInv, ResumeBoundary, PostResumePhases
  <2>3. ASSUME NEW r \in requests', r.op = "fence"
        PROVE  ~InUse(r.worker)' /\ migration'[r.m].resumeIssued
    <3>1. CASE r \in new
      BY <2>2, <2>3, <3>1
    <3>2. CASE r \notin new
      <4>1. PICK q \in requests : Same(r, q)
        BY <1>2, <3>2
      <4>2. q.m \in Rows
        BY DEF RequestsInv, RequestOK
      <4> QED BY <1>4, <1>6, <2>3, <4>1, <4>2 DEF GoneInv, FencesOK, Same
    <3> QED BY <3>1, <3>2
  <2>4. \A r \in Running("fence")' : accepted'[r.worker] = r.epoch
    BY <1>0, <1>11 DEF GoneInv, FencesOK, Running, Same
  <2>5. ASSUME NEW m \in Rows', migration'[m].phase = "CLEANUP"
        PROVE  /\ \A r \in requests' : r.op = "fence" /\ r.worker = migration'[m].source => r.m = m
               /\ rec'[migration'[m].source].state = "quarantined" =>
                     migration'[m].epochAfter <= accepted'[migration'[m].source]
    <3>0. m \in Rows
      BY <2>5, NewRow
    <3>1. ASSUME NEW r \in requests', r.op = "fence", r.worker = migration'[m].source
          PROVE  r.m = m
      <4>1. CASE r \in new
        <5>1. Nonterminal(m)'
          BY <2>5 DEF Nonterminal, Terminal, TerminalPhases
        <5> QED BY <1>0, <2>2, <3>1, <4>1, <5>1, OneNext DEF OneMigration
      <4>2. CASE r \notin new
        <5>1. PICK q \in requests : Same(r, q)
          BY <1>2, <4>2
        <5>2. ~InUse(migration'[m].source)
          BY <3>1, <5>1 DEF GoneInv, FencesOK, Same
        <5>3. migration[m].phase = "CLEANUP"
          BY <1>13, <2>5, <5>2
        <5>4. \A p \in requests : p.op = "fence" /\ p.worker = migration[m].source => p.m = m
          BY <3>0, <5>3 DEF GoneInv, FencesOK
        <5>5. q.op = "fence" /\ q.worker = migration[m].source /\ r.m = q.m
          BY <1>4, <3>0, <3>1, <5>1 DEF Same
        <5> QED BY <5>4, <5>5
      <4> QED BY <4>1, <4>2
    <3>2. ASSUME rec'[migration'[m].source].state = "quarantined"
          PROVE  migration'[m].epochAfter <= accepted'[migration'[m].source]
      <4>1. migration'[m].source = migration[m].source /\ migration[m].source \in Workers
        BY <1>4, <3>0, RowFacts
      <4>2. migration[m].phase = "CLEANUP"
        BY <1>0, <1>13, <2>5, <3>2, <4>1 DEF GoneInv, FencesOK
      <4> QED BY <1>0, <1>4, <3>0, <3>2, <4>1, <4>2 DEF GoneInv, FencesOK
    <3> QED BY <3>1, <3>2
  <2> QED BY <2>1, <2>3, <2>4, <2>5 DEF FencesOK
<1>15. SourcesGone'
  <2> SUFFICES ASSUME NEW m \in Rows', migration'[m].phase = "DONE" \/ Got(m, "fence")'
               PROVE  Gone(m)'
    BY DEF SourcesGone
  <2>1. m \in Rows /\ (migration[m].phase = "DONE" \/ Got(m, "fence"))
    <3>1. CASE Got(m, "fence")'
      <4>1. Got(m, "fence") /\ m \in Migrations
        BY <1>0, <3>1 DEF NoAnswers, Got, Calls, Rows
      <4> QED BY <4>1 DEF Got, CoordinatorInv, CallsOfPhases, CallOfPhase, Nonterminal
    <3>2. CASE migration'[m].phase = "DONE"
      <4>1. m \in Rows
        BY <3>2, NewRow
      <4> QED BY <3>2, <4>1, PhaseMoves DEF RestsOnAnswer
    <3> QED BY <3>1, <3>2
  <2>2. Gone(m) /\ migration'[m].source = migration[m].source
        /\ migration'[m].epochAfter = migration[m].epochAfter
    BY <1>4, <2>1 DEF GoneInv, SourcesGone
  <2>3. \A r \in Running("prestage")' : r.worker = migration[m].source => migration[m].epochAfter < r.epoch
    BY <1>11, <2>2 DEF Gone, Running, Same
  <2> QED BY <1>0, <2>2, <2>3 DEF Gone
<1>16. RecordTypes'
  BY <1>0 DEF GoneInv, RecordTypes
<1> QED BY <1>0, <1>10, <1>12, <1>14, <1>15, <1>16 DEF GoneInv

-----------------------------------------------------------------------------
(* What keeps it, of the steps of the workers and the proxy.               *)

\* r is q, at most further on its way.
Like(r, q) == r.op = q.op /\ r.m = q.m /\ r.worker = q.worker /\ r.epoch = q.epoch

\* The requests when the handlers of done return and those of begun begin.
Remain(done, begun) ==
    \A r \in requests' : \E q \in requests \ done :
        Like(r, q) /\ (r.stage = "running" => q.stage = "running" \/ q \in begun)

\* The handler of r may begin, as the step leaves its worker; a reservation claims an empty
\* directory there, or joins one of its migration.
MayBegin(r) ==
    LET w == r.worker IN
    /\ r.epoch <= accepted'[w]
    /\ IF r.op = "prestage"
       THEN /\ rec'[w].state = "none" /\ occupied'[w]
            /\ \/ \E q \in Running("prestage") : Like(r, q)
               \/ ~occupied[w] /\ accepted[w] <= r.epoch
       ELSE /\ rec'[w].state # "none"
            /\ r.op = "fence" => accepted'[w] = r.epoch

\* The handler of r, which runs, may go on.
MayGoOn(r) ==
    LET w == r.worker IN
    IF r.op = "prestage" THEN rec'[w].state = "none" /\ occupied'[w]
    ELSE rec'[w].state # "none" /\ (r.op = "fence" => accepted'[w] = accepted[w])

\* Only a fence quarantines, and only a reservation starts a process.
HostMoves(w) ==
    /\ accepted[w] <= accepted'[w] /\ rec'[w].epoch <= accepted'[w]
    /\ \A m \in prepared'[w] :
          m \in prepared[w] \/ (m \in Rows /\ migration[m].epochAfter <= accepted'[w])
    /\ rec'[w].state = "quarantined" =>
          /\ vm'[w] = "none"
          /\ rec[w].state = "quarantined" \/ \E r \in Running("fence") : r.worker = w
    /\ vm[w] = "none" /\ vm'[w] # "none" => \E r \in Running("prestage") : r.worker = w

\* What the answers to a reservation and to a fence say.
AnswersMean ==
    \A m \in Migrations :
        /\ Got(m, "prestage")' =>
              \/ Got(m, "prestage")
              \/ /\ migration[m].epochAfter <= accepted'[migration[m].destination]
                 /\ rec'[migration[m].destination].state # "quarantined"
        /\ Got(m, "fence")' =>
              \/ Got(m, "fence")
              \/ /\ migration[m].epochAfter <= accepted'[migration[m].source]
                 /\ vm'[migration[m].source] = "none"
                 /\ rec'[migration[m].source].state # "none"

Moves(done, begun) ==
    /\ Remain(done, begun) /\ AnswersMean /\ RecordTypes'
    /\ \A w \in Workers : HostMoves(w)
    /\ \A r \in requests \ done : r.stage = "running" => MayGoOn(r)
    /\ \A r \in begun : MayBegin(r) /\ \A q \in begun : q = r

LEMMA MovesKeep ==
    ASSUME CoordinatorInv, RequestsInv, RequestsInv', GoneInv, UNCHANGED <<coordinator, manifest>>,
           NEW done, NEW begun, Moves(done, begun)
    PROVE  GoneInv'
<1>0. /\ UNCHANGED <<sandbox, migration, call>> /\ Rows' = Rows
      /\ \A r \in requests : /\ RequestOK(r) /\ r.m \in Rows /\ r.m \in Migrations
                             /\ r.worker \in Workers /\ r.epoch \in Nat
      /\ accepted \in [Workers -> Nat] /\ accepted' \in [Workers -> Nat]
      /\ \A w \in Workers : accepted[w] \in Nat /\ accepted'[w] \in Nat /\ accepted[w] <= accepted'[w]
  BY DEF coordinator, store, Rows, RequestsInv, RequestTypes, RequestOK, CallRequest, GoneInv,
         RecordTypes, Moves, HostMoves
<1>1. \A m \in Rows : /\ m \in Migrations /\ RowAgrees(m) /\ migration[m].sandbox \in Sandboxes
                      /\ migration[m].source \in Workers /\ migration[m].destination \in Workers
                      /\ migration[m].epochBefore \in Nat /\ migration[m].epochAfter \in Nat
  BY RowFacts
<1>2. ASSUME NEW r \in requests'
      PROVE  \E q \in requests \ done :
                Like(r, q) /\ (r.stage = "running" => q.stage = "running" \/ q \in begun)
  BY <1>2 DEF Moves, Remain
<1>3. Journeys'
  BY <1>0 DEF GoneInv, Journeys
\* What is reserved now was so before, or has just been answered.
<1>4. ASSUME NEW m \in Rows, Reserved(m)', ~Reserved(m)
      PROVE  /\ Got(m, "prestage")' /\ call[m] = "prestage"
             /\ migration[m].epochAfter <= accepted'[migration[m].destination]
             /\ rec'[migration[m].destination].state # "quarantined"
  <2>1. Got(m, "prestage")' /\ ~Got(m, "prestage")
    BY <1>0, <1>4 DEF Reserved
  <2> QED BY <1>0, <1>1, <2>1 DEF Moves, AnswersMean, Got
<1>5. EpochsAccepted'
  <2>1. ASSUME NEW r \in requests', r.op \in Guarded \/ r.stage = "running"
        PROVE  r.epoch <= accepted'[r.worker]
    <3>1. PICK q \in requests \ done :
             Like(r, q) /\ (r.stage = "running" => q.stage = "running" \/ q \in begun)
      BY <1>2
    <3>2. CASE q \in begun
      BY <3>1, <3>2 DEF Moves, MayBegin, Like
    <3>3. CASE q \notin begun
      <4>1. q.epoch <= accepted[q.worker]
        BY <2>1, <3>1, <3>3 DEF GoneInv, EpochsAccepted, Like
      <4> QED BY <1>0, <3>1, <4>1 DEF Like
    <3> QED BY <3>2, <3>3
  <2>2. ASSUME NEW w \in Workers
        PROVE  /\ rec'[w].epoch <= accepted'[w]
               /\ \A m \in prepared'[w] : m \in Rows /\ migration[m].epochAfter <= accepted'[w]
    <3>1. ASSUME NEW m \in prepared'[w], m \in prepared[w]
          PROVE  m \in Rows /\ migration[m].epochAfter <= accepted'[w]
      <4>1. m \in Rows /\ migration[m].epochAfter <= accepted[w]
        BY <3>1 DEF GoneInv, EpochsAccepted
      <4> QED BY <1>0, <1>1, <4>1
    <3> QED BY <3>1 DEF Moves, HostMoves
  <2>3. ASSUME NEW m \in Rows, Reserved(m)'
        PROVE  migration[m].epochAfter <= accepted'[migration[m].destination]
    <3>1. CASE Reserved(m)
      <4>1. migration[m].epochAfter <= accepted[migration[m].destination]
        BY <3>1 DEF GoneInv, EpochsAccepted
      <4> QED BY <1>0, <1>1, <4>1
    <3> QED BY <1>4, <2>3, <3>1
  <2>4. ASSUME NEW s \in Sandboxes, sandbox[s].state \in {"running", "migrating"}
        PROVE  sandbox[s].epoch <= accepted'[sandbox[s].worker]
    <3>1. sandbox[s].epoch <= accepted[sandbox[s].worker] /\ sandbox[s].worker \in Workers
          /\ sandbox[s].epoch \in Nat
      BY <2>4, DestinationsAssumption
         DEF GoneInv, EpochsAccepted, CoordinatorInv, TypeOK, SandboxRow
    <3> QED BY <1>0, <3>1
  <2> QED BY <1>0, <2>1, <2>2, <2>3, <2>4 DEF EpochsAccepted
<1>6. HandlersApart'
  <2>1. ASSUME NEW r \in Running("prestage")'
        PROVE  rec'[r.worker].state = "none" /\ occupied'[r.worker]
    <3>1. PICK q \in requests \ done :
             Like(r, q) /\ (q.stage = "running" \/ q \in begun)
      BY <1>2, <2>1 DEF Running
    <3> QED BY <2>1, <3>1 DEF Moves, MayGoOn, MayBegin, Running, Like
  <2>2. ASSUME NEW r \in Running("prestage")', NEW q \in Running("prestage")', q.worker = r.worker
        PROVE  q.m = r.m
    <3>1. PICK r0 \in requests \ done :
             Like(r, r0) /\ (r0.stage = "running" \/ r0 \in begun)
      BY <1>2, <2>2 DEF Running
    <3>2. PICK q0 \in requests \ done :
             Like(q, q0) /\ (q0.stage = "running" \/ q0 \in begun)
      BY <1>2, <2>2 DEF Running
    <3>3. r0.op = "prestage" /\ q0.op = "prestage" /\ q0.worker = r0.worker
      BY <2>2, <3>1, <3>2 DEF Like, Running
    <3>4. ASSUME NEW p \in Running("prestage")
          PROVE  occupied[p.worker] /\ \A p1 \in Running("prestage") : p1.worker = p.worker => p1.m = p.m
      BY DEF GoneInv, HandlersApart
    <3>5. ASSUME NEW p \in requests \ done, p.op = "prestage", p.stage = "running" \/ p \in begun
          PROVE  \/ \E p1 \in Running("prestage") : Like(p, p1)
                 \/ p \in begun /\ ~occupied[p.worker]
      BY <3>5 DEF Moves, MayBegin, Running, Like
    <3>6. CASE /\ \E p1 \in Running("prestage") : Like(r0, p1)
               /\ \E p1 \in Running("prestage") : Like(q0, p1)
      BY <3>1, <3>2, <3>3, <3>4, <3>6 DEF Like
    <3>7. CASE ~occupied[r0.worker]
      <4>1. r0 \in begun /\ q0 \in begun
        BY <3>1, <3>2, <3>3, <3>4, <3>5, <3>7 DEF Like
      <4> QED BY <3>1, <3>2, <4>1 DEF Moves, Like
    <3> QED BY <3>1, <3>2, <3>3, <3>5, <3>6, <3>7
  <2>3. ASSUME NEW r \in requests', r.stage = "running", r.op # "prestage"
        PROVE  rec'[r.worker].state # "none"
    <3>1. PICK q \in requests \ done :
             Like(r, q) /\ (q.stage = "running" \/ q \in begun)
      BY <1>2, <2>3
    <3> QED BY <2>3, <3>1 DEF Moves, MayGoOn, MayBegin, Like
  <2> QED BY <2>1, <2>2, <2>3 DEF HandlersApart
\* A fence and a reservation do not meet: the fenced migration's epoch is older.
<1>7. ASSUME NEW r \in Running("fence")' PROVE accepted'[r.worker] = r.epoch
  <2>1. PICK q \in requests \ done :
           Like(r, q) /\ (q.stage = "running" \/ q \in begun)
    BY <1>2, <1>7 DEF Running
  <2>2. CASE q \in begun
    BY <1>7, <2>1, <2>2 DEF Moves, MayBegin, Running, Like
  <2>3. CASE q.stage = "running"
    <3>1. q \in Running("fence")
      BY <1>7, <2>1, <2>3 DEF Running, Like
    <3>2. accepted[q.worker] = q.epoch
      BY <3>1 DEF GoneInv, FencesOK
    <3>3. accepted'[q.worker] = accepted[q.worker]
      BY <2>1, <2>3, <3>1 DEF Moves, MayGoOn, Running
    <3> QED BY <2>1, <3>2, <3>3 DEF Like
  <2> QED BY <2>1, <2>2, <2>3
<1>8. ASSUME NEW r \in requests', r.op = "fence", InUse(r.worker)' PROVE FALSE
  <2>1. PICK q \in requests \ done : Like(r, q)
    BY <1>2
  <2>2. ~InUse(r.worker) /\ migration[q.m].resumeIssued /\ q.m \in Rows /\ r.m = q.m
        /\ q.epoch = migration[q.m].epochAfter /\ q.op = "fence"
    BY <1>0, <1>8, <2>1 DEF GoneInv, FencesOK, Like, RequestOK, EpochOf
  <2>3. PICK m \in Rows : Reserved(m)' /\ ~Reserved(m) /\ migration[m].destination = r.worker
    BY <1>0, <1>8, <2>2 DEF InUse
  <2>4. /\ call[m] = "prestage" /\ Nonterminal(m) /\ migration[m].phase = "PRESTAGING"
        /\ migration[m].epochAfter <= accepted'[r.worker]
    BY <1>1, <1>4, <2>3 DEF CoordinatorInv, CallsOfPhases, CallOfPhase, Blocked, Calls, PhaseOf
  <2>5. r.stage = "running"
    <3>1. CASE r.stage = "sent"
      <4>1. r.awaited /\ call'[r.m] = "fence" /\ r.m \in Migrations
        BY <1>0, <1>8, <2>1, <3>1 DEF RequestsInv, RequestOK, GoneInv, Like
      <4>2. Nonterminal(r.m)
        BY <1>0, <4>1 DEF CoordinatorInv, CallsOfPhases, CallOfPhase
      <4> QED BY <1>0, <2>4, <4>1, <4>2, OneNow DEF OneMigration
    <3> QED BY <3>1 DEF RequestsInv, RequestTypes, CallRequest
  <2>6. accepted'[r.worker] = migration[q.m].epochAfter
    BY <1>7, <1>8, <2>1, <2>2, <2>5 DEF Running, Like
  <2>7. migration[q.m].epochAfter <= sandbox[migration[m].sandbox].epoch
    <3>1. migration[q.m].sandbox = migration[m].sandbox
      BY <1>1, <2>2, RowFacts
    <3> QED BY <2>2, <3>1 DEF CoordinatorInv, ResumeEpochsDiffer
  <2>8. sandbox[migration[m].sandbox].epoch = migration[m].epochBefore
        /\ migration[m].epochAfter = migration[m].epochBefore + 1
    <3>1. ~migration[m].resumeIssued
      BY <2>4 DEF CoordinatorInv, ResumeBoundary, PostResumePhases, Nonterminal
    <3> QED BY <1>1, <2>4, <3>1 DEF RowAgrees, Nonterminal
  <2> QED BY <1>1, <2>2, <2>4, <2>6, <2>7, <2>8
<1>9. FencesOK'
  <2>1. ASSUME NEW w \in Workers, rec'[w].state = "quarantined"
        PROVE  vm'[w] = "none" /\ ~InUse(w) /\ ~InUse(w)'
    <3>1. vm'[w] = "none" /\ (rec[w].state = "quarantined" \/ \E r \in Running("fence") : r.worker = w)
      BY <2>1 DEF Moves, HostMoves
    <3>2. ~InUse(w)
      BY <3>1 DEF GoneInv, FencesOK, Running
    <3>3. ~InUse(w)'
      BY <1>0, <1>4, <2>1, <3>2 DEF InUse
    <3> QED BY <3>1, <3>2, <3>3
  <2>2. ASSUME NEW r \in requests', r.op = "fence"
        PROVE  ~InUse(r.worker)' /\ migration'[r.m].resumeIssued
    <3>1. PICK q \in requests \ done : Like(r, q)
      BY <1>2
    <3> QED BY <1>0, <1>8, <2>2, <3>1 DEF GoneInv, FencesOK, Like
  <2>3. ASSUME NEW m \in Rows, migration[m].phase = "CLEANUP",
               NEW r \in requests', r.op = "fence", r.worker = migration[m].source
        PROVE  r.m = m
    <3>1. PICK q \in requests \ done : Like(r, q)
      BY <1>2
    <3> QED BY <2>3, <3>1 DEF GoneInv, FencesOK, Like
  <2>4. ASSUME NEW m \in Rows, migration[m].phase = "CLEANUP",
               rec'[migration[m].source].state = "quarantined"
        PROVE  migration[m].epochAfter <= accepted'[migration[m].source]
    <3>1. migration[m].epochAfter <= accepted[migration[m].source]
      <4>1. CASE rec[migration[m].source].state = "quarantined"
        BY <2>4, <4>1 DEF GoneInv, FencesOK
      <4>2. ASSUME NEW r \in Running("fence"), r.worker = migration[m].source
            PROVE  migration[m].epochAfter <= accepted[migration[m].source]
        <5>1. r \in requests /\ r.op = "fence"
          BY DEF Running
        <5>2. r.m = m
          BY <2>4, <4>2, <5>1 DEF GoneInv, FencesOK
        <5>3. accepted[r.worker] = r.epoch
          BY DEF GoneInv, FencesOK
        <5>4. r.epoch = migration[m].epochAfter
          BY <1>0, <5>1, <5>2 DEF RequestOK, EpochOf
        <5> QED BY <1>1, <4>2, <5>3, <5>4
      <4> QED BY <1>1, <2>4, <4>1, <4>2 DEF Moves, HostMoves
    <3> QED BY <1>0, <1>1, <3>1
  <2> QED BY <1>0, <1>7, <2>1, <2>2, <2>3, <2>4 DEF FencesOK
<1>10. ASSUME NEW r \in Running("prestage")', NEW m \in Rows, r.worker = migration[m].source,
              \A q \in Running("prestage") : q.worker = migration[m].source => migration[m].epochAfter < q.epoch,
              migration[m].epochAfter <= accepted[migration[m].source]
       PROVE  migration[m].epochAfter < r.epoch
  <2>1. PICK q \in requests \ done :
           Like(r, q) /\ (q.stage = "running" \/ q \in begun)
    BY <1>2, <1>10 DEF Running
  <2>2. q.op = "prestage"
    BY <1>10, <2>1 DEF Running, Like
  <2>3. ASSUME NEW p \in Running("prestage"), Like(q, p) PROVE migration[m].epochAfter < r.epoch
    BY <1>10, <2>1, <2>3 DEF Like
  <2>4. CASE q.stage = "running"
    BY <2>1, <2>2, <2>3, <2>4 DEF Running, Like
  <2>5. CASE accepted[q.worker] <= q.epoch
    <3>1. q.m \in Rows /\ q.worker = migration[q.m].destination /\ q.epoch = migration[q.m].epochAfter
      BY <1>0, <2>1, <2>2 DEF RequestOK, EpochOf, DestinationCalls
    <3>2. migration[m].epochAfter <= q.epoch
      BY <1>0, <1>1, <1>10, <2>1, <2>5 DEF Like
    <3>3. migration[m].epochAfter # q.epoch
      <4>1. SUFFICES ASSUME migration[m].epochAfter = migration[q.m].epochAfter PROVE FALSE
        BY <3>1
      <4>2. migration[m].epochBefore = migration[q.m].epochBefore
        BY <1>1, <3>1, <4>1 DEF RowAgrees
      <4>3. migration[m].sandbox = migration[q.m].sandbox
        BY <1>1, <3>1, RowFacts
      <4>4. migration[m].source = migration[q.m].source
        BY <3>1, <4>2, <4>3 DEF GoneInv, Journeys
      <4>5. migration[q.m].source # migration[q.m].destination
        BY <1>1, <3>1 DEF RowAgrees
      <4>6. migration[q.m].destination = migration[m].source
        BY <1>10, <2>1, <3>1 DEF Like
      <4> QED BY <4>4, <4>5, <4>6
    <3> QED BY <1>0, <1>1, <2>1, <3>2, <3>3 DEF Like
  <2> QED BY <2>1, <2>2, <2>3, <2>4, <2>5 DEF Moves, MayBegin
<1>11. SourcesGone'
  <2> SUFFICES ASSUME NEW m \in Rows, migration[m].phase = "DONE" \/ Got(m, "fence")' PROVE Gone(m)'
    BY <1>0 DEF SourcesGone
  <2>1. CASE migration[m].phase = "DONE" \/ Got(m, "fence")
    <3>1. Gone(m)
      BY <2>1 DEF GoneInv, SourcesGone
    <3>2. migration[m].epochAfter <= accepted[migration[m].source]
          /\ migration[m].epochAfter <= accepted'[migration[m].source]
      BY <1>0, <1>1, <3>1 DEF Gone
    <3>3. vm'[migration[m].source] = "none" \/ migration[m].epochAfter < accepted'[migration[m].source]
      <4>1. CASE migration[m].epochAfter < accepted[migration[m].source]
        BY <1>0, <1>1, <4>1
      <4>2. ASSUME NEW r \in Running("prestage"), r.worker = migration[m].source
            PROVE  migration[m].epochAfter < accepted'[migration[m].source]
        <5>1. r \in requests /\ r.stage = "running"
          BY DEF Running
        <5>2. migration[m].epochAfter < r.epoch
          BY <3>1, <4>2 DEF Gone
        <5>3. r.epoch <= accepted[r.worker]
          BY <5>1 DEF GoneInv, EpochsAccepted
        <5> QED BY <1>0, <1>1, <4>2, <5>1, <5>2, <5>3
      <4>3. vm[migration[m].source] = "none" \/ migration[m].epochAfter < accepted[migration[m].source]
        BY <3>1 DEF Gone
      <4> QED BY <1>1, <4>1, <4>2, <4>3 DEF Moves, HostMoves
    <3>4. \A r \in Running("prestage")' : r.worker = migration[m].source => migration[m].epochAfter < r.epoch
      BY <1>10, <3>1, <3>2 DEF Gone
    <3> QED BY <1>0, <3>2, <3>3, <3>4 DEF Gone
  <2>2. CASE Got(m, "fence")' /\ ~Got(m, "fence")
    <3>1. /\ migration[m].epochAfter <= accepted'[migration[m].source]
          /\ vm'[migration[m].source] = "none"
          /\ rec'[migration[m].source].state # "none"
      BY <1>1, <2>2 DEF Moves, AnswersMean
    <3>2. \A r \in Running("prestage")' : r.worker # migration[m].source
      BY <1>6, <3>1 DEF HandlersApart
    <3> QED BY <1>0, <3>1, <3>2 DEF Gone
  <2> QED BY <2>1, <2>2
<1> QED BY <1>3, <1>5, <1>6, <1>9, <1>11 DEF GoneInv, Moves

-----------------------------------------------------------------------------
(* The steps of the workers and the proxy are of that kind.                *)

MovesOn == \E done, begun : Moves(done, begun)

\* Where a step of a worker begins.
Here == /\ CoordinatorInv /\ RequestsInv /\ HostTypes /\ GoneInv
        /\ UNCHANGED <<coordinator, manifest>>

\* The answer to r may be that it is done.
MayAnswer(r) ==
    LET w == r.worker IN
    /\ r.op = "prestage" => r.epoch <= accepted'[w] /\ rec'[w].state # "quarantined"
    /\ r.op = "fence" => r.epoch <= accepted'[w] /\ vm'[w] = "none" /\ rec'[w].state # "none"

LEMMA RequestFacts ==
    ASSUME RequestsInv, NEW r \in requests
    PROVE  /\ r \in CallRequest /\ r.m \in Rows /\ r.m \in Migrations
           /\ r.worker \in Workers /\ r.epoch \in Nat
           /\ r.op = "prestage" => /\ r.worker = migration[r.m].destination
                                   /\ r.epoch = migration[r.m].epochAfter
           /\ r.op = "fence" => /\ r.worker = migration[r.m].source
                                /\ r.epoch = migration[r.m].epochAfter
           /\ r.stage = "sent" /\ ~LateDelivery => r.awaited /\ call[r.m] = r.op
BY DEF RequestsInv, RequestTypes, RequestOK, CallRequest, EpochOf, DestinationCalls

LEMMA ReplyMoves ==
    ASSUME Here, NEW done \in SUBSET requests, NEW status, NEW img, Reply(done, status, img),
           status = "ok" => \A r \in done : MayAnswer(r)
    PROVE  Remain(done, {}) /\ AnswersMean
<1>1. ASSUME NEW r \in requests' PROVE \E q \in requests \ done : Like(r, q) /\ r.stage = q.stage
  <2>1. PICK q \in requests \ done : r = MovedUp(q, done)
    BY <1>1 DEF Reply
  <2>2. q \in CallRequest
    BY <2>1, RequestFacts DEF Here
  <2>3. r.op = q.op /\ r.m = q.m /\ r.worker = q.worker /\ r.epoch = q.epoch /\ r.stage = q.stage
    BY <2>1, <2>2 DEF MovedUp, CallRequest
  <2> QED BY <2>1, <2>3 DEF Like
<1>2. ASSUME NEW m \in Migrations, NEW c \in {"prestage", "fence"}, Got(m, c)', ~Got(m, c)
      PROVE  \E r \in done : r.m = m /\ r.op = c /\ MayAnswer(r)
  <2>1. call' = call /\ RequestsInv
    BY DEF Here, coordinator
  <2>2. \/ replies'[m] = replies[m]
        \/ \E r \in done : /\ r.m = m /\ r.awaited /\ call[m] = r.op /\ replies'[m].status = status
    BY <2>1, Answering
  <2> QED BY <1>2, <2>1, <2>2 DEF Got
<1>3. ASSUME NEW m \in Migrations, Got(m, "prestage")', ~Got(m, "prestage")
      PROVE  /\ migration[m].epochAfter <= accepted'[migration[m].destination]
             /\ rec'[migration[m].destination].state # "quarantined"
  BY <1>2, <1>3, RequestFacts DEF MayAnswer, Here
<1>4. ASSUME NEW m \in Migrations, Got(m, "fence")', ~Got(m, "fence")
      PROVE  /\ migration[m].epochAfter <= accepted'[migration[m].source]
             /\ vm'[migration[m].source] = "none"
             /\ rec'[migration[m].source].state # "none"
  BY <1>2, <1>4, RequestFacts DEF MayAnswer, Here
<1> QED BY <1>1, <1>3, <1>4 DEF Remain, AnswersMean

LEMMA AwaitMoves ==
    ASSUME Here, NEW r \in requests, r.stage = "sent", Await(r)
    PROVE  Remain({}, {r}) /\ AnswersMean
<1>1. PICK n : /\ requests' = (requests \ {r}) \cup {n}
               /\ n.op = r.op /\ n.m = r.m /\ n.worker = r.worker /\ n.epoch = r.epoch
  BY Awaiting DEF Here
<1>2. replies' = replies /\ call' = call
  BY DEF Await, Here, coordinator
<1> QED BY <1>1, <1>2 DEF Remain, AnswersMean, Like, Got

LEMMA WriteOutMoves ==
    ASSUME Here, NEW r \in requests, r.op = "snapshot", r.stage = "running", r.turn = 1,
           NEW img \in Nat, Written(r, img)
    PROVE  Remain({}, {}) /\ AnswersMean
<1>1. PICK n, f : /\ n.op = r.op /\ n.m = r.m /\ n.worker = r.worker /\ n.epoch = r.epoch
                  /\ Carried(requests \ {r}, f, {n})
  BY LeavingItsQueue DEF Here
<1>2. replies' = replies /\ call' = call
  BY DEF Written, Here, coordinator
<1> QED BY <1>1, <1>2 DEF Carried, Same, Remain, AnswersMean, Like, Got

LEMMA StayMoves ==
    ASSUME Here, UNCHANGED <<requests, replies>> PROVE Remain({}, {}) /\ AnswersMean
<1>1. call' = call
  BY DEF Here, coordinator
<1> QED BY <1>1 DEF Remain, AnswersMean, Like, Got

\* The worker knows no more epochs, has no record more or less, nobody is quarantined, and no
\* process starts.
CalmHost ==
    /\ UNCHANGED <<accepted, occupied>> /\ RecordTypes'
    /\ \A w \in Workers :
          /\ rec'[w].epoch <= accepted[w]
          /\ rec'[w].state = "none" <=> rec[w].state = "none"
          /\ rec'[w].state = "quarantined" => rec[w].state = "quarantined"
          /\ vm[w] = "none" => vm'[w] = "none"
          /\ \A m \in prepared'[w] :
                m \in prepared[w] \/ (m \in Rows /\ migration[m].epochAfter <= accepted[w])

LEMMA CalmMoves ==
    ASSUME Here, CalmHost
    PROVE  /\ RecordTypes' /\ \A w \in Workers : HostMoves(w)
           /\ \A r \in requests : r.stage = "running" => MayGoOn(r)
<1>1. \A w \in Workers : accepted[w] \in Nat /\ accepted'[w] = accepted[w]
  BY DEF Here, GoneInv, RecordTypes, CalmHost
<1>2. ASSUME NEW w \in Workers PROVE HostMoves(w)
  BY <1>1 DEF CalmHost, HostMoves, Here, GoneInv, FencesOK
<1>3. ASSUME NEW r \in requests, r.stage = "running" PROVE MayGoOn(r)
  <2>1. r.worker \in Workers
    BY RequestFacts DEF Here
  <2> QED BY <1>3, <2>1 DEF CalmHost, MayGoOn, Here, GoneInv, HandlersApart, Running
<1> QED BY <1>2, <1>3 DEF CalmHost

LEMMA CalmReturn ==
    ASSUME Here, CalmHost, NEW done \in SUBSET requests, NEW status, NEW img,
           Reply(done, status, img), status = "ok" => \A r \in done : MayAnswer(r)
    PROVE  MovesOn
<1>1. Moves(done, {})
  BY ReplyMoves, CalmMoves DEF Moves
<1> QED BY <1>1 DEF MovesOn

LEMMA CalmWait ==
    ASSUME Here, CalmHost, NEW r \in requests, r.stage = "sent", Await(r), MayBegin(r)
    PROVE  MovesOn
<1>1. Moves({}, {r})
  BY AwaitMoves, CalmMoves DEF Moves
<1> QED BY <1>1 DEF MovesOn

LEMMA CalmStay ==
    ASSUME Here, CalmHost, UNCHANGED <<requests, replies>> PROVE MovesOn
<1>1. Moves({}, {})
  BY StayMoves, CalmMoves DEF Moves
<1> QED BY <1>1 DEF MovesOn

LEMMA UnchangedCalm ==
    ASSUME Here, UNCHANGED <<rec, prepared, accepted, occupied, vm>> PROVE CalmHost
BY DEF Here, GoneInv, CalmHost, RecordTypes, EpochsAccepted

\* The handler of a guarded call begins: the epoch it brings is known to the worker.
Starting(r) ==
    /\ UNCHANGED <<rec, prepared, occupied, vm>>
    /\ \/ UNCHANGED accepted
       \/ r.epoch >= accepted[r.worker] /\ Accept(r.worker, r.epoch)
    /\ \/ \E status \in {"ok", "error"} : \E img : Reply({r}, status, img)
       \/ Await(r) /\ rec[r.worker].state # "none"

GuardedBegins(r) == Starting(r) \/ \E expected : NotAdmitted(r, expected)

LEMMA GuardedBegin ==
    ASSUME Here, NEW r \in requests, r.op \in Guarded, r.stage = "sent", GuardedBegins(r)
    PROVE  MovesOn
<1>0. /\ r.worker \in Workers /\ r.epoch \in Nat /\ accepted \in [Workers -> Nat]
      /\ r.epoch <= accepted[r.worker] /\ r.op \notin {"prestage", "fence"}
  BY RequestFacts DEF Here, GoneInv, EpochsAccepted, RecordTypes, Guarded
<1>1. ASSUME r.epoch >= accepted[r.worker], Accept(r.worker, r.epoch) PROVE UNCHANGED accepted
  BY <1>0, <1>1 DEF Accept
<1>2. ASSUME UNCHANGED <<rec, prepared, occupied, vm, accepted>>,
             NEW status, NEW img, Reply({r}, status, img)
      PROVE  MovesOn
  BY <1>0, <1>2, UnchangedCalm, CalmReturn DEF MayAnswer
<1>3. CASE Starting(r)
  <2>1. UNCHANGED <<rec, prepared, occupied, vm, accepted>>
    BY <1>1, <1>3 DEF Starting
  <2>2. CASE Await(r) /\ rec[r.worker].state # "none"
    <3>1. MayBegin(r)
      BY <1>0, <2>1, <2>2 DEF MayBegin
    <3> QED BY <2>1, <2>2, <3>1, UnchangedCalm, CalmWait
  <2> QED BY <1>2, <1>3, <2>1, <2>2 DEF Starting
<1>4. ASSUME NEW expected, NotAdmitted(r, expected) PROVE MovesOn
  <2>1. ~Superseded(r)
    BY <1>0 DEF Superseded
  <2>2. Refuse(r, expected)
    BY <1>4, <2>1 DEF NotAdmitted, FenceQuietly
  <2>3. UNCHANGED <<rec, prepared, occupied, vm, accepted>>
    BY <1>1, <2>2 DEF Refuse, record, host
  <2> QED BY <1>2, <2>2, <2>3 DEF Refuse, Error
<1> QED BY <1>3, <1>4 DEF GuardedBegins

LEMMA ResumeSandboxStarts ==
    ASSUME NEW r, BeginResumeSandbox(r) PROVE GuardedBegins(r)
<1>1. CASE \E expected : NotAdmitted(r, expected)
  BY <1>1 DEF GuardedBegins
<1>2. CASE Admitted(r, {"paused"}) /\ Accept(r.worker, r.epoch) /\ Error(r) /\ UNCHANGED <<record, host>>
  BY <1>2 DEF Admitted, Error, record, host, Starting, GuardedBegins
<1>3. CASE Admitted(r, {"paused"}) /\ StartWork(r) /\ UNCHANGED <<rec, prepared, registered, manifests, host>>
  BY <1>3 DEF Admitted, StartWork, host, Starting, GuardedBegins
<1> QED BY <1>1, <1>2, <1>3 DEF BeginResumeSandbox

LEMMA CheckStarts ==
    ASSUME NEW r, NEW expected, Check(r, expected) PROVE GuardedBegins(r)
BY DEF Check, GuardedBegins, Starting, Admitted, OkOrHostError, Ok, Error, record, host

LEMMA AnswerStarts ==
    ASSUME NEW r, NEW ok, Answer(r, ok) PROVE GuardedBegins(r)
BY DEF Answer, GuardedBegins, Starting, Ok, Error, record, host

LEMMA WorkStarts ==
    ASSUME NEW r, NEW expected, "none" \notin expected, Admitted(r, expected), StartWork(r),
           UNCHANGED <<record, host>>
    PROVE  GuardedBegins(r)
BY DEF Admitted, StartWork, GuardedBegins, Starting, record, host

\* Every handler of a guarded call, as it begins.
LEMMA GuardedHandlersBegin ==
    ASSUME \/ Probe \/ Precopy \/ BeginPause \/ BeginSnapshot \/ BeginTransfer \/ BeginLoad
           \/ BeginResume \/ BeginRollback \/ Verify \/ Expose
    PROVE  \E r \in requests : r.op \in Guarded /\ r.stage = "sent" /\ GuardedBegins(r)
<1>0. \A op \in Guarded : \A r \in Sent(op) : r \in requests /\ r.op \in Guarded /\ r.stage = "sent"
  BY DEF Sent
<1>1. {"probe", "precopy", "pause", "snapshot", "transfer", "load", "resume", "rollback", "verify",
       "expose"} \subseteq Guarded
  BY DEF Guarded, Operations
<1>2. "none" \notin RecordStates
  BY DEF RecordStates
<1>3. CASE Probe \/ Precopy \/ Verify \/ Expose
  <2>1. \E r \in Sent("probe") \cup Sent("precopy") \cup Sent("verify") \cup Sent("expose") : \E expected :
           Check(r, expected)
    BY <1>3 DEF Probe, Precopy, Verify, Expose
  <2> QED BY <1>0, <1>1, <2>1, CheckStarts
<1>4. CASE BeginPause
  <2>1. PICK r \in Sent("pause") :
           \/ Answer(r, TRUE) \/ NotAdmitted(r, RecordStates)
           \/ Admitted(r, RecordStates) /\ StartWork(r) /\ UNCHANGED <<record, host>>
    BY <1>4 DEF BeginPause
  <2>2. GuardedBegins(r)
    BY <1>2, <2>1, AnswerStarts, WorkStarts DEF GuardedBegins
  <2> QED BY <1>0, <1>1, <2>2
<1>5. CASE BeginSnapshot
  <2>1. PICK r \in Sent("snapshot") :
           \/ (\E img : Reply({r}, "ok", img)) /\ UNCHANGED <<record, host, accepted>>
           \/ NotAdmitted(r, {"paused"})
           \/ Admitted(r, {"paused"}) /\ StartWork(r) /\ UNCHANGED <<record, host>>
    BY <1>5 DEF BeginSnapshot
  <2>2. GuardedBegins(r)
    <3>1. CASE (\E img : Reply({r}, "ok", img)) /\ UNCHANGED <<record, host, accepted>>
      BY <3>1 DEF GuardedBegins, Starting, record, host
    <3> QED BY <2>1, <3>1, WorkStarts DEF GuardedBegins
  <2> QED BY <1>0, <1>1, <2>2
<1>6. CASE BeginTransfer
  <2>1. PICK r \in Sent("transfer") :
           \/ NotAdmitted(r, {"booting"})
           \/ /\ Admitted(r, {"booting"}) /\ Accept(r.worker, r.epoch)
              /\ (Ok(r) \/ Error(r)) /\ UNCHANGED <<record, host>>
           \/ Admitted(r, {"booting"}) /\ StartWork(r) /\ UNCHANGED <<record, host>>
    BY <1>6 DEF BeginTransfer, OkOrHostError
  <2>2. GuardedBegins(r)
    <3>1. CASE /\ Admitted(r, {"booting"}) /\ Accept(r.worker, r.epoch)
               /\ (Ok(r) \/ Error(r)) /\ UNCHANGED <<record, host>>
      BY <3>1 DEF GuardedBegins, Starting, Admitted, Ok, Error, record, host
    <3> QED BY <2>1, <3>1, WorkStarts DEF GuardedBegins
  <2> QED BY <1>0, <1>1, <2>2
<1>7. CASE BeginLoad
  <2>1. PICK r \in Sent("load") :
           \/ Answer(r, FALSE) \/ Answer(r, TRUE)
           \/ NotAdmitted(r, {"booting"})
           \/ Admitted(r, {"booting"}) /\ Accept(r.worker, r.epoch) /\ Error(r) /\ UNCHANGED <<record, host>>
           \/ Admitted(r, {"booting"}) /\ StartWork(r) /\ UNCHANGED <<record, host>>
    BY <1>7 DEF BeginLoad
  <2>2. GuardedBegins(r)
    <3>1. CASE Admitted(r, {"booting"}) /\ Accept(r.worker, r.epoch) /\ Error(r) /\ UNCHANGED <<record, host>>
      BY <3>1 DEF GuardedBegins, Starting, Admitted, Error, record, host
    <3> QED BY <2>1, <3>1, AnswerStarts, WorkStarts DEF GuardedBegins
  <2> QED BY <1>0, <1>1, <2>2
<1>8. CASE BeginResume
  <2>1. PICK r \in Sent("resume") : Answer(r, TRUE) \/ BeginResumeSandbox(r)
    BY <1>8 DEF BeginResume
  <2> QED BY <1>0, <1>1, <2>1, AnswerStarts, ResumeSandboxStarts
<1>9. CASE BeginRollback
  <2>1. PICK r \in Sent("rollback") :
           \/ Answer(r, FALSE) \/ BeginResumeSandbox(r)
           \/ OkOrHostError(r) /\ UNCHANGED <<record, host, accepted>>
    BY <1>9 DEF BeginRollback
  <2>2. GuardedBegins(r)
    <3>1. CASE OkOrHostError(r) /\ UNCHANGED <<record, host, accepted>>
      BY <3>1 DEF GuardedBegins, Starting, OkOrHostError, Ok, Error, record, host
    <3> QED BY <2>1, <3>1, AnswerStarts, ResumeSandboxStarts
  <2> QED BY <1>0, <1>1, <2>2
<1> QED BY <1>3, <1>4, <1>5, <1>6, <1>7, <1>8, <1>9

\* The handler of a guarded call ends: it had a record, and leaves one that is not fenced off.
GuardedEnds(r) ==
    LET w == r.worker IN
    /\ \E status \in {"ok", "error"} : \E img : Reply({r}, status, img)
    /\ UNCHANGED <<accepted, occupied, prepared>>
    /\ \/ UNCHANGED rec
       \/ rec' = [rec EXCEPT ![w].state = "paused"]
       \/ rec' = [rec EXCEPT ![w].loaded = r.m, ![w].state = "paused"]
       \/ rec' = [rec EXCEPT ![w].state = "running", ![w].epoch = r.epoch]
    /\ \/ UNCHANGED vm
       \/ vm[w] # "none" /\ \E left : vm' = [vm EXCEPT ![w] = left]

LEMMA GuardedEnd ==
    ASSUME Here, NEW r \in requests, r.op \in Guarded, r.stage = "running", GuardedEnds(r)
    PROVE  MovesOn
<1>0. /\ r.worker \in Workers /\ r.epoch \in Nat /\ r.m \in Migrations
      /\ r.op \notin {"prestage", "fence"}
      /\ r.epoch <= accepted[r.worker] /\ rec[r.worker].state # "none"
      /\ vm \in [Workers -> Processes]
  BY RequestFacts DEF Here, GoneInv, EpochsAccepted, HandlersApart, HostTypes, Guarded
<1>1. /\ rec \in [Workers -> [state : RecordStates \cup {"none"}, epoch : Nat,
                              loaded : Migrations \cup {None}]]
      /\ accepted \in [Workers -> Nat] /\ \A w \in Workers : rec[w].epoch <= accepted[w]
      /\ {"paused", "running"} \subseteq RecordStates
  BY DEF Here, GoneInv, RecordTypes, EpochsAccepted, RecordStates
<1>2. /\ rec' \in [Workers -> [state : RecordStates \cup {"none"}, epoch : Nat,
                               loaded : Migrations \cup {None}]]
      /\ \A w \in Workers : /\ rec'[w].epoch <= accepted[w]
                            /\ rec'[w].state = "none" <=> rec[w].state = "none"
                            /\ rec'[w].state = "quarantined" => rec[w].state = "quarantined"
  <2>1. CASE UNCHANGED rec
    BY <1>1, <2>1
  <2>2. CASE rec' = [rec EXCEPT ![r.worker].state = "paused"]
    BY <1>0, <1>1, <2>2
  <2>3. CASE rec' = [rec EXCEPT ![r.worker].loaded = r.m, ![r.worker].state = "paused"]
    BY <1>0, <1>1, <2>3
  <2>4. CASE rec' = [rec EXCEPT ![r.worker].state = "running", ![r.worker].epoch = r.epoch]
    BY <1>0, <1>1, <2>4
  <2> QED BY <2>1, <2>2, <2>3, <2>4 DEF GuardedEnds
<1>3. \A w \in Workers : vm[w] = "none" => vm'[w] = "none"
  BY <1>0 DEF GuardedEnds
<1>4. CalmHost
  BY <1>2, <1>3 DEF CalmHost, GuardedEnds, RecordTypes, Here, GoneInv
<1> QED BY <1>0, <1>4, CalmReturn DEF GuardedEnds, MayAnswer

LEMMA ResumeSandboxIsOver == ASSUME NEW r, EndResumeSandbox(r) PROVE GuardedEnds(r)
BY DEF EndResumeSandbox, OkOrHostError, WorkFails, Ok, Error, GuardedEnds, record, host

LEMMA GuardedHandlersEnd ==
    ASSUME EndPause \/ EndSnapshot \/ EndTransfer \/ EndLoad \/ EndResume \/ EndRollback
    PROVE  \E r \in requests : r.op \in Guarded /\ r.stage = "running" /\ GuardedEnds(r)
<1>0. \A op \in Guarded : \A r \in Running(op) :
         r \in requests /\ r.op \in Guarded /\ r.stage = "running"
  BY DEF Running
<1>1. {"pause", "snapshot", "transfer", "load", "resume", "rollback"} \subseteq Guarded
  BY DEF Guarded, Operations
<1>2. \A op : AtFirecracker(op) \subseteq Running(op)
  BY DEF AtFirecracker
<1>3. CASE EndPause
  <2>1. PICK r \in AtFirecracker("pause") : GuardedEnds(r)
    BY <1>3 DEF EndPause, GuardedEnds, WorkFails, Ok, Error, record, host
  <2> QED BY <1>0, <1>1, <1>2, <2>1
<1>4. CASE EndSnapshot
  <2>1. PICK r \in SnapshotWritten : GuardedEnds(r)
    BY <1>4 DEF EndSnapshot, GuardedEnds, WorkFails, Error, record, host
  <2>2. r \in Running("snapshot")
    BY <2>1 DEF SnapshotWritten
  <2> QED BY <1>0, <1>1, <2>1, <2>2
<1>5. CASE EndTransfer
  <2>1. PICK r \in Running("transfer") : GuardedEnds(r)
    BY <1>5 DEF EndTransfer, OkOrHostError, GuardedEnds, WorkFails, Ok, Error, record, host
  <2> QED BY <1>0, <1>1, <2>1
<1>6. CASE EndLoad
  <2>1. PICK r \in AtFirecracker("load") : GuardedEnds(r)
    BY <1>6 DEF EndLoad, GuardedEnds, WorkFails, Ok, Error, record, host
  <2> QED BY <1>0, <1>1, <1>2, <2>1
<1>7. CASE EndResume
  <2>1. PICK r \in AtFirecracker("resume") : EndResumeSandbox(r)
    BY <1>7 DEF EndResume
  <2> QED BY <1>0, <1>1, <1>2, <2>1, ResumeSandboxIsOver
<1>8. CASE EndRollback
  <2>1. PICK r \in AtFirecracker("rollback") : EndResumeSandbox(r)
    BY <1>8 DEF EndRollback
  <2> QED BY <1>0, <1>1, <1>2, <2>1, ResumeSandboxIsOver
<1> QED BY <1>3, <1>4, <1>5, <1>6, <1>7, <1>8

LEMMA SnapshotMoves == ASSUME Here, TakeSnapshot PROVE MovesOn
<1>1. PICK r \in AtFirecracker("snapshot") :
         \/ /\ Written(r, image[r.worker])
            /\ UNCHANGED <<rec, prepared, accepted, occupied, vm>>
         \/ WorkFails(r)
  BY DEF TakeSnapshot, Written, record, host
<1>2. /\ r \in requests /\ r.op = "snapshot" /\ r.stage = "running" /\ r.turn = 1
      /\ r.op \in Guarded /\ image[r.worker] \in Nat
  BY <1>1, RequestFacts DEF AtFirecracker, Running, Guarded, Operations, Here, HostTypes
<1>3. CASE WorkFails(r)
  <2>1. GuardedEnds(r)
    BY <1>3 DEF GuardedEnds, WorkFails, Error, record, host
  <2> QED BY <1>2, <2>1, GuardedEnd
<1>4. CASE Written(r, image[r.worker]) /\ UNCHANGED <<rec, prepared, accepted, occupied, vm>>
  <2>1. Moves({}, {})
    BY <1>2, <1>4, UnchangedCalm, CalmMoves, WriteOutMoves DEF Moves
  <2> QED BY <2>1 DEF MovesOn
<1> QED BY <1>1, <1>3, <1>4

\* What a handler finds on its worker.
LEMMA WorkerFacts ==
    ASSUME Here, NEW r \in requests
    PROVE  /\ r.worker \in Workers /\ r.epoch \in Nat /\ r.m \in Migrations /\ r.m \in Rows
           /\ vm \in [Workers -> Processes]
           /\ rec \in [Workers -> [state : RecordStates \cup {"none"}, epoch : Nat,
                                   loaded : Migrations \cup {None}]]
           /\ accepted \in [Workers -> Nat] /\ occupied \in [Workers -> BOOLEAN]
           /\ prepared \in [Workers -> SUBSET Migrations]
           /\ \A w \in Workers :
                 /\ rec[w].epoch \in Nat /\ accepted[w] \in Nat /\ rec[w].epoch <= accepted[w]
                 /\ rec[w].state = "quarantined" => vm[w] = "none"
           /\ r.stage = "running" => r.epoch <= accepted[r.worker]
           /\ r.stage = "running" /\ r.op = "prestage" =>
                 rec[r.worker].state = "none" /\ occupied[r.worker]
           /\ r.stage = "running" /\ r.op # "prestage" => rec[r.worker].state # "none"
           /\ r.stage = "running" /\ r.op = "fence" => accepted[r.worker] = r.epoch
<1>1. r.stage = "running" => r \in Running(r.op)
  BY DEF Running
<1> QED BY <1>1, RequestFacts
        DEF Here, HostTypes, GoneInv, RecordTypes, EpochsAccepted, HandlersApart, FencesOK

\* On every other worker nothing changes.
LEMMA ElsewhereCalm ==
    ASSUME Here, NEW w \in Workers,
           rec'[w] = rec[w], accepted'[w] = accepted[w], occupied'[w] = occupied[w],
           prepared'[w] = prepared[w], vm'[w] = vm[w]
    PROVE  HostMoves(w) /\ \A r \in requests : r.stage = "running" /\ r.worker = w => MayGoOn(r)
<1>1. accepted[w] \in Nat
  BY DEF Here, GoneInv, RecordTypes
<1>2. HostMoves(w)
  BY <1>1 DEF HostMoves, Here, GoneInv, EpochsAccepted, FencesOK
<1>3. ASSUME NEW r \in requests, r.stage = "running", r.worker = w PROVE MayGoOn(r)
  BY <1>3, WorkerFacts DEF MayGoOn
<1> QED BY <1>2, <1>3

LEMMA PrestageBegins == ASSUME Here, BeginPrestage PROVE MovesOn
<1>0. PICK r \in Sent("prestage") :
         \/ /\ r.m \in prepared[r.worker]
            /\ Answer(r, vm[r.worker] # "none")
         \/ /\ Preparing(r.worker, r.m) # {}
            /\ Await(r)
            /\ UNCHANGED <<record, host, accepted>>
         \/ /\ rec[r.worker].state # "none" /\ rec[r.worker].epoch = r.epoch
            /\ prepared' = [prepared EXCEPT ![r.worker] = @ \cup {r.m}]
            /\ IF vm[r.worker] # "none" THEN Ok(r) ELSE Error(r)
            /\ UNCHANGED <<rec, consumed, registered, manifests, host, accepted>>
         \/ Answer(r, FALSE)
         \/ /\ rec[r.worker].state = "none" /\ r.epoch >= accepted[r.worker] /\ occupied[r.worker]
            /\ Accept(r.worker, r.epoch)
            /\ Error(r)
            /\ UNCHANGED <<record, host>>
         \/ /\ rec[r.worker].state = "none" /\ r.epoch >= accepted[r.worker] /\ ~occupied[r.worker]
            /\ occupied' = [occupied EXCEPT ![r.worker] = TRUE]
            /\ StartWork(r)
            /\ UNCHANGED <<record, vm, image, files>>
  BY DEF BeginPrestage
<1>1. PICK w : w = r.worker
  OBVIOUS
<1>2. /\ r \in requests /\ r.op = "prestage" /\ r.stage = "sent" /\ {r} \in SUBSET requests
      /\ r.epoch = migration[r.m].epochAfter
  BY RequestFacts DEF Sent, Here
<1>3. /\ w \in Workers /\ r.epoch \in Nat /\ r.m \in Migrations /\ r.m \in Rows
      /\ rec \in [Workers -> [state : RecordStates \cup {"none"}, epoch : Nat,
                              loaded : Migrations \cup {None}]]
      /\ accepted \in [Workers -> Nat] /\ occupied \in [Workers -> BOOLEAN]
      /\ prepared \in [Workers -> SUBSET Migrations]
      /\ accepted[w] \in Nat /\ rec[w].epoch \in Nat /\ rec[w].epoch <= accepted[w]
      /\ rec[w].state = "quarantined" => vm[w] = "none"
  BY <1>1, <1>2, WorkerFacts
\* A refusal.
<1>4. ASSUME UNCHANGED <<rec, prepared, accepted, occupied, vm>>, Error(r) PROVE MovesOn
  BY <1>2, <1>4, UnchangedCalm, CalmReturn DEF Error
<1>5. CASE r.m \in prepared[w] /\ Answer(r, vm[w] # "none")
  <2>1. UNCHANGED <<rec, prepared, accepted, occupied, vm>>
    BY <1>5 DEF Answer, record, host
  <2>2. CASE vm[w] = "none"
    BY <1>4, <1>5, <2>1, <2>2 DEF Answer
  <2>3. CASE vm[w] # "none"
    <3>1. r.epoch <= accepted[w]
      BY <1>2, <1>3, <1>5 DEF Here, GoneInv, EpochsAccepted
    <3>2. MayAnswer(r)
      BY <1>1, <1>2, <1>3, <2>1, <2>3, <3>1 DEF MayAnswer
    <3>3. Reply({r}, "ok", 0)
      BY <1>5, <2>3 DEF Answer, Ok
    <3> QED BY <1>2, <2>1, <3>2, <3>3, UnchangedCalm, CalmReturn
  <2> QED BY <2>2, <2>3
<1>6. CASE Preparing(w, r.m) # {} /\ Await(r) /\ UNCHANGED <<record, host, accepted>>
  <2>1. UNCHANGED <<rec, prepared, accepted, occupied, vm>>
    BY <1>6 DEF record, host
  <2>2. PICK q \in Running("prestage") : q.worker = w /\ q.m = r.m
    BY <1>6 DEF Preparing
  <2>3. q \in requests /\ q.op = "prestage" /\ q.stage = "running" /\ q.epoch = r.epoch
    BY <1>2, <2>2, RequestFacts DEF Running, Here
  <2>4. MayBegin(r)
    BY <1>1, <1>2, <2>1, <2>2, <2>3, WorkerFacts DEF MayBegin, Like
  <2> QED BY <1>2, <1>6, <2>1, <2>4, UnchangedCalm, CalmWait
<1>7. CASE /\ rec[w].state # "none" /\ rec[w].epoch = r.epoch
           /\ prepared' = [prepared EXCEPT ![w] = @ \cup {r.m}]
           /\ IF vm[w] # "none" THEN Ok(r) ELSE Error(r)
           /\ UNCHANGED <<rec, consumed, registered, manifests, host, accepted>>
  <2>1. UNCHANGED <<rec, accepted, occupied, vm>>
    BY <1>7 DEF host
  <2>2. prepared' \in [Workers -> SUBSET Migrations]
    BY <1>3, <1>7
  <2>3. \A v \in Workers : \A m \in prepared'[v] :
           m \in prepared[v] \/ (m \in Rows /\ migration[m].epochAfter <= accepted[v])
    BY <1>2, <1>3, <1>7
  <2>4. CalmHost
    BY <2>1, <2>2, <2>3 DEF CalmHost, RecordTypes, Here, GoneInv, EpochsAccepted
  <2>5. vm[w] # "none" => MayAnswer(r)
    BY <1>1, <1>2, <1>3, <1>7, <2>1 DEF MayAnswer
  <2> QED BY <1>2, <1>7, <2>4, <2>5, CalmReturn DEF Ok, Error
<1>8. CASE Answer(r, FALSE)
  BY <1>4, <1>8 DEF Answer, record, host
\* A worker without a record has no handler but reservations, and those only in its directory.
<1>9. ASSUME rec[w].state = "none", accepted' = [accepted EXCEPT ![w] = r.epoch],
             r.epoch >= accepted[w], UNCHANGED <<rec, prepared, vm>>,
             occupied' \in [Workers -> BOOLEAN],
             \A v \in Workers : v # w => occupied'[v] = occupied[v],
             occupied[w] => occupied'[w]
      PROVE  /\ RecordTypes' /\ \A v \in Workers : HostMoves(v)
             /\ \A q \in requests : q.stage = "running" => MayGoOn(q)
  <2>1. RecordTypes'
    BY <1>3, <1>9 DEF RecordTypes
  <2>2. accepted'[w] = r.epoch /\ \A v \in Workers : v # w => accepted'[v] = accepted[v]
    BY <1>3, <1>9
  <2>3. HostMoves(w)
    BY <1>3, <1>9, <2>2 DEF HostMoves
  <2>4. ASSUME NEW q \in requests, q.stage = "running", q.worker = w PROVE MayGoOn(q)
    BY <1>9, <2>4, WorkerFacts DEF MayGoOn
  <2>5. \A v \in Workers : v # w =>
           HostMoves(v) /\ \A q \in requests : q.stage = "running" /\ q.worker = v => MayGoOn(q)
    BY <1>9, <2>2, ElsewhereCalm
  <2>6. \A q \in requests : q.worker \in Workers
    BY WorkerFacts
  <2> QED BY <2>1, <2>3, <2>4, <2>5, <2>6
<1>10. CASE /\ rec[w].state = "none" /\ r.epoch >= accepted[w] /\ occupied[w]
            /\ Accept(w, r.epoch) /\ Error(r) /\ UNCHANGED <<record, host>>
  <2>1. /\ RecordTypes' /\ \A v \in Workers : HostMoves(v)
        /\ \A q \in requests : q.stage = "running" => MayGoOn(q)
    BY <1>3, <1>9, <1>10 DEF Accept, record, host
  <2>2. Remain({r}, {}) /\ AnswersMean
    BY <1>2, <1>10, ReplyMoves DEF Error
  <2>3. Moves({r}, {})
    BY <2>1, <2>2 DEF Moves
  <2> QED BY <2>3 DEF MovesOn
<1>11. CASE /\ rec[w].state = "none" /\ r.epoch >= accepted[w] /\ ~occupied[w]
            /\ occupied' = [occupied EXCEPT ![w] = TRUE]
            /\ StartWork(r) /\ UNCHANGED <<record, vm, image, files>>
  <2>1. /\ accepted' = [accepted EXCEPT ![w] = r.epoch] /\ Await(r)
        /\ UNCHANGED <<rec, prepared, vm>>
        /\ occupied' \in [Workers -> BOOLEAN] /\ occupied'[w]
        /\ \A v \in Workers : v # w => occupied'[v] = occupied[v]
    BY <1>1, <1>3, <1>11 DEF StartWork, Accept, record
  <2>2. /\ RecordTypes' /\ \A v \in Workers : HostMoves(v)
        /\ \A q \in requests : q.stage = "running" => MayGoOn(q)
    BY <1>9, <1>11, <2>1
  <2>3. MayBegin(r)
    BY <1>1, <1>2, <1>3, <1>11, <2>1 DEF MayBegin
  <2>4. Remain({}, {r}) /\ AnswersMean
    BY <1>2, <2>1, AwaitMoves
  <2>5. Moves({}, {r})
    BY <2>2, <2>3, <2>4 DEF Moves
  <2> QED BY <2>5 DEF MovesOn
<1> QED BY <1>0, <1>1, <1>5, <1>6, <1>7, <1>8, <1>10, <1>11

LEMMA PrestageIsOver == ASSUME Here, EndPrestage PROVE MovesOn
<1>0. PICK r \in Running("prestage") :
         \/ /\ vm' = [vm EXCEPT ![r.worker] = "idle"]
            /\ rec' = [rec EXCEPT ![r.worker] =
                         [state |-> "booting", epoch |-> r.epoch, loaded |-> None]]
            /\ prepared' = [prepared EXCEPT ![r.worker] = @ \cup {r.m}]
            /\ Reply(Preparing(r.worker, r.m), "ok", 0)
            /\ UNCHANGED <<occupied, accepted>>
         \/ /\ occupied' = [occupied EXCEPT ![r.worker] = FALSE]
            /\ Reply(Preparing(r.worker, r.m), "error", 0)
            /\ UNCHANGED <<rec, prepared, vm, accepted>>
  BY DEF EndPrestage, record
<1>1. PICK w, done : w = r.worker /\ done = Preparing(r.worker, r.m)
  OBVIOUS
<1>2. /\ r \in requests /\ r.op = "prestage" /\ r.stage = "running"
      /\ r.epoch = migration[r.m].epochAfter
  BY RequestFacts DEF Running, Here
<1>3. /\ w \in Workers /\ r.epoch \in Nat /\ r.m \in Migrations /\ r.m \in Rows
      /\ vm \in [Workers -> Processes]
      /\ rec \in [Workers -> [state : RecordStates \cup {"none"}, epoch : Nat,
                              loaded : Migrations \cup {None}]]
      /\ accepted \in [Workers -> Nat] /\ occupied \in [Workers -> BOOLEAN]
      /\ prepared \in [Workers -> SUBSET Migrations]
      /\ accepted[w] \in Nat /\ r.epoch <= accepted[w] /\ rec[w].epoch <= accepted[w]
      /\ rec[w].state = "none"
  BY <1>1, <1>2, WorkerFacts
<1>4. done \in SUBSET requests
  BY <1>1 DEF Preparing, Running
\* All that run on w are of done.
<1>5. ASSUME NEW q \in requests \ done, q.stage = "running" PROVE q.worker # w
  <2>1. SUFFICES ASSUME q.worker = w PROVE FALSE
    OBVIOUS
  <2>2. q.op = "prestage"
    BY <1>3, <1>5, <2>1, WorkerFacts
  <2>3. q \in Running("prestage")
    BY <1>5, <2>2 DEF Running
  <2>4. q.m = r.m
    BY <1>1, <2>1, <2>3 DEF Here, GoneInv, HandlersApart
  <2> QED BY <1>1, <1>5, <2>1, <2>3, <2>4 DEF Preparing
<1>6. ASSUME \A v \in Workers : v # w => /\ rec'[v] = rec[v] /\ accepted'[v] = accepted[v]
                                         /\ occupied'[v] = occupied[v]
                                         /\ prepared'[v] = prepared[v] /\ vm'[v] = vm[v],
             HostMoves(w), RecordTypes', Remain(done, {}), AnswersMean
      PROVE  MovesOn
  <2>1. \A v \in Workers : v # w =>
           HostMoves(v) /\ \A q \in requests : q.stage = "running" /\ q.worker = v => MayGoOn(q)
    BY <1>6, ElsewhereCalm
  <2>2. \A q \in requests : q.worker \in Workers
    BY WorkerFacts
  <2>3. Moves(done, {})
    BY <1>5, <1>6, <2>1, <2>2 DEF Moves
  <2> QED BY <2>3 DEF MovesOn
<1>7. CASE /\ vm' = [vm EXCEPT ![w] = "idle"]
           /\ rec' = [rec EXCEPT ![w] = [state |-> "booting", epoch |-> r.epoch, loaded |-> None]]
           /\ prepared' = [prepared EXCEPT ![w] = @ \cup {r.m}]
           /\ Reply(done, "ok", 0)
           /\ UNCHANGED <<occupied, accepted>>
  <2>1. /\ rec'[w] = [state |-> "booting", epoch |-> r.epoch, loaded |-> None]
        /\ prepared'[w] = prepared[w] \cup {r.m} /\ vm'[w] = "idle"
        /\ RecordTypes'
    BY <1>3, <1>7 DEF RecordTypes, RecordStates
  <2>2. HostMoves(w)
    BY <1>1, <1>2, <1>3, <1>7, <2>1 DEF HostMoves
  <2>3. ASSUME NEW q \in done PROVE MayAnswer(q)
    <3>1. q \in requests /\ q.op = "prestage" /\ q.stage = "running" /\ q.worker = w
      BY <1>1, <2>3 DEF Preparing, Running
    <3>2. q.epoch <= accepted[w]
      BY <3>1, WorkerFacts
    <3> QED BY <1>7, <2>1, <3>1, <3>2 DEF MayAnswer
  <2>4. Remain(done, {}) /\ AnswersMean
    BY <1>4, <1>7, <2>3, ReplyMoves
  <2> QED BY <1>3, <1>6, <1>7, <2>1, <2>2, <2>4
<1>8. CASE /\ occupied' = [occupied EXCEPT ![w] = FALSE]
           /\ Reply(done, "error", 0)
           /\ UNCHANGED <<rec, prepared, vm, accepted>>
  <2>1. RecordTypes'
    BY <1>3, <1>8 DEF RecordTypes
  <2>2. HostMoves(w)
    BY <1>3, <1>8 DEF HostMoves
  <2>3. Remain(done, {}) /\ AnswersMean
    BY <1>4, <1>8, ReplyMoves
  <2> QED BY <1>3, <1>6, <1>8, <2>1, <2>2, <2>3
<1> QED BY <1>0, <1>1, <1>7, <1>8

LEMMA ReserveMoves == ASSUME Here, Reserve PROVE MovesOn
<1>1. PICK r \in Sent("reserve") : Answer(r, TRUE)
  BY DEF Reserve
<1>2. r.op = "reserve" /\ {r} \in SUBSET requests
  BY DEF Sent
<1>3. Reply({r}, "ok", 0) /\ UNCHANGED <<rec, prepared, accepted, occupied, vm>>
  BY <1>1 DEF Answer, Ok, record, host
<1>4. \A q \in {r} : MayAnswer(q)
  BY <1>2 DEF MayAnswer
<1> QED BY <1>2, <1>3, <1>4, UnchangedCalm, CalmReturn

\* A fence that was not taken yet is asked of the source while its migration cleans up.
LEMMA FenceFacts ==
    ASSUME Here, NEW r \in requests, r.op = "fence", r.stage = "sent"
    PROVE  /\ migration[r.m].phase = "CLEANUP" /\ r.m \in Rows
           /\ r.worker = migration[r.m].source /\ r.epoch = migration[r.m].epochAfter
<1>1. /\ r.awaited /\ call[r.m] = "fence" /\ r.m \in Migrations /\ r.m \in Rows
      /\ r.worker = migration[r.m].source /\ r.epoch = migration[r.m].epochAfter
  BY RequestFacts DEF Here, GoneInv
<1>2. migration[r.m].phase = "CLEANUP"
  BY <1>1 DEF Here, CoordinatorInv, CallsOfPhases, CallOfPhase, Blocked, Calls, PhaseOf
<1> QED BY <1>1, <1>2

LEMMA FenceBegins == ASSUME Here, BeginFence PROVE MovesOn
<1>0. PICK r \in Sent("fence") :
         \/ Answer(r, FALSE)
         \/ rec[r.worker].state = "quarantined" /\ Answer(r, TRUE)
         \/ /\ rec[r.worker].state \notin {"none", "quarantined"} /\ r.epoch >= accepted[r.worker]
            /\ rec' = [rec EXCEPT ![r.worker].state = "fenced", ![r.worker].epoch = r.epoch]
            /\ StartWork(r)
            /\ UNCHANGED <<prepared, consumed, registered, manifests, host>>
  BY DEF BeginFence
<1>1. PICK w : w = r.worker
  OBVIOUS
<1>2. /\ r \in requests /\ r.op = "fence" /\ r.stage = "sent" /\ {r} \in SUBSET requests
  BY DEF Sent
<1>3. /\ w \in Workers /\ r.epoch \in Nat /\ r.m \in Migrations /\ r.m \in Rows
      /\ rec \in [Workers -> [state : RecordStates \cup {"none"}, epoch : Nat,
                              loaded : Migrations \cup {None}]]
      /\ accepted \in [Workers -> Nat] /\ occupied \in [Workers -> BOOLEAN]
      /\ prepared \in [Workers -> SUBSET Migrations]
      /\ accepted[w] \in Nat
      /\ rec[w].state = "quarantined" => vm[w] = "none"
  BY <1>1, <1>2, WorkerFacts
<1>4. /\ migration[r.m].phase = "CLEANUP"
      /\ w = migration[r.m].source /\ r.epoch = migration[r.m].epochAfter
  BY <1>1, <1>2, FenceFacts
<1>5. CASE Answer(r, FALSE)
  <2>1. Reply({r}, "error", 0) /\ UNCHANGED <<rec, prepared, accepted, occupied, vm>>
    BY <1>5 DEF Answer, Error, record, host
  <2> QED BY <1>2, <2>1, UnchangedCalm, CalmReturn
<1>6. CASE rec[w].state = "quarantined" /\ Answer(r, TRUE)
  <2>1. Reply({r}, "ok", 0) /\ UNCHANGED <<rec, prepared, accepted, occupied, vm>>
    BY <1>6 DEF Answer, Ok, record, host
  <2>2. r.epoch <= accepted[w]
    BY <1>3, <1>4, <1>6 DEF Here, GoneInv, FencesOK
  <2>3. \A q \in {r} : MayAnswer(q)
    BY <1>1, <1>2, <1>3, <1>6, <2>1, <2>2 DEF MayAnswer
  <2> QED BY <1>2, <2>1, <2>3, UnchangedCalm, CalmReturn
<1>7. CASE /\ rec[w].state \notin {"none", "quarantined"} /\ r.epoch >= accepted[w]
           /\ rec' = [rec EXCEPT ![w].state = "fenced", ![w].epoch = r.epoch]
           /\ StartWork(r)
           /\ UNCHANGED <<prepared, consumed, registered, manifests, host>>
  <2>1. /\ accepted' = [accepted EXCEPT ![w] = r.epoch] /\ Await(r)
        /\ UNCHANGED <<prepared, occupied, vm>>
    BY <1>1, <1>7 DEF StartWork, Accept, host
  <2>2. /\ rec'[w].state = "fenced" /\ rec'[w].epoch = r.epoch /\ accepted'[w] = r.epoch
        /\ RecordTypes'
        /\ \A v \in Workers : v # w => rec'[v] = rec[v] /\ accepted'[v] = accepted[v]
    BY <1>3, <1>7, <2>1 DEF RecordTypes, RecordStates
  <2>3. HostMoves(w)
    BY <1>3, <1>7, <2>1, <2>2 DEF HostMoves
  <2>4. ASSUME NEW q \in requests, q.stage = "running", q.worker = w PROVE MayGoOn(q)
    <3>1. q.op # "prestage"
      BY <1>7, <2>4, WorkerFacts
    <3>2. ASSUME q.op = "fence" PROVE accepted'[w] = accepted[w]
      <4>1. q.m = r.m
        BY <1>3, <1>4, <2>4, <3>2 DEF Here, GoneInv, FencesOK
      <4>2. q.epoch = r.epoch
        BY <1>4, <3>2, <4>1, RequestFacts DEF Here
      <4>3. accepted[w] = q.epoch
        BY <2>4, <3>2, WorkerFacts
      <4> QED BY <2>2, <4>2, <4>3
    <3> QED BY <2>2, <2>4, <3>1, <3>2 DEF MayGoOn
  <2>5. \A v \in Workers : v # w =>
           HostMoves(v) /\ \A q \in requests : q.stage = "running" /\ q.worker = v => MayGoOn(q)
    BY <2>1, <2>2, ElsewhereCalm
  <2>6. \A q \in requests : q.worker \in Workers
    BY WorkerFacts
  <2>7. MayBegin(r)
    BY <1>1, <1>2, <1>3, <2>2 DEF MayBegin
  <2>8. Remain({}, {r}) /\ AnswersMean
    BY <1>2, <2>1, AwaitMoves
  <2>9. Moves({}, {r})
    BY <2>2, <2>3, <2>4, <2>5, <2>6, <2>7, <2>8 DEF Moves
  <2> QED BY <2>9 DEF MovesOn
<1> QED BY <1>0, <1>1, <1>5, <1>6, <1>7

LEMMA FenceIsOver == ASSUME Here, EndFence PROVE MovesOn
<1>0. PICK r \in Running("fence") :
         \/ rec[r.worker].state = "quarantined" /\ Answer(r, TRUE)
         \/ /\ vm' = [vm EXCEPT ![r.worker] = "none"]
            /\ occupied' = [occupied EXCEPT ![r.worker] = FALSE]
            /\ rec' = [rec EXCEPT ![r.worker].state = "quarantined", ![r.worker].epoch = r.epoch]
            /\ Ok(r)
            /\ UNCHANGED <<prepared, accepted>>
         \/ /\ \E left \in {vm[r.worker], "none"}
                             \cup (IF vm[r.worker] = "running" THEN {"paused"} ELSE {}) :
                  vm' = [vm EXCEPT ![r.worker] = left]
            /\ Error(r)
            /\ UNCHANGED <<rec, prepared, occupied, accepted>>
  BY DEF EndFence, record
<1>1. PICK w : w = r.worker
  OBVIOUS
<1>2. /\ r \in requests /\ r.op = "fence" /\ r.stage = "running" /\ {r} \in SUBSET requests
  BY DEF Running
<1>3. /\ w \in Workers /\ r.epoch \in Nat
      /\ rec \in [Workers -> [state : RecordStates \cup {"none"}, epoch : Nat,
                              loaded : Migrations \cup {None}]]
      /\ accepted \in [Workers -> Nat] /\ occupied \in [Workers -> BOOLEAN]
      /\ prepared \in [Workers -> SUBSET Migrations] /\ vm \in [Workers -> Processes]
      /\ accepted[w] \in Nat /\ accepted[w] = r.epoch /\ rec[w].state # "none"
      /\ rec[w].state = "quarantined" => vm[w] = "none"
  BY <1>1, <1>2, WorkerFacts
<1>4. CASE rec[w].state = "quarantined" /\ Answer(r, TRUE)
  <2>1. Reply({r}, "ok", 0) /\ UNCHANGED <<rec, prepared, accepted, occupied, vm>>
    BY <1>4 DEF Answer, Ok, record, host
  <2>2. \A q \in {r} : MayAnswer(q)
    BY <1>1, <1>2, <1>3, <1>4, <2>1 DEF MayAnswer
  <2> QED BY <1>2, <2>1, <2>2, UnchangedCalm, CalmReturn
<1>5. CASE /\ vm' = [vm EXCEPT ![w] = "none"]
           /\ occupied' = [occupied EXCEPT ![w] = FALSE]
           /\ rec' = [rec EXCEPT ![w].state = "quarantined", ![w].epoch = r.epoch]
           /\ Ok(r)
           /\ UNCHANGED <<prepared, accepted>>
  <2>1. /\ rec'[w].state = "quarantined" /\ rec'[w].epoch = r.epoch /\ vm'[w] = "none"
        /\ RecordTypes'
        /\ \A v \in Workers : v # w => /\ rec'[v] = rec[v] /\ vm'[v] = vm[v]
                                       /\ occupied'[v] = occupied[v]
    BY <1>3, <1>5 DEF RecordTypes, RecordStates
  <2>2. HostMoves(w)
    <3>1. r \in Running("fence") /\ r.worker = w
      BY <1>1
    <3> QED BY <1>3, <1>5, <2>1, <3>1 DEF HostMoves
  <2>3. ASSUME NEW q \in requests, q.stage = "running", q.worker = w PROVE MayGoOn(q)
    BY <1>3, <1>5, <2>1, <2>3, WorkerFacts DEF MayGoOn
  <2>4. \A v \in Workers : v # w =>
           HostMoves(v) /\ \A q \in requests : q.stage = "running" /\ q.worker = v => MayGoOn(q)
    BY <1>5, <2>1, ElsewhereCalm
  <2>5. \A q \in requests : q.worker \in Workers
    BY WorkerFacts
  <2>6. \A q \in {r} : MayAnswer(q)
    BY <1>1, <1>2, <1>3, <1>5, <2>1 DEF MayAnswer
  <2>7. Remain({r}, {}) /\ AnswersMean
    BY <1>2, <1>5, <2>6, ReplyMoves DEF Ok
  <2>8. Moves({r}, {})
    BY <2>1, <2>2, <2>3, <2>4, <2>5, <2>7 DEF Moves
  <2> QED BY <2>8 DEF MovesOn
<1>6. CASE /\ \E left \in {vm[w], "none"} \cup (IF vm[w] = "running" THEN {"paused"} ELSE {}) :
                 vm' = [vm EXCEPT ![w] = left]
           /\ Error(r)
           /\ UNCHANGED <<rec, prepared, occupied, accepted>>
  <2>1. \A v \in Workers : vm[v] = "none" => vm'[v] = "none"
    BY <1>3, <1>6
  <2>2. CalmHost
    BY <1>6, <2>1 DEF CalmHost, RecordTypes, Here, GoneInv, EpochsAccepted
  <2> QED BY <1>2, <1>6, <2>2, CalmReturn DEF Error
<1> QED BY <1>0, <1>1, <1>4, <1>5, <1>6

LEMMA RestartMoves == ASSUME Here, NEW w \in Workers, WorkerRestart(w) PROVE MovesOn
<1>1. PICK done : done = {r \in requests : r.worker = w /\ r.stage = "running"}
  OBVIOUS
<1>2. /\ rec' = [rec EXCEPT ![w] = NoRecord]
      /\ prepared' = [prepared EXCEPT ![w] = {}]
      /\ \E left \in {vm[w], "none"} : vm' = [vm EXCEPT ![w] = left]
      /\ Reply(done, "error", 0)
      /\ UNCHANGED <<accepted, occupied>>
  BY <1>1 DEF WorkerRestart
<1>3. /\ vm \in [Workers -> Processes]
      /\ rec \in [Workers -> [state : RecordStates \cup {"none"}, epoch : Nat,
                              loaded : Migrations \cup {None}]]
      /\ accepted \in [Workers -> Nat] /\ occupied \in [Workers -> BOOLEAN]
      /\ prepared \in [Workers -> SUBSET Migrations] /\ accepted[w] \in Nat
  BY DEF Here, HostTypes, GoneInv, RecordTypes
<1>4. /\ rec'[w] = NoRecord /\ prepared'[w] = {}
      /\ vm[w] = "none" => vm'[w] = "none"
      /\ RecordTypes'
      /\ \A v \in Workers : v # w => /\ rec'[v] = rec[v] /\ vm'[v] = vm[v]
                                     /\ prepared'[v] = prepared[v]
  BY <1>2, <1>3 DEF RecordTypes, NoRecord
<1>5. HostMoves(w)
  BY <1>2, <1>3, <1>4 DEF HostMoves, NoRecord
<1>6. \A v \in Workers : v # w =>
         HostMoves(v) /\ \A q \in requests : q.stage = "running" /\ q.worker = v => MayGoOn(q)
  BY <1>2, <1>4, ElsewhereCalm
<1>7. \A q \in requests : q.worker \in Workers
  BY WorkerFacts
<1>8. Remain(done, {}) /\ AnswersMean
  BY <1>1, <1>2, ReplyMoves
<1>9. Moves(done, {})
  BY <1>1, <1>4, <1>5, <1>6, <1>7, <1>8 DEF Moves
<1> QED BY <1>9 DEF MovesOn

LEMMA WriteMoves == ASSUME Here, NEW w \in Workers, GuestWrite(w) PROVE MovesOn
<1>1. UNCHANGED <<rec, prepared, accepted, occupied, vm, requests, replies>>
  BY DEF GuestWrite, record
<1> QED BY <1>1, UnchangedCalm, CalmStay

LEMMA WorkerMoves == ASSUME Here, WorkerStep PROVE MovesOn
<1>1. CASE Reserve \/ BeginPrestage \/ EndPrestage \/ BeginFence \/ EndFence
  BY <1>1, ReserveMoves, PrestageBegins, PrestageIsOver, FenceBegins, FenceIsOver
<1>2. CASE \/ Probe \/ Precopy \/ BeginPause \/ BeginSnapshot \/ BeginTransfer \/ BeginLoad
           \/ BeginResume \/ BeginRollback \/ Verify \/ Expose
  BY <1>2, GuardedHandlersBegin, GuardedBegin
<1>3. CASE EndPause \/ EndSnapshot \/ EndTransfer \/ EndLoad \/ EndResume \/ EndRollback
  BY <1>3, GuardedHandlersEnd, GuardedEnd
<1>4. CASE \E w \in Workers : GuestWrite(w) \/ WorkerRestart(w)
  BY <1>4, WriteMoves, RestartMoves
<1> QED BY <1>1, <1>2, <1>3, <1>4, SnapshotMoves DEF WorkerStep, Handler

LEMMA ProxyMoves == ASSUME Here, ProxyStep PROVE MovesOn
<1>1. UNCHANGED <<rec, prepared, accepted, occupied, vm>>
  BY DEF ProxyStep, workers
<1>2. ASSUME NEW r \in requests, r.op \in ProxyOperations, Ok(r) \/ Error(r) PROVE MovesOn
  <2>1. \A q \in {r} : MayAnswer(q)
    BY <1>2 DEF MayAnswer, ProxyOperations
  <2> QED BY <1>1, <1>2, <2>1, UnchangedCalm, CalmReturn DEF Ok, Error
<1>3. CASE BeginCutover
  BY <1>2, <1>3 DEF BeginCutover, Sent, ProxyOperations
<1>4. CASE Repoint
  BY <1>2, <1>4 DEF Repoint, Sent, ProxyOperations
<1>5. CASE SessionsReconnected
  BY <1>1, <1>5, UnchangedCalm, CalmStay DEF SessionsReconnected
<1> QED BY <1>3, <1>4, <1>5 DEF ProxyStep

-----------------------------------------------------------------------------
LEMMA GoneInit == MigrationInit /\ ~LateDelivery => GoneInv
<1> SUFFICES ASSUME MigrationInit, ~LateDelivery PROVE GoneInv
  OBVIOUS
<1>1. PICK s \in Sandboxes : WorkerInit(sandbox[s].worker)
  BY DEF MigrationInit
<1>2. PICK home : home = sandbox[s].worker
  OBVIOUS
<1>3. /\ Rows = {} /\ requests = {}
      /\ rec = [w \in Workers |-> IF w = home
                                  THEN [state |-> "running", epoch |-> 1, loaded |-> None]
                                  ELSE NoRecord]
      /\ accepted = [w \in Workers |-> IF w = home THEN 1 ELSE 0]
      /\ occupied = [w \in Workers |-> w = home]
      /\ prepared = [w \in Workers |-> {}]
  BY <1>1, <1>2 DEF MigrationInit, Init, WorkerInit, Rows
<1>4. RecordTypes
  BY <1>3 DEF RecordTypes, RecordStates, NoRecord
<1>5. \A w \in Workers : /\ rec[w].epoch <= accepted[w] /\ prepared[w] = {}
                         /\ rec[w].state # "quarantined"
  BY <1>3 DEF NoRecord
<1>6. \A t \in Sandboxes : sandbox[t].epoch = 1 /\ t = s /\ sandbox[t].worker \in Workers
  BY OneSandboxAssumption DEF MigrationInit, Init
<1>7. EpochsAccepted
  BY <1>2, <1>3, <1>5, <1>6 DEF EpochsAccepted
<1> QED BY <1>3, <1>4, <1>5, <1>7
        DEF GoneInv, Journeys, HandlersApart, FencesOK, SourcesGone, Running

LEMMA GoneStep == SystemInv /\ GoneInv /\ [MigrationNext]_migrationVars => GoneInv'
<1> SUFFICES ASSUME SystemInv, GoneInv, [MigrationNext]_migrationVars PROVE GoneInv'
  OBVIOUS
<1>1. CoordinatorInv /\ RequestsInv /\ HostTypes /\ RequestsInv'
  BY SystemStep DEF SystemInv
<1>2. CASE CoordinatorStep
  BY <1>1, <1>2, GoneCoordinatorStep
<1>3. ASSUME UNCHANGED <<coordinator, manifest>>, Here => MovesOn PROVE GoneInv'
  BY <1>1, <1>3, MovesKeep DEF MovesOn, Here
<1>4. CASE ProxyStep
  BY <1>3, <1>4, ProxyMoves DEF ProxyStep
<1>5. CASE WorkerStep /\ UNCHANGED <<coordinator, manifest, route>>
  BY <1>3, <1>5, WorkerMoves
<1>6. CASE UNCHANGED migrationVars
  <2>1. UNCHANGED <<coordinator, manifest>> /\ UNCHANGED <<requests, replies>>
        /\ UNCHANGED <<rec, prepared, accepted, occupied, vm>>
    BY <1>6 DEF migrationVars, workers
  <2> QED BY <1>3, <2>1, UnchangedCalm, CalmStay
<1> QED BY <1>2, <1>4, <1>5, <1>6 DEF MigrationNext

\* No worker is behind the epoch of anything it holds or may be asked, its handlers keep apart,
\* fences go where the guest is not, and the source of a migration that is done is clear of it.
THEOREM GoneInvariant == ~LateDelivery /\ MigrationSpec => []GoneInv
<1>1. MigrationSpec => []SystemInv
  BY SystemInvariant
<1> QED BY <1>1, GoneInit, GoneStep, PTL DEF MigrationSpec

\* A migration that is done has left nothing of the guest on its source, unless a later one came
\* there since, through every lost call, crash and restart, when a call that timed out does not
\* arrive later.
THEOREM DoneLeavesNothing == ~LateDelivery /\ MigrationSpec => []DoneMeansSourceGone
<1>1. SystemInv /\ GoneInv => DoneMeansSourceGone
  <2> SUFFICES ASSUME SystemInv, GoneInv, NEW m \in Rows, migration[m].phase = "DONE"
               PROVE  LET w == migration[m].source IN
                      /\ accepted[w] >= migration[m].epochAfter
                      /\ vm[w] = "none" \/ accepted[w] > migration[m].epochAfter
    BY DEF DoneMeansSourceGone
  <2>1. migration[m].source \in Workers /\ migration[m].epochAfter \in Nat
    BY RowFacts DEF SystemInv
  <2>2. accepted[migration[m].source] \in Nat
    BY <2>1 DEF GoneInv, RecordTypes
  <2> QED BY <2>1, <2>2 DEF GoneInv, SourcesGone, Gone
<1> QED BY <1>1, SystemInvariant, GoneInvariant, PTL
=============================================================================
