----------------------------- MODULE Coordinator -----------------------------
(***************************************************************************)
(* The coordinator's migration machinery: the sandbox, migration and event *)
(* rows of its SQLite store, each changed only inside an immediate         *)
(* transaction, and one runner process per migration that alternates a     *)
(* blocking call to a worker or to the proxy with the transaction its      *)
(* answer leads to.                                                        *)
(*                                                                         *)
(* Rows survive a crash; runners do not.  A runner's memory is the phase   *)
(* of its row and the call it is blocked in, so a step of a runner is: an  *)
(* answer arrives, the transaction commits, the next call goes out.  The   *)
(* peers are not modelled here: any call may succeed or fail, and a failed *)
(* call may have done its work (clients retry nothing, and time out).      *)
(* Module Migration puts the workers and the proxy route behind the calls. *)
(***************************************************************************)
EXTENDS MigrationState, Naturals, Sequences, FiniteSets

CONSTANTS
    Sandboxes,      \* sandbox ids
    Exposed,        \* the sandboxes with an exposed port: their route must be moved too
    Workers,        \* the workers configured in worker_urls
    Destinations,   \* the destinations a request may name (checked to be non-empty strings only)
    Keys,           \* Idempotency-Key values
    Migrations,     \* migration ids, one per row that can ever be inserted
    None,           \* a null active_migration_id
    MaxCrashes,     \* bound: crashes of a runner or of the whole coordinator
    MaxRestarts     \* restarts a DynamicSupervisor tolerates before it gives up (OTP: 3)

ASSUME ExposedAssumption == Exposed \subseteq Sandboxes
ASSUME WorkersAssumption == Workers \subseteq Destinations
ASSUME NoneAssumption    == None \notin Migrations
ASSUME BoundsAssumption  == MaxCrashes \in Nat /\ MaxRestarts \in Nat

VARIABLES
    sandbox,     \* sandbox[s]: the row of sandbox s
    migration,   \* migration[m]: the row of migration m, NoRow before it is inserted
    events,      \* events[m]: the phases of m's rows in migration_events, by seq
    call,        \* call[m]: what the runner of m is blocked in; "idle" when there is no runner
    reconciling, \* TRUE from a boot to the end of the reconciler's scan
    crashes,     \* crashes so far
    restarts,    \* restarts counted by the runners' DynamicSupervisor
    resumes      \* resumes[m]: the resume calls ever sent for m (history)

store == <<sandbox, migration, events>>
vars  == <<sandbox, migration, events, call, reconciling, crashes, restarts, resumes>>

NoRow == [phase |-> "ABSENT"]

\* The calls a runner blocks in, by the phase that makes them.
Calls == {"reserve", "prestage", "probe", "precopy", "begin_cutover", "pause", "snapshot",
          "transfer", "load", "resume", "verify", "expose", "repoint", "fence", "rollback"}

\* "start": the process runs handle_continue; "issued": the resume intent is committed, the
\* resume not sent yet; "commit": it is about to complete a cutover that needs no call, the
\* sandbox having no exposed port.
RunnerStates == Calls \cup {"idle", "start", "issued", "commit"}

SandboxRow ==
    [worker : Destinations, epoch : Nat, generation : Nat,
     state : {"running", "migrating", "resuming", "orphaned_ambiguous"},
     active : Migrations \cup {None}]

MigrationRow ==
    [phase : Phases, sandbox : Sandboxes, source : Destinations, destination : Destinations,
     key : Keys, epochBefore : Nat, epochAfter : Nat,
     consumed : BOOLEAN, resumeIssued : BOOLEAN]

Rows == {m \in Migrations : migration[m] # NoRow}

Nonterminal(m) == m \in Rows /\ ~Terminal(migration[m].phase)

TypeOK ==
    /\ sandbox     \in [Sandboxes -> SandboxRow]
    /\ migration   \in [Migrations -> MigrationRow \cup {NoRow}]
    /\ events      \in [Migrations -> Seq(Phases)]
    /\ call        \in [Migrations -> RunnerStates]
    /\ reconciling \in BOOLEAN
    /\ crashes     \in 0..MaxCrashes
    /\ restarts    \in 0..MaxRestarts
    /\ resumes     \in [Migrations -> Nat]

\* Every sandbox has booted on one of the workers and was never migrated.
Init ==
    /\ \E home \in [Sandboxes -> Workers] :
          sandbox = [s \in Sandboxes |->
                       [worker |-> home[s], epoch |-> 1, generation |-> 1,
                        state |-> "running", active |-> None]]
    /\ migration   = [m \in Migrations |-> NoRow]
    /\ events      = [m \in Migrations |-> <<>>]
    /\ call        = [m \in Migrations |-> "idle"]
    /\ reconciling = FALSE
    /\ crashes     = 0
    /\ restarts    = 0
    /\ resumes     = [m \in Migrations |-> 0]

-----------------------------------------------------------------------------
(* Transactions of the store.                                              *)

InsertEvent(m, phase) == events' = [events EXCEPT ![m] = Append(@, phase)]

\* Mutant: an orphaned sandbox keeps its active migration.
MutantFinalized(row, phase) ==
    CASE phase = "ORPHANED_AMBIGUOUS" -> [row EXCEPT !.state = "orphaned_ambiguous"]
      [] phase # "ORPHANED_AMBIGUOUS" /\ Terminal(phase) ->
            [row EXCEPT !.active = None, !.state = "running"]
      [] OTHER -> row

\* Mutant: an orphaned sandbox counts as running.
MutantFinalizedRunning(row, phase) ==
    IF Terminal(phase) THEN [row EXCEPT !.active = None, !.state = "running"] ELSE row

\* maybe_finalize_sandbox: a terminal phase frees the sandbox row.
Finalized(row, phase) ==
    IF Terminal(phase)
    THEN [row EXCEPT !.active = None,
                     !.state  = IF phase = "ORPHANED_AMBIGUOUS"
                                THEN "orphaned_ambiguous" ELSE "running"]
    ELSE row

\* Store.transition + Writer.persist_transition.
Transition(m, to) ==
    /\ CanTransition(migration[m].phase, to)
    /\ migration' = [migration EXCEPT ![m].phase = to]
    /\ sandbox' = [sandbox EXCEPT ![migration[m].sandbox] = Finalized(@, to)]
    /\ InsertEvent(m, to)

\* Mutant: the intent is recorded, the move to RESUMING waits for the answer.
MutantIssueResumeInPlace(m) ==
    /\ CanTransition(migration[m].phase, "RESUMING")
    /\ ~migration[m].consumed
    /\ migration' = [migration EXCEPT ![m].consumed = TRUE, ![m].resumeIssued = TRUE]
    /\ sandbox' = [sandbox EXCEPT ![migration[m].sandbox].epoch = migration[m].epochAfter,
                                  ![migration[m].sandbox].state = "resuming"]
    /\ InsertEvent(m, "RESUMING")

\* Mutant: the sandbox keeps its epoch.
MutantIssueResumeSameEpoch(m) ==
    /\ CanTransition(migration[m].phase, "RESUMING")
    /\ ~migration[m].consumed
    /\ migration' = [migration EXCEPT ![m].phase = "RESUMING",
                                      ![m].consumed = TRUE,
                                      ![m].resumeIssued = TRUE]
    /\ sandbox' = [sandbox EXCEPT ![migration[m].sandbox].state = "resuming"]
    /\ InsertEvent(m, "RESUMING")

\* Store.issue_resume: the point of no return, and the sandbox's new fencing epoch.
IssueResume(m) ==
    /\ CanTransition(migration[m].phase, "RESUMING")
    /\ ~migration[m].consumed
    /\ migration' = [migration EXCEPT ![m].phase = "RESUMING",
                                      ![m].consumed = TRUE,
                                      ![m].resumeIssued = TRUE]
    /\ sandbox' = [sandbox EXCEPT ![migration[m].sandbox].epoch = migration[m].epochAfter,
                                  ![migration[m].sandbox].state = "resuming"]
    /\ InsertEvent(m, "RESUMING")

\* Mutant: the owner stays.
MutantCompleteCutoverSameOwner(m) ==
    /\ CanTransition(migration[m].phase, "CLEANUP")
    /\ migration' = [migration EXCEPT ![m].phase = "CLEANUP"]
    /\ sandbox' = [sandbox EXCEPT ![migration[m].sandbox].generation = @ + 1,
                                  ![migration[m].sandbox].state = "running"]
    /\ InsertEvent(m, "CLEANUP")

\* Mutant: the generation stays.
MutantCompleteCutoverSameGeneration(m) ==
    /\ CanTransition(migration[m].phase, "CLEANUP")
    /\ migration' = [migration EXCEPT ![m].phase = "CLEANUP"]
    /\ sandbox' = [sandbox EXCEPT ![migration[m].sandbox].worker = migration[m].destination,
                                  ![migration[m].sandbox].state = "running"]
    /\ InsertEvent(m, "CLEANUP")

\* Store.complete_cutover: the destination becomes the owner.
CompleteCutover(m) ==
    /\ CanTransition(migration[m].phase, "CLEANUP")
    /\ migration' = [migration EXCEPT ![m].phase = "CLEANUP"]
    /\ sandbox' = [sandbox EXCEPT ![migration[m].sandbox].worker = migration[m].destination,
                                  ![migration[m].sandbox].generation = @ + 1,
                                  ![migration[m].sandbox].state = "running"]
    /\ InsertEvent(m, "CLEANUP")

-----------------------------------------------------------------------------
(* The runner.                                                             *)

\* The call the driver makes on entering a phase (RESUMING's is sent by IssueResume's caller).
FirstCall(s, phase) ==
    CASE phase = "RESERVING"           -> "reserve"
      [] phase = "PRESTAGING"          -> "prestage"
      [] phase = "PROBING"             -> "probe"
      [] phase = "PRECOPYING"          -> "precopy"
      [] phase = "PAUSING"             -> IF s \in Exposed THEN "begin_cutover" ELSE "pause"
      [] phase = "SNAPSHOTTING"        -> "snapshot"
      [] phase = "TRANSFERRING"        -> "transfer"
      [] phase = "LOADING"             -> "load"
      [] phase = "RESUMING"            -> "resume"
      [] phase = "VERIFYING"           -> "verify"
      [] phase = "CUTOVER"             -> IF s \in Exposed THEN "expose" ELSE "commit"
      [] phase = "CLEANUP"             -> "fence"
      [] phase = "ROLLING_BACK_SOURCE" -> "rollback"
      [] OTHER                         -> "idle"

\* The runner of m goes on with the call of this phase, or ends with the migration.
Continue(m, phase) == call' = [call EXCEPT ![m] = FirstCall(migration[m].sandbox, phase)]

\* It sends a resume when that is the call of this phase.
CountResume(m, phase) ==
    resumes' = IF FirstCall(migration[m].sandbox, phase) = "resume"
               THEN [resumes EXCEPT ![m] = @ + 1] ELSE resumes

\* Driver.advance: commit the transition, then drive the new phase.
Advance(m, to) == Transition(m, to) /\ Continue(m, to)

\* Outcomes.handle_failure: the row is read again; orphan, roll back or fail.
HandleFailure(m) == Advance(m, FailureTarget(migration[m].phase, migration[m].resumeIssued))

\* The phase a successful answer leads to, for the calls that simply advance.
PhaseAfter(c) ==
    CASE c = "reserve"  -> "PRESTAGING"
      [] c = "prestage" -> "PROBING"
      [] c = "probe"    -> "PRECOPYING"
      [] c = "precopy"  -> "PAUSING"
      [] c = "pause"    -> "SNAPSHOTTING"
      [] c = "snapshot" -> "TRANSFERRING"
      [] c = "transfer" -> "LOADING"
      [] c = "resume"   -> "VERIFYING"
      [] c = "verify"   -> "CUTOVER"
      [] c = "fence"    -> "DONE"
      [] c = "rollback" -> "ROLLED_BACK"

AdvancingCalls == Calls \ {"begin_cutover", "load", "expose", "repoint"}

\* The worker a call is addressed to; the worker client looks its URL up in worker_urls.
Addressee(m, c) ==
    IF c \in {"reserve", "prestage", "transfer", "load", "resume", "verify", "expose"}
    THEN migration[m].destination ELSE migration[m].source

\* Map.fetch answers :error for an unknown worker, which no clause of the client matches.
Unaddressable(m) == call[m] \in Calls /\ Addressee(m, call[m]) \notin Workers

Waiting(m) == call[m] \in Calls /\ ~Unaddressable(m)

-----------------------------------------------------------------------------
(* Actions.                                                                *)

\* Validation: what a new migration needs of its sandbox.
Startable(s, dest) ==
    /\ sandbox[s].state = "running"
    /\ sandbox[s].worker # dest
    /\ sandbox[s].active = None

\* POST .../migrations with a key no row has: Migrations.start commits the row and starts
\* its runner.  (With a known key the call only reads: same hash replays, another conflicts.)
StartMigration(s, dest, key, m) ==
    /\ \A n \in Rows : migration[n].key # key
    /\ m \notin Rows
    /\ Startable(s, dest)
    /\ migration' = [migration EXCEPT ![m] =
                       [phase |-> "PREPARING", sandbox |-> s,
                        source |-> sandbox[s].worker, destination |-> dest, key |-> key,
                        epochBefore |-> sandbox[s].epoch, epochAfter |-> sandbox[s].epoch + 1,
                        consumed |-> FALSE, resumeIssued |-> FALSE]]
    /\ sandbox' = [sandbox EXCEPT ![s].active = m, ![s].state = "migrating"]
    /\ InsertEvent(m, "PREPARING")
    /\ call' = [call EXCEPT ![m] = "start"]
    /\ UNCHANGED <<reconciling, crashes, restarts, resumes>>

\* handle_continue(:run) on a row in PREPARING: advance at once.
RunNew(m) ==
    /\ call[m] = "start" /\ migration[m].phase = "PREPARING"
    /\ Advance(m, "RESERVING")
    /\ UNCHANGED <<reconciling, crashes, restarts, resumes>>

\* handle_continue(:run) on a row in RESUMING: give up, whatever the destination did.
RunOrphan(m) ==
    /\ call[m] = "start" /\ OrphanOnStart(migration[m].phase)
    /\ Advance(m, "ORPHANED_AMBIGUOUS")
    /\ UNCHANGED <<reconciling, crashes, restarts, resumes>>

\* handle_continue(:run) on any other row: make the call of its phase (again).  A row that
\* is already terminal leaves the runner nothing to do.
RunAgain(m) ==
    /\ call[m] = "start"
    /\ migration[m].phase # "PREPARING" /\ ~OrphanOnStart(migration[m].phase)
    /\ Continue(m, migration[m].phase)
    /\ CountResume(m, migration[m].phase)
    /\ UNCHANGED <<store, reconciling, crashes, restarts>>

\* A call that only advances the migration succeeds.
Answered(m) ==
    /\ Waiting(m) /\ call[m] \in AdvancingCalls
    /\ Advance(m, PhaseAfter(call[m]))
    /\ UNCHANGED <<reconciling, crashes, restarts, resumes>>

\* The proxy holds the route's sessions: now pause the source.
CutoverBegun(m) ==
    /\ Waiting(m) /\ call[m] = "begin_cutover"
    /\ call' = [call EXCEPT ![m] = "pause"]
    /\ UNCHANGED <<store, reconciling, crashes, restarts, resumes>>

\* The destination has loaded the snapshot: commit the resume intent.
Loaded(m) ==
    /\ Waiting(m) /\ call[m] = "load"
    /\ IssueResume(m)
    /\ call' = [call EXCEPT ![m] = "issued"]
    /\ UNCHANGED <<reconciling, crashes, restarts, resumes>>

\* resume_destination, once that is durable.
ResumeSent(m) ==
    /\ call[m] = "issued"
    /\ Continue(m, "RESUMING")
    /\ CountResume(m, "RESUMING")
    /\ UNCHANGED <<store, reconciling, crashes, restarts>>

\* Mutant: the route is left where it is.
MutantPortExposed(m) ==
    /\ Waiting(m) /\ call[m] = "expose"
    /\ call' = [call EXCEPT ![m] = "commit"]
    /\ UNCHANGED <<store, reconciling, crashes, restarts, resumes>>

\* The destination exposes the port: point the route at it.
PortExposed(m) ==
    /\ Waiting(m) /\ call[m] = "expose"
    /\ call' = [call EXCEPT ![m] = "repoint"]
    /\ UNCHANGED <<store, reconciling, crashes, restarts, resumes>>

\* The route is moved, or there is none to move: the destination becomes the owner.
TransferOwnership(m) ==
    /\ \/ Waiting(m) /\ call[m] = "repoint"
       \/ call[m] = "commit"
    /\ CompleteCutover(m)
    /\ Continue(m, "CLEANUP")
    /\ UNCHANGED <<reconciling, crashes, restarts, resumes>>

\* A call of a forward phase fails or times out.
CallFailed(m) ==
    /\ Waiting(m) /\ call[m] # "rollback"
    /\ HandleFailure(m)
    /\ UNCHANGED <<reconciling, crashes, restarts, resumes>>

\* The rollback call fails or times out: the migration ends as FAILED.
RollbackFailed(m) ==
    /\ Waiting(m) /\ call[m] = "rollback"
    /\ Advance(m, "FAILED")
    /\ UNCHANGED <<reconciling, crashes, restarts, resumes>>

-----------------------------------------------------------------------------
(* Crashes.                                                                *)

\* The DynamicSupervisor restarts a transient child, counting the restarts of the last five
\* seconds (older ones drop out); past its limit it dies with all its runners, its parent
\* starts an empty one, and nothing starts those runners again.
SupervisorRestart(m) ==
    \/ \E recent \in 0..restarts :
          /\ recent < MaxRestarts
          /\ restarts' = recent + 1
          /\ call' = [call EXCEPT ![m] = "start"]
    \/ /\ restarts = MaxRestarts
       /\ restarts' = 0
       /\ call' = [n \in Migrations |-> "idle"]

\* A runner dies with an exception.
RunnerCrash(m) ==
    /\ crashes < MaxCrashes
    /\ call[m] # "idle"
    /\ crashes' = crashes + 1
    /\ SupervisorRestart(m)
    /\ UNCHANGED <<store, reconciling, resumes>>

\* A runner whose worker is not configured dies in the worker client, every time.
UnaddressableCrash(m) ==
    /\ Unaddressable(m)
    /\ SupervisorRestart(m)
    /\ UNCHANGED <<store, reconciling, crashes, resumes>>

\* The coordinator stops between two steps: the runners and their calls are gone.
Crash ==
    /\ crashes < MaxCrashes
    /\ crashes' = crashes + 1
    /\ call' = [m \in Migrations |-> "idle"]
    /\ restarts' = 0
    /\ reconciling' = TRUE
    /\ UNCHANGED <<store, resumes>>

\* Mutant: the scan leaves out the rows that may be ambiguous.
MutantReconcile ==
    /\ reconciling
    /\ reconciling' = FALSE
    /\ call' = [m \in Migrations |->
                  IF /\ Nonterminal(m) /\ migration[m].phase # "RESUMING"
                     /\ call[m] = "idle"
                  THEN "start" ELSE call[m]]
    /\ UNCHANGED <<store, crashes, restarts, resumes>>

\* MigrationReconciler: at boot, start a runner for every nonterminal row that has none.
\* The endpoint is already serving, so a request may have inserted a row of its own.
Reconcile ==
    /\ reconciling
    /\ reconciling' = FALSE
    /\ call' = [m \in Migrations |->
                  IF Nonterminal(m) /\ call[m] = "idle" THEN "start" ELSE call[m]]
    /\ UNCHANGED <<store, crashes, restarts, resumes>>

RunnerStep(m) ==
    \/ RunNew(m) \/ RunOrphan(m) \/ RunAgain(m)
    \/ Answered(m) \/ CutoverBegun(m) \/ Loaded(m) \/ ResumeSent(m)
    \/ PortExposed(m) \/ TransferOwnership(m)
    \/ CallFailed(m) \/ RollbackFailed(m)
    \/ UnaddressableCrash(m)

Next ==
    \/ \E s \in Sandboxes, dest \in Destinations, key \in Keys, m \in Migrations :
          StartMigration(s, dest, key, m)
    \/ \E m \in Migrations : RunnerStep(m) \/ RunnerCrash(m)
    \/ Crash
    \/ Reconcile

Spec == Init /\ [][Next]_vars

\* Every call returns or times out, started processes run, the reconciler is scheduled.
Fairness ==
    /\ \A m \in Migrations : WF_vars(RunnerStep(m))
    /\ WF_vars(Reconcile)

FairSpec == Spec /\ Fairness

-----------------------------------------------------------------------------
(* Safety.                                                                 *)

\* A sandbox points at a migration exactly while that migration is its one nonterminal row:
\* insertion, every terminal transition and every crash between them keep the two rows of
\* the store in step (the partial index migrations_one_active_per_sandbox never fires).
ActiveRowAgrees ==
    /\ \A s \in Sandboxes : sandbox[s].active # None =>
          /\ Nonterminal(sandbox[s].active)
          /\ migration[sandbox[s].active].sandbox = s
    /\ \A m \in Migrations : Nonterminal(m) => sandbox[migration[m].sandbox].active = m

\* Once the resume intent is durable the source is never asked to resume and no row ends as
\* failed or rolled back, whatever call fails and whenever the coordinator crashes.
NoRollbackAfterResume ==
    \A m \in Rows : migration[m].resumeIssued =>
        /\ migration[m].phase \in PostResumePhases \cup {"DONE", "ORPHANED_AMBIGUOUS"}
        /\ call[m] # "rollback"

\* A destination is asked to resume at most once per migration, and only after its row says
\* that the snapshot is consumed: a crash between the commit and the call loses the resume, but
\* neither a restarted runner nor the reconciler sends one that may have been sent before.
ResumeSentOnce ==
    \A m \in Migrations : /\ resumes[m] <= 1
                          /\ resumes[m] = 1 => m \in Rows /\ migration[m].consumed

\* The epoch a destination resumes under is its own: two migrations of a sandbox that both
\* issued a resume did so under different epochs, none above the sandbox's.
ResumeEpochsDiffer ==
    \A m, n \in Rows :
        migration[m].resumeIssued /\ migration[m].sandbox = migration[n].sandbox =>
            /\ migration[m].epochAfter <= sandbox[migration[m].sandbox].epoch
            /\ m # n /\ migration[n].resumeIssued =>
                  migration[m].epochAfter # migration[n].epochAfter

\* A live migration's endpoints bracket the owner: the sandbox belongs to its source until
\* the cutover commits and to its destination from then on.
OwnerFollowsCutover ==
    \A m \in Migrations : Nonterminal(m) =>
        sandbox[migration[m].sandbox].worker =
            IF migration[m].phase = "CLEANUP" THEN migration[m].destination
                                              ELSE migration[m].source

\* The event log a client replays is a path of the phase machine ending at the row's phase,
\* and the generation counts the logs in which ownership moved.
EventLogFaithful ==
    /\ \A m \in Rows :
          /\ events[m] # <<>>
          /\ events[m][Len(events[m])] = migration[m].phase
          /\ \A i \in 1..(Len(events[m]) - 1) : CanTransition(events[m][i], events[m][i + 1])
    /\ \A s \in Sandboxes :
          sandbox[s].generation = 1 + Cardinality({m \in Rows :
              /\ migration[m].sandbox = s
              /\ \E i \in 1..Len(events[m]) : events[m][i] = "CLEANUP"})

-----------------------------------------------------------------------------
(* Liveness.                                                               *)

\* Every sandbox under migration is released: its migration reaches a terminal phase across
\* failed calls, crashed runners and restarts of the coordinator; as long as nobody asks for a
\* migration to a worker that is not configured, whose runner takes the others with it.
MigrationsSettle ==
    \A s \in Sandboxes :
        sandbox[s].active # None ~>
            \/ sandbox[s].active = None
            \/ \E m \in Rows : migration[m].destination \notin Workers

\* The same of the migrations that go to a configured worker, whatever the others do.
ConfiguredMigrationsSettle ==
    \A m \in Migrations :
        (Nonterminal(m) /\ migration[m].destination \in Workers) ~> ~Nonterminal(m)
=============================================================================
