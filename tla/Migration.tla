------------------------------ MODULE Migration ------------------------------
(***************************************************************************)
(* A migration end to end: the coordinator's runners (Coordinator) with    *)
(* the workers (Worker) and the proxy's route behind their calls, for the  *)
(* migrations of one sandbox.                                              *)
(*                                                                         *)
(* A call is a request the peer takes and an answer the runner takes.  A   *)
(* runner that times out, or dies, leaves its request behind: a handler    *)
(* that runs goes on to its end, and a request that did not reach its peer *)
(* yet is lost or, with LateDelivery, delivered at any time later.         *)
(***************************************************************************)
EXTENDS Coordinator

CONSTANTS Failing, SharedRoot, MaxWrites, MaxWorkerRestarts,   \* see Worker
    TimeOuts,       \* TRUE: calls may time out
    LateDelivery,   \* TRUE: an abandoned request that was not taken yet may still arrive
    MaxLate         \* bound: abandoned requests at any one time

VARIABLES rec, accepted, occupied, vm, image, files, registered, manifests, prepared, consumed,
          requests, replies, written, workerRestarts,          \* see Worker
    manifest,       \* manifest[m]: the snapshot_manifest of m's row, as the image it describes
    route           \* the proxy's route: its phase, epoch, and the worker it points at

INSTANCE Worker

\* The workers' records below are those of one sandbox; a migration to a worker that is not
\* configured gets no further than its first call (Coordinator).
ASSUME OneSandboxAssumption     == \A s, t \in Sandboxes : s = t
ASSUME DestinationsAssumption   == Destinations = Workers
ASSUME MigrationBoundsAssumption == MaxWrites \in Nat /\ MaxWorkerRestarts \in Nat

coordinator   == <<store, call, reconciling, crashes, restarts, resumes>>
workers       == <<rec, accepted, occupied, vm, image, files, registered, manifests, prepared,
                   consumed, written, workerRestarts>>
migrationVars == <<coordinator, workers, requests, replies, manifest, route>>

MigrationInit ==
    /\ Init
    /\ \E s \in Sandboxes :
          /\ WorkerInit(sandbox[s].worker)
          /\ route = [phase |-> "active", epoch |-> 1, worker |-> sandbox[s].worker]
    /\ manifest = [m \in Migrations |-> 0]

-----------------------------------------------------------------------------
(* The calls of the runners, as requests.                                  *)

EpochOf(m, op) ==
    IF op \in {"probe", "precopy", "begin_cutover", "pause", "snapshot", "rollback"}
    THEN migration[m].epochBefore ELSE migration[m].epochAfter

\* The request of the call m's runner enters in this step.  (A repoint names the endpoint on
\* the destination.)
NextRequest(m) ==
    [op |-> call'[m], m |-> m,
     worker  |-> IF call'[m] = "repoint" THEN migration[m].destination
                                         ELSE Addressee(m, call'[m]),
     source  |-> migration[m].source,
     epoch   |-> EpochOf(m, call'[m]),
     image   |-> IF call'[m] \in {"transfer", "load"} THEN manifest'[m] ELSE 0,
     awaited |-> TRUE, stage |-> "sent", turn |-> 0]

\* The runner of m goes on to its next call, if there is one; left are the other requests.
Dispatch(m, left) ==
    /\ requests' = left \cup (IF call'[m] \in Calls THEN {NextRequest(m)} ELSE {})
    /\ replies' = [replies EXCEPT ![m] = NoReply]

AwaitedBy(m) == {r \in requests : r.m = m /\ r.awaited}

\* The requests that may be left when nobody waits for calls any more: a handler that runs
\* stays, a request that was not taken stays or is lost.
Abandoned(calls) ==
    {left \in {(requests \ calls) \cup {[r EXCEPT !.awaited = FALSE] : r \in kept} :
                 kept \in {kept \in SUBSET calls : \A r \in calls :
                             IF r \in kept THEN r.stage = "running" \/ LateDelivery
                                           ELSE r.stage = "sent"}} :
        Cardinality({r \in left : ~r.awaited}) <= MaxLate}

-----------------------------------------------------------------------------
(* Steps of the runners.                                                   *)

\* The runner starts, or needs no answer to go on.
RunnerStarts(m) ==
    /\ \/ RunNew(m) \/ RunOrphan(m) \/ RunAgain(m)
       \/ ResumeSent(m)
       \/ call[m] = "commit" /\ TransferOwnership(m)
    /\ UNCHANGED manifest
    /\ Dispatch(m, requests)

\* The runner gets its answer.
CallSucceeds(m) ==
    /\ replies[m].status = "ok"
    /\ Answered(m) \/ CutoverBegun(m) \/ Loaded(m) \/ PortExposed(m) \/ TransferOwnership(m)
    /\ manifest' = IF call[m] = "snapshot" THEN [manifest EXCEPT ![m] = replies[m].image]
                                           ELSE manifest
    /\ Dispatch(m, requests)

CallIsRefused(m) ==
    /\ replies[m].status = "error"
    /\ CallFailed(m) \/ RollbackFailed(m)
    /\ UNCHANGED manifest
    /\ Dispatch(m, requests)

\* It does not come in time; the handler, or the answer, may be under way.
CallTimesOut(m) ==
    /\ TimeOuts
    /\ CallFailed(m) \/ RollbackFailed(m)
    /\ UNCHANGED manifest
    /\ \E left \in Abandoned(AwaitedBy(m)) : Dispatch(m, left)

RunnerDies(m) ==
    /\ RunnerCrash(m)
    /\ requests' \in Abandoned(AwaitedBy(m))
    /\ replies' = [replies EXCEPT ![m] = NoReply]
    /\ UNCHANGED manifest

CoordinatorDies ==
    /\ Crash
    /\ requests' \in Abandoned({r \in requests : r.awaited})
    /\ replies' = [m \in Migrations |-> NoReply]
    /\ UNCHANGED manifest

CoordinatorStep ==
    /\ \/ \E m \in Migrations : \/ RunnerStarts(m) \/ CallSucceeds(m) \/ CallIsRefused(m)
                                \/ CallTimesOut(m) \/ RunnerDies(m)
       \/ CoordinatorDies
       \/ /\ \/ Reconcile
             \/ \E s \in Sandboxes, dest \in Destinations, key \in Keys, m \in Migrations :
                   StartMigration(s, dest, key, m)
          /\ UNCHANGED <<requests, replies, manifest>>
    /\ UNCHANGED <<workers, route>>

-----------------------------------------------------------------------------
(* The proxy's route (RouteState).                                         *)

BeginCutover == \E r \in Sent("begin_cutover") :
    \/ /\ route.phase = "active"
       /\ route' = [route EXCEPT !.phase = "cutover"]
       /\ Ok(r)
    \/ /\ route.phase # "active"
       /\ Error(r)
       /\ UNCHANGED route

\* The sessions of the route, if it has any, are to reconnect.
Repoint == \E r \in Sent("repoint") :
    \/ /\ r.epoch > route.epoch
       /\ \E phase \in {"active", "reconnecting"} :
             route' = [phase |-> phase, epoch |-> r.epoch, worker |-> r.worker]
       /\ Ok(r)
    \/ /\ r.epoch <= route.epoch
       /\ Error(r)
       /\ UNCHANGED route

SessionsReconnected ==
    /\ route.phase = "reconnecting"
    /\ route' = [route EXCEPT !.phase = "active"]
    /\ UNCHANGED <<requests, replies>>

ProxyStep ==
    /\ BeginCutover \/ Repoint \/ SessionsReconnected
    /\ UNCHANGED <<coordinator, workers, manifest>>

MigrationNext ==
    \/ CoordinatorStep
    \/ ProxyStep
    \/ WorkerStep /\ UNCHANGED <<coordinator, manifest, route>>

MigrationSpec == MigrationInit /\ [][MigrationNext]_migrationVars

-----------------------------------------------------------------------------
(* Properties.                                                             *)

RunsOn(w) == vm[w] = "running"

Guest == INSTANCE MovingGuest WITH
    Places  <- Workers,
    running <- {<<w, image[w]>> : w \in {v \in Workers : RunsOn(v)}},
    version <- written

\* The migrated guest is one guest: at most one worker runs it and it never loses a write,
\* through failed and late calls, crashes of the coordinator and restarts of workers.
OneGuest == Guest!Spec

\* "exactly one live VM", or none while it moves: no two workers run the guest at a time.
OneLiveVM == \A v, w \in Workers : RunsOn(v) /\ RunsOn(w) => v = w

\* While the coordinator's row says a sandbox runs, no worker but its owner runs the guest.
OnlyOwnerRuns ==
    \A s \in Sandboxes : sandbox[s].state = "running" =>
        \A w \in Workers : RunsOn(w) => w = sandbox[s].worker

\* A migration that is done leaves nothing of the guest on its source, unless a later one has come
\* there since; and what comes there must know an epoch no lower than the destination's.
DoneMeansSourceGone ==
    \A m \in Rows : migration[m].phase = "DONE" =>
        LET w == migration[m].source IN
        /\ accepted[w] >= migration[m].epochAfter
        /\ vm[w] = "none" \/ accepted[w] > migration[m].epochAfter

\* Clients are sent to the owner: unless a migration is under way or needs an operator, the
\* route points at the sandbox's worker under the sandbox's epoch.
RouteFollowsOwner ==
    \A s \in Exposed : sandbox[s].state = "running" /\ sandbox[s].active = None =>
        route.worker = sandbox[s].worker /\ route.epoch = sandbox[s].epoch

\* Every migration that did end, ended as done (for instances without faults).
EveryMigrationWorks == \A m \in Rows : Terminal(migration[m].phase) => migration[m].phase = "DONE"
=============================================================================
