----------------------------- MODULE WorkerAlone -----------------------------
(***************************************************************************)
(* The workers without the coordinator: every call of a few migrations     *)
(* reaches its worker at any time, any number of times and in any order,   *)
(* as calls do that are repeated, overtake one another or come late.  What *)
(* a worker guarantees here does not depend on who calls it.               *)
(***************************************************************************)
EXTENDS Worker

CONSTANTS
    Journey,       \* Journey[m]: source, destination and source epoch of migration m
    MaxInFlight    \* bound: requests not answered at any one time

ASSUME JourneyAssumption ==
    Journey \in [Migrations -> [source : Workers, destination : Workers, epoch : Nat]]
ASSUME InFlightAssumption == MaxInFlight \in Nat

\* Migrations that leave one epoch leave one owner, and go elsewhere (Validation, and the
\* epochs of Store.issue_resume): a worker never hands a sandbox on under the epoch of the
\* migration that brings it.
ASSUME JourneyMoves ==
    \A m, n \in Migrations :
        Journey[m].epoch = Journey[n].epoch => Journey[n].source # Journey[m].destination

\* What Firecracker did, whatever the records say and whatever was answered (history).
VARIABLES
    restored,  \* restored[w][m]: how often a process on w was given the snapshot of m
    starts     \* starts[w][m]: how often a guest began to run on w since, 2 for more than once

aloneVars == <<workerVars, restored, starts>>

AloneInit ==
    /\ \E w \in Workers : WorkerInit(w)
    /\ restored = [w \in Workers |-> [m \in Migrations |-> 0]]
    /\ starts   = [w \in Workers |-> [m \in Migrations |-> 0]]

SourceCalls == {"probe", "precopy", "pause", "snapshot", "rollback", "fence"}

\* The call op of migration m reaches its worker; transfer and load bring some manifest. A call
\* on its way is the next to be handled: one that waits is no different from one sent later.
Call(op, m, img) ==
    LET j == Journey[m] IN
    /\ Cardinality(requests) < MaxInFlight
    /\ \A r \in requests : r.stage # "sent"
    /\ op \notin {"transfer", "load"} => img = 0
    /\ requests' = requests \cup
         {[op |-> op, m |-> m, source |-> j.source,
           worker  |-> IF op \in SourceCalls THEN j.source ELSE j.destination,
           epoch   |-> IF op \in SourceCalls \ {"fence"} THEN j.epoch ELSE j.epoch + 1,
           image   |-> img, awaited |-> FALSE, stage |-> "sent", turn |-> 0]}
    /\ UNCHANGED <<rec, accepted, occupied, vm, image, files, registered, manifests, prepared,
                   consumed, replies, written, workerRestarts>>

AnyCall == \E op \in Operations, m \in Migrations, img \in 0..written : Call(op, m, img)

\* In this step the process on w takes the snapshot of m; a guest begins to run on w.
Restores(w, m) ==
    /\ vm[w] = "idle" /\ vm'[w] \in {"paused", "running"}
    /\ \E r \in AtFirecracker("load") : r.worker = w /\ r.m = m

Starts(w) == vm[w] # "running" /\ vm'[w] = "running"

CountRuns ==
    /\ restored' = [w \in Workers |-> [m \in Migrations |->
                      restored[w][m] + (IF Restores(w, m) THEN 1 ELSE 0)]]
    /\ starts' = [w \in Workers |-> [m \in Migrations |->
                    IF Starts(w) /\ restored'[w][m] > 0 /\ starts[w][m] < 2
                    THEN starts[w][m] + 1 ELSE starts[w][m]]]

AloneNext == (AnyCall \/ WorkerStep) /\ CountRuns

AloneSpec == AloneInit /\ [][AloneNext]_aloneVars

-----------------------------------------------------------------------------
(* Properties.                                                             *)

\* Snapshots are single-use on a worker, however its calls race, fail, come again, come late or
\* fall on both sides of a restart.  No snapshot is given to Firecracker a second time, not even
\* when the answer to the first was lost: two guests restored from one memory would repeat each
\* other's random numbers and tokens.  And a guest the record knows to be restored begins to run
\* at most once: paused again, it stays so.  (A guest whose load took effect with its answer
\* lost is not known to the record, worker-lifecycle.ts:47-54, so no flag keeps a pause and a
\* resume from letting it go on, as with a guest that booted here; it is still the one guest.)
SnapshotRunsOnce ==
    \A w \in Workers, m \in Migrations :
        /\ restored[w][m] <= 1
        /\ rec[w].loaded = m => starts[w][m] <= 1

\* A Firecracker process, even one a restarted worker knows nothing of, keeps the sandbox's
\* directory occupied: no reservation starts a second one beside it, and quarantine moves
\* the directory only when the process is gone.
ProcessHoldsDirectory == \A w \in Workers : vm[w] # "none" => occupied[w]

\* The fence never moves back, over refusals, rollbacks and restarts, and no record claims an
\* epoch beyond it.
FenceOnlyRises ==
    [][\A w \in Workers : /\ accepted'[w] >= accepted[w]
                          /\ rec'[w].epoch <= accepted'[w]]_aloneVars
=============================================================================
