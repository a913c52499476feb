------------------------------ MODULE Exposure ------------------------------
(***************************************************************************)
(* POST .../ports, end to end: the coordinator's request (read the rows,   *)
(* ask the owner for an endpoint, make the proxy's route, store the port), *)
(* the worker's handler (epoch, network rules, host port, relay) and the   *)
(* proxy's creation of a route, over concurrent and repeated requests and  *)
(* while the sandbox moves from its first owner to a second: the transfer  *)
(* exposes the manifest's ports there, the route is repointed, then the    *)
(* source is fenced and cleaned up.                                        *)
(*                                                                         *)
(* A worker is named for the epoch at which it owns the sandbox, 1 or 2.   *)
(* The first one's epochs are in an EpochStore, which another sandbox uses *)
(* too.                                                                    *)
(***************************************************************************)
EXTENDS EpochStore

CONSTANTS
    Requests, Mover,     \* the callers of a worker: requests, the migration's runner, and
    Transfers,           \* transferMigration, for each port that its manifest lists
    GuestPorts,
    HostPorts,           \* the number of host ports of a worker: they are 0, 1, ...
    Preferred,           \* deterministicHostPort: the host port a guest port tries first
    Sandbox,             \* the sandbox, one of Sandboxes
    MaxFaults            \* bound: failing or unanswered calls, routes that crash

ASSUME ExposureConstants == /\ GuestPorts \subseteq Nat \ {0}
                            /\ HostPorts \in Nat \ {0}
                            /\ Preferred \in [GuestPorts -> 0..(HostPorts - 1)]
                            /\ Sandbox \in Sandboxes /\ MaxFaults \in Nat
                            /\ Requests \cap Transfers = {} /\ Mover \notin Requests \cup Transfers
                            /\ "none" \notin Requests \cup Transfers \cup {Mover}

VARIABLES
    owner,         \* the sandbox row: its epoch, which is also its worker
    row,           \* its row in ports
    caller,        \* the requests and the migration, as the coordinator drives them
    rowSeen,       \* the repoint found a row in ports (history)
    record,        \* a worker's record of the sandbox
    exposed,       \* record.info.ports
    portOwner,     \* portOwners: the guest port a host port is allocated to, 0 for none
    listening,     \* the relays that listen
    maps,          \* RelayLifecycle's Map objects, each named for the caller that made it
    current,       \* the one in this.relays
    task,          \* the handlers of exposeGuestPort, by caller
    overlap,       \* handlers met in start(), or one was past its check at the fence (history)
    shifted,       \* a handler found a relay and recorded another host port for it (history)
    route, made,   \* the proxy's route, and the attributes it was started with
    routeCrashed,  \* the route's processes were restarted (history)
    faults

Callers == Requests \cup Transfers \cup {Mover}
Workers == {1, 2}
Ports   == 0..(HostPorts - 1)
NoMap   == "none"
NoRow   == [guest |-> 0, port |-> 0]
NoRoute == [guest |-> 0, worker |-> 0, host |-> 0, epoch |-> 0, port |-> 0]
NoTask  == [at |-> "idle", worker |-> 0, guest |-> 0, host |-> 0, map |-> NoMap]
Relays  == [guest : GuestPorts, host : Ports]
Routes  == [guest : GuestPorts \cup {0}, worker : 0..2, host : Ports, epoch : 0..2, port : 0..2]
Tasks   == [at : {"idle", "admit", "plans", "listen"}, worker : 0..2,
            guest : GuestPorts \cup {0}, host : Ports, map : Callers \cup {NoMap}]
CallerStates ==
    [at : {"idle", "worker", "route", "created", "status", "insert", "done", "failed",
           "commit", "cleanup", "fencing", "closing", "quarantine"},
     guest : GuestPorts \cup {0}, epoch : 0..2, host : Ports, port : 0..2]

coordinator == <<owner, row, caller, rowSeen>>
relays      == <<exposed, portOwner, listening, maps, current, overlap, shifted>>
proxy       == <<route, made, routeCrashed>>
exposureVars == <<store, coordinator, record, relays, task, proxy, faults>>

ExposureTypeOK ==
    /\ owner \in Workers
    /\ row \in [guest : GuestPorts \cup {0}, port : 0..2]
    /\ caller \in [Callers -> CallerStates]
    /\ record \in [Workers -> {"running", "fenced", "quarantined", "gone"}]
    /\ exposed \in [Workers -> SUBSET Relays]
    /\ portOwner \in [Workers -> [Ports -> GuestPorts \cup {0}]]
    /\ listening \in [Workers -> SUBSET Relays]
    /\ maps \in [Callers -> SUBSET Relays]
    /\ current \in [Workers -> Callers \cup {NoMap}]
    /\ task \in [Callers -> Tasks]
    /\ route \in Routes /\ made \in Routes
    /\ {rowSeen, overlap, shifted, routeCrashed} \subseteq BOOLEAN
    /\ faults \in 0..MaxFaults

\* The sandbox was created at epoch 1 on the first worker, and the second has it booting.
\* (What the handlers here ask of its record is the same until it runs.)
ExposureInit ==
    /\ memory = [s \in Sandboxes |-> IF s = Sandbox THEN 1 ELSE 0]
    /\ disk = memory /\ answered = memory
    /\ stale = {} /\ write = NoWrite /\ adopted = FALSE /\ storeFaults = 0
    /\ owner = 1 /\ row = NoRow /\ rowSeen = FALSE
    /\ caller = [k \in Callers |-> [at |-> "idle", guest |-> 0, epoch |-> 0, host |-> 0, port |-> 0]]
    /\ record = [w \in Workers |-> "running"]
    /\ exposed = [w \in Workers |-> {}]
    /\ portOwner = [w \in Workers |-> [h \in Ports |-> 0]]
    /\ listening = [w \in Workers |-> {}]
    /\ maps = [k \in Callers |-> {}]
    /\ current = [w \in Workers |-> NoMap]
    /\ task = [k \in Callers |-> NoTask]
    /\ overlap = FALSE /\ shifted = FALSE
    /\ route = NoRoute /\ made = NoRoute /\ routeCrashed = FALSE
    /\ faults = 0

Fault == faults < MaxFaults /\ faults' = faults + 1

At(k, step)      == caller[k].at = step
Goes(k, step)    == caller' = [caller EXCEPT ![k].at = step]

-----------------------------------------------------------------------------
(* The worker: exposeGuestPort, for caller k.                              *)

\* The handler ends: with a host port, or an error. A caller that has timed out is not there
\* to hear it.
Ends(k, ok, h) ==
    /\ task' = [task EXCEPT ![k] = NoTask]
    /\ caller' = IF At(k, "worker")
                 THEN [caller EXCEPT ![k].at = IF ok THEN "route" ELSE "failed", ![k].host = h]
                 ELSE caller

\* mutableRecord, when the epoch store comes to it, and the port that is exposed already.
Admit(k) ==
    LET w       == task[k].worker
        refused == record[w] # "running" \/ (w = 1 /\ memory[Sandbox] > 1)
        found   == {x \in exposed[w] : x.guest = task[k].guest}
    IN  /\ task[k].at = "admit"
        /\ IF w = 1 /\ record[w] # "gone" /\ memory[Sandbox] = 1
           THEN AcceptSame(Sandbox, 1)
           ELSE (w = 1 => write = NoWrite) /\ UNCHANGED store
        /\ \/ refused /\ Ends(k, FALSE, 0)
           \/ ~refused /\ \E x \in found : Ends(k, TRUE, x.host)
           \/ /\ ~refused /\ found = {}
              /\ task' = [task EXCEPT ![k].at = "plans"]
              /\ UNCHANGED caller
        /\ UNCHANGED <<owner, row, rowSeen, record, relays, proxy, faults>>

\* allocatePort's choice: from the preferred port on, the first that is free or its own.
Allocated(w, g) ==
    LET free        == {h \in Ports : portOwner[w][h] \in {0, g}}
        Distance(h) == (h + HostPorts - Preferred[g]) % HostPorts
    IN  {h \in free : \A o \in free : Distance(h) <= Distance(o)}

\* The network rules are in place: allocate a host port, and RelayLifecycle.start looks for
\* the sandbox's Map, which it makes if there is none.
Start(k) ==
    LET w == task[k].worker
        g == task[k].guest
        m == IF current[w] = NoMap THEN k ELSE current[w]
    IN  /\ task[k].at = "plans"
        /\ \/ /\ Allocated(w, g) = {}
              /\ Ends(k, FALSE, 0)
              /\ UNCHANGED <<portOwner, exposed, overlap, shifted>>
           \/ \E h \in Allocated(w, g) :
                /\ portOwner' = [portOwner EXCEPT ![w][h] = g]
                /\ IF \E x \in maps[m] : x.guest = g
                   THEN /\ exposed' = [exposed EXCEPT ![w] = @ \cup {[guest |-> g, host |-> h]}]
                        /\ shifted' = (shifted \/ [guest |-> g, host |-> h] \notin maps[m])
                        /\ Ends(k, TRUE, h)
                        /\ UNCHANGED overlap
                   ELSE /\ task' = [task EXCEPT ![k].at = "listen", ![k].host = h, ![k].map = m]
                        /\ overlap' = \/ overlap
                                      \/ \E j \in Callers : task[j].at = "listen" /\ task[j].worker = w
                        /\ UNCHANGED <<exposed, caller, shifted>>
        /\ UNCHANGED <<store, owner, row, rowSeen, record, listening, maps, current, proxy, faults>>

\* releasePort.
Released(w, h) == portOwner' = [portOwner EXCEPT ![w][h] = 0]

\* listen() ends. A port that is in use fails; otherwise the relay is put into the Map that
\* start() had, which becomes the current one.
Listen(k) ==
    LET w == task[k].worker
        x == [guest |-> task[k].guest, host |-> task[k].host]
    IN  /\ task[k].at = "listen"
        /\ IF \E y \in listening[w] : y.host = x.host
           THEN /\ Released(w, x.host)
                /\ Ends(k, FALSE, 0)
                /\ UNCHANGED <<exposed, listening, maps, current>>
           ELSE /\ listening' = [listening EXCEPT ![w] = @ \cup {x}]
                /\ maps' = [maps EXCEPT ![task[k].map] = @ \cup {x}]
                /\ current' = [current EXCEPT ![w] = task[k].map]
                /\ exposed' = [exposed EXCEPT ![w] = @ \cup {x}]
                /\ Ends(k, TRUE, x.host)
                /\ UNCHANGED portOwner
        /\ UNCHANGED <<store, owner, row, rowSeen, record, overlap, shifted, proxy, faults>>

\* The network rules, or listen(), fail for another reason.
HandlerFails(k) ==
    LET w == task[k].worker IN
    /\ Fault
    /\ task[k].at \in {"plans", "listen"}
    /\ IF task[k].at = "listen" THEN Released(w, task[k].host) ELSE UNCHANGED portOwner
    /\ Ends(k, FALSE, 0)
    /\ UNCHANGED <<store, owner, row, rowSeen, record, exposed, listening, maps, current, overlap,
                   shifted, proxy>>

-----------------------------------------------------------------------------
(* The coordinator: Sandboxes.expose_port and Exposure.                    *)

Asks(k, w, g) ==
    /\ task' = [task EXCEPT ![k] = [NoTask EXCEPT !.at = "admit", !.worker = w, !.guest = g]]
    /\ caller' = [caller EXCEPT ![k].at = "worker", ![k].guest = g, ![k].epoch = w]

\* The disposition: a row for the port is the answer, a row for another port an error.
Expose(r, g) ==
    /\ At(r, "idle")
    /\ \/ row = NoRow /\ Asks(r, owner, g)
       \/ row # NoRow /\ Goes(r, IF row.guest = g THEN "done" ELSE "failed") /\ UNCHANGED task
    /\ UNCHANGED <<store, owner, row, rowSeen, record, relays, proxy, faults>>

\* Routes.create: start the route's processes, or 409.
CreateRoute(r) ==
    /\ At(r, "route")
    /\ IF route = NoRoute
       THEN /\ route' = [guest |-> caller[r].guest, worker |-> caller[r].epoch,
                         host |-> caller[r].host, epoch |-> caller[r].epoch, port |-> 0]
            /\ made' = route'
            /\ Goes(r, "created")
       ELSE Goes(r, "status") /\ UNCHANGED <<route, made>>
    /\ UNCHANGED <<store, owner, row, rowSeen, record, relays, task, routeCrashed, faults>>

\* The listener's port, preferred or not, is told to the manager.
SetProxyPort ==
    /\ route # NoRoute /\ route.port = 0 /\ ~routeCrashed
    /\ \E p \in {1, 2} : route' = [route EXCEPT !.port = p]
    /\ UNCHANGED <<store, coordinator, record, relays, task, made, routeCrashed, faults>>

\* The creator hears the port; another one asks for the status, which may not have it yet.
RouteAnswered(r) ==
    /\ \/ At(r, "created") /\ route.port # 0
       \/ At(r, "status")
    /\ caller' = [caller EXCEPT ![r].at = "insert", ![r].port = route.port]
    /\ UNCHANGED <<store, owner, row, rowSeen, record, relays, task, proxy, faults>>

\* Mutant: the port asked for instead of the one the route has.
MutantPortRow(r) == [guest |-> caller[r].guest, port |-> 1]

PortRow(r) == [guest |-> caller[r].guest, port |-> caller[r].port]

\* insert_port: a row needs a proxy port, and a sandbox has one row.
InsertPort(r) ==
    /\ At(r, "insert")
    /\ IF caller[r].port = 0 \/ row # NoRow
       THEN Goes(r, "failed") /\ UNCHANGED row
       ELSE Goes(r, "done") /\ row' = PortRow(r)
    /\ UNCHANGED <<store, owner, rowSeen, record, relays, task, proxy, faults>>

\* A call times out or fails, or the coordinator stops. What was asked for goes on.
CallFails(k) ==
    /\ Fault
    /\ caller[k].at \in {"worker", "route", "created", "status", "insert"}
    /\ Goes(k, "failed")
    /\ UNCHANGED <<store, owner, row, rowSeen, record, relays, task, proxy>>

-----------------------------------------------------------------------------
(* The migration. Before the cutover transferMigration exposes at the      *)
(* destination what the source had exposed; from CUTOVER on it goes step   *)
(* by step. What fails there ends it, but for a cleanup, which may be      *)
(* driven again.                                                           *)

\* Nobody but transferMigration waits for t's handler: it goes on to no route.
TransferExposes(t) ==
    /\ At(t, "idle") /\ At(Mover, "idle")
    /\ \E x \in exposed[1] : Asks(t, 2, x.guest)
    /\ UNCHANGED <<store, owner, row, rowSeen, record, relays, proxy, faults>>

Repoint ==
    /\ At(Mover, "idle")
    /\ \A t \in Transfers : ~At(t, "worker")
    /\ \/ row = NoRow /\ Goes(Mover, "commit") /\ UNCHANGED <<task, rowSeen>>
       \/ row # NoRow /\ Asks(Mover, 2, row.guest) /\ rowSeen' = TRUE
    /\ UNCHANGED <<store, owner, row, record, relays, proxy, faults>>

\* Mutant: a port that is already exposed at the destination leaves the route as it is.
MutantUpdateEndpoint ==
    /\ At(Mover, "route")
    /\ Goes(Mover, "commit")
    /\ UNCHANGED <<store, owner, row, rowSeen, record, relays, task, proxy, faults>>

\* Mutant: the route keeps its host port.
MutantEndpointPort ==
    /\ At(Mover, "route")
    /\ IF route = NoRoute \/ route.epoch >= 2
       THEN Goes(Mover, "failed") /\ UNCHANGED route
       ELSE /\ route' = [route EXCEPT !.worker = 2, !.epoch = 2]
            /\ Goes(Mover, "commit")
    /\ UNCHANGED <<store, owner, row, rowSeen, record, relays, task, made, routeCrashed, faults>>

UpdateEndpoint ==
    /\ At(Mover, "route")
    /\ IF route = NoRoute \/ route.epoch >= 2
       THEN Goes(Mover, "failed") /\ UNCHANGED route
       ELSE /\ route' = [route EXCEPT !.worker = 2, !.host = caller[Mover].host, !.epoch = 2]
            /\ Goes(Mover, "commit")
    /\ UNCHANGED <<store, owner, row, rowSeen, record, relays, task, made, routeCrashed, faults>>

CompleteCutover ==
    /\ At(Mover, "commit")
    /\ owner' = 2
    /\ Goes(Mover, "cleanup")
    /\ UNCHANGED <<store, row, rowSeen, record, relays, task, proxy, faults>>

MeetsHandlers ==
    overlap' = (overlap \/ \E k \in Callers : task[k].worker = 1 /\ task[k].at \in {"plans", "listen"})

\* Mutant: the relays are forgotten before they are closed.
MutantCloseRelays ==
    /\ listening' = listening
    /\ MeetsHandlers

\* stopSandbox closes the relays of the Map that it finds.
CloseRelays ==
    /\ listening' = IF current[1] = NoMap THEN listening
                    ELSE [listening EXCEPT ![1] = @ \ maps[current[1]]]
    /\ MeetsHandlers

\* The new epoch is accepted.
Fenced ==
    /\ record' = [record EXCEPT ![1] = "fenced"]
    /\ CloseRelays
    /\ Goes(Mover, "closing")

\* fenceSandbox at the source: accept the new epoch, which an earlier cleanup may have done.
FenceSource ==
    /\ At(Mover, "cleanup")
    /\ \/ /\ record[1] = "gone"
          /\ Goes(Mover, "failed")
          /\ UNCHANGED <<store, record, listening, overlap>>
       \/ /\ record[1] # "gone"
          /\ AcceptHigher(Sandbox, 2)
          /\ Goes(Mover, "fencing")
          /\ UNCHANGED <<record, listening, overlap>>
       \/ record[1] # "gone" /\ AcceptSame(Sandbox, 2) /\ Fenced
    /\ UNCHANGED <<owner, row, rowSeen, exposed, portOwner, maps, current, shifted, task,
                   proxy, faults>>

EpochSynced ==
    /\ Synced
    /\ IF write.id = Sandbox
       THEN Fenced
       ELSE UNCHANGED <<record, listening, overlap, caller>>
    /\ UNCHANGED <<owner, row, rowSeen, exposed, portOwner, maps, current, shifted, task,
                   proxy, faults>>

\* The relays have closed: the Map goes. The network or the pause may fail, and the cleanup
\* with it; otherwise quarantineSandbox stops what it finds once more.
RelaysClosed ==
    /\ At(Mover, "closing")
    /\ current' = [current EXCEPT ![1] = NoMap]
    /\ \/ Goes(Mover, "quarantine") /\ UNCHANGED faults
       \/ Goes(Mover, "failed") /\ Fault
    /\ UNCHANGED <<store, owner, row, rowSeen, record, exposed, portOwner, listening, maps, task,
                   overlap, shifted, proxy>>

Quarantine ==
    /\ At(Mover, "quarantine")
    /\ CloseRelays
    /\ current' = [current EXCEPT ![1] = NoMap]
    /\ portOwner' = [portOwner EXCEPT ![1] = [h \in Ports |-> 0]]
    /\ record' = [record EXCEPT ![1] = "quarantined"]
    /\ Goes(Mover, "done")
    /\ UNCHANGED <<store, owner, row, rowSeen, exposed, maps, shifted, task, proxy, faults>>

\* CLEANUP is driven again, by a runner that was restarted.
CleanupAgain ==
    /\ At(Mover, "failed") /\ owner = 2
    /\ Goes(Mover, "cleanup")
    /\ UNCHANGED <<store, owner, row, rowSeen, record, relays, task, proxy, faults>>

-----------------------------------------------------------------------------
(* Faults, and the other sandbox of the first worker.                      *)

OtherAccepts ==
    /\ \E s \in Sandboxes \ {Sandbox} : memory[s] = 0 /\ AcceptHigher(s, 1)
    /\ UNCHANGED <<coordinator, record, relays, task, proxy, faults>>

Persists ==
    /\ Written \/ Renamed
    /\ UNCHANGED <<coordinator, record, relays, task, proxy, faults>>

EpochNotPersisted ==
    /\ PersistFails
    /\ IF write.id = Sandbox THEN Goes(Mover, "failed") ELSE UNCHANGED caller
    /\ UNCHANGED <<owner, row, rowSeen, record, relays, task, proxy, faults>>

\* The first worker's process dies with its relays and its records.
WorkerCrash ==
    LET lost == {k \in Callers : task[k].worker = 1} IN
    /\ StoreCrash
    /\ record' = [record EXCEPT ![1] = "gone"]
    /\ exposed' = [exposed EXCEPT ![1] = {}]
    /\ portOwner' = [portOwner EXCEPT ![1] = [h \in Ports |-> 0]]
    /\ listening' = [listening EXCEPT ![1] = {}]
    /\ current' = [current EXCEPT ![1] = NoMap]
    /\ task' = [k \in Callers |-> IF k \in lost THEN NoTask ELSE task[k]]
    /\ caller' = [k \in Callers |->
                    IF \/ k \in lost /\ At(k, "worker")
                       \/ k = Mover /\ caller[k].at \in {"fencing", "closing", "quarantine"}
                    THEN [caller[k] EXCEPT !.at = "failed"] ELSE caller[k]]
    /\ UNCHANGED <<owner, row, rowSeen, maps, overlap, shifted, proxy, faults>>

\* The route's supervisor restarts its processes with the attributes it was started with.
RouteCrash ==
    /\ Fault
    /\ route # NoRoute
    /\ route' = made
    /\ routeCrashed' = TRUE
    /\ UNCHANGED <<store, coordinator, record, relays, task, made>>

Requesting(r) == \/ \E g \in GuestPorts : Expose(r, g)
                 \/ CreateRoute(r) \/ RouteAnswered(r) \/ InsertPort(r)
Handling(k)   == Admit(k) \/ Start(k) \/ Listen(k)
Moving        == \/ Repoint \/ UpdateEndpoint \/ CompleteCutover
                 \/ FenceSource \/ RelaysClosed \/ Quarantine \/ CleanupAgain
                 \/ \E t \in Transfers : TransferExposes(t)

ExposureNext ==
    \/ \E r \in Requests : Requesting(r)
    \/ \E k \in Callers : Handling(k) \/ HandlerFails(k) \/ CallFails(k)
    \/ SetProxyPort \/ Moving \/ EpochSynced \/ Persists
    \/ OtherAccepts \/ EpochNotPersisted \/ WorkerCrash \/ RouteCrash

ExposureSpec == ExposureInit /\ [][ExposureNext]_exposureVars

-----------------------------------------------------------------------------
(* Properties.                                                             *)

\* The route leads to a relay for its guest port, wherever its worker still runs the sandbox.
\* Except that of two requests for different ports one may have made the route and the other
\* the row: the cutover then moves the route to the row's port. And except that a handler may
\* find the relay of its guest port started and record the host port it was given itself,
\* which need not be the relay's: a repeated exposure that failed has freed that one.
RouteReachesRelay ==
    /\ route # NoRoute /\ row.guest \in {0, route.guest}
    /\ record[route.worker] = "running" /\ ~shifted
    => [guest |-> route.guest, host |-> route.host] \in listening[route.worker]

\* The port that clients are told is the route's, whoever of several requests made the route
\* and whoever stored it. (Restarted processes of a route do not know their port.)
RowHasRoute ==
    row # NoRow => route # NoRoute /\ (row.port = route.port \/ routeCrashed)

\* A row that the cutover finds has its route moved before the owner changes; a row stored
\* after that may leave its route at the source for good, as may a route that restarts.
RouteFollowsCutover ==
    owner = 2 /\ rowSeen /\ ~routeCrashed => route.worker = 2 /\ route.epoch = 2

\* No relay survives its sandbox: after the cleanup none listens on the source and no host
\* port is held. Except that two handlers that start relays at a time may each make a Map,
\* of which one is forgotten with its relays, and that one which was let in before the fence
\* goes on after it, and leaves its own.
RelaysStop ==
    record[1] = "quarantined" /\ ~overlap =>
        listening[1] = {} /\ \A h \in Ports : portOwner[1][h] = 0
=============================================================================
