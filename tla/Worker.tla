------------------------------- MODULE Worker -------------------------------
(***************************************************************************)
(* The workers (agents), as far as one sandbox is concerned: its record in *)
(* each worker, its Firecracker process, its snapshot files, and the       *)
(* worker's durable fencing epoch.                                         *)
(*                                                                         *)
(* A request is handled by one asynchronous function.  Node runs it in one *)
(* piece up to the point where it waits for the host (Firecracker, the     *)
(* guest, the file system); other requests run meanwhile.  So an operation *)
(* is one action when it changes nothing after waiting, and two otherwise: *)
(* Begin..., up to the call to the host, and End..., what the call did and *)
(* what the function does after it.  (A snapshot waits twice, for          *)
(* Firecracker and for the disk: TakeSnapshot is between the two.)         *)
(*                                                                         *)
(* The caller may have stopped waiting (its call timed out, or it crashed):*)
(* the handler does not notice.  A call to Firecracker that the agent      *)
(* itself gives up (timeoutMs of its client) is such a request, too: its   *)
(* caller has an error as from a timeout of its own, and what Firecracker  *)
(* still does for it is End...'s branch with the effect and an error,      *)
(* which leaves the record as it was.  The calls that wait at a            *)
(* Firecracker which outlives its agent are taken to die with the agent.   *)
(***************************************************************************)
EXTENDS Naturals, FiniteSets

CONSTANTS
    Workers,
    Migrations,
    None,               \* no migration
    Failing,            \* the operations whose host calls may fail
    SharedRoot,         \* TRUE: sharedWorkerRoot is configured, artifacts are hard links
    MaxWrites,          \* bound: writes of the guest
    MaxWorkerRestarts   \* bound: restarts of workers

ASSUME WorkerNoneAssumption   == None \notin Migrations
ASSUME WorkerBoundsAssumption ==
    MaxWrites \in Nat /\ MaxWorkerRestarts \in Nat /\ SharedRoot \in BOOLEAN

VARIABLES
    rec,             \* rec[w]: the sandbox's record, NoRecord when w has none
    accepted,        \* accepted[w]: the highest epoch accepted, in epochs.json
    occupied,        \* occupied[w]: the sandbox's physical directory exists
    vm,              \* vm[w]: the Firecracker process and its guest
    image,           \* image[w]: how many of the guest's writes the guest of vm[w] has
    files,           \* files[w]: the same of the snapshot files in the physical directory
    registered,      \* registered[w]: the descriptor of those files in the record
    manifests,       \* manifests[w]: <<m, image>> for the cached manifests
    prepared,        \* prepared[w]: the migrations whose reservation is prepared
    consumed,        \* consumed[w]: the migrations whose snapshot was resumed here
    requests,        \* the requests sent and not yet answered
    replies,         \* replies[m]: the answer on its way to the runner of m
    written,         \* writes the guest has made
    workerRestarts

record     == <<rec, prepared, consumed, registered, manifests>>
host       == <<occupied, vm, image, files>>
workerVars == <<rec, accepted, occupied, vm, image, files, registered, manifests, prepared,
                consumed, requests, replies, written, workerRestarts>>

NoRecord == [state |-> "none", epoch |-> 0, loaded |-> None]
NoFiles  == MaxWrites + 1
NoReply  == [status |-> "none", image |-> 0]

RecordStates == {"booting", "running", "paused", "fenced", "quarantined"}
Existing     == RecordStates

Operations == {"reserve", "prestage", "probe", "precopy", "pause", "snapshot", "transfer",
               "load", "resume", "verify", "expose", "fence", "rollback"}

\* The calls the proxy answers; they travel the same way.
ProxyOperations == {"begin_cutover", "repoint"}

Request ==
    [op : Operations \cup ProxyOperations, m : Migrations, worker : Workers, source : Workers,
     epoch : Nat, image : 0..MaxWrites, awaited : BOOLEAN, stage : {"sent", "running"}, turn : Nat]

WorkerTypeOK ==
    /\ rec        \in [Workers -> [state : RecordStates \cup {"none"}, epoch : Nat,
                                   loaded : Migrations \cup {None}]]
    /\ accepted   \in [Workers -> Nat]
    /\ occupied   \in [Workers -> BOOLEAN]
    /\ vm         \in [Workers -> {"none", "idle", "running", "paused"}]
    /\ image      \in [Workers -> 0..MaxWrites]
    /\ files      \in [Workers -> 0..NoFiles]
    /\ registered \in [Workers -> 0..NoFiles]
    /\ manifests  \in [Workers -> SUBSET (Migrations \X (0..MaxWrites))]
    /\ prepared   \in [Workers -> SUBSET Migrations]
    /\ consumed   \in [Workers -> SUBSET Migrations]
    /\ requests   \subseteq Request
    /\ replies    \in [Migrations -> [status : {"none", "ok", "error"}, image : 0..MaxWrites]]
    /\ written    \in 0..MaxWrites
    /\ workerRestarts \in 0..MaxWorkerRestarts

\* The sandbox has booted on worker home, under epoch 1.
WorkerInit(home) ==
    /\ rec        = [w \in Workers |-> IF w = home
                                       THEN [state |-> "running", epoch |-> 1, loaded |-> None]
                                       ELSE NoRecord]
    /\ accepted   = [w \in Workers |-> IF w = home THEN 1 ELSE 0]
    /\ occupied   = [w \in Workers |-> w = home]
    /\ vm         = [w \in Workers |-> IF w = home THEN "running" ELSE "none"]
    /\ image      = [w \in Workers |-> 0]
    /\ files      = [w \in Workers |-> NoFiles]
    /\ registered = [w \in Workers |-> NoFiles]
    /\ manifests  = [w \in Workers |-> {}]
    /\ prepared   = [w \in Workers |-> {}]
    /\ consumed   = [w \in Workers |-> {}]
    /\ requests   = {}
    /\ replies    = [m \in Migrations |-> NoReply]
    /\ written    = 0
    /\ workerRestarts = 0

-----------------------------------------------------------------------------
(* Requests and their answers.                                             *)

Sent(op)    == {r \in requests : r.op = op /\ r.stage = "sent"}
Running(op) == {r \in requests : r.op = op /\ r.stage = "running"}

\* The handlers that wait for the sandbox's Firecracker process to take their call.  It
\* serves its API one call at a time, in the order they came: a turn of 1 is the next.
FirecrackerCalls == {"pause", "snapshot", "load", "resume", "rollback"}
Queued(w) == {r \in requests : r.worker = w /\ r.turn > 0}
AtFirecracker(op) == {r \in Running(op) : r.turn = 1}

\* q has one less before it when one of done leaves its queue.
MovedUp(q, done) == IF q.turn > 0 /\ \E r \in done : r.worker = q.worker /\ r.turn > 0
                    THEN [q EXCEPT !.turn = @ - 1] ELSE q

\* The handlers of the requests in done return; the runner that still waits gets the answer.
Reply(done, status, img) ==
    /\ requests' = {MovedUp(q, done) : q \in requests \ done}
    /\ replies' = [m \in Migrations |->
                     IF \E r \in done : r.m = m /\ r.awaited
                     THEN [status |-> status, image |-> img] ELSE replies[m]]

Ok(r)     == Reply({r}, "ok", 0)
Error(r)  == Reply({r}, "error", 0)

\* The handler of r waits for the host, behind the others when it is for Firecracker.
Await(r) ==
    /\ requests' = (requests \ {r}) \cup
         {[r EXCEPT !.stage = "running",
                    !.turn = IF r.op \in FirecrackerCalls
                             THEN Cardinality(Queued(r.worker)) + 1 ELSE 0]}
    /\ UNCHANGED replies

HostMayFail(r) == r.op \in Failing

OkOrHostError(r) == Ok(r) \/ (HostMayFail(r) /\ Error(r))

-----------------------------------------------------------------------------
(* WorkerCore.mutableRecord, and EpochStore.accept under it.               *)

Accept(w, e) == accepted' = [accepted EXCEPT ![w] = e]

\* A newer epoch reaches a record that is not waiting to be restored: it is fenced.
Superseded(r) == /\ rec[r.worker].state \in Existing \ {"booting"}
                 /\ r.epoch > accepted[r.worker]

\* The epoch is accepted, and the record passes the checks.
Admitted(r, expected) ==
    /\ rec[r.worker].state \in expected \ {"fenced"}
    /\ r.epoch >= accepted[r.worker]
    /\ r.epoch >= rec[r.worker].epoch
    /\ ~Superseded(r)

\* fenceQuietly: the guest is paused if it was running, as far as the host does it.
FenceQuietly(r) ==
    /\ Superseded(r)
    /\ Accept(r.worker, r.epoch)
    /\ rec' = [rec EXCEPT ![r.worker].state = "fenced", ![r.worker].epoch = r.epoch]
    /\ \/ /\ rec[r.worker].state = "running" /\ vm[r.worker] = "running"
          /\ vm' = [vm EXCEPT ![r.worker] = "paused"]
       \/ /\ \/ rec[r.worker].state # "running" \/ vm[r.worker] # "running"
             \/ "pause" \in Failing
          /\ UNCHANGED vm
    /\ Error(r)
    /\ UNCHANGED <<occupied, image, files, prepared, consumed, registered, manifests>>

\* The other refusals: no record, a stale epoch, or the wrong state once it is accepted.
Refuse(r, expected) ==
    /\ ~Admitted(r, expected) /\ ~Superseded(r)
    /\ \/ /\ rec[r.worker].state = "none" \/ r.epoch < accepted[r.worker]
          /\ UNCHANGED accepted
       \/ /\ rec[r.worker].state # "none" /\ r.epoch >= accepted[r.worker]
          /\ Accept(r.worker, r.epoch)
    /\ Error(r)
    /\ UNCHANGED <<record, host>>

NotAdmitted(r, expected) == FenceQuietly(r) \/ Refuse(r, expected)

\* A handler that only checks: it answers without having changed more than the epoch.
Check(r, expected) ==
    \/ NotAdmitted(r, expected)
    \/ /\ Admitted(r, expected)
       /\ Accept(r.worker, r.epoch)
       /\ OkOrHostError(r)
       /\ UNCHANGED <<record, host>>

\* A handler that answers from what it finds, without looking at the epoch.
Answer(r, ok) ==
    /\ IF ok THEN Ok(r) ELSE Error(r)
    /\ UNCHANGED <<record, host, accepted>>

\* A handler that passed the checks and waits for the host.
StartWork(r) ==
    /\ Accept(r.worker, r.epoch)
    /\ Await(r)

WorkFails(r) ==
    /\ Error(r)
    /\ UNCHANGED <<record, host, accepted>>

-----------------------------------------------------------------------------
(* Preparing the destination.                                              *)

\* prepareMigration at stage "reserve".
Reserve == \E r \in Sent("reserve") : Answer(r, TRUE)

Preparing(w, m) == {r \in Running("prestage") : r.worker = w /\ r.m = m}

\* prepareMigration at stage "prestage": answer from a prepared reservation, join the one
\* being prepared, match an existing record, or claim the directory and start Firecracker.
BeginPrestage ==
    \E r \in Sent("prestage") : LET w == r.worker IN
       \/ /\ r.m \in prepared[w]
          /\ Answer(r, vm[w] # "none")
       \/ /\ r.m \notin prepared[w] /\ Preparing(w, r.m) # {}
          /\ Await(r)
          /\ UNCHANGED <<record, host, accepted>>
       \/ /\ r.m \notin prepared[w] /\ Preparing(w, r.m) = {}
          /\ rec[w].state # "none" /\ rec[w].epoch = r.epoch
          /\ prepared' = [prepared EXCEPT ![w] = @ \cup {r.m}]
          /\ IF vm[w] # "none" THEN Ok(r) ELSE Error(r)
          /\ UNCHANGED <<rec, consumed, registered, manifests, host, accepted>>
       \/ /\ r.m \notin prepared[w] /\ Preparing(w, r.m) = {}
          /\ \/ rec[w].state # "none" /\ rec[w].epoch # r.epoch
             \/ rec[w].state = "none" /\ r.epoch < accepted[w]
          /\ Answer(r, FALSE)
       \/ /\ r.m \notin prepared[w] /\ Preparing(w, r.m) = {}
          /\ rec[w].state = "none" /\ r.epoch >= accepted[w] /\ occupied[w]
          /\ Accept(w, r.epoch)
          /\ Error(r)
          /\ UNCHANGED <<record, host>>
       \/ /\ r.m \notin prepared[w] /\ Preparing(w, r.m) = {}
          /\ rec[w].state = "none" /\ r.epoch >= accepted[w] /\ ~occupied[w]
          /\ occupied' = [occupied EXCEPT ![w] = TRUE]
          /\ StartWork(r)
          /\ UNCHANGED <<record, vm, image, files>>

\* Firecracker waits on its socket and the record is registered, or all of it is undone.
EndPrestage ==
    \E r \in Running("prestage") : LET w == r.worker IN
       \/ /\ vm' = [vm EXCEPT ![w] = "idle"]
          /\ rec' = [rec EXCEPT ![w] = [state |-> "booting", epoch |-> r.epoch, loaded |-> None]]
          /\ prepared' = [prepared EXCEPT ![w] = @ \cup {r.m}]
          /\ registered' = [registered EXCEPT ![w] = NoFiles]
          /\ files' = [files EXCEPT ![w] = NoFiles]
          /\ Reply(Preparing(w, r.m), "ok", 0)
          /\ UNCHANGED <<occupied, image, consumed, manifests, accepted>>
       \/ /\ HostMayFail(r)
          /\ occupied' = [occupied EXCEPT ![w] = FALSE]
          /\ Reply(Preparing(w, r.m), "error", 0)
          /\ UNCHANGED <<record, vm, image, files, accepted>>

-----------------------------------------------------------------------------
(* The source, up to the snapshot.                                         *)

Probe   == \E r \in Sent("probe")   : Check(r, {"running"})
Precopy == \E r \in Sent("precopy") : Check(r, {"running"})

BeginPause ==
    \E r \in Sent("pause") :
       \/ rec[r.worker].state = "paused" /\ Answer(r, TRUE)
       \/ rec[r.worker].state # "paused" /\ NotAdmitted(r, RecordStates)
       \/ /\ rec[r.worker].state # "paused" /\ Admitted(r, RecordStates)
          /\ StartWork(r)
          /\ UNCHANGED <<record, host>>

\* The record says Paused after the wait, whatever happened to it meanwhile.
EndPause ==
    \E r \in AtFirecracker("pause") : LET w == r.worker IN
       \/ /\ vm[w] \in {"running", "paused"}
          /\ vm' = [vm EXCEPT ![w] = "paused"]
          /\ \/ /\ rec' = [rec EXCEPT ![w].state = "paused"]
                /\ Ok(r)
             \/ /\ HostMayFail(r)
                /\ Error(r)
                /\ UNCHANGED rec
          /\ UNCHANGED <<prepared, consumed, registered, manifests, occupied, image, files, accepted>>
       \/ /\ vm[w] \in {"none", "idle"} \/ HostMayFail(r)
          /\ WorkFails(r)

BeginSnapshot ==
    \E r \in Sent("snapshot") :
       \/ /\ \E entry \in manifests[r.worker] :
                entry[1] = r.m /\ Reply({r}, "ok", entry[2])
          /\ UNCHANGED <<record, host, accepted>>
       \/ /\ \A entry \in manifests[r.worker] : entry[1] # r.m
          /\ NotAdmitted(r, {"paused"})
       \/ /\ \A entry \in manifests[r.worker] : entry[1] # r.m
          /\ Admitted(r, {"paused"})
          /\ StartWork(r)
          /\ UNCHANGED <<record, host>>

\* What a descriptor tells of the files' contents: a hash, or with a shared root their size.
Descriptor(img) == IF SharedRoot THEN 0 ELSE img

\* The handlers for which Firecracker has written the snapshot: of those that wait for a
\* snapshot only these are in no queue any more.
SnapshotWritten == {r \in Running("snapshot") : r.turn = 0}

\* Firecracker writes the snapshot, as the guest is then, to files of its own; it is free for
\* the next call.
TakeSnapshot ==
    \E r \in AtFirecracker("snapshot") : LET w == r.worker IN
       \/ /\ vm[w] = "paused"
          /\ requests' = {MovedUp(q, {r}) : q \in requests \ {r}} \cup
                           {[r EXCEPT !.turn = 0, !.image = image[w]]}
          /\ UNCHANGED <<record, host, accepted, replies>>
       \/ /\ vm[w] # "paused" \/ HostMayFail(r)
          /\ WorkFails(r)

\* The files are on disk and hashed: they become the record's, whatever the guest does now.
\* They may be gone by then, to quarantine.
EndSnapshot ==
    \E r \in SnapshotWritten : LET w == r.worker IN
       \/ /\ files' = [files EXCEPT ![w] = r.image]
          /\ registered' = [registered EXCEPT ![w] = Descriptor(r.image)]
          /\ manifests' = [manifests EXCEPT ![w] =
                             {entry \in @ : entry[1] # r.m} \cup {<<r.m, r.image>>}]
          /\ Reply({r}, "ok", r.image)
          /\ UNCHANGED <<rec, prepared, consumed, occupied, vm, image, accepted>>
       \/ /\ HostMayFail(r) \/ ~occupied[w]
          /\ WorkFails(r)

-----------------------------------------------------------------------------
(* The destination, up to the resume.                                      *)

BeginTransfer ==
    \E r \in Sent("transfer") : LET w == r.worker IN
       \/ NotAdmitted(r, {"booting"})
       \/ /\ Admitted(r, {"booting"}) /\ registered[w] = Descriptor(r.image)
          /\ Accept(w, r.epoch)
          /\ OkOrHostError(r)
          /\ UNCHANGED <<record, host>>
       \/ /\ Admitted(r, {"booting"}) /\ registered[w] # Descriptor(r.image)
          /\ StartWork(r)
          /\ UNCHANGED <<record, host>>

\* The source serves the files its record registers now, checked against the hash; or, with a
\* shared root, the files of that generation are linked from its directory.
Available(r) ==
    IF SharedRoot THEN occupied[r.source]
                  ELSE rec[r.source].state # "none" /\ registered[r.source] = r.image

EndTransfer ==
    \E r \in Running("transfer") : LET w == r.worker IN
       \/ /\ rec[w].state # "none" /\ Available(r)
          /\ files' = [files EXCEPT ![w] = r.image]
          /\ registered' = [registered EXCEPT ![w] = Descriptor(r.image)]
          /\ OkOrHostError(r)
          /\ UNCHANGED <<rec, prepared, consumed, manifests, occupied, vm, image, accepted>>
       \/ /\ rec[w].state = "none" \/ ~Available(r) \/ HostMayFail(r)
          /\ WorkFails(r)

BeginLoad ==
    \E r \in Sent("load") : LET w == r.worker IN
       \/ /\ r.m \in consumed[w] \/ rec[w].state = "none"
          /\ Answer(r, FALSE)
       \/ /\ r.m \notin consumed[w] /\ rec[w].loaded = r.m /\ rec[w].state = "paused"
          /\ Answer(r, TRUE)
       \/ /\ r.m \notin consumed[w] /\ rec[w].state # "none"
          /\ ~(rec[w].loaded = r.m /\ rec[w].state = "paused")
          /\ \/ NotAdmitted(r, {"booting"})
             \/ /\ Admitted(r, {"booting"}) /\ registered[w] # Descriptor(r.image)
                /\ Accept(w, r.epoch)
                /\ Error(r)
                /\ UNCHANGED <<record, host>>
             \/ /\ Admitted(r, {"booting"}) /\ registered[w] = Descriptor(r.image)
                /\ StartWork(r)
                /\ UNCHANGED <<record, host>>

\* Mutant: Firecracker is told to resume the snapshot as it loads it.
MutantEndLoad ==
    \E r \in AtFirecracker("load") : LET w == r.worker IN
       \/ /\ vm[w] = "idle"
          /\ vm' = [vm EXCEPT ![w] = "running"]
          /\ image' = [image EXCEPT ![w] = files[w]]
          /\ \/ /\ rec' = [rec EXCEPT ![w].loaded = r.m, ![w].state = "paused"]
                /\ Ok(r)
             \/ /\ HostMayFail(r)
                /\ Error(r)
                /\ UNCHANGED rec
          /\ UNCHANGED <<prepared, consumed, registered, manifests, occupied, files, accepted>>
       \/ /\ vm[w] # "idle" \/ HostMayFail(r)
          /\ WorkFails(r)

\* Firecracker restores what the files hold, which is for it to know.
EndLoad ==
    \E r \in AtFirecracker("load") : LET w == r.worker IN
       \/ /\ vm[w] = "idle"
          /\ vm' = [vm EXCEPT ![w] = "paused"]
          /\ image' = [image EXCEPT ![w] = files[w]]
          /\ \/ /\ rec' = [rec EXCEPT ![w].loaded = r.m, ![w].state = "paused"]
                /\ Ok(r)
             \/ /\ HostMayFail(r)
                /\ Error(r)
                /\ UNCHANGED rec
          /\ UNCHANGED <<prepared, consumed, registered, manifests, occupied, files, accepted>>
       \/ /\ vm[w] # "idle" \/ HostMayFail(r)
          /\ WorkFails(r)

-----------------------------------------------------------------------------
(* Resuming: resumeSandbox, for the destination and for a rolled back source. *)

\* Mutant: a snapshot that was resumed is resumed again.
MutantBeginResumeSandbox(r) ==
    LET w == r.worker IN
    \/ NotAdmitted(r, {"paused"})
    \/ /\ Admitted(r, {"paused"})
       /\ consumed' = [consumed EXCEPT ![w] = @ \cup ({rec[w].loaded} \ {None})]
       /\ StartWork(r)
       /\ UNCHANGED <<rec, prepared, registered, manifests, host>>

BeginResumeSandbox(r) ==
    LET w == r.worker IN
    \/ NotAdmitted(r, {"paused"})
    \/ /\ Admitted(r, {"paused"}) /\ rec[w].loaded \in consumed[w]
       /\ Accept(w, r.epoch)
       /\ Error(r)
       /\ UNCHANGED <<record, host>>
    \/ /\ Admitted(r, {"paused"}) /\ rec[w].loaded \notin consumed[w]
       /\ consumed' = [consumed EXCEPT ![w] = @ \cup ({rec[w].loaded} \ {None})]
       /\ StartWork(r)
       /\ UNCHANGED <<rec, prepared, registered, manifests, host>>

\* The record is Running under the caller's epoch, whatever happened to it meanwhile; the
\* answer is an error when the guest does not get ready after that.
EndResumeSandbox(r) ==
    LET w == r.worker IN
    \/ /\ vm[w] \in {"running", "paused"}
       /\ vm' = [vm EXCEPT ![w] = "running"]
       /\ \/ /\ rec' = [rec EXCEPT ![w].state = "running", ![w].epoch = r.epoch]
             /\ OkOrHostError(r)
          \/ /\ HostMayFail(r)
             /\ Error(r)
             /\ UNCHANGED rec
       /\ UNCHANGED <<prepared, consumed, registered, manifests, occupied, image, files, accepted>>
    \/ /\ vm[w] \in {"none", "idle"} \/ HostMayFail(r)
       /\ WorkFails(r)

BeginResume ==
    \E r \in Sent("resume") :
       \/ rec[r.worker].state = "running" /\ Answer(r, TRUE)
       \/ rec[r.worker].state # "running" /\ BeginResumeSandbox(r)

EndResume == \E r \in AtFirecracker("resume") : EndResumeSandbox(r)

\* rollbackMigration: only the source's guest, never a loaded one; running already is fine.
BeginRollback ==
    \E r \in Sent("rollback") : LET w == r.worker IN
       \/ /\ rec[w].state \notin {"running", "paused"} \/ rec[w].loaded # None
          /\ Answer(r, FALSE)
       \/ /\ rec[w].state = "running" /\ rec[w].loaded = None
          /\ OkOrHostError(r)
          /\ UNCHANGED <<record, host, accepted>>
       \/ /\ rec[w].state = "paused" /\ rec[w].loaded = None
          /\ BeginResumeSandbox(r)

EndRollback == \E r \in AtFirecracker("rollback") : EndResumeSandbox(r)

-----------------------------------------------------------------------------
(* After the resume.                                                       *)

Verify == \E r \in Sent("verify") : Check(r, {"running"})
Expose == \E r \in Sent("expose") : Check(r, RecordStates)

\* fenceAndCleanup: fenceSandbox marks the record at once.
BeginFence ==
    \E r \in Sent("fence") : LET w == r.worker IN
       \/ rec[w].state = "none" /\ Answer(r, FALSE)
       \/ rec[w].state = "quarantined" /\ Answer(r, TRUE)
       \/ /\ rec[w].state \notin {"none", "quarantined"} /\ r.epoch < accepted[w]
          /\ Answer(r, FALSE)
       \/ /\ rec[w].state \notin {"none", "quarantined"} /\ r.epoch >= accepted[w]
          /\ rec' = [rec EXCEPT ![w].state = "fenced", ![w].epoch = r.epoch]
          /\ StartWork(r)
          /\ UNCHANGED <<prepared, consumed, registered, manifests, host>>

\* Mutant: the process is not stopped.
MutantEndFenceKeepsProcess ==
    \E r \in Running("fence") : LET w == r.worker IN
       \/ /\ rec[w].state = "quarantined"
          /\ Answer(r, TRUE)
       \/ /\ rec[w].state # "quarantined" /\ occupied[w]
          /\ vm' = [vm EXCEPT ![w] = IF @ = "running" THEN "paused" ELSE @]
          /\ occupied' = [occupied EXCEPT ![w] = FALSE]
          /\ rec' = [rec EXCEPT ![w].state = "quarantined", ![w].epoch = r.epoch]
          /\ Ok(r)
          /\ UNCHANGED <<prepared, consumed, registered, manifests, image, files, accepted>>

\* Then the guest is paused, its process killed and its directory moved to quarantine; an
\* earlier failure leaves the rest undone.
EndFence ==
    \E r \in Running("fence") : LET w == r.worker IN
       \/ /\ rec[w].state = "quarantined"
          /\ Answer(r, TRUE)
       \/ /\ rec[w].state # "quarantined" /\ occupied[w]
          /\ vm' = [vm EXCEPT ![w] = "none"]
          /\ occupied' = [occupied EXCEPT ![w] = FALSE]
          /\ rec' = [rec EXCEPT ![w].state = "quarantined", ![w].epoch = r.epoch]
          /\ Ok(r)
          /\ UNCHANGED <<prepared, consumed, registered, manifests, image, files, accepted>>
       \/ /\ HostMayFail(r) \/ ~occupied[w]
          /\ \E left \in {vm[w], "none"} \cup (IF vm[w] = "running" THEN {"paused"} ELSE {}) :
                vm' = [vm EXCEPT ![w] = left]
          /\ Error(r)
          /\ UNCHANGED <<record, occupied, image, files, accepted>>

-----------------------------------------------------------------------------
(* The guest, and a worker that restarts.                                  *)

GuestWrite(w) ==
    /\ vm[w] = "running" /\ written < MaxWrites
    /\ written' = written + 1
    /\ image' = [image EXCEPT ![w] = @ + 1]
    /\ UNCHANGED <<record, accepted, occupied, vm, files, requests, replies, workerRestarts>>

\* Mutant: the epochs are kept in memory.
MutantWorkerRestart(w) ==
    /\ workerRestarts < MaxWorkerRestarts
    /\ workerRestarts' = workerRestarts + 1
    /\ rec'        = [rec        EXCEPT ![w] = NoRecord]
    /\ accepted'   = [accepted   EXCEPT ![w] = 0]
    /\ registered' = [registered EXCEPT ![w] = NoFiles]
    /\ manifests'  = [manifests  EXCEPT ![w] = {}]
    /\ prepared'   = [prepared   EXCEPT ![w] = {}]
    /\ consumed'   = [consumed   EXCEPT ![w] = {}]
    /\ vm'         = [vm         EXCEPT ![w] = "none"]
    /\ Reply({r \in requests : r.worker = w /\ r.stage = "running"}, "error", 0)
    /\ UNCHANGED <<occupied, image, files, written>>

\* The worker's memory is lost with the handlers that run; its epochs and directories are on
\* disk.  Firecracker may or may not outlive it.
WorkerRestart(w) ==
    /\ workerRestarts < MaxWorkerRestarts
    /\ workerRestarts' = workerRestarts + 1
    /\ rec'        = [rec        EXCEPT ![w] = NoRecord]
    /\ registered' = [registered EXCEPT ![w] = NoFiles]
    /\ manifests'  = [manifests  EXCEPT ![w] = {}]
    /\ prepared'   = [prepared   EXCEPT ![w] = {}]
    /\ consumed'   = [consumed   EXCEPT ![w] = {}]
    /\ \E left \in {vm[w], "none"} : vm' = [vm EXCEPT ![w] = left]
    /\ Reply({r \in requests : r.worker = w /\ r.stage = "running"}, "error", 0)
    /\ UNCHANGED <<accepted, occupied, image, files, written>>

Handler ==
    \/ Reserve \/ BeginPrestage \/ EndPrestage
    \/ Probe \/ Precopy
    \/ BeginPause \/ EndPause \/ BeginSnapshot \/ TakeSnapshot \/ EndSnapshot
    \/ BeginTransfer \/ EndTransfer \/ BeginLoad \/ EndLoad
    \/ BeginResume \/ EndResume \/ BeginRollback \/ EndRollback
    \/ Verify \/ Expose \/ BeginFence \/ EndFence

WorkerStep ==
    \/ Handler /\ UNCHANGED <<written, workerRestarts>>
    \/ \E w \in Workers : GuestWrite(w) \/ WorkerRestart(w)
=============================================================================
