---------------------------- MODULE ExposureProofs ----------------------------
(***************************************************************************)
(* An accepted epoch is never lost, for any number of sandboxes, failures  *)
(* and crashes of EpochStore.  That holds for its callers in Exposure:     *)
(* each of their steps is one of the store's, or leaves it alone.  And an  *)
(* exposure reaches its relay, before and after the cutover, for any       *)
(* number of requests.                                                     *)
(***************************************************************************)
EXTENDS Exposure, TLAPS

(* The epoch store.  The argument is about what memory goes back to when a *)
(* write fails: every file that may be found after a restart has at least  *)
(* that.                                                                   *)

Writing(s) == write # NoWrite /\ write.id = s

\* What is settled of sandbox s: memory, but for the epoch that is being written.
Settled(s) == IF Writing(s) THEN write.previous ELSE memory[s]

WriteOK ==
    /\ write # NoWrite => write.previous < write.epoch /\ memory[write.id] = write.epoch
    /\ write.at = "sync" => disk = memory

FilesKeepSettled ==
    ~adopted => \A s \in Sandboxes :
        /\ answered[s] <= Settled(s) /\ Settled(s) <= disk[s]
        /\ \A d \in stale : Settled(s) <= d[s]

StoreInv == EpochStoreTypeOK /\ WriteOK /\ FilesKeepSettled

LEMMA StoreInvInitially == StoreInit => StoreInv
<1> SUFFICES ASSUME StoreInit PROVE StoreInv
  OBVIOUS
<1>1. EpochStoreTypeOK
  <2>1. memory \in Epochs /\ disk \in Epochs /\ answered \in Epochs /\ stale \subseteq Epochs
    BY DEF StoreInit, Epochs
  <2>2. storeFaults \in 0..MaxStoreFaults
    BY StoreBound DEF StoreInit
  <2>3. write \in Writes \cup {NoWrite} /\ adopted \in BOOLEAN
    BY DEF StoreInit
  <2>4. QED
    BY <2>1, <2>2, <2>3 DEF EpochStoreTypeOK
<1>2. WriteOK
  BY DEF StoreInit, WriteOK, NoWrite
<1>3. FilesKeepSettled
  <2>1. ASSUME NEW s \in Sandboxes
        PROVE /\ answered[s] <= Settled(s) /\ Settled(s) <= disk[s]
              /\ \A d \in stale : Settled(s) <= d[s]
    <3>1. ~Writing(s)
      BY DEF StoreInit, Writing
    <3>2. Settled(s) = 0 /\ answered[s] = 0 /\ disk[s] = 0
      BY <3>1 DEF StoreInit, Settled
    <3>3. QED
      BY <3>2 DEF StoreInit
  <2>2. QED
    BY <2>1 DEF FilesKeepSettled
<1>4. QED
  BY <1>1, <1>2, <1>3 DEF StoreInv

\* Every step keeps the types.
LEMMA TypeStep == EpochStoreTypeOK /\ [StoreNext]_store => EpochStoreTypeOK'
<1> SUFFICES ASSUME EpochStoreTypeOK, [StoreNext]_store PROVE EpochStoreTypeOK'
  OBVIOUS
<1> USE DEF EpochStoreTypeOK, Epochs
<1>1. ASSUME NEW s \in Sandboxes, NEW e \in Nat, AcceptSame(s, e) PROVE EpochStoreTypeOK'
  BY <1>1 DEF AcceptSame, Answer
<1>2. ASSUME NEW s \in Sandboxes, NEW e \in Nat, AcceptHigher(s, e) PROVE EpochStoreTypeOK'
  <2>1. write' \in Writes
    BY <1>2 DEF AcceptHigher, Writes
  <2>2. QED
    BY <1>2, <2>1 DEF AcceptHigher
<1>3. CASE Written
  <2>1. write' \in Writes
    BY <1>3 DEF Written, Writes, NoWrite
  <2>2. QED
    BY <1>3, <2>1 DEF Written
<1>4. CASE Renamed
  <2>1. write' \in Writes
    BY <1>4 DEF Renamed, Writes, NoWrite
  <2>2. QED
    BY <1>4, <2>1 DEF Renamed
<1>5. CASE Synced
  <2>1. write \in Writes
    BY <1>5 DEF Synced, NoWrite
  <2>2. QED
    BY <1>5, <2>1 DEF Synced, Answer, Writes
<1>6. CASE PersistFails
  <2>1. write \in Writes
    BY <1>6 DEF PersistFails
  <2>2. QED
    BY <1>6, <2>1, StoreBound DEF PersistFails, StoreFault, Writes
<1>7. CASE StoreCrash
  <2>1. disk' \in Epochs /\ stale' \subseteq Epochs /\ adopted' \in BOOLEAN
    <3>1. CASE UNCHANGED <<disk, stale>> /\ adopted' = (adopted \/ stale # {})
      BY <3>1
    <3>2. CASE disk' \in stale \cup {disk} /\ stale' = {} /\ UNCHANGED adopted
      BY <3>2
    <3>3. QED
      BY <1>7, <3>1, <3>2 DEF StoreCrash
  <2>2. storeFaults' \in 0..MaxStoreFaults
    BY <1>7, StoreBound DEF StoreCrash, StoreFault
  <2>3. QED
    BY <1>7, <2>1, <2>2 DEF StoreCrash
<1>8. CASE UNCHANGED store
  BY <1>8 DEF store
<1>9. QED
  BY <1>1, <1>2, <1>3, <1>4, <1>5, <1>6, <1>7, <1>8 DEF StoreNext

LEMMA StoreInvStep == StoreInv /\ [StoreNext]_store => StoreInv'
<1> SUFFICES ASSUME StoreInv, [StoreNext]_store PROVE WriteOK' /\ FilesKeepSettled'
  BY TypeStep DEF StoreInv
<1> EpochStoreTypeOK'
  BY TypeStep DEF StoreInv
<1> USE DEF StoreInv, EpochStoreTypeOK, Epochs, WriteOK, FilesKeepSettled
<1>1. ASSUME NEW s \in Sandboxes, NEW e \in Nat, AcceptSame(s, e)
      PROVE WriteOK' /\ FilesKeepSettled'
  BY <1>1 DEF AcceptSame, Answer, Settled, Writing
<1>2. ASSUME NEW s \in Sandboxes, NEW e \in Nat, AcceptHigher(s, e)
      PROVE WriteOK' /\ FilesKeepSettled'
  <2>1. WriteOK'
    BY <1>2 DEF AcceptHigher
  <2>2. \A r \in Sandboxes : Settled(r)' = Settled(r)
    BY <1>2 DEF AcceptHigher, Settled, Writing, NoWrite
  <2>3. QED
    BY <1>2, <2>1, <2>2 DEF AcceptHigher
<1>3. CASE Written
  <2>0. write \in Writes
    BY <1>3 DEF Written, NoWrite
  <2>1. WriteOK'
    BY <1>3, <2>0 DEF Written, NoWrite, Writes
  <2>2. \A r \in Sandboxes : Settled(r)' = Settled(r)
    BY <1>3, <2>0 DEF Written, Settled, Writing, NoWrite, Writes
  <2>3. QED
    BY <1>3, <2>1, <2>2 DEF Written
<1>4. CASE Renamed
  <2>0. write \in Writes
    BY <1>4 DEF Renamed, NoWrite
  <2>1. WriteOK'
    BY <1>4, <2>0 DEF Renamed, NoWrite, Writes
  <2>2. \A r \in Sandboxes : Settled(r)' = Settled(r) /\ Settled(r) <= memory[r]
    BY <1>4, <2>0 DEF Renamed, Settled, Writing, NoWrite, Writes
  <2>3. QED
    BY <1>4, <2>1, <2>2 DEF Renamed
<1>5. CASE Synced
  <2>0. write \in Writes /\ disk = memory
    BY <1>5 DEF Synced, NoWrite
  <2>1. WriteOK'
    BY <1>5 DEF Synced, NoWrite
  <2>2. \A r \in Sandboxes : Settled(r)' = memory[r]
    BY <1>5, <2>0 DEF Synced, Settled, Writing, NoWrite
  <2>3. \A r \in Sandboxes : Settled(r) <= memory[r] /\ Settled(r) \in Nat
    BY <1>5, <2>0 DEF Settled, Writing, Writes
  <2>4. ASSUME ~adopted, NEW r \in Sandboxes PROVE answered'[r] <= memory[r]
    <3>1. CASE r = write.id
      <4>1. memory[r] = write.epoch
        BY <1>5, <3>1 DEF Synced, NoWrite
      <4>2. answered'[r] = write.epoch /\ write.epoch \in Nat
        BY <1>5, <2>0, <3>1 DEF Synced, Answer, Writes
      <4>3. QED
        BY <4>1, <4>2
    <3>2. CASE r # write.id
      <4>1. answered'[r] = answered[r] /\ answered[r] <= Settled(r) /\ answered[r] \in Nat
        BY <1>5, <2>4, <3>2 DEF Synced, Answer
      <4>2. QED
        BY <4>1, <2>3
    <3>3. QED
      BY <3>1, <3>2
  <2>5. QED
    BY <1>5, <2>0, <2>1, <2>2, <2>4 DEF Synced
<1>6. CASE PersistFails
  <2>0. write \in Writes
    BY <1>6 DEF PersistFails
  <2>1. WriteOK'
    BY <1>6 DEF PersistFails, NoWrite
  <2>2. \A r \in Sandboxes : Settled(r)' = Settled(r)
    BY <1>6, <2>0 DEF PersistFails, Settled, Writing, Writes
  <2>3. QED
    BY <1>6, <2>1, <2>2 DEF PersistFails
<1>7. CASE StoreCrash
  <2>1. WriteOK'
    BY <1>7 DEF StoreCrash, NoWrite
  <2>2. \A r \in Sandboxes : Settled(r)' = disk'[r] /\ Settled(r) \in Nat
    BY <1>7 DEF StoreCrash, Settled, Writing, Writes
  <2>3. ASSUME ~adopted' PROVE stale' = {} /\ disk' \in stale \cup {disk} /\ ~adopted
    BY <1>7, <2>3 DEF StoreCrash
  <2>4. QED
    BY <1>7, <2>1, <2>2, <2>3 DEF StoreCrash
<1>8. CASE UNCHANGED store
  BY <1>8 DEF store, Settled, Writing
<1>9. QED
  BY <1>1, <1>2, <1>3, <1>4, <1>5, <1>6, <1>7, <1>8 DEF StoreNext

\* The invariant holds in every state of the store.
THEOREM StoreInvAlways == StoreSpec => []StoreInv
  BY StoreInvInitially, StoreInvStep, PTL DEF StoreSpec

\* Memory, file and the write under way always have their types (EpochStore, epochs.ts).
THEOREM EpochStoreTypeCorrect == StoreSpec => []EpochStoreTypeOK
<1>1. StoreInv => EpochStoreTypeOK
  BY DEF StoreInv
<1>2. QED
  BY <1>1, StoreInvAlways, PTL

\* What accept() has answered is in memory and on disk, and after a power cut (epochs.ts:41-97).
THEOREM AnsweredIsAlwaysKept == StoreSpec => []AnsweredIsKept
<1>1. ASSUME StoreInv PROVE AnsweredIsKept
  <2> USE <1>1 DEF StoreInv, EpochStoreTypeOK, Epochs
  <2>1. SUFFICES ASSUME ~adopted, NEW s \in Sandboxes
                 PROVE /\ answered[s] <= memory[s] /\ answered[s] <= disk[s]
                       /\ \A d \in stale : answered[s] <= d[s]
    BY DEF AnsweredIsKept
  <2>2. Settled(s) <= memory[s] /\ Settled(s) \in Nat
    BY DEF WriteOK, Settled, Writing, Writes
  <2>3. /\ answered[s] <= Settled(s) /\ Settled(s) <= disk[s]
        /\ \A d \in stale : Settled(s) <= d[s]
    BY <2>1 DEF FilesKeepSettled
  <2>4. \A d \in stale : d[s] \in Nat
    OBVIOUS
  <2>5. answered[s] \in Nat /\ memory[s] \in Nat /\ disk[s] \in Nat
    OBVIOUS
  <2>6. QED
    BY ONLY <2>2, <2>3, <2>4, <2>5
<1>2. QED
  BY <1>1, StoreInvAlways, PTL

\* A step of the store answers for no lower epoch than before.
LEMMA AnswersRise ==
    ASSUME StoreInv, [StoreNext]_store
    PROVE  [~adopted' => \A s \in Sandboxes : answered'[s] >= answered[s]]_store
<1> DEFINE Rises == ~adopted' => \A s \in Sandboxes : answered'[s] >= answered[s]
<1> USE DEF StoreInv, EpochStoreTypeOK, Epochs
<1>1. ASSUME NEW s \in Sandboxes, NEW e \in Nat, AcceptSame(s, e) PROVE Rises
  BY <1>1 DEF AcceptSame, Answer, FilesKeepSettled, Settled, Writing
<1>2. CASE Synced
  <2>1. write \in Writes /\ write # NoWrite
    BY <1>2 DEF Synced, NoWrite
  <2>2. ~adopted' => answered[write.id] <= write.epoch
    BY <1>2, <2>1 DEF Synced, FilesKeepSettled, WriteOK, Settled, Writing, Writes
  <2>3. QED
    BY <1>2, <2>1, <2>2 DEF Synced, Answer, Writes
<1>3. CASE UNCHANGED answered
  BY <1>3
<1>4. QED
  BY <1>1, <1>2, <1>3
  DEF StoreNext, AcceptHigher, Written, Renamed, PersistFails, StoreCrash, store

\* The fence: a worker never answers for a lower epoch than it has answered for (epochs.ts:49).
THEOREM FenceNeverOpens == StoreSpec => FenceNeverReopens
  BY StoreInvAlways, AnswersRise, PTL DEF StoreSpec, FenceNeverReopens

-----------------------------------------------------------------------------
(* The store under a worker.                                               *)

\* The store of a worker on which the sandbox was created.
LEMMA StoreInvCreated == ExposureInit => StoreInv
<1> SUFFICES ASSUME ExposureInit PROVE StoreInv
  OBVIOUS
<1>1. /\ memory \in Epochs /\ disk = memory /\ answered = memory
      /\ stale = {} /\ write = NoWrite /\ adopted = FALSE /\ storeFaults = 0
  BY DEF ExposureInit, Epochs
<1>2. EpochStoreTypeOK
  <2>1. storeFaults \in 0..MaxStoreFaults
    BY <1>1, StoreBound
  <2>2. write \in Writes \cup {NoWrite} /\ adopted \in BOOLEAN
    BY <1>1
  <2>3. QED
    BY <1>1, <2>1, <2>2 DEF EpochStoreTypeOK
<1>3. WriteOK
  BY <1>1 DEF WriteOK, NoWrite
<1>4. FilesKeepSettled
  <2>1. ASSUME NEW s \in Sandboxes
        PROVE /\ answered[s] <= Settled(s) /\ Settled(s) <= disk[s]
              /\ \A d \in stale : Settled(s) <= d[s]
    <3>1. Settled(s) = memory[s] /\ memory[s] \in Nat
      BY <1>1 DEF Settled, Writing, Epochs
    <3>2. QED
      BY <1>1, <3>1
  <2>2. QED
    BY <2>1 DEF FilesKeepSettled
<1>5. QED
  BY <1>2, <1>3, <1>4 DEF StoreInv

\* What the other components do leaves the store alone, or is a step of it.
LEMMA StoreSteps ==
    ASSUME [ExposureNext]_exposureVars PROVE [StoreNext]_store
<1>1. ASSUME NEW r \in Requests, Requesting(r) PROVE UNCHANGED store
  BY <1>1 DEF Requesting, Expose, CreateRoute, RouteAnswered, InsertPort
<1>2. ASSUME NEW k \in Callers, Handling(k) PROVE [StoreNext]_store
  <2>1. CASE Admit(k)
    <3>1. AcceptSame(Sandbox, 1) \/ UNCHANGED store
      BY <2>1 DEF Admit
    <3>2. QED
      BY <3>1, ExposureConstants DEF StoreNext
  <2>2. CASE Start(k) \/ Listen(k)
    BY <2>2 DEF Start, Listen
  <2>3. QED
    BY <1>2, <2>1, <2>2 DEF Handling
<1>3. ASSUME NEW k \in Callers, HandlerFails(k) \/ CallFails(k) PROVE UNCHANGED store
  BY <1>3 DEF HandlerFails, CallFails
<1>4. CASE SetProxyPort \/ RouteCrash
  BY <1>4 DEF SetProxyPort, RouteCrash
<1>5. CASE Moving
  <2>1. CASE FenceSource
    <3>1. AcceptHigher(Sandbox, 2) \/ AcceptSame(Sandbox, 2) \/ UNCHANGED store
      BY <2>1 DEF FenceSource
    <3>2. QED
      BY <3>1, ExposureConstants DEF StoreNext
  <2>2. CASE Repoint \/ UpdateEndpoint \/ CompleteCutover \/ RelaysClosed \/ Quarantine
    BY <2>2 DEF Repoint, UpdateEndpoint, CompleteCutover, RelaysClosed, Quarantine
  <2>3. CASE CleanupAgain \/ \E t \in Transfers : TransferExposes(t)
    BY <2>3 DEF CleanupAgain, TransferExposes
  <2>4. QED
    BY <1>5, <2>1, <2>2, <2>3 DEF Moving
<1>6. CASE EpochSynced \/ Persists \/ EpochNotPersisted \/ WorkerCrash
  BY <1>6 DEF EpochSynced, Persists, EpochNotPersisted, WorkerCrash, StoreNext
<1>7. CASE OtherAccepts
  BY <1>7 DEF OtherAccepts, StoreNext
<1>8. CASE UNCHANGED exposureVars
  BY <1>8 DEF exposureVars, store
<1>9. QED
  BY <1>1, <1>2, <1>3, <1>4, <1>5, <1>6, <1>7, <1>8 DEF ExposureNext

\* A worker's epochs survive whatever requests, a migration and other sandboxes make of its
\* store, with its failures and crashes (epochs.ts, worker-guest-ops.ts, worker-fence).
THEOREM FenceStaysShut == ExposureSpec => FenceNeverReopens
<1>1. ExposureInit => StoreInv
  BY StoreInvCreated
<1>2. StoreInv /\ [ExposureNext]_exposureVars => StoreInv'
  BY StoreInvStep, StoreSteps
<1>3. ASSUME StoreInv, [ExposureNext]_exposureVars
      PROVE [~adopted' => \A s \in Sandboxes : answered'[s] >= answered[s]]_store
  BY <1>3, StoreSteps, AnswersRise
<1>4. QED
  BY <1>1, <1>2, <1>3, PTL DEF ExposureSpec, FenceNeverReopens

-----------------------------------------------------------------------------
(* A relay that is recorded at a worker listens as long as the worker runs *)
(* the sandbox.  Everything that names one (a caller's answer, the route,  *)
(* the attributes it restarts with) was true when it was read, and stays   *)
(* so.                                                                     *)

\* A relay for guest port g listens at host port h of worker w, if that runs the sandbox.
Served(w, g, h) ==
    record[w] = "running" /\ ~shifted => [guest |-> g, host |-> h] \in listening[w]

ListensOn(k, w) == task[k].at = "listen" /\ task[k].worker = w

\* A caller asks one worker, once. Its handler is there for the port that it asked for, and
\* has a Map of that worker.
TaskOK(k) ==
    /\ At(k, "idle") => caller[k].epoch = 0
    /\ caller[k].epoch = 0 => maps[k] = {} /\ task[k].at = "idle"
    /\ task[k].at # "idle" =>
          /\ caller[k].epoch \in Workers /\ task[k].worker = caller[k].epoch
          /\ caller[k].guest \in GuestPorts /\ task[k].guest = caller[k].guest
    /\ task[k].at = "listen" =>
          /\ task[k].map \in Callers /\ caller[task[k].map].epoch = caller[k].epoch

\* What a caller has heard holds still.
CallerOK(k) ==
    /\ caller[k].at \in {"worker", "route", "created", "status", "insert"} =>
          caller[k].epoch \in Workers /\ caller[k].guest \in GuestPorts
    /\ At(k, "route") => Served(caller[k].epoch, caller[k].guest, caller[k].host)
    /\ caller[k].at \in {"created", "status", "insert"} => route # NoRoute
    /\ At(k, "insert") => caller[k].port \in {0, route.port} \/ routeCrashed

\* The relays in a worker's Maps listen, the forgotten ones too.
WorkerOK(w) ==
    /\ record[w] = "running" /\ ~shifted => exposed[w] \subseteq listening[w]
    /\ record[w] = "running" =>
          \A k \in Callers : caller[k].epoch = w => maps[k] \subseteq listening[w]
    /\ current[w] # NoMap => caller[current[w]].epoch = w

\* Unless handlers have met, the relays that listen are in the current Map, and the one handler
\* that is in listen() has it.
OneMap(w) ==
    /\ current[w] = NoMap => listening[w] = {}
    /\ current[w] # NoMap => listening[w] \subseteq maps[current[w]]
    /\ \A k \in Callers : ListensOn(k, w) =>
          /\ current[w] = NoMap => task[k].map = k
          /\ current[w] # NoMap => task[k].map = current[w]
          /\ \A j \in Callers : ListensOn(j, w) => j = k

\* No handler starts a relay at the source any more.
NoStart == \A k \in Callers : task[k].worker = 1 => task[k].at \notin {"plans", "listen"}

FencedOK ==
    /\ record[1] \in {"fenced", "quarantined"} /\ ~overlap => listening[1] = {} /\ NoStart
    /\ RelaysStop
    /\ At(Mover, "closing") => record[1] = "fenced"

RouteOK ==
    /\ route # NoRoute =>
          /\ made # NoRoute /\ route.worker \in Workers
          /\ \/ Served(route.worker, route.guest, route.host)
             \/ row # NoRow /\ Served(route.worker, row.guest, route.host)
    /\ made # NoRoute => made.worker \in Workers /\ Served(made.worker, made.guest, made.host)
    /\ row # NoRow => row.guest \in GuestPorts /\ row.port # 0
    /\ RowHasRoute

MoverOK ==
    /\ At(Mover, "idle") => owner = 1 /\ ~rowSeen
    /\ rowSeen => row # NoRow
    /\ caller[Mover].at \in {"worker", "route"} =>
          rowSeen /\ caller[Mover].guest = row.guest /\ caller[Mover].epoch = 2
    /\ At(Mover, "commit") /\ rowSeen /\ ~routeCrashed => route.worker = 2 /\ route.epoch = 2
    /\ RouteFollowsCutover

ExposureInv ==
    /\ StoreInv /\ ExposureTypeOK
    /\ \A k \in Callers : TaskOK(k) /\ CallerOK(k)
    /\ \A w \in Workers : WorkerOK(w) /\ (~overlap => OneMap(w))
    /\ FencedOK /\ RouteOK /\ MoverOK

-----------------------------------------------------------------------------
(* What the steps have in common.                                          *)

\* What listens goes on, where the sandbox goes on.
Keeps ==
    /\ shifted => shifted'
    /\ \A w \in Workers :
          record'[w] = "running" => record[w] = "running" /\ listening[w] \subseteq listening'[w]

\* No caller asks anything anew.
CallersMove ==
    \A k \in Callers :
        /\ caller'[k].epoch = caller[k].epoch /\ caller'[k].guest = caller[k].guest
        /\ caller'[k].at = "idle" => caller[k].at = "idle"

RouteKept ==
    /\ route # NoRoute => route' # NoRoute
    /\ routeCrashed => routeCrashed'
    /\ route'.port = route.port \/ route.port = 0 \/ routeCrashed'

\* Caller k is where it was, or has nothing more to do with the proxy.
CallerRests(k) ==
    \/ caller'[k] = caller[k]
    \/ /\ caller'[k].at \in {"idle", "done", "failed", "commit", "cleanup",
                             "fencing", "closing", "quarantine"}
       /\ caller'[k].at = "idle" => caller[k].at = "idle"

\* The migration does not come to the route, nor to the owner.
MoverKept ==
    /\ UNCHANGED <<owner, rowSeen>>
    /\ routeCrashed => routeCrashed'
    /\ rowSeen => /\ row' = row
                  /\ routeCrashed' \/ (route'.worker = route.worker /\ route'.epoch = route.epoch)
    /\ caller'[Mover].guest = caller[Mover].guest /\ caller'[Mover].epoch = caller[Mover].epoch
    /\ \A step \in {"idle", "commit"} : caller'[Mover].at = step => caller[Mover].at = step
    /\ caller'[Mover].at \in {"worker", "route"} => caller[Mover].at \in {"worker", "route"}

\* The fence is as it was, and no handler starts behind it.
FenceKept ==
    /\ UNCHANGED record
    /\ overlap => overlap'
    /\ record[1] \in {"fenced", "quarantined"} /\ ~overlap' =>
          /\ listening'[1] = listening[1] /\ portOwner'[1] = portOwner[1]
          /\ \A k \in Callers : task'[k].worker = 1 /\ task'[k].at \in {"plans", "listen"} =>
                task[k].worker = 1 /\ task[k].at \in {"plans", "listen"}
    /\ caller'[Mover].at = "closing" => caller[Mover].at = "closing"

LEMMA ServedStays ==
    ASSUME Keeps, NEW w \in Workers, NEW g, NEW h, Served(w, g, h)
    PROVE  Served(w, g, h)'
BY DEF Keeps, Served

LEMMA NoMapApart == NoMap \notin Callers /\ Mover \in Callers /\ Mover \notin Requests
BY ExposureConstants DEF NoMap, Callers

LEMMA TaskStays ==
    ASSUME ExposureInv, CallersMove, UNCHANGED <<task, maps>>
    PROVE  \A k \in Callers : TaskOK(k)'
<1> SUFFICES ASSUME NEW k \in Callers PROVE TaskOK(k)'
  OBVIOUS
<1>1. TaskOK(k)
  BY DEF ExposureInv
<1>2. QED
  BY <1>1 DEF TaskOK, CallersMove, At

LEMMA WorkerStays ==
    ASSUME ExposureInv, CallersMove, UNCHANGED <<record, relays>>
    PROVE  \A w \in Workers : WorkerOK(w)'
<1> SUFFICES ASSUME NEW w \in Workers PROVE WorkerOK(w)'
  OBVIOUS
<1>1. WorkerOK(w) /\ current[w] \in Callers \cup {NoMap}
  BY DEF ExposureInv, ExposureTypeOK
<1>2. QED
  BY <1>1 DEF WorkerOK, CallersMove, relays

LEMMA OneMapStays ==
    ASSUME ExposureInv, UNCHANGED <<relays, task>>
    PROVE  \A w \in Workers : ~overlap' => OneMap(w)'
BY DEF ExposureInv, OneMap, ListensOn, relays

LEMMA CallerStays ==
    ASSUME ExposureInv, Keeps, RouteKept, NEW k \in Callers, CallerRests(k)
    PROVE  CallerOK(k)'
<1>1. CallerOK(k)
  BY DEF ExposureInv
<1>2. CASE caller'[k] # caller[k]
  BY <1>2 DEF CallerRests, CallerOK, At
<1>3. CASE caller'[k] = caller[k]
  <2>1. ASSUME At(k, "route") PROVE Served(caller[k].epoch, caller[k].guest, caller[k].host)'
    <3>1. caller[k].epoch \in Workers /\ Served(caller[k].epoch, caller[k].guest, caller[k].host)
      BY <1>1, <2>1 DEF CallerOK, At
    <3>2. QED
      BY <1>3, <3>1, ServedStays DEF Served, Keeps
  <2>2. QED
    BY <1>1, <1>3, <2>1 DEF CallerOK, RouteKept, At
<1>4. QED
  BY <1>2, <1>3

LEMMA RouteStays ==
    ASSUME ExposureInv, Keeps, UNCHANGED <<route, made, row, routeCrashed>>
    PROVE  RouteOK'
<1>1. RouteOK
  BY DEF ExposureInv
<1>2. QED
  BY <1>1 DEF RouteOK, RowHasRoute, Served, Keeps

LEMMA MoverStays ==
    ASSUME ExposureInv, MoverKept
    PROVE  MoverOK'
<1>1. MoverOK
  BY DEF ExposureInv
<1>2. QED
  BY <1>1 DEF MoverOK, MoverKept, RouteFollowsCutover, At

LEMMA FenceStays ==
    ASSUME ExposureInv, FenceKept
    PROVE  FencedOK'
<1>1. FencedOK
  BY DEF ExposureInv
<1>2. QED
  BY <1>1 DEF FencedOK, FenceKept, RelaysStop, NoStart, At

-----------------------------------------------------------------------------
(* The coordinator's steps.                                                *)

\* A caller goes on, and asks nothing.
LEMMA Going ==
    ASSUME ExposureInv, NEW k \in Callers, Goes(k, "done") \/ Goes(k, "failed")
              \/ Goes(k, "created") \/ Goes(k, "status") \/ Goes(k, "commit")
              \/ Goes(k, "cleanup") \/ Goes(k, "fencing") \/ Goes(k, "closing")
              \/ Goes(k, "quarantine")
    PROVE  /\ CallersMove /\ caller' \in [Callers -> CallerStates]
           /\ \A j \in Callers : j # k => caller'[j] = caller[j] /\ CallerRests(j)
           /\ caller'[k].at # "idle"
           /\ caller'[k].host = caller[k].host /\ caller'[k].port = caller[k].port
           /\ \A step \in {"done", "failed", "created", "status", "commit", "cleanup",
                           "fencing", "closing", "quarantine"} :
                 Goes(k, step) => caller'[k].at = step
<1>1. caller \in [Callers -> CallerStates] /\ caller[k] \in CallerStates
  BY DEF ExposureInv, ExposureTypeOK
<1>2. PICK step \in {"done", "failed", "created", "status", "commit", "cleanup",
                     "fencing", "closing", "quarantine"} :
        caller' = [caller EXCEPT ![k].at = step]
  BY DEF Goes
<1>3. /\ [caller[k] EXCEPT !.at = step] \in CallerStates
      /\ [caller[k] EXCEPT !.at = step].at = step
  BY <1>1 DEF CallerStates
<1>4. /\ CallersMove /\ caller' \in [Callers -> CallerStates]
      /\ \A j \in Callers : j # k => caller'[j] = caller[j] /\ CallerRests(j)
      /\ caller'[k] = [caller[k] EXCEPT !.at = step]
  BY <1>1, <1>2, <1>3 DEF CallersMove, CallerRests, CallerStates
<1>5. ASSUME NEW other \in {"done", "failed", "created", "status", "commit", "cleanup",
                            "fencing", "closing", "quarantine"}, Goes(k, other)
      PROVE  caller'[k].at = other
  BY <1>1, <1>5 DEF Goes, CallerStates
<1>6. QED
  BY <1>1, <1>2, <1>3, <1>4, <1>5 DEF CallerStates

\* A step of the coordinator and the proxy alone leaves the worker's side as it is.
LEMMA WorkerSide ==
    ASSUME ExposureInv, StoreInv', CallersMove, caller' \in [Callers -> CallerStates],
           UNCHANGED <<record, relays, task>>,
           \A k \in Callers : CallerOK(k)', FencedOK', RouteOK', MoverOK',
           route' \in Routes, made' \in Routes, row' \in [guest : GuestPorts \cup {0}, port : 0..2],
           owner' \in Workers, {rowSeen', routeCrashed'} \subseteq BOOLEAN, faults' \in 0..MaxFaults
    PROVE  ExposureInv'
<1>1. \A k \in Callers : TaskOK(k)'
  BY TaskStays DEF relays
<1>2. \A w \in Workers : WorkerOK(w)' /\ (~overlap' => OneMap(w)')
  BY WorkerStays, OneMapStays
<1>3. ExposureTypeOK'
  BY DEF ExposureInv, ExposureTypeOK, relays
<1>4. QED
  BY <1>1, <1>2, <1>3 DEF ExposureInv

\* A request that only moves on, or ends.
LEMMA RequestSide ==
    ASSUME ExposureInv, StoreInv', NEW r \in Requests, CallersMove,
           caller' \in [Callers -> CallerStates],
           \A j \in Callers : j # r => caller'[j] = caller[j], CallerOK(r)',
           UNCHANGED <<owner, rowSeen, record, relays, task, faults, routeCrashed>>,
           RouteOK', RouteKept, route' \in Routes, made' \in Routes,
           row' \in [guest : GuestPorts \cup {0}, port : 0..2],
           row # NoRow => row' = row /\ route' = route
    PROVE  ExposureInv'
<1>1. caller'[Mover] = caller[Mover]
  BY NoMapApart
<1>2. Keeps /\ FenceKept
  BY <1>1 DEF Keeps, FenceKept, relays
<1>3. MoverKept
  BY <1>1 DEF MoverKept, ExposureInv, MoverOK
<1>4. \A j \in Callers : CallerOK(j)'
  BY <1>2, CallerStays DEF CallerRests
<1>5. FencedOK' /\ MoverOK'
  BY <1>2, <1>3, FenceStays, MoverStays
<1>6. QED
  BY <1>4, <1>5, WorkerSide DEF ExposureInv, ExposureTypeOK

\* A caller asks a worker, for the first time: it has no handler and no Map.
LEMMA AskingInv ==
    ASSUME ExposureInv, NEW k \in Callers, NEW w \in Workers, NEW g \in GuestPorts,
           At(k, "idle"), Asks(k, w, g), UNCHANGED <<record, relays>>
    PROVE  /\ caller' \in [Callers -> CallerStates] /\ task' \in [Callers -> Tasks]
           /\ \A j \in Callers : TaskOK(j)'
           /\ \A v \in Workers : WorkerOK(v)' /\ (~overlap' => OneMap(v)')
           /\ \A j \in Callers : j # k => CallerRests(j)
           /\ caller'[k].at = "worker" /\ caller'[k].epoch = w /\ caller'[k].guest = g
           /\ \A j \in Callers : task'[j].at \in {"plans", "listen"} => task'[j] = task[j]
<1>1. /\ caller \in [Callers -> CallerStates] /\ caller[k] \in CallerStates
      /\ task \in [Callers -> Tasks] /\ GuestPorts \subseteq Nat \ {0} /\ w \in 0..2 /\ w # 0
  BY ExposureConstants DEF ExposureInv, ExposureTypeOK, Workers
<1>2. /\ caller' \in [Callers -> CallerStates]
      /\ \A j \in Callers : j # k => caller'[j] = caller[j]
      /\ caller'[k].at = "worker" /\ caller'[k].epoch = w /\ caller'[k].guest = g
  <2>1. PICK b : b = [caller[k] EXCEPT !.at = "worker", !.guest = g]
    OBVIOUS
  <2>2. b \in CallerStates /\ b.at = "worker" /\ b.guest = g
    BY <1>1, <2>1 DEF CallerStates
  <2>3. PICK c : c = [b EXCEPT !.epoch = w]
    OBVIOUS
  <2>4. c \in CallerStates /\ c.at = "worker" /\ c.epoch = w /\ c.guest = g
    BY <1>1, <2>2, <2>3 DEF CallerStates
  <2>5. caller' = [caller EXCEPT ![k] = c]
    BY <1>1, <2>1, <2>3 DEF Asks
  <2>6. QED
    BY <1>1, <2>4, <2>5
<1>3. /\ task' \in [Callers -> Tasks]
      /\ \A j \in Callers : j # k => task'[j] = task[j]
      /\ task'[k].at = "admit" /\ task'[k].worker = w /\ task'[k].guest = g
  <2>1. NoTask \in Tasks
    BY ExposureConstants DEF NoTask, Tasks, Ports
  <2>2. PICK b : b = [NoTask EXCEPT !.at = "admit", !.worker = w]
    OBVIOUS
  <2>3. b \in Tasks /\ b.at = "admit" /\ b.worker = w
    BY <1>1, <2>1, <2>2 DEF Tasks
  <2>4. PICK t : t = [b EXCEPT !.guest = g]
    OBVIOUS
  <2>5. t \in Tasks /\ t.at = "admit" /\ t.worker = w /\ t.guest = g
    BY <2>3, <2>4 DEF Tasks
  <2>6. task' = [task EXCEPT ![k] = t]
    BY <2>2, <2>4 DEF Asks
  <2>7. QED
    BY <1>1, <2>5, <2>6
<1>4. caller[k].epoch = 0 /\ maps[k] = {} /\ maps' = maps
  BY DEF ExposureInv, TaskOK, At, relays
<1>5. \A j \in Callers : j # k => CallerRests(j)
  BY <1>2 DEF CallerRests
<1>6. ASSUME NEW j \in Callers PROVE TaskOK(j)'
  <2>1. TaskOK(j)
    BY DEF ExposureInv
  <2>2. CASE j = k
    BY <1>1, <1>2, <1>3, <2>2 DEF TaskOK, At, Workers
  <2>3. CASE j # k
    <3>1. task[j].at = "listen" => task[j].map # k
      BY <1>1, <1>4, <2>1 DEF TaskOK, Workers
    <3>2. QED
      BY <1>2, <1>3, <1>4, <2>1, <2>3, <3>1 DEF TaskOK, At
  <2>4. QED
    BY <2>2, <2>3
<1>7. ASSUME NEW v \in Workers PROVE WorkerOK(v)' /\ (~overlap' => OneMap(v)')
  <2>1. /\ WorkerOK(v) /\ (~overlap => OneMap(v)) /\ current[v] \in Callers \cup {NoMap}
        /\ v # 0
    BY DEF ExposureInv, ExposureTypeOK, Workers
  <2>2. current[v] # k
    BY <1>4, <2>1, NoMapApart DEF WorkerOK
  <2>3. WorkerOK(v)'
    BY <1>2, <1>4, <2>1, <2>2 DEF WorkerOK, relays
  <2>4. ASSUME NEW j \in Callers PROVE ListensOn(j, v)' <=> ListensOn(j, v) /\ j # k
    <3>1. task[k].at = "idle"
      BY <1>4 DEF ExposureInv, TaskOK
    <3>2. QED
      BY <1>3, <3>1 DEF ListensOn
  <2>5. ~overlap' => OneMap(v)'
    BY <1>3, <2>1, <2>4 DEF OneMap, relays
  <2>6. QED
    BY <2>3, <2>5
<1>8. QED
  BY <1>2, <1>3, <1>5, <1>6, <1>7

\* A request, or a transfer, asks.
LEMMA AskedInv ==
    ASSUME ExposureInv, StoreInv', NEW k \in Callers, k # Mover, NEW w \in Workers,
           NEW g \in GuestPorts, At(k, "idle"), Asks(k, w, g),
           UNCHANGED <<owner, row, rowSeen, record, relays, proxy, faults>>
    PROVE  ExposureInv'
<1>1. Keeps /\ RouteKept
  BY DEF Keeps, RouteKept, relays, proxy
<1>2. RouteOK'
  BY <1>1, RouteStays DEF proxy
<1>3. /\ caller' \in [Callers -> CallerStates] /\ task' \in [Callers -> Tasks]
      /\ \A j \in Callers : TaskOK(j)'
      /\ \A v \in Workers : WorkerOK(v)' /\ (~overlap' => OneMap(v)')
      /\ \A j \in Callers : j # k => CallerRests(j)
      /\ caller'[k].at = "worker" /\ caller'[k].epoch = w /\ caller'[k].guest = g
      /\ \A j \in Callers : task'[j].at \in {"plans", "listen"} => task'[j] = task[j]
  BY AskingInv
<1>4. caller'[Mover] = caller[Mover]
  <2>1. caller \in [Callers -> CallerStates] /\ Mover \in Callers
    BY DEF ExposureInv, ExposureTypeOK, Callers
  <2>2. QED
    BY <2>1 DEF Asks
<1>5. \A j \in Callers : CallerOK(j)'
  <2>1. CallerOK(k)'
    BY <1>3 DEF CallerOK, At
  <2>2. QED
    BY <1>1, <1>3, <2>1, CallerStays
<1>6. FenceKept /\ MoverKept
  BY <1>3, <1>4 DEF FenceKept, MoverKept, relays, proxy
<1>7. FencedOK' /\ MoverOK'
  BY <1>6, FenceStays, MoverStays
<1>8. ExposureTypeOK'
  BY <1>3 DEF ExposureInv, ExposureTypeOK, relays, proxy
<1>9. QED
  BY <1>2, <1>3, <1>5, <1>7, <1>8 DEF ExposureInv

\* Sandboxes.expose_port's disposition.
LEMMA ExposeInv ==
    ASSUME ExposureInv, StoreInv', NEW r \in Requests, NEW g \in GuestPorts, Expose(r, g)
    PROVE  ExposureInv'
<1>1. /\ At(r, "idle") /\ r \in Callers /\ r # Mover
      /\ UNCHANGED <<store, owner, row, rowSeen, record, relays, proxy, faults>>
  BY ExposureConstants DEF Expose, Callers
<1>2. Keeps /\ RouteKept
  BY <1>1 DEF Keeps, RouteKept, relays, proxy
<1>3. RouteOK'
  BY <1>1, <1>2, RouteStays DEF proxy
<1>4. CASE Asks(r, owner, g)
  <2>1. owner \in Workers
    BY DEF ExposureInv, ExposureTypeOK
  <2>2. QED
    BY <1>1, <1>4, <2>1, AskedInv
<1>5. CASE (Goes(r, "done") \/ Goes(r, "failed")) /\ UNCHANGED task
  <2>1. /\ CallersMove /\ caller' \in [Callers -> CallerStates]
        /\ \A j \in Callers : j # r => caller'[j] = caller[j]
        /\ caller'[r].at \in {"done", "failed"}
    BY <1>1, <1>5, Going
  <2>2. CallerOK(r)'
    BY <2>1 DEF CallerOK, At
  <2>3. QED
    BY <1>1, <1>2, <1>3, <1>5, <2>1, <2>2, RequestSide DEF proxy, ExposureInv, ExposureTypeOK
<1>6. QED
  BY <1>4, <1>5 DEF Expose

\* Routes.create: the caller's relay listens, so the route that it makes leads to one.
LEMMA CreateRouteInv ==
    ASSUME ExposureInv, StoreInv', NEW r \in Requests, CreateRoute(r)
    PROVE  ExposureInv'
<1>1. /\ At(r, "route") /\ r \in Callers
      /\ UNCHANGED <<owner, row, rowSeen, record, relays, task, routeCrashed, faults>>
  BY DEF CreateRoute, Callers
<1>2. /\ caller[r] \in CallerStates /\ caller[r].epoch \in Workers
      /\ caller[r].guest \in GuestPorts /\ GuestPorts \subseteq Nat \ {0}
      /\ Served(caller[r].epoch, caller[r].guest, caller[r].host)
  BY <1>1, ExposureConstants DEF ExposureInv, ExposureTypeOK, CallerOK, At
<1>3. Keeps
  BY <1>1 DEF Keeps, relays
<1>4. /\ RouteOK /\ route \in Routes /\ made \in Routes
      /\ row \in [guest : GuestPorts \cup {0}, port : 0..2]
  BY DEF ExposureInv, ExposureTypeOK
<1>5. CASE route = NoRoute /\ Goes(r, "created")
  <2>1. PICK w, g, h : w = caller[r].epoch /\ g = caller[r].guest /\ h = caller[r].host
    OBVIOUS
  <2>2. route' = [guest |-> g, worker |-> w, host |-> h, epoch |-> w, port |-> 0] /\ made' = route'
    BY <1>5, <2>1 DEF CreateRoute, Goes
  <2>3. /\ route'.worker = w /\ route'.guest = g /\ route'.host = h /\ route'.port = 0
        /\ route' \in Routes /\ route' # NoRoute
    BY <1>2, <2>1, <2>2 DEF Routes, CallerStates, Workers, NoRoute
  <2>4. Served(w, g, h)' /\ w \in Workers
    BY <1>2, <1>3, <2>1, ServedStays
  <2>5. row = NoRow
    BY <1>4, <1>5 DEF RouteOK, RowHasRoute
  <2>6. RouteOK'
    BY <1>1, <2>2, <2>3, <2>4, <2>5 DEF RouteOK, RowHasRoute, Served
  <2>7. /\ CallersMove /\ caller' \in [Callers -> CallerStates]
        /\ \A j \in Callers : j # r => caller'[j] = caller[j]
        /\ caller'[r].at = "created" /\ caller'[r].epoch = caller[r].epoch
        /\ caller'[r].guest = caller[r].guest
    BY <1>1, <1>5, Going DEF CallersMove
  <2>8. CallerOK(r)' /\ RouteKept
    BY <1>1, <1>2, <1>5, <2>3, <2>7 DEF CallerOK, At, RouteKept, NoRoute
  <2>9. QED
    BY <1>1, <1>4, <2>2, <2>3, <2>5, <2>6, <2>7, <2>8, RequestSide
<1>6. CASE route # NoRoute /\ Goes(r, "status") /\ UNCHANGED <<route, made>>
  <2>1. /\ CallersMove /\ caller' \in [Callers -> CallerStates]
        /\ \A j \in Callers : j # r => caller'[j] = caller[j]
        /\ caller'[r].at = "status" /\ caller'[r].epoch = caller[r].epoch
        /\ caller'[r].guest = caller[r].guest
    BY <1>1, <1>6, Going DEF CallersMove
  <2>2. CallerOK(r)' /\ RouteKept
    BY <1>1, <1>2, <1>6, <2>1 DEF CallerOK, At, RouteKept
  <2>3. RouteOK'
    BY <1>1, <1>3, <1>6, RouteStays
  <2>4. QED
    BY <1>1, <1>4, <1>6, <2>1, <2>2, <2>3, RequestSide
<1>7. QED
  BY <1>5, <1>6 DEF CreateRoute

\* The answer has the route's port, or none yet.
LEMMA RouteAnsweredInv ==
    ASSUME ExposureInv, StoreInv', NEW r \in Requests, RouteAnswered(r)
    PROVE  ExposureInv'
<1>1. /\ caller[r].at \in {"created", "status"} /\ r \in Callers
      /\ caller' = [caller EXCEPT ![r].at = "insert", ![r].port = route.port]
      /\ UNCHANGED <<owner, row, rowSeen, record, relays, task, proxy, faults>>
  BY DEF RouteAnswered, Callers, At
<1>2. /\ caller \in [Callers -> CallerStates] /\ caller[r] \in CallerStates
      /\ route \in Routes /\ made \in Routes /\ CallerOK(r)
      /\ row \in [guest : GuestPorts \cup {0}, port : 0..2]
  BY <1>1 DEF ExposureInv, ExposureTypeOK
<1>3. PICK c : c = [caller[r] EXCEPT !.at = "insert", !.port = route.port]
  OBVIOUS
<1>4. /\ c \in CallerStates /\ c.at = "insert" /\ c.port = route.port
      /\ c.epoch = caller[r].epoch /\ c.guest = caller[r].guest
  BY <1>2, <1>3 DEF CallerStates, Routes
<1>5. caller' = [caller EXCEPT ![r] = c]
  BY <1>1, <1>2, <1>3
<1>6. /\ CallersMove /\ caller' \in [Callers -> CallerStates]
      /\ \A j \in Callers : j # r => caller'[j] = caller[j]
      /\ caller'[r] = c
  BY <1>1, <1>2, <1>4, <1>5 DEF CallersMove
<1>7. CallerOK(r)'
  BY <1>1, <1>2, <1>4, <1>6 DEF CallerOK, At, proxy
<1>8. Keeps /\ RouteKept
  BY <1>1 DEF Keeps, RouteKept, relays, proxy
<1>9. RouteOK'
  BY <1>1, <1>8, RouteStays DEF proxy
<1>10. QED
  BY <1>1, <1>2, <1>6, <1>7, <1>8, <1>9, RequestSide DEF proxy

\* insert_port: the row has the route's port.
LEMMA InsertPortInv ==
    ASSUME ExposureInv, StoreInv', NEW r \in Requests, InsertPort(r)
    PROVE  ExposureInv'
<1>1. /\ At(r, "insert") /\ r \in Callers
      /\ Goes(r, "failed") \/ Goes(r, "done")
      /\ row' = row \/ (row = NoRow /\ caller[r].port # 0 /\ row' = PortRow(r))
      /\ UNCHANGED <<owner, rowSeen, record, relays, task, proxy, faults>>
  BY DEF InsertPort, Callers
<1>2. /\ caller[r] \in CallerStates /\ route \in Routes /\ made \in Routes /\ CallerOK(r)
      /\ row \in [guest : GuestPorts \cup {0}, port : 0..2] /\ RouteOK
  BY <1>1 DEF ExposureInv, ExposureTypeOK
<1>3. /\ CallersMove /\ caller' \in [Callers -> CallerStates]
      /\ \A j \in Callers : j # r => caller'[j] = caller[j]
      /\ caller'[r].at \in {"failed", "done"}
  BY <1>1, Going
<1>4. CallerOK(r)'
  BY <1>3 DEF CallerOK, At
<1>5. Keeps /\ RouteKept
  BY <1>1 DEF Keeps, RouteKept, relays, proxy
<1>6. CASE row' = row
  <2>1. RouteOK'
    BY <1>1, <1>5, <1>6, RouteStays DEF proxy
  <2>2. QED
    BY <1>1, <1>2, <1>3, <1>4, <1>5, <1>6, <2>1, RequestSide DEF proxy
<1>7. CASE row = NoRow /\ caller[r].port # 0 /\ row' = PortRow(r)
  <2>1. /\ row'.guest = caller[r].guest /\ row'.port = caller[r].port
        /\ caller[r].guest \in GuestPorts /\ route # NoRoute
        /\ row' \in [guest : GuestPorts \cup {0}, port : 0..2]
        /\ caller[r].port = route.port \/ routeCrashed
    BY <1>1, <1>2, <1>7 DEF PortRow, CallerOK, CallerStates, At
  <2>2. RouteOK'
    BY <1>1, <1>2, <1>7, <2>1 DEF RouteOK, RowHasRoute, Served, proxy, relays
  <2>3. QED
    BY <1>1, <1>2, <1>3, <1>4, <1>5, <1>7, <2>1, <2>2, RequestSide DEF proxy
<1>8. QED
  BY <1>1, <1>6, <1>7

\* The listener tells its port. Nobody has it yet.
LEMMA SetProxyPortInv ==
    ASSUME ExposureInv, StoreInv', SetProxyPort
    PROVE  ExposureInv'
<1>1. /\ route # NoRoute /\ route.port = 0 /\ ~routeCrashed
      /\ UNCHANGED <<store, coordinator, record, relays, task, made, routeCrashed, faults>>
  BY DEF SetProxyPort
<1>2. PICK p \in {1, 2} : route' = [route EXCEPT !.port = p]
  BY DEF SetProxyPort
<1>3. /\ route \in Routes /\ made \in Routes /\ caller \in [Callers -> CallerStates]
      /\ row \in [guest : GuestPorts \cup {0}, port : 0..2] /\ RouteOK
  BY DEF ExposureInv, ExposureTypeOK
<1>4. /\ route' \in Routes /\ route'.worker = route.worker /\ route'.epoch = route.epoch
      /\ route'.host = route.host /\ route'.guest = route.guest /\ route'.port = p
  BY <1>2, <1>3 DEF Routes
<1>5. route' # NoRoute
  BY <1>4 DEF NoRoute
<1>6. Keeps /\ RouteKept /\ MoverKept /\ FenceKept /\ CallersMove
  BY <1>1, <1>4, <1>5 DEF Keeps, RouteKept, MoverKept, FenceKept, CallersMove, relays, coordinator
<1>7. RouteOK'
  BY <1>1, <1>3, <1>4, <1>5 DEF RouteOK, RowHasRoute, Served, relays, coordinator
<1>8. \A k \in Callers : CallerOK(k)'
  BY <1>1, <1>6, CallerStays DEF CallerRests, coordinator
<1>9. FencedOK' /\ MoverOK'
  BY <1>6, FenceStays, MoverStays
<1>10. QED
  BY <1>1, <1>3, <1>4, <1>6, <1>7, <1>8, <1>9, WorkerSide
     DEF coordinator, ExposureInv, ExposureTypeOK

\* A route that restarts leads where its creator's relay was.
LEMMA RouteCrashInv ==
    ASSUME ExposureInv, StoreInv', RouteCrash
    PROVE  ExposureInv'
<1>1. /\ route # NoRoute /\ route' = made /\ routeCrashed' = TRUE /\ made' = made
      /\ faults < MaxFaults /\ faults' = faults + 1
      /\ UNCHANGED <<store, coordinator, record, relays, task>>
  BY DEF RouteCrash, Fault
<1>2. /\ route \in Routes /\ made \in Routes /\ caller \in [Callers -> CallerStates]
      /\ row \in [guest : GuestPorts \cup {0}, port : 0..2] /\ RouteOK
      /\ faults \in 0..MaxFaults /\ MaxFaults \in Nat
  BY ExposureConstants DEF ExposureInv, ExposureTypeOK
<1>3. faults' \in 0..MaxFaults
  BY <1>1, <1>2
<1>4. made # NoRoute
  BY <1>1, <1>2 DEF RouteOK
<1>5. Keeps /\ RouteKept /\ MoverKept /\ FenceKept /\ CallersMove
  BY <1>1, <1>4 DEF Keeps, RouteKept, MoverKept, FenceKept, CallersMove, relays, coordinator
<1>6. RouteOK'
  BY <1>1, <1>2, <1>4 DEF RouteOK, RowHasRoute, Served, relays, coordinator
<1>7. \A k \in Callers : CallerOK(k)'
  BY <1>1, <1>5, CallerStays DEF CallerRests, coordinator
<1>8. FencedOK' /\ MoverOK'
  BY <1>5, FenceStays, MoverStays
<1>9. QED
  BY <1>1, <1>2, <1>3, <1>5, <1>6, <1>7, <1>8, WorkerSide
     DEF coordinator, ExposureInv, ExposureTypeOK

\* A caller gives up.
LEMMA CallFailsInv ==
    ASSUME ExposureInv, StoreInv', NEW k \in Callers, CallFails(k)
    PROVE  ExposureInv'
<1>1. /\ faults < MaxFaults /\ faults' = faults + 1
      /\ Goes(k, "failed") /\ caller[k].at \in {"worker", "route", "created", "status", "insert"}
      /\ UNCHANGED <<store, owner, row, rowSeen, record, relays, task, proxy>>
  BY DEF CallFails, Fault
<1>2. /\ route \in Routes /\ made \in Routes
      /\ row \in [guest : GuestPorts \cup {0}, port : 0..2]
      /\ faults \in 0..MaxFaults /\ MaxFaults \in Nat
  BY ExposureConstants DEF ExposureInv, ExposureTypeOK
<1>3. faults' \in 0..MaxFaults
  BY <1>1, <1>2
<1>4. /\ CallersMove /\ caller' \in [Callers -> CallerStates]
      /\ \A j \in Callers : j # k => caller'[j] = caller[j] /\ CallerRests(j)
      /\ caller'[k].at = "failed"
  BY <1>1, Going
<1>5. \A j \in Callers : CallerRests(j)
  BY <1>4 DEF CallerRests
<1>6. Keeps /\ RouteKept /\ MoverKept /\ FenceKept
  BY <1>1, <1>4, NoMapApart
     DEF Keeps, RouteKept, MoverKept, FenceKept, CallersMove, relays, proxy
<1>7. RouteOK'
  BY <1>1, <1>6, RouteStays DEF proxy
<1>8. (\A j \in Callers : CallerOK(j)') /\ FencedOK' /\ MoverOK'
  BY <1>5, <1>6, CallerStays, FenceStays, MoverStays
<1>9. QED
  BY <1>1, <1>2, <1>3, <1>4, <1>7, <1>8, WorkerSide DEF proxy, ExposureInv, ExposureTypeOK

-----------------------------------------------------------------------------
(* The migration's steps.                                                  *)

\* What a step of the migration alone does not change.
LEMMA MoverSide ==
    ASSUME ExposureInv, StoreInv', CallersMove, caller' \in [Callers -> CallerStates],
           \A j \in Callers : j # Mover => CallerRests(j), CallerRests(Mover),
           caller'[Mover].at # "closing", Keeps,
           UNCHANGED <<row, rowSeen, record, relays, task, made, routeCrashed, faults>>,
           RouteOK', RouteKept, MoverOK', route' \in Routes, owner' \in Workers
    PROVE  ExposureInv'
<1>1. FenceKept
  BY DEF FenceKept, relays
<1>2. (\A j \in Callers : CallerOK(j)') /\ FencedOK'
  BY <1>1, CallerStays, FenceStays
<1>3. QED
  BY <1>2, WorkerSide DEF ExposureInv, ExposureTypeOK

\* transferMigration exposes at the destination what the source has exposed.
LEMMA TransferExposesInv ==
    ASSUME ExposureInv, StoreInv', NEW t \in Transfers, TransferExposes(t)
    PROVE  ExposureInv'
<1>1. /\ t \in Callers /\ t # Mover /\ At(t, "idle") /\ 2 \in Workers /\ 1 \in Workers
      /\ UNCHANGED <<owner, row, rowSeen, record, relays, proxy, faults>>
  BY ExposureConstants DEF TransferExposes, Callers, Workers
<1>2. PICK x \in exposed[1] : Asks(t, 2, x.guest)
  BY DEF TransferExposes
<1>3. x.guest \in GuestPorts
  BY <1>1, <1>2 DEF ExposureInv, ExposureTypeOK, Relays
<1>4. QED
  BY <1>1, <1>2, <1>3, AskedInv

\* The runner reads the row, and asks the destination.
LEMMA RepointInv ==
    ASSUME ExposureInv, StoreInv', Repoint
    PROVE  ExposureInv'
<1>1. /\ At(Mover, "idle") /\ Mover \in Callers
      /\ UNCHANGED <<store, owner, row, record, relays, proxy, faults>>
  BY NoMapApart DEF Repoint
<1>2. /\ route \in Routes /\ made \in Routes /\ rowSeen \in BOOLEAN /\ owner \in Workers
      /\ row \in [guest : GuestPorts \cup {0}, port : 0..2] /\ RouteOK /\ MoverOK
  BY DEF ExposureInv, ExposureTypeOK
<1>3. Keeps /\ RouteKept
  BY <1>1 DEF Keeps, RouteKept, relays, proxy
<1>4. RouteOK'
  BY <1>1, <1>3, RouteStays DEF proxy
<1>5. ~rowSeen
  BY <1>1, <1>2 DEF MoverOK
<1>6. CASE Goes(Mover, "commit") /\ UNCHANGED <<task, rowSeen>>
  <2>1. /\ CallersMove /\ caller' \in [Callers -> CallerStates]
        /\ \A j \in Callers : j # Mover => CallerRests(j)
        /\ caller'[Mover].at = "commit"
    BY <1>1, <1>6, Going
  <2>2. CallerRests(Mover)
    BY <2>1 DEF CallerRests
  <2>3. MoverOK'
    BY <1>5, <1>6, <2>1 DEF MoverOK, RouteFollowsCutover, At
  <2>4. QED
    BY <1>1, <1>2, <1>3, <1>4, <1>6, <2>1, <2>2, <2>3, MoverSide DEF proxy
<1>7. CASE row # NoRow /\ Asks(Mover, 2, row.guest) /\ rowSeen' = TRUE
  <2>1. row.guest \in GuestPorts /\ 2 \in Workers
    BY <1>2, <1>7 DEF RouteOK, Workers
  <2>2. /\ caller' \in [Callers -> CallerStates] /\ task' \in [Callers -> Tasks]
        /\ \A j \in Callers : TaskOK(j)'
        /\ \A v \in Workers : WorkerOK(v)' /\ (~overlap' => OneMap(v)')
        /\ \A j \in Callers : j # Mover => CallerRests(j)
        /\ caller'[Mover].at = "worker" /\ caller'[Mover].epoch = 2
        /\ caller'[Mover].guest = row.guest
        /\ \A j \in Callers : task'[j].at \in {"plans", "listen"} => task'[j] = task[j]
    BY <1>1, <1>7, <2>1, AskingInv
  <2>3. \A j \in Callers : CallerOK(j)'
    <3>1. CallerOK(Mover)'
      BY <2>1, <2>2 DEF CallerOK, At
    <3>2. QED
      BY <1>3, <2>2, <3>1, CallerStays
  <2>4. FencedOK'
    <3>1. FenceKept
      BY <1>1, <2>2 DEF FenceKept, relays
    <3>2. QED
      BY <3>1, FenceStays
  <2>5. MoverOK'
    <3>1. owner = 1
      BY <1>1 DEF ExposureInv, MoverOK
    <3>2. QED
      BY <1>1, <1>7, <2>2, <3>1 DEF MoverOK, RouteFollowsCutover, At
  <2>6. ExposureTypeOK'
    BY <1>1, <1>7, <2>2 DEF ExposureInv, ExposureTypeOK, relays, proxy
  <2>7. QED
    BY <1>4, <2>2, <2>3, <2>4, <2>5, <2>6 DEF ExposureInv
<1>8. QED
  BY <1>6, <1>7 DEF Repoint

\* The destination has answered for the row's port: the route leads to its relay.
LEMMA UpdateEndpointInv ==
    ASSUME ExposureInv, StoreInv', UpdateEndpoint
    PROVE  ExposureInv'
<1>1. /\ At(Mover, "route") /\ Mover \in Callers
      /\ UNCHANGED <<store, owner, row, rowSeen, record, relays, task, made, routeCrashed, faults>>
  BY NoMapApart DEF UpdateEndpoint
<1>2. /\ route \in Routes /\ made \in Routes /\ caller[Mover] \in CallerStates
      /\ RouteOK /\ MoverOK /\ CallerOK(Mover) /\ owner \in Workers
  BY <1>1 DEF ExposureInv, ExposureTypeOK
<1>3. Keeps
  BY <1>1 DEF Keeps, relays
<1>4. /\ rowSeen /\ row # NoRow /\ caller[Mover].guest = row.guest /\ caller[Mover].epoch = 2
      /\ Served(2, row.guest, caller[Mover].host)
  BY <1>1, <1>2 DEF MoverOK, CallerOK, At
<1>5. CASE Goes(Mover, "failed") /\ UNCHANGED route
  <2>1. /\ CallersMove /\ caller' \in [Callers -> CallerStates]
        /\ \A j \in Callers : j # Mover => CallerRests(j)
        /\ caller'[Mover].at = "failed"
    BY <1>1, <1>5, Going
  <2>2. CallerRests(Mover)
    BY <2>1 DEF CallerRests
  <2>3. RouteKept /\ MoverKept
    BY <1>1, <1>5, <2>1 DEF RouteKept, MoverKept, CallersMove
  <2>4. RouteOK' /\ MoverOK'
    BY <1>1, <1>3, <1>5, <2>3, RouteStays, MoverStays
  <2>5. QED
    BY <1>1, <1>2, <1>3, <1>5, <2>1, <2>2, <2>3, <2>4, MoverSide
<1>6. CASE /\ route # NoRoute
           /\ route' = [route EXCEPT !.worker = 2, !.host = caller[Mover].host, !.epoch = 2]
           /\ Goes(Mover, "commit")
  <2>1. PICK h \in Ports : h = caller[Mover].host
    BY <1>2 DEF CallerStates
  <2>2. /\ route' \in Routes /\ route'.worker = 2 /\ route'.epoch = 2 /\ route'.host = h
        /\ route'.port = route.port
    <3>1. PICK a : a = [route EXCEPT !.worker = 2]
      OBVIOUS
    <3>2. a \in Routes /\ a.worker = 2 /\ a.port = route.port
      BY <1>2, <3>1 DEF Routes
    <3>3. PICK b : b = [a EXCEPT !.host = h]
      OBVIOUS
    <3>4. b \in Routes /\ b.worker = 2 /\ b.host = h /\ b.port = route.port
      BY <2>1, <3>2, <3>3 DEF Routes
    <3>5. route' = [b EXCEPT !.epoch = 2]
      BY <1>6, <2>1, <3>1, <3>3
    <3>6. QED
      BY <3>4, <3>5 DEF Routes
  <2>3. route' # NoRoute
    BY <2>2 DEF NoRoute
  <2>4. /\ CallersMove /\ caller' \in [Callers -> CallerStates]
        /\ \A j \in Callers : j # Mover => CallerRests(j)
        /\ caller'[Mover].at = "commit"
    BY <1>1, <1>6, Going
  <2>5. CallerRests(Mover)
    BY <2>4 DEF CallerRests
  <2>6. RouteKept
    BY <1>1, <2>2, <2>3 DEF RouteKept
  <2>7. RouteOK'
    <3>1. 2 \in Workers
      BY DEF Workers
    <3>2. Served(2, row.guest, h)'
      BY <1>1, <1>4, <2>1 DEF Served, relays
    <3>3. QED
      BY <1>1, <1>2, <1>4, <1>6, <2>2, <2>3, <3>1, <3>2 DEF RouteOK, RowHasRoute, Served, relays
  <2>8. MoverOK'
    BY <1>1, <1>4, <2>2, <2>4 DEF MoverOK, RouteFollowsCutover, At
  <2>9. QED
    BY <1>1, <1>2, <1>3, <2>2, <2>4, <2>5, <2>6, <2>7, <2>8, MoverSide
<1>7. QED
  BY <1>5, <1>6 DEF UpdateEndpoint

\* The owner changes once the route has moved.
LEMMA CompleteCutoverInv ==
    ASSUME ExposureInv, StoreInv', CompleteCutover
    PROVE  ExposureInv'
<1>1. /\ At(Mover, "commit") /\ Mover \in Callers /\ owner' = 2 /\ Goes(Mover, "cleanup")
      /\ UNCHANGED <<store, row, rowSeen, record, relays, task, proxy, faults>>
  BY NoMapApart DEF CompleteCutover
<1>2. route \in Routes /\ MoverOK
  BY DEF ExposureInv, ExposureTypeOK
<1>3. Keeps /\ RouteKept
  BY <1>1 DEF Keeps, RouteKept, relays, proxy
<1>4. /\ CallersMove /\ caller' \in [Callers -> CallerStates]
      /\ \A j \in Callers : j # Mover => CallerRests(j)
      /\ caller'[Mover].at = "cleanup"
  BY <1>1, Going
<1>5. CallerRests(Mover)
  BY <1>4 DEF CallerRests
<1>6. RouteOK'
  BY <1>1, <1>3, RouteStays DEF proxy
<1>7. MoverOK'
  BY <1>1, <1>2, <1>4 DEF MoverOK, RouteFollowsCutover, At, proxy
<1>8. QED
  BY <1>1, <1>2, <1>3, <1>4, <1>5, <1>6, <1>7, MoverSide DEF proxy, Workers

\* The cleanup is driven again.
LEMMA CleanupAgainInv ==
    ASSUME ExposureInv, StoreInv', CleanupAgain
    PROVE  ExposureInv'
<1>1. /\ Mover \in Callers /\ Goes(Mover, "cleanup")
      /\ UNCHANGED <<store, owner, row, rowSeen, record, relays, task, proxy, faults>>
  BY NoMapApart DEF CleanupAgain
<1>2. /\ CallersMove /\ caller' \in [Callers -> CallerStates]
      /\ \A j \in Callers : j # Mover => CallerRests(j)
      /\ caller'[Mover].at = "cleanup"
  BY <1>1, Going
<1>3. CallerRests(Mover)
  BY <1>2 DEF CallerRests
<1>4. Keeps /\ RouteKept /\ MoverKept
  BY <1>1, <1>2 DEF Keeps, RouteKept, MoverKept, CallersMove, relays, proxy
<1>5. RouteOK' /\ MoverOK'
  BY <1>1, <1>4, RouteStays, MoverStays DEF proxy
<1>6. QED
  BY <1>1, <1>2, <1>3, <1>4, <1>5, MoverSide DEF proxy, ExposureInv, ExposureTypeOK

\* The fence is asked for, or finds no record, or its epoch is not stored.
LEMMA FenceAskedInv ==
    ASSUME ExposureInv, StoreInv', (FenceSource /\ ~Fenced) \/ EpochNotPersisted
    PROVE  ExposureInv'
<1>1. /\ Mover \in Callers
      /\ caller' = caller \/ Goes(Mover, "failed") \/ Goes(Mover, "fencing")
      /\ UNCHANGED <<owner, row, rowSeen, record, relays, task, proxy, faults>>
  BY NoMapApart DEF FenceSource, EpochNotPersisted, relays
<1>2. /\ route \in Routes /\ MoverOK /\ caller \in [Callers -> CallerStates]
      /\ owner \in Workers
  BY DEF ExposureInv, ExposureTypeOK
<1>3. Keeps /\ RouteKept
  BY <1>1 DEF Keeps, RouteKept, relays, proxy
<1>4. RouteOK'
  BY <1>1, <1>3, RouteStays DEF proxy
<1>5. /\ CallersMove /\ caller' \in [Callers -> CallerStates]
      /\ \A j \in Callers : CallerRests(j)
      /\ caller'[Mover].at \in {"failed", "fencing"} \/ caller' = caller
  <2>1. CASE caller' = caller
    BY <1>2, <2>1 DEF CallersMove, CallerRests
  <2>2. CASE Goes(Mover, "failed") \/ Goes(Mover, "fencing")
    <3>1. /\ CallersMove /\ caller' \in [Callers -> CallerStates]
          /\ \A j \in Callers : j # Mover => CallerRests(j)
          /\ caller'[Mover].at \in {"failed", "fencing"}
      BY <1>1, <2>2, Going
    <3>2. CallerRests(Mover)
      BY <3>1 DEF CallerRests
    <3>3. QED
      BY <3>1, <3>2
  <2>3. QED
    BY <1>1, <2>1, <2>2
<1>6. MoverKept /\ FenceKept
  BY <1>1, <1>5, NoMapApart DEF MoverKept, FenceKept, CallersMove, proxy, relays
<1>7. (\A j \in Callers : CallerOK(j)') /\ FencedOK' /\ MoverOK'
  BY <1>3, <1>5, <1>6, CallerStays, FenceStays, MoverStays
<1>8. QED
  BY <1>1, <1>4, <1>5, <1>7, WorkerSide DEF proxy, ExposureInv, ExposureTypeOK

-----------------------------------------------------------------------------
(* The worker's handlers.                                                  *)

\* A handler ends, or fails: its caller hears of it, if it is still there.
LEMMA Ending ==
    ASSUME ExposureInv, NEW k \in Callers, NEW ok \in BOOLEAN, NEW h \in Ports, Ends(k, ok, h)
    PROVE  /\ CallersMove /\ caller' \in [Callers -> CallerStates]
           /\ task' \in [Callers -> Tasks]
           /\ \A j \in Callers : j # k => caller'[j] = caller[j] /\ task'[j] = task[j]
           /\ task'[k].at = "idle"
           /\ \/ caller'[k] = caller[k] \/ caller'[k].at = "failed"
              \/ ok /\ caller'[k].at = "route" /\ caller'[k].host = h
           /\ caller'[k] # caller[k] => caller[k].at = "worker"
<1>1. /\ caller \in [Callers -> CallerStates] /\ caller[k] \in CallerStates
      /\ task \in [Callers -> Tasks]
  BY DEF ExposureInv, ExposureTypeOK
<1>2. /\ task' \in [Callers -> Tasks] /\ task'[k] = NoTask
      /\ \A j \in Callers : j # k => task'[j] = task[j]
  <2>1. NoTask \in Tasks
    BY ExposureConstants DEF NoTask, Tasks, Ports
  <2>2. QED
    BY <1>1, <2>1 DEF Ends
<1>3. task'[k].at = "idle"
  BY <1>2 DEF NoTask
<1>4. CASE ~At(k, "worker")
  <2>1. caller' = caller
    BY <1>4 DEF Ends
  <2>2. QED
    BY <1>1, <1>2, <1>3, <2>1 DEF CallersMove
<1>5. CASE At(k, "worker")
  <2>1. PICK step \in {"route", "failed"} : step = IF ok THEN "route" ELSE "failed"
    OBVIOUS
  <2>2. PICK c : c = [caller[k] EXCEPT !.at = step, !.host = h]
    OBVIOUS
  <2>3. /\ c \in CallerStates /\ c.at = step /\ c.host = h
        /\ c.epoch = caller[k].epoch /\ c.guest = caller[k].guest
    BY <1>1, <2>1, <2>2 DEF CallerStates
  <2>4. caller' = [caller EXCEPT ![k] = c]
    BY <1>1, <1>5, <2>1, <2>2 DEF Ends
  <2>5. caller' \in [Callers -> CallerStates] /\ caller'[k] = c
        /\ \A j \in Callers : j # k => caller'[j] = caller[j]
    BY <1>1, <2>3, <2>4
  <2>6. CallersMove
    BY <2>1, <2>3, <2>5 DEF CallersMove
  <2>7. caller'[k].at = "failed" \/ (ok /\ caller'[k].at = "route" /\ caller'[k].host = h)
    BY <2>1, <2>3, <2>5
  <2>8. QED
    BY <1>2, <1>3, <1>5, <2>5, <2>6, <2>7 DEF At
<1>6. QED
  BY <1>4, <1>5

\* What a step of a handler alone does not change.
LEMMA HandlerSide ==
    ASSUME ExposureInv, StoreInv', NEW k \in Callers,
           CallersMove, caller' \in [Callers -> CallerStates],
           \A j \in Callers : j # k => caller'[j] = caller[j],
           caller'[k] = caller[k] \/ caller'[k].at \in {"failed", "route"},
           caller'[k] # caller[k] => caller[k].at = "worker",
           task' \in [Callers -> Tasks], exposed' \in [Workers -> SUBSET Relays],
           portOwner' \in [Workers -> [Ports -> GuestPorts \cup {0}]],
           listening' \in [Workers -> SUBSET Relays], maps' \in [Callers -> SUBSET Relays],
           current' \in [Workers -> Callers \cup {NoMap}], overlap' \in BOOLEAN,
           shifted' \in BOOLEAN, faults' \in 0..MaxFaults,
           UNCHANGED <<owner, row, rowSeen, record, proxy>>,
           Keeps, FenceKept,
           At(k, "route")' => Served(caller[k].epoch, caller[k].guest, caller[k].host)',
           \A j \in Callers : TaskOK(j)', \A w \in Workers : WorkerOK(w)' /\ (~overlap' => OneMap(w)')
    PROVE  ExposureInv'
<1>1. RouteKept
  BY DEF RouteKept, proxy
<1>2. RouteOK'
  BY RouteStays DEF proxy
<1>3. MoverOK'
  <2>1. /\ caller'[Mover].guest = caller[Mover].guest /\ caller'[Mover].epoch = caller[Mover].epoch
        /\ \A step \in {"idle", "commit"} : caller'[Mover].at = step => caller[Mover].at = step
        /\ caller'[Mover].at \in {"worker", "route"} => caller[Mover].at \in {"worker", "route"}
    <3>1. CASE caller'[Mover] = caller[Mover]
      BY <3>1
    <3>2. CASE caller'[Mover] # caller[Mover]
      BY <3>2, NoMapApart DEF CallersMove
    <3>3. QED
      BY <3>1, <3>2
  <2>2. MoverKept
    BY <2>1 DEF MoverKept, proxy
  <2>3. QED
    BY <2>2, MoverStays
<1>4. CallerOK(k)'
  <2>1. CASE caller'[k] = caller[k] \/ caller'[k].at = "failed"
    BY <1>1, <2>1, CallerStays DEF CallerRests
  <2>2. CASE caller'[k].at = "route" /\ caller[k].at = "worker"
    <3>1. CallerOK(k)
      BY DEF ExposureInv
    <3>2. caller'[k].epoch = caller[k].epoch /\ caller'[k].guest = caller[k].guest
      BY DEF CallersMove
    <3>3. QED
      BY <2>2, <3>1, <3>2 DEF CallerOK, At
  <2>3. QED
    BY <2>1, <2>2
<1>5. ASSUME NEW j \in Callers PROVE CallerOK(j)'
  <2>1. CASE j # k
    BY <1>1, <2>1, CallerStays DEF CallerRests
  <2>2. QED
    BY <1>4, <2>1
<1>6. FencedOK'
  BY FenceStays
<1>7. ExposureTypeOK'
  BY DEF ExposureInv, ExposureTypeOK, proxy
<1>8. QED
  BY <1>2, <1>3, <1>5, <1>6, <1>7 DEF ExposureInv

\* A handler goes, or goes on before it starts a relay: the others are not concerned.
LEMMA TaskLeaves ==
    ASSUME ExposureInv, NEW k \in Callers, CallersMove, UNCHANGED <<maps, current, listening, overlap>>,
           \A j \in Callers : j # k => task'[j] = task[j],
           \/ task'[k].at = "idle"
           \/ /\ task'[k].at \in {"admit", "plans"} /\ task[k].at # "idle"
              /\ task'[k].worker = task[k].worker /\ task'[k].guest = task[k].guest
    PROVE  /\ \A j \in Callers : TaskOK(j)'
           /\ \A w \in Workers : ~overlap' => OneMap(w)'
<1>1. ASSUME NEW j \in Callers PROVE TaskOK(j)'
  <2>1. TaskOK(j)
    BY DEF ExposureInv
  <2>2. CASE j = k
    BY <2>1, <2>2 DEF TaskOK, CallersMove, At
  <2>3. CASE j # k
    BY <2>1, <2>3 DEF TaskOK, CallersMove, At
  <2>4. QED
    BY <2>2, <2>3
<1>2. ASSUME NEW w \in Workers, ~overlap' PROVE OneMap(w)'
  <2>1. OneMap(w)
    BY <1>2 DEF ExposureInv
  <2>2. ASSUME NEW j \in Callers PROVE ListensOn(j, w)' => ListensOn(j, w) /\ task'[j] = task[j]
    BY DEF ListensOn
  <2>3. QED
    BY <2>1, <2>2 DEF OneMap
<1>3. QED
  BY <1>1, <1>2

\* A worker's relays stay as they are.
LEMMA RelaysStay ==
    ASSUME ExposureInv, CallersMove, UNCHANGED <<record, exposed, listening, maps, current, shifted>>
    PROVE  \A w \in Workers : WorkerOK(w)'
<1> SUFFICES ASSUME NEW w \in Workers PROVE WorkerOK(w)'
  OBVIOUS
<1>1. WorkerOK(w) /\ current[w] \in Callers \cup {NoMap}
  BY DEF ExposureInv, ExposureTypeOK
<1>2. QED
  BY <1>1 DEF WorkerOK, CallersMove

\* mutableRecord lets in what the fence has not stopped, and a port that is exposed has its relay.
LEMMA AdmitInv ==
    ASSUME ExposureInv, StoreInv', NEW k \in Callers, Admit(k)
    PROVE  ExposureInv'
<1>1. task[k].worker \in Workers /\ caller[k].epoch = task[k].worker /\ caller[k].guest = task[k].guest
  BY DEF ExposureInv, TaskOK, Admit
<1>2. PICK w \in Workers : w = task[k].worker
  BY <1>1
<1>3. /\ task[k].at = "admit"
      /\ UNCHANGED <<owner, row, rowSeen, record, relays, proxy, faults>>
      /\ \/ Ends(k, FALSE, 0)
         \/ /\ record[w] = "running"
            /\ \E x \in exposed[w] : x.guest = task[k].guest /\ Ends(k, TRUE, x.host)
         \/ record[w] = "running" /\ task' = [task EXCEPT ![k].at = "plans"] /\ UNCHANGED caller
  BY <1>2 DEF Admit
<1>4. /\ caller[k].epoch = w /\ caller[k].guest = task[k].guest
      /\ WorkerOK(w) /\ exposed[w] \subseteq Relays /\ task \in [Callers -> Tasks] /\ task[k] \in Tasks
      /\ caller \in [Callers -> CallerStates] /\ 0 \in Ports
  BY <1>1, <1>2, ExposureConstants DEF ExposureInv, ExposureTypeOK, Ports
<1>5. Keeps
  BY <1>3 DEF Keeps, relays
<1>6. ASSUME CallersMove, caller' \in [Callers -> CallerStates], task' \in [Callers -> Tasks],
             \A j \in Callers : j # k => caller'[j] = caller[j] /\ task'[j] = task[j],
             caller'[k] = caller[k] \/ caller'[k].at \in {"failed", "route"},
             caller'[k] # caller[k] => caller[k].at = "worker",
             \/ task'[k].at = "idle"
             \/ /\ task'[k].at = "plans" /\ record[w] = "running"
                /\ task'[k].worker = task[k].worker /\ task'[k].guest = task[k].guest,
             At(k, "route")' => Served(caller[k].epoch, caller[k].guest, caller[k].host)'
      PROVE  ExposureInv'
  <2>1. /\ \A j \in Callers : TaskOK(j)'
        /\ \A v \in Workers : WorkerOK(v)' /\ (~overlap' => OneMap(v)')
    BY <1>3, <1>6, TaskLeaves, RelaysStay DEF relays
  <2>2. FenceKept
    <3>1. caller'[Mover].at = "closing" => caller[Mover].at = "closing"
      BY <1>6, NoMapApart
    <3>2. ASSUME record[1] \in {"fenced", "quarantined"}, NEW j \in Callers,
                 task'[j].worker = 1, task'[j].at \in {"plans", "listen"}
          PROVE  task[j].worker = 1 /\ task[j].at \in {"plans", "listen"}
      <4>1. j # k
        BY <1>6, <1>2, <3>2
      <4>2. QED
        BY <1>6, <3>2, <4>1
    <3>3. QED
      BY <1>3, <3>1, <3>2 DEF FenceKept, relays
  <2>3. QED
    BY <1>3, <1>5, <1>6, <2>1, <2>2, HandlerSide DEF relays, ExposureInv, ExposureTypeOK
<1>7. CASE Ends(k, FALSE, 0)
  <2>1. caller'[k].at = "route" => caller'[k] = caller[k] /\ CallerOK(k)
    BY <1>4, <1>7, Ending DEF ExposureInv
  <2>2. At(k, "route")' => Served(caller[k].epoch, caller[k].guest, caller[k].host)'
    BY <1>3, <2>1 DEF At, CallerOK, Served, relays
  <2>3. QED
    BY <1>4, <1>6, <1>7, <2>2, Ending
<1>8. ASSUME record[w] = "running", NEW x \in exposed[w], x.guest = task[k].guest,
             Ends(k, TRUE, x.host)
      PROVE  ExposureInv'
  <2>1. x.host \in Ports /\ x = [guest |-> x.guest, host |-> x.host]
    BY <1>4, <1>8 DEF Relays
  <2>2. Served(w, x.guest, x.host)
    BY <1>4, <1>8, <2>1 DEF WorkerOK, Served
  <2>3. Served(w, x.guest, x.host)'
    BY <1>5, <2>2, ServedStays
  <2>4. caller'[k].at = "route" =>
            (caller'[k] = caller[k] /\ CallerOK(k)) \/ caller'[k].host = x.host
    BY <1>8, <2>1, Ending DEF ExposureInv
  <2>5. At(k, "route")' => Served(caller[k].epoch, caller[k].guest, caller[k].host)'
    <3>1. caller'[k].epoch = w /\ caller'[k].guest = x.guest
      BY <1>4, <1>8, <2>1, Ending DEF CallersMove
    <3>2. CASE caller'[k].host = x.host
      BY <2>3, <3>1, <3>2
    <3>3. CASE caller'[k] = caller[k] /\ CallerOK(k)
      BY <1>3, <3>3 DEF At, CallerOK, Served, relays
    <3>4. QED
      BY <2>4, <3>2, <3>3 DEF At
  <2>6. QED
    BY <1>6, <1>8, <2>1, <2>5, Ending
<1>9. CASE record[w] = "running" /\ task' = [task EXCEPT ![k].at = "plans"] /\ UNCHANGED caller
  <2>1. /\ task' \in [Callers -> Tasks] /\ task'[k].at = "plans"
        /\ task'[k].worker = task[k].worker /\ task'[k].guest = task[k].guest
        /\ \A j \in Callers : j # k => task'[j] = task[j]
    BY <1>4, <1>9 DEF Tasks
  <2>2. CallersMove
    BY <1>9 DEF CallersMove
  <2>3. At(k, "route")' => Served(caller[k].epoch, caller[k].guest, caller[k].host)'
    BY <1>3, <1>9 DEF At, CallerOK, Served, relays, ExposureInv
  <2>4. QED
    BY <1>4, <1>6, <1>9, <2>1, <2>2, <2>3
<1>10. QED
  BY <1>3, <1>7, <1>8, <1>9

\* allocatePort returns a port of the worker.
LEMMA AllocatedPorts == ASSUME NEW w, NEW g PROVE Allocated(w, g) \subseteq Ports
BY DEF Allocated

\* Where a handler is, and whose Map it uses.
LEMMA HandlerFacts ==
    ASSUME ExposureInv, NEW k \in Callers, task[k].at # "idle"
    PROVE  /\ task[k].worker \in Workers /\ task[k].guest \in GuestPorts
           /\ caller[k].epoch = task[k].worker /\ caller[k].guest = task[k].guest
           /\ WorkerOK(task[k].worker) /\ TaskOK(k) /\ task[k] \in Tasks
           /\ current[task[k].worker] \in Callers \cup {NoMap}
BY DEF ExposureInv, ExposureTypeOK, TaskOK

\* RelayLifecycle.start finds the relay in the sandbox's Map, or goes on to listen for it.
LEMMA StartInv ==
    ASSUME ExposureInv, StoreInv', NEW k \in Callers, Start(k)
    PROVE  ExposureInv'
<1>1. PICK w \in Workers, g \in GuestPorts : w = task[k].worker /\ g = task[k].guest
  BY HandlerFacts DEF Start
<1>2. PICK m : m = IF current[w] = NoMap THEN k ELSE current[w]
  OBVIOUS
<1>3. /\ task[k].at = "plans"
      /\ UNCHANGED <<owner, row, rowSeen, record, listening, maps, current, proxy, faults>>
  BY DEF Start
<1>4. /\ caller[k].epoch = w /\ caller[k].guest = g /\ TaskOK(k) /\ WorkerOK(w)
      /\ m \in Callers /\ caller[m].epoch = w /\ task[k] \in Tasks
  BY <1>1, <1>2, <1>3, HandlerFacts, NoMapApart DEF WorkerOK
<1>5. /\ task \in [Callers -> Tasks] /\ caller \in [Callers -> CallerStates]
      /\ portOwner \in [Workers -> [Ports -> GuestPorts \cup {0}]]
      /\ exposed \in [Workers -> SUBSET Relays] /\ maps \in [Callers -> SUBSET Relays]
      /\ overlap \in BOOLEAN /\ shifted \in BOOLEAN /\ 0 \in Ports /\ FencedOK
  BY ExposureConstants DEF ExposureInv, ExposureTypeOK, Ports
<1>6. record[1] \in {"fenced", "quarantined"} /\ ~overlap => w # 1
  BY <1>1, <1>3, <1>5 DEF FencedOK, NoStart
<1>7. CASE Ends(k, FALSE, 0) /\ UNCHANGED <<portOwner, exposed, overlap, shifted>>
  <2>1. /\ CallersMove /\ caller' \in [Callers -> CallerStates] /\ task' \in [Callers -> Tasks]
        /\ \A j \in Callers : j # k => caller'[j] = caller[j] /\ task'[j] = task[j]
        /\ task'[k].at = "idle"
        /\ caller'[k] = caller[k] \/ caller'[k].at = "failed"
        /\ caller'[k] # caller[k] => caller[k].at = "worker"
    BY <1>5, <1>7, Ending
  <2>2. (\A j \in Callers : TaskOK(j)') /\ (\A v \in Workers : WorkerOK(v)' /\ (~overlap' => OneMap(v)'))
    BY <1>3, <1>7, <2>1, TaskLeaves, RelaysStay
  <2>3. Keeps
    BY <1>3, <1>7 DEF Keeps
  <2>4. At(k, "route")' => Served(caller[k].epoch, caller[k].guest, caller[k].host)'
    BY <1>3, <1>7, <2>1 DEF ExposureInv, CallerOK, At, Served
  <2>5. FenceKept
    <3>1. caller'[Mover].at = "closing" => caller[Mover].at = "closing"
      BY <2>1, NoMapApart
    <3>2. \A j \in Callers : task'[j].at \in {"plans", "listen"} => task'[j] = task[j]
      BY <2>1
    <3>3. QED
      BY <1>3, <1>7, <3>1, <3>2 DEF FenceKept
  <2>6. QED
    BY <1>3, <1>7, <2>1, <2>2, <2>3, <2>4, <2>5, HandlerSide DEF ExposureInv, ExposureTypeOK
<1>8. ASSUME NEW h \in Ports, portOwner' = [portOwner EXCEPT ![w][h] = g],
             NEW y \in maps[m], y.guest = g,
             exposed' = [exposed EXCEPT ![w] = @ \cup {[guest |-> g, host |-> h]}],
             shifted' = (shifted \/ [guest |-> g, host |-> h] \notin maps[m]),
             Ends(k, TRUE, h), UNCHANGED overlap
      PROVE  ExposureInv'
  <2>1. /\ CallersMove /\ caller' \in [Callers -> CallerStates] /\ task' \in [Callers -> Tasks]
        /\ \A j \in Callers : j # k => caller'[j] = caller[j] /\ task'[j] = task[j]
        /\ task'[k].at = "idle"
        /\ \/ caller'[k] = caller[k] \/ caller'[k].at = "failed"
           \/ caller'[k].at = "route" /\ caller'[k].host = h
        /\ caller'[k] # caller[k] => caller[k].at = "worker"
    BY <1>8, Ending
  <2>2. Keeps /\ shifted' \in BOOLEAN
    BY <1>3, <1>5, <1>8 DEF Keeps
  <2>3. PICK x \in Relays : x = [guest |-> g, host |-> h]
    BY DEF Relays
  <2>4. record[w] = "running" /\ ~shifted' => ~shifted /\ x \in listening[w]
    BY <1>4, <1>5, <1>8, <2>3 DEF WorkerOK
  <2>5. Served(w, g, h)'
    BY <1>3, <2>3, <2>4 DEF Served
  <2>6. exposed' \in [Workers -> SUBSET Relays] /\ exposed'[w] = exposed[w] \cup {x}
        /\ \A v \in Workers : v # w => exposed'[v] = exposed[v]
    BY <1>5, <1>8, <2>3
  <2>7. portOwner' \in [Workers -> [Ports -> GuestPorts \cup {0}]]
        /\ \A v \in Workers : v # w => portOwner'[v] = portOwner[v]
    BY <1>5, <1>8
  <2>8. \A j \in Callers : TaskOK(j)'
    BY <1>3, <1>8, <2>1, TaskLeaves
  <2>9. ASSUME NEW v \in Workers PROVE WorkerOK(v)' /\ (~overlap' => OneMap(v)')
    <3>1. ~overlap' => OneMap(v)'
      BY <1>3, <1>8, <2>1, TaskLeaves
    <3>2. WorkerOK(v) /\ current[v] \in Callers \cup {NoMap}
      BY DEF ExposureInv, ExposureTypeOK
    <3>3. record[v] = "running" /\ ~shifted' => exposed'[v] \subseteq listening[v]
      BY <1>4, <1>8, <2>4, <2>6, <3>2 DEF WorkerOK
    <3>4. QED
      BY <1>3, <2>1, <3>1, <3>2, <3>3 DEF WorkerOK, CallersMove
  <2>10. At(k, "route")' => Served(caller[k].epoch, caller[k].guest, caller[k].host)'
    <3>1. caller'[k].epoch = w /\ caller'[k].guest = g
      BY <1>4, <2>1 DEF CallersMove
    <3>2. CASE caller'[k].host = h
      BY <2>5, <3>1, <3>2
    <3>3. CASE caller'[k] = caller[k]
      BY <1>3, <1>8, <2>2, <3>3 DEF At, CallerOK, Served, ExposureInv
    <3>4. QED
      BY <2>1, <3>2, <3>3 DEF At
  <2>11. FenceKept
    <3>1. caller'[Mover].at = "closing" => caller[Mover].at = "closing"
      BY <2>1, NoMapApart
    <3>2. \A j \in Callers : task'[j].at \in {"plans", "listen"} => task'[j] = task[j]
      BY <2>1
    <3>3. 1 \in Workers
      BY DEF Workers
    <3>4. QED
      BY <1>3, <1>6, <1>8, <2>7, <3>1, <3>2, <3>3 DEF FenceKept
  <2>12. QED
    BY <1>3, <1>8, <2>1, <2>2, <2>6, <2>7, <2>8, <2>9, <2>10, <2>11, HandlerSide, SMTT(30)
       DEF ExposureInv, ExposureTypeOK
<1>9. ASSUME NEW h \in Ports, portOwner' = [portOwner EXCEPT ![w][h] = g],
             task' = [task EXCEPT ![k].at = "listen", ![k].host = h, ![k].map = m],
             overlap' = \/ overlap
                        \/ \E j \in Callers : task[j].at = "listen" /\ task[j].worker = w,
             UNCHANGED <<exposed, caller, shifted>>
      PROVE  ExposureInv'
  <2>1. /\ task' \in [Callers -> Tasks]
        /\ \A j \in Callers : j # k => task'[j] = task[j]
        /\ task'[k].at = "listen" /\ task'[k].map = m
        /\ task'[k].worker = w /\ task'[k].guest = g
    <3>1. PICK a : a = [task[k] EXCEPT !.at = "listen", !.host = h]
      OBVIOUS
    <3>2. a \in Tasks /\ a.at = "listen" /\ a.worker = w /\ a.guest = g
      BY <1>1, <1>4, <3>1 DEF Tasks
    <3>3. PICK t : t = [a EXCEPT !.map = m]
      OBVIOUS
    <3>4. t \in Tasks /\ t.at = "listen" /\ t.worker = w /\ t.guest = g /\ t.map = m
      BY <1>4, <3>2, <3>3 DEF Tasks
    <3>5. task' = [task EXCEPT ![k] = t]
      BY <1>9, <3>1, <3>3
    <3>6. QED
      BY <1>5, <3>4, <3>5
  <2>2. /\ portOwner' \in [Workers -> [Ports -> GuestPorts \cup {0}]]
        /\ \A v \in Workers : v # w => portOwner'[v] = portOwner[v]
        /\ overlap' \in BOOLEAN
    BY <1>5, <1>9
  <2>3. CallersMove /\ Keeps
    BY <1>3, <1>9 DEF CallersMove, Keeps
  <2>4. ASSUME NEW j \in Callers PROVE TaskOK(j)'
    <3>1. TaskOK(j)
      BY DEF ExposureInv
    <3>2. CASE j = k
      BY <1>3, <1>4, <1>9, <2>1, <3>1, <3>2 DEF TaskOK, At
    <3>3. CASE j # k
      BY <1>3, <1>9, <2>1, <3>1, <3>3 DEF TaskOK, At
    <3>4. QED
      BY <3>2, <3>3
  <2>5. \A v \in Workers : WorkerOK(v)'
    BY <1>3, <1>9, <2>3, RelaysStay
  <2>6. ASSUME NEW v \in Workers, ~overlap' PROVE OneMap(v)'
    <3>1. OneMap(v) /\ \A j \in Callers : ~ListensOn(j, w)
      BY <1>9, <2>6 DEF ExposureInv, ListensOn
    <3>2. CASE v = w
      <4>1. \A j \in Callers : ListensOn(j, v)' => j = k
        BY <2>1, <3>1, <3>2 DEF ListensOn
      <4>2. QED
        BY <1>2, <1>3, <2>1, <3>1, <3>2, <4>1 DEF OneMap
    <3>3. CASE v # w
      <4>1. \A j \in Callers : ListensOn(j, v)' => ListensOn(j, v) /\ task'[j] = task[j]
        BY <2>1, <3>3 DEF ListensOn
      <4>2. QED
        BY <1>3, <3>1, <4>1 DEF OneMap
    <3>4. QED
      BY <3>2, <3>3
  <2>7. FenceKept
    <3>1. ASSUME NEW j \in Callers, task'[j].at \in {"plans", "listen"}, task'[j].worker = 1
          PROVE  task[j].worker = 1 /\ task[j].at \in {"plans", "listen"}
      BY <1>1, <1>3, <2>1, <3>1
    <3>2. 1 \in Workers
      BY DEF Workers
    <3>3. QED
      BY <1>3, <1>6, <1>9, <2>2, <3>1, <3>2 DEF FenceKept
  <2>8. At(k, "route")' => Served(caller[k].epoch, caller[k].guest, caller[k].host)'
    BY <1>3, <1>9 DEF ExposureInv, CallerOK, At, Served
  <2>9. QED
    BY <1>3, <1>5, <1>9, <2>1, <2>2, <2>3, <2>4, <2>5, <2>6, <2>7, <2>8, HandlerSide
       DEF ExposureInv, ExposureTypeOK
<1>10. CASE Allocated(w, g) # {}
  BY <1>1, <1>2, <1>7, <1>8, <1>9, <1>10, AllocatedPorts DEF Start
<1>11. CASE Allocated(w, g) = {}
  BY <1>1, <1>7, <1>11 DEF Start
<1>12. QED
  BY <1>10, <1>11

\* The relay listens, in the Map that start() had; or its port is in use.
LEMMA ListenInv ==
    ASSUME ExposureInv, StoreInv', NEW k \in Callers, Listen(k)
    PROVE  ExposureInv'
<1>1. PICK w \in Workers, g \in GuestPorts, m \in Callers :
        w = task[k].worker /\ g = task[k].guest /\ m = task[k].map
  BY HandlerFacts DEF Listen, TaskOK
<1>2. PICK h \in Ports : h = task[k].host
  <2>1. task[k] \in Tasks
    BY HandlerFacts DEF Listen
  <2>2. QED
    BY <2>1 DEF Tasks
<1>3. PICK x \in Relays : x = [guest |-> g, host |-> h] /\ x.host = h
  <2>1. g \in GuestPorts /\ h \in Ports
    BY <1>1, <1>2
  <2>2. [guest |-> g, host |-> h] \in Relays
    BY <2>1 DEF Relays
  <2>3. QED
    BY <2>2
<1>4. /\ task[k].at = "listen"
      /\ UNCHANGED <<owner, row, rowSeen, record, overlap, shifted, proxy, faults>>
      /\ \/ /\ Released(w, h) /\ Ends(k, FALSE, 0)
            /\ UNCHANGED <<exposed, listening, maps, current>>
         \/ /\ listening' = [listening EXCEPT ![w] = @ \cup {x}]
            /\ maps' = [maps EXCEPT ![m] = @ \cup {x}]
            /\ current' = [current EXCEPT ![w] = m]
            /\ exposed' = [exposed EXCEPT ![w] = @ \cup {x}]
            /\ Ends(k, TRUE, h)
            /\ UNCHANGED portOwner
  BY <1>1, <1>2, <1>3 DEF Listen
<1>5. /\ caller[k].epoch = w /\ caller[k].guest = g /\ TaskOK(k)
      /\ caller[m].epoch = w /\ task[k] \in Tasks
  BY <1>1, <1>4, HandlerFacts DEF TaskOK
<1>6. /\ task \in [Callers -> Tasks] /\ caller \in [Callers -> CallerStates]
      /\ portOwner \in [Workers -> [Ports -> GuestPorts \cup {0}]]
      /\ exposed \in [Workers -> SUBSET Relays] /\ maps \in [Callers -> SUBSET Relays]
      /\ listening \in [Workers -> SUBSET Relays]
      /\ current \in [Workers -> Callers \cup {NoMap}]
      /\ overlap \in BOOLEAN /\ shifted \in BOOLEAN /\ 0 \in Ports /\ FencedOK
      /\ 1 \in Workers /\ 0 \notin Workers
  BY ExposureConstants DEF ExposureInv, ExposureTypeOK, Ports, Workers
<1>7. record[1] \in {"fenced", "quarantined"} /\ ~overlap => w # 1
  BY <1>1, <1>4, <1>6 DEF FencedOK, NoStart
<1>8. ASSUME \A v \in Workers : v # w => portOwner'[v] = portOwner[v] /\ listening'[v] = listening[v],
             \A j \in Callers : task'[j].at \in {"plans", "listen"} => task'[j] = task[j],
             caller'[Mover].at = "closing" => caller[Mover].at = "closing"
      PROVE  FenceKept
  BY <1>4, <1>6, <1>7, <1>8 DEF FenceKept
<1>9. CASE /\ Released(w, h) /\ Ends(k, FALSE, 0)
           /\ UNCHANGED <<exposed, listening, maps, current>>
  <2>1. /\ CallersMove /\ caller' \in [Callers -> CallerStates] /\ task' \in [Callers -> Tasks]
        /\ \A j \in Callers : j # k => caller'[j] = caller[j] /\ task'[j] = task[j]
        /\ task'[k].at = "idle"
        /\ caller'[k] = caller[k] \/ caller'[k].at = "failed"
        /\ caller'[k] # caller[k] => caller[k].at = "worker"
    BY <1>6, <1>9, Ending
  <2>2. (\A j \in Callers : TaskOK(j)') /\ (\A v \in Workers : WorkerOK(v)' /\ (~overlap' => OneMap(v)'))
    BY <1>4, <1>9, <2>1, TaskLeaves, RelaysStay
  <2>3. Keeps
    BY <1>4, <1>9 DEF Keeps
  <2>4. At(k, "route")' => Served(caller[k].epoch, caller[k].guest, caller[k].host)'
    BY <1>4, <1>9, <2>1 DEF ExposureInv, CallerOK, At, Served
  <2>5. portOwner' \in [Workers -> [Ports -> GuestPorts \cup {0}]]
        /\ \A v \in Workers : v # w => portOwner'[v] = portOwner[v]
    BY <1>6, <1>9 DEF Released
  <2>6. FenceKept
    <3>1. caller'[Mover].at = "closing" => caller[Mover].at = "closing"
      BY <2>1, NoMapApart
    <3>2. \A j \in Callers : task'[j].at \in {"plans", "listen"} => task'[j] = task[j]
      BY <2>1
    <3>3. QED
      BY <1>8, <1>9, <2>5, <3>1, <3>2
  <2>7. QED
    BY <1>4, <1>9, <2>1, <2>2, <2>3, <2>4, <2>5, <2>6, HandlerSide DEF ExposureInv, ExposureTypeOK
<1>10. CASE /\ listening' = [listening EXCEPT ![w] = @ \cup {x}]
            /\ maps' = [maps EXCEPT ![m] = @ \cup {x}]
            /\ current' = [current EXCEPT ![w] = m]
            /\ exposed' = [exposed EXCEPT ![w] = @ \cup {x}]
            /\ Ends(k, TRUE, h)
            /\ UNCHANGED portOwner
  <2>1. /\ CallersMove /\ caller' \in [Callers -> CallerStates] /\ task' \in [Callers -> Tasks]
        /\ \A j \in Callers : j # k => caller'[j] = caller[j] /\ task'[j] = task[j]
        /\ task'[k].at = "idle"
        /\ \/ caller'[k] = caller[k] \/ caller'[k].at = "failed"
           \/ caller'[k].at = "route" /\ caller'[k].host = h
        /\ caller'[k] # caller[k] => caller[k].at = "worker"
    BY <1>10, Ending
  <2>2. /\ listening' \in [Workers -> SUBSET Relays] /\ listening'[w] = listening[w] \cup {x}
        /\ \A v \in Workers : v # w => listening'[v] = listening[v]
        /\ exposed' \in [Workers -> SUBSET Relays] /\ exposed'[w] = exposed[w] \cup {x}
        /\ \A v \in Workers : v # w => exposed'[v] = exposed[v]
        /\ current' \in [Workers -> Callers \cup {NoMap}] /\ current'[w] = m
        /\ \A v \in Workers : v # w => current'[v] = current[v]
        /\ maps' \in [Callers -> SUBSET Relays] /\ maps'[m] = maps[m] \cup {x}
        /\ \A j \in Callers : j # m => maps'[j] = maps[j]
    BY <1>6, <1>10
  <2>3. Keeps
    BY <1>4, <2>2 DEF Keeps
  <2>4. Served(w, g, h)'
    BY <1>3, <2>2 DEF Served
  <2>5. At(k, "route")' => Served(caller[k].epoch, caller[k].guest, caller[k].host)'
    <3>1. caller'[k].epoch = w /\ caller'[k].guest = g
      BY <1>5, <2>1 DEF CallersMove
    <3>2. CASE caller'[k].host = h
      BY <2>4, <3>1, <3>2
    <3>3. CASE caller'[k] = caller[k] /\ At(k, "route")
      <4>1. Served(w, g, caller[k].host)
        BY <1>5, <3>3 DEF CallerOK, ExposureInv
      <4>2. QED
        BY <1>4, <1>5, <2>2, <3>3, <4>1 DEF Served
    <3>4. QED
      BY <2>1, <3>2, <3>3 DEF At
  <2>6. ASSUME NEW j \in Callers PROVE TaskOK(j)'
    <3>1. TaskOK(j)
      BY DEF ExposureInv
    <3>2. caller'[j].epoch = 0 => maps'[j] = {}
      <4>1. caller'[j].epoch = caller[j].epoch
        BY <2>1 DEF CallersMove
      <4>2. CASE j = m
        BY <1>5, <1>6, <4>1, <4>2
      <4>3. CASE j # m
        BY <2>2, <3>1, <4>1, <4>3 DEF TaskOK
      <4>4. QED
        BY <4>2, <4>3
    <3>3. CASE j = k
      BY <2>1, <3>1, <3>2, <3>3 DEF TaskOK, CallersMove, At
    <3>4. CASE j # k
      BY <2>1, <3>1, <3>2, <3>4 DEF TaskOK, CallersMove, At
    <3>5. QED
      BY <3>3, <3>4
  <2>7. ASSUME NEW v \in Workers PROVE WorkerOK(v)'
    <3>1. WorkerOK(v) /\ current[v] \in Callers \cup {NoMap}
      BY <1>6 DEF ExposureInv
    <3>2. record[v] = "running" /\ ~shifted => exposed'[v] \subseteq listening'[v]
      BY <2>2, <3>1 DEF WorkerOK
    <3>3. ASSUME record[v] = "running", NEW j \in Callers, caller[j].epoch = v
          PROVE  maps'[j] \subseteq listening'[v]
      <4>1. maps[j] \subseteq listening[v]
        BY <3>1, <3>3 DEF WorkerOK
      <4>2. CASE j = m
        BY <1>5, <2>2, <3>3, <4>1, <4>2
      <4>3. CASE j # m
        BY <2>2, <4>1, <4>3
      <4>4. QED
        BY <4>2, <4>3
    <3>4. current'[v] # NoMap => caller[current'[v]].epoch = v
      BY <1>5, <2>2, <3>1 DEF WorkerOK
    <3>5. current'[v] \in Callers \cup {NoMap}
      BY <2>2
    <3>6. QED
      BY <1>4, <2>1, <3>2, <3>3, <3>4, <3>5 DEF WorkerOK, CallersMove
  <2>8. ASSUME NEW v \in Workers, ~overlap' PROVE OneMap(v)'
    <3>1. OneMap(v) /\ m # NoMap
      BY <1>4, <2>8, NoMapApart DEF ExposureInv
    <3>2. CASE v = w
      <4>1. ListensOn(k, w)
        BY <1>1, <1>4 DEF ListensOn
      <4>2. \A j \in Callers : ~ListensOn(j, w)'
        BY <2>1, <3>1, <3>2, <4>1 DEF OneMap, ListensOn
      <4>3. listening'[w] \subseteq maps'[m]
        BY <1>1, <2>2, <3>1, <3>2, <4>1 DEF OneMap
      <4>4. QED
        BY <2>2, <3>1, <3>2, <4>2, <4>3 DEF OneMap
    <3>3. CASE v # w
      <4>1. \A j \in Callers : ListensOn(j, v)' => ListensOn(j, v) /\ task'[j] = task[j]
        BY <2>1 DEF ListensOn
      <4>2. \A j \in Callers : maps[j] \subseteq maps'[j]
        BY <2>2
      <4>3. current[v] \in Callers \cup {NoMap}
        BY <1>6
      <4>4. QED
        BY <2>2, <3>1, <3>3, <4>1, <4>2, <4>3 DEF OneMap
    <3>4. QED
      BY <3>2, <3>3
  <2>9. FenceKept
    <3>1. caller'[Mover].at = "closing" => caller[Mover].at = "closing"
      BY <2>1, NoMapApart
    <3>2. \A j \in Callers : task'[j].at \in {"plans", "listen"} => task'[j] = task[j]
      BY <2>1
    <3>3. QED
      BY <1>8, <1>10, <2>2, <3>1, <3>2
  <2>10. /\ caller'[k] = caller[k] \/ caller'[k].at \in {"failed", "route"}
         /\ \A v \in Workers : WorkerOK(v)' /\ (~overlap' => OneMap(v)')
    BY <2>1, <2>7, <2>8
  <2>11. /\ portOwner' \in [Workers -> [Ports -> GuestPorts \cup {0}]]
         /\ overlap' \in BOOLEAN /\ shifted' \in BOOLEAN /\ faults' \in 0..MaxFaults
    BY <1>4, <1>6, <1>10 DEF ExposureInv, ExposureTypeOK
  <2>12. QED
    BY <1>4, <2>1, <2>2, <2>3, <2>5, <2>6, <2>9, <2>10, <2>11, HandlerSide
<1>11. QED
  BY <1>4, <1>9, <1>10

\* The handler gives its host port back.
LEMMA HandlerFailsInv ==
    ASSUME ExposureInv, StoreInv', NEW k \in Callers, HandlerFails(k)
    PROVE  ExposureInv'
<1>1. PICK w \in Workers : w = task[k].worker
  BY HandlerFacts DEF HandlerFails
<1>2. /\ task[k].at \in {"plans", "listen"} /\ Ends(k, FALSE, 0)
      /\ faults < MaxFaults /\ faults' = faults + 1
      /\ portOwner' = portOwner \/ Released(w, task[k].host)
      /\ UNCHANGED <<store, owner, row, rowSeen, record, exposed, listening, maps, current, overlap,
                     shifted, proxy>>
  BY <1>1 DEF HandlerFails, Fault
<1>3. /\ portOwner \in [Workers -> [Ports -> GuestPorts \cup {0}]] /\ FencedOK
      /\ faults \in 0..MaxFaults /\ MaxFaults \in Nat /\ 0 \in Ports /\ 1 \in Workers
  BY ExposureConstants DEF ExposureInv, ExposureTypeOK, Ports, Workers
<1>4. faults' \in 0..MaxFaults
  BY <1>2, <1>3
<1>5. record[1] \in {"fenced", "quarantined"} /\ ~overlap => w # 1
  BY <1>1, <1>2, <1>3 DEF FencedOK, NoStart
<1>6. /\ CallersMove /\ caller' \in [Callers -> CallerStates] /\ task' \in [Callers -> Tasks]
      /\ \A j \in Callers : j # k => caller'[j] = caller[j] /\ task'[j] = task[j]
      /\ task'[k].at = "idle"
      /\ caller'[k] = caller[k] \/ caller'[k].at = "failed"
      /\ caller'[k] # caller[k] => caller[k].at = "worker"
  BY <1>2, <1>3, Ending
<1>7. (\A j \in Callers : TaskOK(j)') /\ (\A v \in Workers : WorkerOK(v)' /\ (~overlap' => OneMap(v)'))
  BY <1>2, <1>6, TaskLeaves, RelaysStay
<1>8. Keeps
  BY <1>2 DEF Keeps
<1>9. At(k, "route")' => Served(caller[k].epoch, caller[k].guest, caller[k].host)'
  BY <1>2, <1>6 DEF ExposureInv, CallerOK, At, Served
<1>10. portOwner' \in [Workers -> [Ports -> GuestPorts \cup {0}]]
       /\ \A v \in Workers : v # w => portOwner'[v] = portOwner[v]
  BY <1>2, <1>3 DEF Released
<1>11. FenceKept
  <2>1. caller'[Mover].at = "closing" => caller[Mover].at = "closing"
    BY <1>6, NoMapApart
  <2>2. \A j \in Callers : task'[j].at \in {"plans", "listen"} => task'[j] = task[j]
    BY <1>6
  <2>3. QED
    BY <1>2, <1>3, <1>5, <1>10, <2>1, <2>2 DEF FenceKept
<1>12. QED
  BY <1>2, <1>4, <1>6, <1>7, <1>8, <1>9, <1>10, <1>11, HandlerSide
     DEF ExposureInv, ExposureTypeOK

-----------------------------------------------------------------------------
(* The fence, and what the worker loses.                                   *)

\* What the first worker's steps do not change, when its sandbox has stopped there.
LEMMA SourceSide ==
    ASSUME ExposureInv, StoreInv', CallersMove, caller' \in [Callers -> CallerStates],
           \A j \in Callers : CallerRests(j),
           caller'[Mover] = caller[Mover] \/ caller'[Mover].at \notin {"idle", "worker", "route", "commit"},
           UNCHANGED <<owner, row, rowSeen, maps, shifted, proxy>>, faults' \in 0..MaxFaults,
           \A w \in Workers : w # 1 => /\ record'[w] = record[w] /\ exposed'[w] = exposed[w]
                                       /\ listening'[w] = listening[w] /\ current'[w] = current[w],
           record' \in [Workers -> {"running", "fenced", "quarantined", "gone"}],
           record'[1] = "running" => record[1] = "running" /\ listening'[1] = listening[1] /\ exposed'[1] = exposed[1],
           exposed' \in [Workers -> SUBSET Relays],
           portOwner' \in [Workers -> [Ports -> GuestPorts \cup {0}]],
           listening' \in [Workers -> SUBSET Relays],
           current' \in [Workers -> Callers \cup {NoMap}],
           current'[1] \in {current[1], NoMap},
           overlap' \in BOOLEAN, overlap => overlap', task' \in [Callers -> Tasks],
           \A j \in Callers : task'[j] = task[j] \/ task'[j].at = "idle",
           ~overlap' => OneMap(1)', FencedOK'
    PROVE  ExposureInv'
<1>1. 1 \in Workers /\ shifted \in BOOLEAN
  BY DEF Workers, ExposureInv, ExposureTypeOK
<1>2. Keeps
  <2>1. ASSUME NEW w \in Workers, record'[w] = "running"
        PROVE  record[w] = "running" /\ listening[w] \subseteq listening'[w]
    BY <2>1
  <2>2. QED
    BY <2>1 DEF Keeps
<1>3. RouteKept /\ RouteOK'
  BY <1>2, RouteStays DEF RouteKept, proxy
<1>4. MoverOK'
  <2>1. MoverKept
    BY NoMapApart DEF MoverKept, CallersMove, proxy
  <2>2. QED
    BY <2>1, MoverStays
<1>5. \A k \in Callers : CallerOK(k)'
  BY <1>2, <1>3, CallerStays
<1>6. ASSUME NEW k \in Callers PROVE TaskOK(k)'
  <2>1. TaskOK(k)
    BY DEF ExposureInv
  <2>2. QED
    BY <2>1 DEF TaskOK, CallersMove, At
<1>7. ASSUME NEW w \in Workers PROVE WorkerOK(w)'
  <2>1. WorkerOK(w) /\ current[w] \in Callers \cup {NoMap}
    BY DEF ExposureInv, ExposureTypeOK
  <2>2. current'[w] \in {current[w], NoMap}
    OBVIOUS
  <2>3. record'[w] = "running" =>
            record[w] = "running" /\ listening'[w] = listening[w] /\ exposed'[w] = exposed[w]
    OBVIOUS
  <2>4. QED
    BY <2>1, <2>2, <2>3 DEF WorkerOK, CallersMove
<1>8. ASSUME NEW w \in Workers, ~overlap' PROVE OneMap(w)'
  <2>1. CASE w = 1
    BY <1>8, <2>1
  <2>2. CASE w # 1
    <3>1. OneMap(w)
      BY <1>8 DEF ExposureInv
    <3>2. \A j \in Callers : ListensOn(j, w)' => ListensOn(j, w) /\ task'[j] = task[j]
      BY DEF ListensOn
    <3>3. QED
      BY <2>2, <3>1, <3>2 DEF OneMap
  <2>3. QED
    BY <2>1, <2>2
<1>9. ExposureTypeOK'
  BY <1>1 DEF ExposureInv, ExposureTypeOK, proxy
<1>10. QED
  BY <1>3, <1>4, <1>5, <1>6, <1>7, <1>8, <1>9 DEF ExposureInv

\* The relays of the current Map close. Unless handlers have met, there are no others.
LEMMA Closing ==
    ASSUME ExposureInv, CloseRelays, UNCHANGED task
    PROVE  /\ listening' \in [Workers -> SUBSET Relays]
           /\ \A w \in Workers : w # 1 => listening'[w] = listening[w]
           /\ overlap' \in BOOLEAN /\ (overlap => overlap')
           /\ ~overlap' => listening'[1] = {} /\ NoStart'
<1>1. /\ listening \in [Workers -> SUBSET Relays] /\ overlap \in BOOLEAN /\ 1 \in Workers
      /\ ~overlap => OneMap(1)
  BY DEF ExposureInv, ExposureTypeOK, Workers
<1>2. overlap' = (overlap \/ \E k \in Callers : task[k].worker = 1 /\ task[k].at \in {"plans", "listen"})
  BY DEF CloseRelays, MeetsHandlers
<1>3. ~overlap' => NoStart'
  BY <1>2 DEF NoStart
<1>4. CASE current[1] = NoMap
  BY <1>1, <1>2, <1>3, <1>4 DEF CloseRelays, OneMap
<1>5. CASE current[1] # NoMap
  <2>1. listening' = [listening EXCEPT ![1] = @ \ maps[current[1]]]
    BY <1>5 DEF CloseRelays
  <2>2. QED
    BY <1>1, <1>2, <1>3, <1>5, <2>1 DEF OneMap
<1>6. QED
  BY <1>4, <1>5

\* The migration's cleanup goes on.
LEMMA Cleaning ==
    ASSUME ExposureInv, \/ Goes(Mover, "closing") \/ Goes(Mover, "quarantine")
                        \/ Goes(Mover, "done") \/ Goes(Mover, "failed")
    PROVE  /\ CallersMove /\ caller' \in [Callers -> CallerStates]
           /\ \A j \in Callers : CallerRests(j)
           /\ caller'[Mover].at \in {"closing", "quarantine", "done", "failed"}
           /\ \A step \in {"closing", "quarantine", "done", "failed"} :
                 Goes(Mover, step) => caller'[Mover].at = step
<1>1. /\ CallersMove /\ caller' \in [Callers -> CallerStates]
      /\ \A j \in Callers : j # Mover => CallerRests(j)
      /\ \A step \in {"closing", "quarantine", "done", "failed"} :
            Goes(Mover, step) => caller'[Mover].at = step
  BY NoMapApart, Going
<1>2. caller'[Mover].at \in {"closing", "quarantine", "done", "failed"}
  BY <1>1
<1>3. CallerRests(Mover)
  BY <1>2 DEF CallerRests
<1>4. QED
  BY <1>1, <1>2, <1>3

\* The epoch is accepted: the record is fenced, and the relays close.
LEMMA FencedInv ==
    ASSUME ExposureInv, StoreInv', Fenced,
           UNCHANGED <<owner, row, rowSeen, exposed, portOwner, maps, current, shifted, task,
                       proxy, faults>>
    PROVE  ExposureInv'
<1>1. /\ record' = [record EXCEPT ![1] = "fenced"] /\ CloseRelays /\ Goes(Mover, "closing")
      /\ 1 \in Workers /\ record \in [Workers -> {"running", "fenced", "quarantined", "gone"}]
  BY DEF Fenced, ExposureInv, ExposureTypeOK, Workers
<1>2. /\ listening' \in [Workers -> SUBSET Relays]
      /\ \A w \in Workers : w # 1 => listening'[w] = listening[w]
      /\ overlap' \in BOOLEAN /\ (overlap => overlap')
      /\ ~overlap' => listening'[1] = {} /\ NoStart'
  BY <1>1, Closing
<1>3. /\ CallersMove /\ caller' \in [Callers -> CallerStates]
      /\ \A j \in Callers : CallerRests(j)
      /\ caller'[Mover].at = "closing"
  BY <1>1, Cleaning
<1>4. /\ record' \in [Workers -> {"running", "fenced", "quarantined", "gone"}]
      /\ record'[1] = "fenced" /\ \A w \in Workers : w # 1 => record'[w] = record[w]
  BY <1>1
<1>5. FencedOK'
  BY <1>2, <1>4 DEF FencedOK, RelaysStop
<1>6. ~overlap' => OneMap(1)'
  BY <1>2 DEF OneMap, NoStart, ListensOn
<1>7. QED
  BY <1>2, <1>3, <1>4, <1>5, <1>6, SourceSide DEF ExposureInv, ExposureTypeOK

LEMMA FenceSourceInv ==
    ASSUME ExposureInv, StoreInv', FenceSource
    PROVE  ExposureInv'
<1>1. CASE Fenced
  BY <1>1, FencedInv DEF FenceSource
<1>2. CASE ~Fenced
  BY <1>2, FenceAskedInv
<1>3. QED
  BY <1>1, <1>2

LEMMA EpochSyncedInv ==
    ASSUME ExposureInv, StoreInv', EpochSynced
    PROVE  ExposureInv'
<1>1. UNCHANGED <<owner, row, rowSeen, exposed, portOwner, maps, current, shifted, task,
                  proxy, faults>>
  BY DEF EpochSynced
<1>2. CASE Fenced
  BY <1>1, <1>2, FencedInv
<1>3. CASE UNCHANGED <<record, listening, overlap, caller>>
  <2>1. CallersMove /\ \A j \in Callers : CallerRests(j)
    BY <1>3 DEF CallersMove, CallerRests
  <2>2. FenceKept
    BY <1>1, <1>3 DEF FenceKept
  <2>3. FencedOK'
    BY <2>2, FenceStays
  <2>4. ~overlap' => OneMap(1)'
    BY <1>1, <1>3 DEF ExposureInv, OneMap, ListensOn, Workers
  <2>5. QED
    BY <1>1, <1>3, <2>1, <2>3, <2>4, SourceSide DEF ExposureInv, ExposureTypeOK, Workers
<1>4. QED
  BY <1>2, <1>3 DEF EpochSynced

\* The Map goes: what it had has closed.
LEMMA RelaysClosedInv ==
    ASSUME ExposureInv, StoreInv', RelaysClosed
    PROVE  ExposureInv'
<1>1. /\ At(Mover, "closing") /\ current' = [current EXCEPT ![1] = NoMap]
      /\ Goes(Mover, "quarantine") \/ Goes(Mover, "failed")
      /\ UNCHANGED <<owner, row, rowSeen, record, exposed, portOwner, listening, maps, task,
                     overlap, shifted, proxy>>
      /\ 1 \in Workers /\ current \in [Workers -> Callers \cup {NoMap}]
  BY DEF RelaysClosed, ExposureInv, ExposureTypeOK, Workers
<1>2. /\ CallersMove /\ caller' \in [Callers -> CallerStates]
      /\ \A j \in Callers : CallerRests(j)
      /\ caller'[Mover].at \in {"quarantine", "failed"}
  BY <1>1, Cleaning
<1>3. /\ current' \in [Workers -> Callers \cup {NoMap}] /\ current'[1] = NoMap
      /\ \A w \in Workers : w # 1 => current'[w] = current[w]
  BY <1>1
<1>4. FenceKept
  BY <1>1, <1>2 DEF FenceKept
<1>5. FencedOK /\ FencedOK'
  BY <1>4, FenceStays DEF ExposureInv
<1>6. ~overlap' => listening'[1] = {} /\ NoStart'
  BY <1>1, <1>5 DEF FencedOK, NoStart, At
<1>7. ~overlap' => OneMap(1)'
  BY <1>3, <1>6 DEF OneMap, NoStart, ListensOn
<1>8. faults' \in 0..MaxFaults
  <2>1. faults \in 0..MaxFaults /\ MaxFaults \in Nat
    BY ExposureConstants DEF ExposureInv, ExposureTypeOK
  <2>2. QED
    BY <2>1 DEF RelaysClosed, Fault
<1>9. QED
  BY <1>1, <1>2, <1>3, <1>5, <1>7, <1>8, SourceSide DEF ExposureInv, ExposureTypeOK

\* quarantineSandbox closes what it finds once more, and gives the host ports back.
LEMMA QuarantineInv ==
    ASSUME ExposureInv, StoreInv', Quarantine
    PROVE  ExposureInv'
<1>1. /\ CloseRelays /\ Goes(Mover, "done") /\ current' = [current EXCEPT ![1] = NoMap]
      /\ portOwner' = [portOwner EXCEPT ![1] = [h \in Ports |-> 0]]
      /\ record' = [record EXCEPT ![1] = "quarantined"]
      /\ UNCHANGED <<owner, row, rowSeen, exposed, maps, shifted, task, proxy, faults>>
      /\ 1 \in Workers /\ current \in [Workers -> Callers \cup {NoMap}]
      /\ record \in [Workers -> {"running", "fenced", "quarantined", "gone"}]
      /\ portOwner \in [Workers -> [Ports -> GuestPorts \cup {0}]]
  BY DEF Quarantine, ExposureInv, ExposureTypeOK, Workers
<1>2. /\ CallersMove /\ caller' \in [Callers -> CallerStates]
      /\ \A j \in Callers : CallerRests(j)
      /\ caller'[Mover].at = "done"
  BY <1>1, Cleaning
<1>3. /\ listening' \in [Workers -> SUBSET Relays]
      /\ \A w \in Workers : w # 1 => listening'[w] = listening[w]
      /\ overlap' \in BOOLEAN /\ (overlap => overlap')
      /\ ~overlap' => listening'[1] = {} /\ NoStart'
  BY <1>1, Closing
<1>4. /\ current' \in [Workers -> Callers \cup {NoMap}] /\ current'[1] = NoMap
      /\ \A w \in Workers : w # 1 => current'[w] = current[w]
      /\ record' \in [Workers -> {"running", "fenced", "quarantined", "gone"}]
      /\ record'[1] = "quarantined" /\ \A w \in Workers : w # 1 => record'[w] = record[w]
  BY <1>1
<1>5. /\ portOwner' \in [Workers -> [Ports -> GuestPorts \cup {0}]]
      /\ \A h \in Ports : portOwner'[1][h] = 0
  BY <1>1
<1>6. FencedOK'
  BY <1>2, <1>3, <1>4, <1>5 DEF FencedOK, RelaysStop, At
<1>7. ~overlap' => OneMap(1)'
  BY <1>3, <1>4 DEF OneMap, NoStart, ListensOn
<1>8. QED
  BY <1>1, <1>2, <1>3, <1>4, <1>5, <1>6, <1>7, SourceSide DEF ExposureInv, ExposureTypeOK

\* Nothing that a worker's process had outlives it.
LEMMA WorkerCrashInv ==
    ASSUME ExposureInv, StoreInv', WorkerCrash
    PROVE  ExposureInv'
<1> DEFINE lost == {k \in Callers : task[k].worker = 1}
<1>1. /\ record' = [record EXCEPT ![1] = "gone"] /\ exposed' = [exposed EXCEPT ![1] = {}]
      /\ portOwner' = [portOwner EXCEPT ![1] = [h \in Ports |-> 0]]
      /\ listening' = [listening EXCEPT ![1] = {}]
      /\ current' = [current EXCEPT ![1] = NoMap]
      /\ task' = [k \in Callers |-> IF k \in lost THEN NoTask ELSE task[k]]
      /\ caller' = [k \in Callers |->
                      IF \/ k \in lost /\ At(k, "worker")
                         \/ k = Mover /\ caller[k].at \in {"fencing", "closing", "quarantine"}
                      THEN [caller[k] EXCEPT !.at = "failed"] ELSE caller[k]]
      /\ UNCHANGED <<owner, row, rowSeen, maps, overlap, shifted, proxy, faults>>
  BY DEF WorkerCrash
<1>2. ExposureTypeOK /\ 1 \in Workers /\ NoTask \in Tasks /\ NoTask.at = "idle"
  BY ExposureConstants DEF ExposureInv, Workers, NoTask, Tasks, Ports
<1>3. /\ record' \in [Workers -> {"running", "fenced", "quarantined", "gone"}]
      /\ record'[1] = "gone" /\ \A w \in Workers : w # 1 => record'[w] = record[w]
      /\ exposed' \in [Workers -> SUBSET Relays]
      /\ \A w \in Workers : w # 1 => exposed'[w] = exposed[w]
      /\ portOwner' \in [Workers -> [Ports -> GuestPorts \cup {0}]]
  BY <1>1, <1>2 DEF ExposureTypeOK
<1>4. /\ listening' \in [Workers -> SUBSET Relays] /\ listening'[1] = {}
      /\ \A w \in Workers : w # 1 => listening'[w] = listening[w]
      /\ current' \in [Workers -> Callers \cup {NoMap}] /\ current'[1] = NoMap
      /\ \A w \in Workers : w # 1 => current'[w] = current[w]
  BY <1>1, <1>2 DEF ExposureTypeOK
<1>5. /\ task' \in [Callers -> Tasks]
      /\ \A j \in Callers : task'[j] = task[j] \/ task'[j].at = "idle"
      /\ \A j \in Callers : task[j].worker = 1 => task'[j].at = "idle"
  BY <1>1, <1>2 DEF ExposureTypeOK
<1> HIDE DEF lost
<1>6. ASSUME NEW k \in Callers
      PROVE  /\ caller'[k] \in CallerStates
             /\ caller'[k].epoch = caller[k].epoch /\ caller'[k].guest = caller[k].guest
             /\ caller'[k] = caller[k] \/ caller'[k].at = "failed"
  <2>1. caller[k] \in CallerStates
    BY <1>2 DEF ExposureTypeOK
  <2>2. caller'[k] = caller[k] \/ caller'[k] = [caller[k] EXCEPT !.at = "failed"]
    BY <1>1
  <2>3. QED
    BY <2>1, <2>2 DEF CallerStates
<1>7. /\ CallersMove /\ caller' \in [Callers -> CallerStates]
      /\ \A j \in Callers : CallerRests(j)
  <2>1. CallersMove
    <3>1. ASSUME NEW k \in Callers, caller'[k].at = "idle" PROVE caller[k].at = "idle"
      BY <1>6, <3>1
    <3>2. QED
      BY <1>6, <3>1 DEF CallersMove
  <2>2. \A j \in Callers : CallerRests(j)
    BY <1>6 DEF CallerRests
  <2>3. caller' \in [Callers -> CallerStates]
    <3>1. caller' = [k \in Callers |-> caller'[k]]
      BY <1>1
    <3>2. QED
      BY <1>6, <3>1
  <2>4. QED
    BY <2>1, <2>2, <2>3
<1>8. caller'[Mover] = caller[Mover] \/ caller'[Mover].at = "failed"
  BY <1>6, NoMapApart
<1>9. caller'[Mover].at # "closing"
  <2>1. Mover \in Callers /\ caller[Mover] \in CallerStates
    BY <1>2, NoMapApart DEF ExposureTypeOK
  <2>2. CASE caller[Mover].at = "closing"
    BY <1>1, <2>1, <2>2 DEF CallerStates
  <2>3. QED
    BY <1>8, <2>2
<1>10. FencedOK'
  BY <1>3, <1>9 DEF FencedOK, RelaysStop, At
<1>11. ~overlap' => OneMap(1)'
  <2>1. ASSUME NEW j \in Callers PROVE ~ListensOn(j, 1)'
    BY <1>5 DEF ListensOn
  <2>2. QED
    BY <1>4, <2>1 DEF OneMap
<1>12. overlap \in BOOLEAN /\ faults' \in 0..MaxFaults
  BY <1>1, <1>2 DEF ExposureTypeOK
<1>13. QED
  BY <1>1, <1>3, <1>4, <1>5, <1>7, <1>8, <1>10, <1>11, <1>12, SourceSide

-----------------------------------------------------------------------------
(* The invariant, and what it says.                                        *)

LEMMA InitExposureInv == ASSUME ExposureInit PROVE ExposureInv
<1>1. StoreInv
  BY StoreInvCreated
<1>2. /\ 0 \in Ports /\ 0 \in GuestPorts \cup {0} /\ MaxFaults \in Nat /\ 1 \in Workers
      /\ Workers = {1, 2} /\ 0 \notin Workers /\ Mover \in Callers
  BY ExposureConstants, NoMapApart DEF Ports, Workers
<1>3. /\ NoRoute \in Routes /\ NoTask \in Tasks /\ NoRow \in [guest : GuestPorts \cup {0}, port : 0..2]
      /\ [at |-> "idle", guest |-> 0, epoch |-> 0, host |-> 0, port |-> 0] \in CallerStates
  <2>1. NoRoute \in Routes
    BY <1>2 DEF NoRoute, Routes
  <2>2. NoTask \in Tasks
    BY <1>2 DEF NoTask, Tasks
  <2>3. NoRow \in [guest : GuestPorts \cup {0}, port : 0..2]
    BY DEF NoRow
  <2>4. [at |-> "idle", guest |-> 0, epoch |-> 0, host |-> 0, port |-> 0] \in CallerStates
    BY <1>2 DEF CallerStates
  <2>5. QED
    BY <2>1, <2>2, <2>3, <2>4
<1>4. ExposureTypeOK
  <2>1. /\ owner \in Workers /\ route \in Routes /\ made \in Routes
        /\ row \in [guest : GuestPorts \cup {0}, port : 0..2]
        /\ {rowSeen, overlap, shifted, routeCrashed} \subseteq BOOLEAN
        /\ faults \in 0..MaxFaults
    <3>1. owner = 1 /\ route = NoRoute /\ made = NoRoute /\ row = NoRow
      BY DEF ExposureInit
    <3>2. faults = 0 /\ 0 \in 0..MaxFaults
      BY <1>2 DEF ExposureInit
    <3>3. {rowSeen, overlap, shifted, routeCrashed} \subseteq BOOLEAN
      BY DEF ExposureInit
    <3>4. QED
      BY <1>2, <1>3, <3>1, <3>2, <3>3
  <2>2. /\ caller \in [Callers -> CallerStates] /\ task \in [Callers -> Tasks]
        /\ maps \in [Callers -> SUBSET Relays]
    BY <1>3 DEF ExposureInit
  <2>3. /\ record \in [Workers -> {"running", "fenced", "quarantined", "gone"}]
        /\ exposed \in [Workers -> SUBSET Relays] /\ listening \in [Workers -> SUBSET Relays]
        /\ current \in [Workers -> Callers \cup {NoMap}]
        /\ portOwner \in [Workers -> [Ports -> GuestPorts \cup {0}]]
    BY DEF ExposureInit
  <2>4. QED
    BY <2>1, <2>2, <2>3 DEF ExposureTypeOK
<1>5. ASSUME NEW k \in Callers PROVE TaskOK(k) /\ CallerOK(k)
  <2>1. caller[k].at = "idle" /\ caller[k].epoch = 0 /\ maps[k] = {} /\ task[k].at = "idle"
    BY DEF ExposureInit, NoTask
  <2>2. QED
    BY <2>1 DEF TaskOK, CallerOK, At
<1>6. ASSUME NEW w \in Workers PROVE WorkerOK(w) /\ OneMap(w)
  <2>1. current[w] = NoMap /\ listening[w] = {} /\ exposed[w] = {} /\ \A k \in Callers : maps[k] = {}
    BY DEF ExposureInit
  <2>2. \A k \in Callers : ~ListensOn(k, w)
    BY DEF ExposureInit, NoTask, ListensOn
  <2>3. QED
    BY <2>1, <2>2 DEF WorkerOK, OneMap
<1>7. record[1] = "running" /\ caller[Mover].at = "idle" /\ owner = 1 /\ rowSeen = FALSE
      /\ route = NoRoute /\ made = NoRoute /\ row = NoRow
  BY <1>2 DEF ExposureInit
<1>8. FencedOK /\ RouteOK /\ MoverOK
  BY <1>7 DEF FencedOK, RelaysStop, RouteOK, RowHasRoute, MoverOK, RouteFollowsCutover, At
<1>9. QED
  BY <1>1, <1>4, <1>5, <1>6, <1>8 DEF ExposureInv

\* Other steps of the store are none of its other users'.
LEMMA StoreOnly ==
    ASSUME ExposureInv, StoreInv', UNCHANGED <<coordinator, record, relays, task, proxy, faults>>
    PROVE  ExposureInv'
<1>1. Keeps /\ RouteKept /\ MoverKept /\ FenceKept /\ CallersMove
  BY DEF Keeps, RouteKept, MoverKept, FenceKept, CallersMove, coordinator, relays, proxy
<1>2. \A k \in Callers : CallerOK(k)'
  BY <1>1, CallerStays DEF CallerRests, coordinator
<1>3. RouteOK' /\ FencedOK' /\ MoverOK'
  BY <1>1, RouteStays, FenceStays, MoverStays DEF proxy, coordinator
<1>4. QED
  BY <1>1, <1>2, <1>3, WorkerSide DEF coordinator, proxy, ExposureInv, ExposureTypeOK

LEMMA NextExposureInv ==
    ASSUME ExposureInv, [ExposureNext]_exposureVars PROVE ExposureInv'
<1>1. StoreInv'
  BY StoreInvStep, StoreSteps DEF ExposureInv
<1>2. ASSUME NEW r \in Requests, Requesting(r) PROVE ExposureInv'
  BY <1>1, <1>2, ExposeInv, CreateRouteInv, RouteAnsweredInv, InsertPortInv DEF Requesting
<1>3. ASSUME NEW k \in Callers, Handling(k) PROVE ExposureInv'
  BY <1>1, <1>3, AdmitInv, StartInv, ListenInv DEF Handling
<1>4. ASSUME NEW k \in Callers, HandlerFails(k) \/ CallFails(k) PROVE ExposureInv'
  BY <1>1, <1>4, HandlerFailsInv, CallFailsInv
<1>5. CASE SetProxyPort \/ RouteCrash \/ EpochSynced \/ EpochNotPersisted \/ WorkerCrash
  BY <1>1, <1>5, SetProxyPortInv, RouteCrashInv, EpochSyncedInv, FenceAskedInv, WorkerCrashInv
<1>6. CASE Moving
  BY <1>1, <1>6, RepointInv, UpdateEndpointInv, CompleteCutoverInv, FenceSourceInv,
     RelaysClosedInv, QuarantineInv, CleanupAgainInv, TransferExposesInv DEF Moving
<1>7. CASE Persists \/ OtherAccepts
  BY <1>1, <1>7, StoreOnly DEF Persists, OtherAccepts
<1>8. CASE UNCHANGED exposureVars
  BY <1>1, <1>8, StoreOnly DEF exposureVars
<1>9. QED
  BY <1>2, <1>3, <1>4, <1>5, <1>6, <1>7, <1>8 DEF ExposureNext

THEOREM ExposureInvariant == ExposureSpec => []ExposureInv
<1>1. ExposureInit => ExposureInv
  BY InitExposureInv
<1>2. ExposureInv /\ [ExposureNext]_exposureVars => ExposureInv'
  BY NextExposureInv
<1>3. QED
  BY <1>1, <1>2, PTL DEF ExposureSpec

THEOREM ExposureTypes == ExposureSpec => []ExposureTypeOK
BY ExposureInvariant, PTL DEF ExposureInv

\* The route leads to a relay of its port (worker-guest-ops.ts, relay.ts, exposure.ex).
THEOREM RouteIsServed == ExposureSpec => []RouteReachesRelay
<1>1. ASSUME ExposureInv PROVE RouteReachesRelay
  <2> SUFFICES ASSUME route # NoRoute, row.guest \in {0, route.guest},
                      record[route.worker] = "running", ~shifted
               PROVE  [guest |-> route.guest, host |-> route.host] \in listening[route.worker]
    BY DEF RouteReachesRelay
  <2>1. \/ Served(route.worker, route.guest, route.host)
        \/ row # NoRow /\ Served(route.worker, row.guest, route.host)
    BY <1>1 DEF ExposureInv, RouteOK
  <2>2. row # NoRow => row.guest = route.guest
    BY <1>1, ExposureConstants DEF ExposureInv, RouteOK
  <2>3. QED
    BY <2>1, <2>2 DEF Served
<1>2. QED
  BY <1>1, ExposureInvariant, PTL

\* The port that clients are told is the route's (ports, route_manager.ex).
THEOREM StoredPortIsTheRoutes == ExposureSpec => []RowHasRoute
<1>1. ExposureInv => RowHasRoute
  BY DEF ExposureInv, RouteOK
<1>2. QED
  BY <1>1, ExposureInvariant, PTL

\* The cutover moves the route before the owner (runner/proxy.ex, complete_cutover).
THEOREM CutoverMovesRoute == ExposureSpec => []RouteFollowsCutover
<1>1. ExposureInv => RouteFollowsCutover
  BY DEF ExposureInv, MoverOK
<1>2. QED
  BY <1>1, ExposureInvariant, PTL

\* No relay and no host port survives the cleanup (worker-fence.ts, relay.ts).
THEOREM SourceRelaysStop == ExposureSpec => []RelaysStop
<1>1. ExposureInv => RelaysStop
  BY DEF ExposureInv, FencedOK
<1>2. QED
  BY <1>1, ExposureInvariant, PTL
=============================================================================
