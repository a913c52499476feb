----------------------------- MODULE WorkerProofs -----------------------------
(***************************************************************************)
(* What a worker guarantees to any caller, for any number of workers,      *)
(* migrations, requests in flight, writes and restarts: no snapshot is     *)
(* restored twice, no process runs beside another one's directory, and     *)
(* the fence never moves back.                                             *)
(***************************************************************************)
EXTENDS WorkerAlone, FiniteSetTheorems, TLAPS

AloneTypeOK ==
    /\ WorkerTypeOK
    /\ restored \in [Workers -> [Migrations -> Nat]]
    /\ starts   \in [Workers -> [Migrations -> 0..2]]

\* A request is for the worker its operation is about, under the epoch of its migration, and
\* its manifest holds writes that were made.
CallsOK ==
    /\ IsFiniteSet(requests)
    /\ \A r \in requests :
          /\ r.worker = IF r.op \in SourceCalls THEN Journey[r.m].source
                                                ELSE Journey[r.m].destination
          /\ r.epoch = IF r.op \in SourceCalls \ {"fence"} THEN Journey[r.m].epoch
                                                           ELSE Journey[r.m].epoch + 1
          /\ r.image <= written

\* The handlers that run on worker w.
At(w) == {r \in requests : r.worker = w /\ r.stage = "running"}

Resumes == {"resume", "rollback"}

\* The states of a record whose process has loaded nothing.
Unloaded == {"none", "booting", "fenced", "quarantined"}

\* What was restored for m on w has passed there, with the epoch of m.
Spent(w, m) == restored[w][m] > 0 => accepted[w] > Journey[m].epoch + 1

FilesOK(w) ==
    /\ image[w] <= written
    /\ files[w] # NoFiles => files[w] <= written
    /\ registered[w] # NoFiles => files[w] # NoFiles

RecordOK(w) ==
    /\ rec[w].epoch <= accepted[w]
    /\ rec[w].state = "none" => rec[w].loaded = None /\ consumed[w] = {}
    /\ vm[w] = "idle" => rec[w].state \in Unloaded /\ rec[w].loaded = None /\ consumed[w] = {}
    /\ vm[w] # "none" => occupied[w]

\* What is true of the guest restored for m on w.  A worker that can load m has not restored
\* it before: else the epoch of m has passed with the fence that made room.
SnapshotOK(w, m) ==
    /\ restored[w][m] <= 1
    /\ restored[w][m] = 0 => starts[w][m] = 0
    /\ restored[w][m] > 0 \/ rec[w].loaded = m =>
          Journey[m].destination = w /\ accepted[w] > Journey[m].epoch
    /\ ~occupied[w] \/ vm[w] = "idle" => Spent(w, m)
    /\ rec[w].loaded = m => starts[w][m] <= 1
    /\ rec[w].loaded = m /\ m \notin consumed[w] => starts[w][m] = 0

StateOK(w) == FilesOK(w) /\ RecordOK(w) /\ \A m \in Migrations : SnapshotOK(w, m)

\* What a handler that waits may rely on when it goes on.
HandlerOK(w, r) ==
    /\ r.epoch <= accepted[w]
    /\ r.op = "prestage" => /\ rec[w].state = "none" /\ vm[w] = "none" /\ occupied[w]
                            /\ \A m \in Migrations : Spent(w, m)
    /\ r.op # "prestage" => rec[w].state # "none"
    /\ r.op = "load" => /\ files[w] # NoFiles
                        /\ vm[w] = "idle" => restored[w][r.m] = 0
    /\ r.op \in Resumes => /\ vm[w] # "idle"
                           /\ \A m \in Migrations : rec[w].loaded = m =>
                                 m \in consumed[w] /\ starts[w][m] = 0
    /\ r.op = "fence" => /\ rec[w].state # "booting"
                         /\ \A m \in Migrations : restored[w][m] > 0 \/ rec[w].loaded = m =>
                               r.epoch > Journey[m].epoch + 1

\* Two handlers that wait on one worker: one reservation at a time, one resume of a loaded
\* guest, and no load for a migration that a fence is not past.
Apart(w, r, q) ==
    /\ r.op = "prestage" => q.op = "prestage" /\ q.m = r.m
    /\ r.op \in Resumes /\ q.op \in Resumes => rec[w].loaded = None
    /\ r.op = "fence" /\ q.op = "load" => r.epoch > Journey[q.m].epoch + 1

HandlersOK(w) == /\ \A r \in At(w) : HandlerOK(w, r)
                 /\ \A r, q \in At(w) : r # q => Apart(w, r, q)

WorkerInv ==
    /\ AloneTypeOK
    /\ CallsOK
    /\ \A w \in Workers : StateOK(w) /\ HandlersOK(w)

-----------------------------------------------------------------------------
(* Requests.                                                               *)

\* What a request keeps until it is answered.
Same(q, p) == /\ q.op = p.op /\ q.m = p.m /\ q.worker = p.worker /\ q.source = p.source
              /\ q.epoch = p.epoch /\ q.image = p.image /\ q.stage = p.stage

\* The requests of kept go on, some of them in another place of their queue.
GoOn(kept, f) == /\ kept \subseteq requests
                 /\ \A p \in kept : f[p] \in Request /\ Same(f[p], p)

RequestsTypeOK ==
    /\ requests \subseteq Request
    /\ replies  \in [Migrations -> [status : {"none", "ok", "error"}, image : 0..MaxWrites]]

RestTypeOK ==
    /\ rec        \in [Workers -> [state : RecordStates \cup {"none"}, epoch : Nat,
                                   loaded : Migrations \cup {None}]]
    /\ accepted   \in [Workers -> Nat]
    /\ occupied   \in [Workers -> BOOLEAN]
    /\ vm         \in [Workers -> {"none", "idle", "running", "paused"}]
    /\ image      \in [Workers -> 0..MaxWrites]
    /\ files      \in [Workers -> 0..NoFiles]
    /\ registered \in [Workers -> 0..NoFiles]
    /\ manifests  \in [Workers -> SUBSET (Migrations \X (0..MaxWrites))]
    /\ prepared   \in [Workers -> SUBSET Migrations]
    /\ consumed   \in [Workers -> SUBSET Migrations]
    /\ written    \in 0..MaxWrites
    /\ workerRestarts \in 0..MaxWorkerRestarts

LEMMA Types == WorkerTypeOK <=> RequestsTypeOK /\ RestTypeOK
BY DEF WorkerTypeOK, RequestsTypeOK, RestTypeOK

LEMMA TypesNext == WorkerTypeOK' <=> RequestsTypeOK' /\ RestTypeOK'
BY DEF WorkerTypeOK, RequestsTypeOK, RestTypeOK

\* The others move up in their queue when the handlers of done leave it.
LEMMA MovingUp ==
    ASSUME WorkerInv, NEW done \in SUBSET requests
    PROVE  \E f : /\ GoOn(requests \ done, f)
                  /\ {MovedUp(p, done) : p \in requests \ done} = {f[p] : p \in requests \ done}
                  /\ IsFiniteSet({f[p] : p \in requests \ done})
<1>0. requests \subseteq Request /\ IsFiniteSet(requests)
  BY DEF WorkerInv, AloneTypeOK, WorkerTypeOK, CallsOK
<1> DEFINE kept == requests \ done
<1> DEFINE g == [p \in kept |-> MovedUp(p, done)]
<1>1. ASSUME NEW p \in kept PROVE g[p] \in Request /\ Same(g[p], p)
  <2>0. p \in Request /\ g[p] = MovedUp(p, done)
    BY <1>0
  <2>1. CASE p.turn > 0 /\ \E r \in done : r.worker = p.worker /\ r.turn > 0
    <3>1. g[p] = [p EXCEPT !.turn = @ - 1]
      BY <2>0, <2>1 DEF MovedUp
    <3>2. p.turn - 1 \in Nat
      BY <2>0, <2>1 DEF Request
    <3> QED BY <2>0, <3>1, <3>2 DEF Request, Same
  <2>2. CASE ~(p.turn > 0 /\ \E r \in done : r.worker = p.worker /\ r.turn > 0)
    BY <2>0, <2>2 DEF MovedUp, Same
  <2> QED BY <2>1, <2>2
<1>2. {MovedUp(p, done) : p \in kept} = {g[p] : p \in kept}
  OBVIOUS
<1>3. GoOn(kept, g)
  BY <1>1 DEF GoOn
<1>4. IsFiniteSet({g[p] : p \in kept})
  <2>1. IsFiniteSet(kept)
    BY <1>0, FS_Subset
  <2>2. PICK img : img = {g[p] : p \in kept}
    OBVIOUS
  <2>3. g \in Surjection(kept, img)
    BY <2>2 DEF Surjection
  <2> QED BY <2>1, <2>2, <2>3, FS_Surjection
<1> QED BY <1>2, <1>3, <1>4

\* A handler that returns takes its request away; the others move up.
LEMMA Replying ==
    ASSUME WorkerInv, NEW done \in SUBSET requests, NEW status \in {"ok", "error"},
           NEW img \in 0..MaxWrites, Reply(done, status, img)
    PROVE  /\ RequestsTypeOK'
           /\ IsFiniteSet(requests')
           /\ \E f : /\ GoOn(requests \ done, f)
                     /\ requests' = {f[p] : p \in requests \ done}
<1>1. PICK f : /\ GoOn(requests \ done, f)
               /\ {MovedUp(p, done) : p \in requests \ done} = {f[p] : p \in requests \ done}
               /\ IsFiniteSet({f[p] : p \in requests \ done})
  BY MovingUp
<1>2. requests' = {f[p] : p \in requests \ done}
  BY <1>1 DEF Reply
<1>3. requests' \subseteq Request
  BY <1>1, <1>2 DEF GoOn
<1>4. replies' \in [Migrations -> [status : {"none", "ok", "error"}, image : 0..MaxWrites]]
  BY DEF Reply, WorkerInv, AloneTypeOK, WorkerTypeOK
<1> QED BY <1>1, <1>2, <1>3, <1>4 DEF RequestsTypeOK

\* A handler that begins to wait keeps its request, as one that runs.
LEMMA Awaiting ==
    ASSUME WorkerInv, NEW r \in requests, Await(r)
    PROVE  /\ RequestsTypeOK'
           /\ IsFiniteSet(requests')
           /\ \E n : /\ requests' = (requests \ {r}) \cup {n}
                     /\ n.op = r.op /\ n.m = r.m /\ n.worker = r.worker /\ n.epoch = r.epoch
                     /\ n.image = r.image /\ n.stage = "running"
<1>0. r \in Request /\ requests \subseteq Request /\ IsFiniteSet(requests)
  BY DEF WorkerInv, AloneTypeOK, WorkerTypeOK, CallsOK
<1>1. Cardinality(Queued(r.worker)) \in Nat
  <2>1. Queued(r.worker) \in SUBSET requests
    BY DEF Queued
  <2> QED BY <1>0, <2>1, FS_Subset, FS_CardinalityType
<1> DEFINE place == IF r.op \in FirecrackerCalls THEN Cardinality(Queued(r.worker)) + 1 ELSE 0
<1>a. PICK t : t = place
  OBVIOUS
<1>2. t \in Nat /\ requests' = (requests \ {r}) \cup
                                {[r EXCEPT !.stage = "running", !.turn = t]}
  BY <1>1, <1>a DEF Await
<1>3. PICK n : n = [r EXCEPT !.stage = "running", !.turn = t]
  OBVIOUS
<1>4. /\ n \in Request
      /\ n.op = r.op /\ n.m = r.m /\ n.worker = r.worker /\ n.epoch = r.epoch
      /\ n.image = r.image /\ n.stage = "running"
  BY <1>0, <1>2, <1>3 DEF Request
<1>5. requests' \subseteq Request
  BY <1>0, <1>2, <1>3, <1>4
<1>6. IsFiniteSet(requests')
  <2>1. IsFiniteSet(requests \ {r})
    BY <1>0, FS_Subset
  <2> QED BY <1>2, <2>1, FS_AddElement
<1>7. replies' \in [Migrations -> [status : {"none", "ok", "error"}, image : 0..MaxWrites]]
  BY DEF Await, WorkerInv, AloneTypeOK, WorkerTypeOK
<1> QED BY <1>2, <1>3, <1>4, <1>5, <1>6, <1>7 DEF RequestsTypeOK

-----------------------------------------------------------------------------
(* Steps that disturb nobody.                                              *)

\* What most steps do to a worker: the record and the guest may change, but the record stays a
\* record, nothing starts and nothing is loaded.
Calm(v) ==
    /\ accepted'[v] >= accepted[v]
    /\ rec'[v].loaded = rec[v].loaded /\ rec'[v].epoch <= accepted'[v]
    /\ rec'[v].state = "none" <=> rec[v].state = "none"
    /\ rec'[v].state = "booting" => rec[v].state = "booting"
    /\ vm'[v] = "running" => vm[v] = "running"
    /\ vm[v] = "idle" => vm'[v] # "paused"
    /\ vm'[v] # "none" => vm[v] # "none"
    /\ vm'[v] = "idle" => /\ vm[v] = "idle" /\ rec'[v].state \in Unloaded
                          /\ consumed'[v] = consumed[v]
    /\ rec[v].state = "none" => consumed'[v] = consumed[v]
    /\ consumed[v] \subseteq consumed'[v]
    /\ occupied[v] => occupied'[v]
    /\ FilesOK(v)'
    /\ files[v] # NoFiles => files'[v] # NoFiles

Rises == \A w \in Workers : accepted'[w] >= accepted[w]

\* The history of v stays as it is.
Unrun(v) == \A m \in Migrations : /\ starts'[v][m] = starts[v][m]
                                  /\ restored'[v][m] = restored[v][m]

\* Nothing is counted where no snapshot is restored and no guest begins to run.
LEMMA NoRun ==
    ASSUME AloneTypeOK, CountRuns, NEW v \in Workers,
           vm'[v] = "running" => vm[v] = "running", vm[v] = "idle" => vm'[v] # "paused"
    PROVE  Unrun(v)
<1>1. ~Starts(v) /\ \A m \in Migrations : ~Restores(v, m)
  BY DEF Starts, Restores
<1>2. \A m \in Migrations : restored[v][m] \in Nat
  BY DEF AloneTypeOK
<1> QED BY <1>1, <1>2 DEF CountRuns, Unrun

\* The same of a step that leaves every process as it is.
LEMMA NoneRuns ==
    ASSUME AloneTypeOK, CountRuns, UNCHANGED vm PROVE starts' = starts /\ restored' = restored
<1>1. \A w \in Workers : Unrun(w)
  BY NoRun
<1>2. /\ starts' = [w \in Workers |-> [m \in Migrations |-> starts'[w][m]]]
      /\ restored' = [w \in Workers |-> [m \in Migrations |-> restored'[w][m]]]
  BY DEF CountRuns
<1>3. /\ starts = [w \in Workers |-> [m \in Migrations |-> starts[w][m]]]
      /\ restored = [w \in Workers |-> [m \in Migrations |-> restored[w][m]]]
  BY DEF AloneTypeOK
<1> QED BY <1>1, <1>2, <1>3 DEF Unrun

LEMMA HistoryType ==
    ASSUME AloneTypeOK, CountRuns
    PROVE  /\ restored' \in [Workers -> [Migrations -> Nat]]
           /\ starts'   \in [Workers -> [Migrations -> 0..2]]
<1>1. \A w \in Workers, m \in Migrations :
         /\ restored[w][m] + (IF Restores(w, m) THEN 1 ELSE 0) \in Nat
         /\ starts[w][m] \in 0..2
         /\ starts[w][m] < 2 => starts[w][m] + 1 \in 0..2
  BY DEF AloneTypeOK
<1> QED BY <1>1 DEF CountRuns

\* The facts about one worker that the other lemmas reason with.
LEMMA TypesAt ==
    ASSUME AloneTypeOK, NEW v \in Workers
    PROVE  /\ accepted[v] \in Nat /\ rec[v].epoch \in Nat
           /\ rec[v].loaded \in Migrations \cup {None}
           /\ consumed[v] \subseteq Migrations
           /\ \A m \in Migrations : /\ starts[v][m] \in Nat /\ restored[v][m] \in Nat
                                   /\ Journey[m].epoch \in Nat
           /\ image[v] \in Nat /\ files[v] \in Nat /\ registered[v] \in Nat /\ written \in Nat
<1>1. ASSUME NEW m \in Migrations
      PROVE  starts[v][m] \in Nat /\ restored[v][m] \in Nat /\ Journey[m].epoch \in Nat
  <2>1. Journey[m].epoch \in Nat
    BY JourneyAssumption
  <2>2. starts[v][m] \in 0..2 /\ restored[v][m] \in Nat
    BY DEF AloneTypeOK
  <2> QED BY <2>1, <2>2
<1>2. MaxWrites \in Nat /\ WorkerTypeOK
  BY WorkerBoundsAssumption DEF AloneTypeOK
<1>3. image[v] \in Nat /\ files[v] \in Nat /\ registered[v] \in Nat /\ written \in Nat
  BY <1>2 DEF WorkerTypeOK, NoFiles
<1> QED BY <1>1, <1>2, <1>3 DEF WorkerTypeOK

LEMMA TypesAtNext ==
    ASSUME AloneTypeOK', NEW v \in Workers
    PROVE  /\ accepted'[v] \in Nat /\ rec'[v].epoch \in Nat
           /\ rec'[v].loaded \in Migrations \cup {None}
           /\ \A m \in Migrations : /\ starts'[v][m] \in Nat /\ restored'[v][m] \in Nat
                                   /\ Journey[m].epoch \in Nat
           /\ image'[v] \in Nat /\ files'[v] \in Nat /\ registered'[v] \in Nat /\ written' \in Nat
<1>1. ASSUME NEW m \in Migrations
      PROVE  starts'[v][m] \in Nat /\ restored'[v][m] \in Nat /\ Journey[m].epoch \in Nat
  <2>1. Journey[m].epoch \in Nat
    BY JourneyAssumption
  <2>2. starts'[v][m] \in 0..2 /\ restored'[v][m] \in Nat
    BY DEF AloneTypeOK
  <2> QED BY <2>1, <2>2
<1>2. MaxWrites \in Nat /\ WorkerTypeOK'
  BY WorkerBoundsAssumption DEF AloneTypeOK
<1>3. image'[v] \in Nat /\ files'[v] \in Nat /\ registered'[v] \in Nat /\ written' \in Nat
  BY <1>2 DEF WorkerTypeOK, NoFiles
<1> QED BY <1>1, <1>2, <1>3 DEF WorkerTypeOK

LEMMA CalmState ==
    ASSUME AloneTypeOK, AloneTypeOK', NEW v \in Workers, StateOK(v), Calm(v), Unrun(v)
    PROVE  StateOK(v)'
<1>1. FilesOK(v)'
  BY DEF Calm
<1>2. RecordOK(v)'
  BY DEF Calm, StateOK, RecordOK
<1>3. ASSUME NEW m \in Migrations PROVE SnapshotOK(v, m)'
  BY TypesAt, TypesAtNext DEF Calm, Unrun, StateOK, RecordOK, SnapshotOK, Spent
<1> QED BY <1>1, <1>2, <1>3 DEF StateOK

LEMMA CalmHandler ==
    ASSUME AloneTypeOK, AloneTypeOK', NEW v \in Workers, Calm(v), Unrun(v),
           NEW p \in Request, NEW q \in Request, Same(q, p), HandlerOK(v, p)
    PROVE  HandlerOK(v, q)'
<1>0. p.epoch \in Nat /\ p.m \in Migrations
  BY DEF Request
<1>1. q.epoch <= accepted'[v]
  BY <1>0, TypesAt, TypesAtNext DEF Calm, Same, HandlerOK
<1>2. q.op = "prestage" => /\ rec'[v].state = "none" /\ vm'[v] = "none" /\ occupied'[v]
                           /\ \A m \in Migrations : Spent(v, m)'
  BY TypesAt, TypesAtNext DEF Calm, Unrun, Same, HandlerOK, Spent
<1>3. q.op # "prestage" => rec'[v].state # "none"
  BY DEF Calm, Same, HandlerOK
<1>4. q.op = "load" => files'[v] # NoFiles /\ (vm'[v] = "idle" => restored'[v][q.m] = 0)
  BY <1>0 DEF Calm, Unrun, Same, HandlerOK
<1>5. q.op \in Resumes => /\ vm'[v] # "idle"
                          /\ \A m \in Migrations : rec'[v].loaded = m =>
                                m \in consumed'[v] /\ starts'[v][m] = 0
  BY DEF Calm, Unrun, Same, HandlerOK
<1>6. q.op = "fence" => /\ rec'[v].state # "booting"
                        /\ \A m \in Migrations : restored'[v][m] > 0 \/ rec'[v].loaded = m =>
                              q.epoch > Journey[m].epoch + 1
  BY DEF Calm, Unrun, Same, HandlerOK
<1> QED BY <1>1, <1>2, <1>3, <1>4, <1>5, <1>6 DEF HandlerOK

LEMMA CalmApart ==
    ASSUME NEW v \in Workers, rec'[v].loaded = rec[v].loaded,
           NEW p1, NEW p2, NEW q1, NEW q2, Same(q1, p1), Same(q2, p2), Apart(v, p1, p2)
    PROVE  Apart(v, q1, q2)'
BY DEF Same, Apart

\* The requests of kept go on, and those of new are there besides.
After(kept, f, new) ==
    /\ GoOn(kept, f)
    /\ \A q \in requests' : q \in new \/ \E p \in kept : q = f[p]

\* The handlers in new, at most one, find what they need on v and get on with the others.
Joins(v, kept, new) ==
    /\ new \subseteq requests'
    /\ \A n1, n2 \in new : n1 = n2
    /\ \A n \in new : n.worker = v /\ n.stage = "running" =>
          /\ HandlerOK(v, n)'
          /\ \A p \in kept : p \in At(v) => Apart(v, p, n)' /\ Apart(v, n, p)'

\* The handlers of a worker after a calm step: those that go on, and one that may have begun.
LEMMA CalmHandlers ==
    ASSUME WorkerInv, AloneTypeOK', NEW v \in Workers, Calm(v), Unrun(v),
           NEW kept, NEW f, NEW new, After(kept, f, new), Joins(v, kept, new)
    PROVE  HandlersOK(v)'
<1>0. /\ AloneTypeOK /\ HandlersOK(v) /\ kept \subseteq requests
      /\ requests \subseteq Request /\ requests' \subseteq Request
      /\ \A p \in kept : f[p] \in Request /\ Same(f[p], p) /\ p \in Request
  BY DEF WorkerInv, AloneTypeOK, WorkerTypeOK, After, GoOn
<1>1. ASSUME NEW q \in At(v)'
      PROVE  q \in new \/ \E p \in kept : q = f[p] /\ p \in At(v)
  BY <1>0, <1>1 DEF At, Same, After
<1>2. ASSUME NEW q \in At(v)' PROVE HandlerOK(v, q)'
  <2>1. CASE q \in new
    BY <2>1 DEF At, Joins
  <2>2. ASSUME NEW p \in kept, q = f[p], p \in At(v) PROVE HandlerOK(v, q)'
    <3>1. HandlerOK(v, p) /\ Same(q, p) /\ p \in Request /\ q \in Request
      BY <1>0, <2>2 DEF HandlersOK
    <3> QED BY <1>0, <3>1, CalmHandler
  <2> QED BY <1>1, <2>1, <2>2
<1>3. ASSUME NEW q1 \in At(v)', NEW q2 \in At(v)', q1 # q2 PROVE Apart(v, q1, q2)'
  <2>0. rec'[v].loaded = rec[v].loaded
    BY DEF Calm
  <2>1. CASE q1 \in new
    <3>1. PICK p2 \in kept : q2 = f[p2] /\ p2 \in At(v)
      BY <1>1, <1>3, <2>1 DEF Joins
    <3>2. Apart(v, q1, p2)' /\ Same(q2, p2)
      BY <1>0, <2>1, <3>1 DEF At, Joins
    <3> QED BY <3>2 DEF Apart, Same
  <2>2. CASE q2 \in new
    <3>1. PICK p1 \in kept : q1 = f[p1] /\ p1 \in At(v)
      BY <1>1, <1>3, <2>2 DEF Joins
    <3>2. Apart(v, p1, q2)' /\ Same(q1, p1)
      BY <1>0, <2>2, <3>1 DEF At, Joins
    <3> QED BY <3>2 DEF Apart, Same
  <2>3. CASE q1 \notin new /\ q2 \notin new
    <3>1. PICK p1 \in kept : q1 = f[p1] /\ p1 \in At(v)
      BY <1>1, <2>3
    <3>2. PICK p2 \in kept : q2 = f[p2] /\ p2 \in At(v)
      BY <1>1, <2>3
    <3>3. p1 # p2
      BY <1>3, <3>1, <3>2
    <3>4. Apart(v, p1, p2)
      BY <1>0, <3>1, <3>2, <3>3 DEF HandlersOK
    <3> QED BY <1>0, <2>0, <3>1, <3>2, <3>4, CalmApart
  <2> QED BY <2>1, <2>2, <2>3
<1> QED BY <1>2, <1>3 DEF HandlersOK

\* Whatever else a handler does that returns, the other requests are what they were.
LEMMA Replied ==
    ASSUME WorkerInv, CountRuns, NEW done \in SUBSET requests,
           NEW status \in {"ok", "error"}, NEW img \in 0..MaxWrites, Reply(done, status, img),
           RestTypeOK', written' >= written
    PROVE  AloneTypeOK' /\ CallsOK' /\ \E f : After(requests \ done, f, {})
<1>1. PICK f : /\ GoOn(requests \ done, f)
               /\ requests' = {f[p] : p \in requests \ done}
               /\ RequestsTypeOK' /\ IsFiniteSet(requests')
  BY Replying
<1>2. AloneTypeOK'
  BY <1>1, TypesNext, HistoryType DEF WorkerInv, AloneTypeOK
<1>3. CallsOK'
  <2>1. ASSUME NEW q \in requests'
        PROVE  /\ q.worker = IF q.op \in SourceCalls THEN Journey[q.m].source
                                                     ELSE Journey[q.m].destination
               /\ q.epoch = IF q.op \in SourceCalls \ {"fence"} THEN Journey[q.m].epoch
                                                                ELSE Journey[q.m].epoch + 1
               /\ q.image <= written'
    <3>1. PICK p \in requests \ done : q = f[p] /\ Same(q, p)
      BY <1>1 DEF GoOn
    <3>2. p \in Request /\ written \in Nat /\ written' \in Nat /\ p.image \in Nat
      BY <1>2, WorkerBoundsAssumption
      DEF WorkerInv, AloneTypeOK, WorkerTypeOK, Request
    <3> QED BY <3>1, <3>2 DEF WorkerInv, CallsOK, Same
  <2> QED BY <1>1, <2>1 DEF CallsOK
<1>4. After(requests \ done, f, {})
  BY <1>1 DEF After
<1> QED BY <1>2, <1>3, <1>4

\* On a worker that stays calm the handlers keep what they rely on.
LEMMA CalmWorker ==
    ASSUME WorkerInv, CountRuns, AloneTypeOK', NEW v \in Workers, Calm(v),
           NEW kept, NEW f, NEW new, After(kept, f, new), Joins(v, kept, new)
    PROVE  StateOK(v)' /\ HandlersOK(v)'
<1>1. Unrun(v)
  BY NoRun DEF Calm, WorkerInv
<1>2. StateOK(v)'
  BY <1>1, CalmState DEF WorkerInv
<1>3. HandlersOK(v)'
  BY <1>1, CalmHandlers
<1> QED BY <1>2, <1>3

\* A step in which some handlers return, calm on every worker.
LEMMA ReplyStep ==
    ASSUME WorkerInv, CountRuns, NEW done \in SUBSET requests,
           NEW status \in {"ok", "error"}, NEW img \in 0..MaxWrites, Reply(done, status, img),
           RestTypeOK', written' >= written, \A v \in Workers : Calm(v)
    PROVE  WorkerInv' /\ Rises
<1>1. PICK f : After(requests \ done, f, {})
  BY Replied
<1>2. AloneTypeOK' /\ CallsOK'
  BY Replied
<1>3. ASSUME NEW v \in Workers PROVE StateOK(v)' /\ HandlersOK(v)'
  <2>1. Joins(v, requests \ done, {})
    BY DEF Joins
  <2> QED BY <1>1, <1>2, <2>1, CalmWorker
<1> QED BY <1>2, <1>3 DEF WorkerInv, Rises, Calm

\* The handlers of w that are not done find what they need when they go on.
GetOn(w, done) ==
    /\ \A p \in At(w) \ done : HandlerOK(w, p)'
    /\ \A p, q \in At(w) \ done : p # q => Apart(w, p, q)'

\* A step in which some handlers return, calm on every worker but theirs.
LEMMA ReplyStepAt ==
    ASSUME WorkerInv, CountRuns, NEW done \in SUBSET requests,
           NEW status \in {"ok", "error"}, NEW img \in 0..MaxWrites, Reply(done, status, img),
           RestTypeOK', written' >= written,
           NEW w \in Workers, \A v \in Workers : v # w => Calm(v),
           accepted'[w] >= accepted[w],
           AloneTypeOK' => StateOK(w)', GetOn(w, done)
    PROVE  WorkerInv' /\ Rises
<1>1. PICK f : After(requests \ done, f, {})
  BY Replied
<1>2. AloneTypeOK' /\ CallsOK'
  BY Replied
<1>3. ASSUME NEW v \in Workers, v # w PROVE StateOK(v)' /\ HandlersOK(v)'
  <2>1. Joins(v, requests \ done, {})
    BY DEF Joins
  <2> QED BY <1>1, <1>2, <1>3, <2>1, CalmWorker
<1>4. HandlersOK(w)'
  <2>1. ASSUME NEW q \in At(w)'
        PROVE  \E p \in At(w) \ done : q = f[p] /\ Same(q, p)
    BY <1>1, <2>1 DEF At, After, GoOn, Same
  <2>2. ASSUME NEW q \in At(w)' PROVE HandlerOK(w, q)'
    <3>1. PICK p \in At(w) \ done : Same(q, p)
      BY <2>1, <2>2
    <3>2. HandlerOK(w, p)'
      BY <3>1 DEF GetOn
    <3> QED BY <3>1, <3>2 DEF HandlerOK, Same
  <2>3. ASSUME NEW q1 \in At(w)', NEW q2 \in At(w)', q1 # q2 PROVE Apart(w, q1, q2)'
    <3>1. PICK p1 \in At(w) \ done : q1 = f[p1] /\ Same(q1, p1)
      BY <2>1
    <3>2. PICK p2 \in At(w) \ done : q2 = f[p2] /\ Same(q2, p2)
      BY <2>1
    <3>3. Apart(w, p1, p2)'
      BY <2>3, <3>1, <3>2 DEF GetOn
    <3> QED BY <3>1, <3>2, <3>3 DEF Apart, Same
  <2> QED BY <2>2, <2>3 DEF HandlersOK
<1> QED BY <1>2, <1>3, <1>4 DEF WorkerInv, Rises, Calm

\* A step in which nobody answers: at most a call goes out.
LEMMA CallStep ==
    ASSUME WorkerInv, CountRuns, NEW new, \A n1, n2 \in new : n1 = n2,
           requests' = requests \cup new, replies' = replies, new \subseteq Request,
           \A n \in new : n.stage = "sent",
           RestTypeOK', CallsOK', \A v \in Workers : Calm(v)
    PROVE  WorkerInv' /\ Rises
<1>1. AloneTypeOK'
  <2>1. RequestsTypeOK'
    BY DEF RequestsTypeOK, WorkerInv, AloneTypeOK, WorkerTypeOK
  <2> QED BY <2>1, TypesNext, HistoryType DEF WorkerInv, AloneTypeOK
<1>2. ASSUME NEW v \in Workers PROVE StateOK(v)' /\ HandlersOK(v)'
  <2>1. PICK f : f = [p \in requests |-> p]
    OBVIOUS
  <2>2. After(requests, f, new)
    BY <2>1 DEF After, GoOn, Same, WorkerInv, AloneTypeOK, WorkerTypeOK
  <2>3. Joins(v, requests, new)
    BY DEF Joins
  <2> QED BY <1>1, <2>2, <2>3, CalmWorker
<1> QED BY <1>1, <1>2 DEF WorkerInv, Rises, Calm

\* A calm step in which a handler begins to wait.
LEMMA AwaitStep ==
    ASSUME WorkerInv, CountRuns, NEW r \in requests, r.stage = "sent", Await(r),
           RestTypeOK', written' = written, \A v \in Workers : Calm(v),
           HandlerOK(r.worker, r)',
           \A p \in At(r.worker) : Apart(r.worker, p, r)' /\ Apart(r.worker, r, p)'
    PROVE  WorkerInv' /\ Rises
<1>1. PICK n : /\ requests' = (requests \ {r}) \cup {n}
               /\ n.op = r.op /\ n.m = r.m /\ n.worker = r.worker /\ n.epoch = r.epoch
               /\ n.image = r.image /\ n.stage = "running"
               /\ RequestsTypeOK' /\ IsFiniteSet(requests')
  BY Awaiting
<1>2. AloneTypeOK'
  BY <1>1, TypesNext, HistoryType DEF WorkerInv, AloneTypeOK
<1>3. CallsOK'
  BY <1>1 DEF WorkerInv, CallsOK
<1>4. ASSUME NEW v \in Workers PROVE StateOK(v)' /\ HandlersOK(v)'
  <2>3. PICK kept : kept = requests \ {r}
    OBVIOUS
  <2>4. PICK f : f = [p \in kept |-> p]
    OBVIOUS
  <2>5. GoOn(kept, f) /\ {f[p] : p \in kept} = kept
    BY <2>3, <2>4 DEF GoOn, Same, WorkerInv, AloneTypeOK, WorkerTypeOK
  <2>6. PICK new : new = {n}
    OBVIOUS
  <2>7. requests' = {f[p] : p \in kept} \cup new /\ new \subseteq requests'
    BY <1>1, <2>3, <2>5, <2>6
  <2>8. ASSUME n.worker = v
        PROVE  /\ HandlerOK(v, n)'
               /\ \A p \in kept : p \in At(v) => Apart(v, p, n)' /\ Apart(v, n, p)'
    <3>1. r.worker = v
      BY <1>1, <2>8
    <3>2. HandlerOK(v, n)'
      BY <1>1, <3>1 DEF HandlerOK
    <3>3. \A p \in At(v) : Apart(v, p, n)' /\ Apart(v, n, p)'
      BY <1>1, <3>1 DEF Apart
    <3> QED BY <3>2, <3>3
  <2>9. StateOK(v)' /\ HandlersOK(v)'
    <3>1. After(kept, f, new)
      BY <2>5, <2>7 DEF After
    <3>2. Joins(v, kept, new)
      BY <2>6, <2>7, <2>8 DEF Joins
    <3> QED BY <1>2, <3>1, <3>2, CalmWorker
  <2> QED BY <2>9
<1> QED BY <1>2, <1>3, <1>4 DEF WorkerInv, Rises, Calm

-----------------------------------------------------------------------------
(* The pieces the handlers are made of.                                    *)

\* A worker nothing happened to, but that its fence may have risen.
LEMMA Untouched ==
    ASSUME WorkerInv, NEW v \in Workers, written' \in Nat, written' >= written,
           accepted'[v] \in Nat, accepted'[v] >= accepted[v],
           rec'[v] = rec[v], occupied'[v] = occupied[v], vm'[v] = vm[v], image'[v] = image[v],
           files'[v] = files[v], registered'[v] = registered[v], consumed'[v] = consumed[v]
    PROVE  Calm(v)
<1>0. StateOK(v) /\ AloneTypeOK
  BY DEF WorkerInv
<1>1. FilesOK(v)'
  BY <1>0, TypesAt DEF StateOK, FilesOK, NoFiles
<1> QED BY <1>0, <1>1, TypesAt DEF StateOK, RecordOK, Calm

LEMMA RequestTypes ==
    ASSUME WorkerInv, NEW r \in requests
    PROVE  /\ r \in Request /\ r.worker \in Workers /\ r.epoch \in Nat /\ r.m \in Migrations
           /\ r.image \in 0..MaxWrites /\ r.source \in Workers
           /\ r.image <= written
           /\ r.worker = IF r.op \in SourceCalls THEN Journey[r.m].source
                                                 ELSE Journey[r.m].destination
           /\ r.epoch = IF r.op \in SourceCalls \ {"fence"} THEN Journey[r.m].epoch
                                                            ELSE Journey[r.m].epoch + 1
BY DEF WorkerInv, AloneTypeOK, WorkerTypeOK, CallsOK, Request

\* A handler that answers and changes nothing but, perhaps, the fence.
LEMMA QuietStep ==
    ASSUME WorkerInv, CountRuns, NEW done \in SUBSET requests,
           NEW status \in {"ok", "error"}, NEW img \in 0..MaxWrites, Reply(done, status, img),
           UNCHANGED <<record, host, written, workerRestarts>>,
           accepted' \in [Workers -> Nat], \A v \in Workers : accepted'[v] >= accepted[v]
    PROVE  WorkerInv' /\ Rises
<1>0. AloneTypeOK /\ RestTypeOK /\ written \in Nat
  BY Types, WorkerBoundsAssumption DEF WorkerInv, AloneTypeOK, RestTypeOK
<1>1. RestTypeOK'
  BY <1>0 DEF RestTypeOK, record, host
<1>2. ASSUME NEW v \in Workers PROVE Calm(v)
  BY <1>0, Untouched DEF record, host
<1> QED BY <1>0, <1>1, <1>2, ReplyStep DEF record, host

LEMMA AnswerStep ==
    ASSUME WorkerInv, CountRuns, NEW r \in requests, Ok(r) \/ Error(r),
           UNCHANGED <<record, host, accepted, written, workerRestarts>>
    PROVE  WorkerInv' /\ Rises
<1>1. accepted' \in [Workers -> Nat] /\ \A v \in Workers : accepted'[v] >= accepted[v]
  BY DEF WorkerInv, AloneTypeOK, WorkerTypeOK
<1>2. {r} \in SUBSET requests /\ 0 \in 0..MaxWrites
  BY WorkerBoundsAssumption
<1>3. PICK status \in {"ok", "error"} : Reply({r}, status, 0)
  BY DEF Ok, Error
<1> QED BY <1>1, <1>2, <1>3, QuietStep

\* The fence rises to the caller's epoch, or stays.
LEMMA AcceptType ==
    ASSUME AloneTypeOK, NEW w \in Workers, NEW e \in Nat, e >= accepted[w],
           Accept(w, e) \/ UNCHANGED accepted
    PROVE  /\ accepted' \in [Workers -> Nat]
           /\ \A v \in Workers : accepted'[v] >= accepted[v]
           /\ \A v \in Workers : v # w => accepted'[v] = accepted[v]
           /\ Accept(w, e) => accepted'[w] = e
<1>0. accepted \in [Workers -> Nat]
  BY DEF AloneTypeOK, WorkerTypeOK
<1>1. CASE Accept(w, e)
  BY <1>0, <1>1 DEF Accept
<1>2. CASE UNCHANGED accepted /\ ~Accept(w, e)
  BY <1>0, <1>2
<1> QED BY <1>1, <1>2

LEMMA AcceptedAnswerStep ==
    ASSUME WorkerInv, CountRuns, NEW r \in requests, Ok(r) \/ Error(r),
           Accept(r.worker, r.epoch), r.epoch >= accepted[r.worker],
           UNCHANGED <<record, host, written, workerRestarts>>
    PROVE  WorkerInv' /\ Rises
<1>1. accepted' \in [Workers -> Nat] /\ \A v \in Workers : accepted'[v] >= accepted[v]
  BY RequestTypes, AcceptType DEF WorkerInv
<1>2. {r} \in SUBSET requests /\ 0 \in 0..MaxWrites
  BY WorkerBoundsAssumption
<1>3. PICK status \in {"ok", "error"} : Reply({r}, status, 0)
  BY DEF Ok, Error
<1> QED BY <1>1, <1>2, <1>3, QuietStep

\* A record that gets another state and epoch.
LEMMA RecordMoves ==
    ASSUME RestTypeOK, NEW w \in Workers, NEW s \in RecordStates, NEW e \in Nat,
           rec' = [rec EXCEPT ![w].state = s, ![w].epoch = e]
    PROVE  /\ rec' \in [Workers -> [state : RecordStates \cup {"none"}, epoch : Nat,
                                    loaded : Migrations \cup {None}]]
           /\ \A v \in Workers : v # w => rec'[v] = rec[v]
           /\ rec'[w].state = s /\ rec'[w].epoch = e /\ rec'[w].loaded = rec[w].loaded
<1>0. PICK R : R = [state : RecordStates \cup {"none"}, epoch : Nat,
                    loaded : Migrations \cup {None}]
  OBVIOUS
<1>1. rec \in [Workers -> R]
  BY <1>0 DEF RestTypeOK
<1>2. PICK new : new = [rec[w] EXCEPT !.state = s, !.epoch = e]
  OBVIOUS
<1>3. new \in R /\ new.state = s /\ new.epoch = e /\ new.loaded = rec[w].loaded
  BY <1>0, <1>1, <1>2
<1>4. rec' = [rec EXCEPT ![w] = new]
  BY <1>1, <1>2
<1>5. rec' \in [Workers -> R] /\ rec'[w] = new
  BY <1>1, <1>3, <1>4
<1>6. \A v \in Workers : v # w => rec'[v] = rec[v]
  BY <1>1, <1>4
<1> QED BY <1>0, <1>3, <1>5, <1>6

LEMMA FenceQuietlyStep ==
    ASSUME WorkerInv, CountRuns, NEW r \in requests, FenceQuietly(r),
           UNCHANGED <<written, workerRestarts>>
    PROVE  WorkerInv' /\ Rises
<1> DEFINE w == r.worker
<1>0. /\ AloneTypeOK /\ RestTypeOK /\ written \in Nat /\ StateOK(w)
      /\ w \in Workers /\ r.epoch \in Nat /\ r.epoch > accepted[w] /\ accepted[w] \in Nat
      /\ rec[w].state \in Existing \ {"booting"}
  BY Types, WorkerBoundsAssumption, RequestTypes
  DEF WorkerInv, AloneTypeOK, RestTypeOK, FenceQuietly, Superseded
<1>1. /\ accepted' \in [Workers -> Nat]
      /\ \A v \in Workers : v # w => accepted'[v] = accepted[v]
      /\ accepted'[w] = r.epoch
  BY <1>0, AcceptType DEF FenceQuietly
<1>2. /\ rec' \in [Workers -> [state : RecordStates \cup {"none"}, epoch : Nat,
                               loaded : Migrations \cup {None}]]
      /\ \A v \in Workers : v # w => rec'[v] = rec[v]
      /\ rec'[w].state = "fenced" /\ rec'[w].epoch = r.epoch /\ rec'[w].loaded = rec[w].loaded
  BY <1>0, RecordMoves DEF FenceQuietly, RecordStates
<1>3. /\ vm' \in [Workers -> {"none", "idle", "running", "paused"}]
      /\ \A v \in Workers : v # w => vm'[v] = vm[v]
      /\ vm'[w] = vm[w] \/ (vm[w] = "running" /\ vm'[w] = "paused")
  BY <1>0 DEF FenceQuietly, RestTypeOK
<1>4. RestTypeOK'
  BY <1>0, <1>1, <1>2, <1>3 DEF FenceQuietly, RestTypeOK
<1>5. ASSUME NEW v \in Workers PROVE Calm(v)
  <2>1. CASE v # w
    BY <1>0, <1>1, <1>2, <1>3, <2>1, Untouched, TypesAt DEF FenceQuietly
  <2>2. CASE v = w
    <3>1. FilesOK(w)'
      BY <1>0 DEF FenceQuietly, StateOK, FilesOK, NoFiles
    <3>2. rec[w].state # "none"
      BY <1>0 DEF Existing, RecordStates
    <3> QED BY <1>0, <1>1, <1>2, <1>3, <2>2, <3>1, <3>2 DEF Calm, FenceQuietly, Unloaded
  <2> QED BY <2>1, <2>2
<1>6. {r} \in SUBSET requests /\ 0 \in 0..MaxWrites /\ Reply({r}, "error", 0)
  BY WorkerBoundsAssumption DEF FenceQuietly, Error
<1> QED BY <1>0, <1>4, <1>5, <1>6, ReplyStep

LEMMA NotAdmittedStep ==
    ASSUME WorkerInv, CountRuns, NEW r \in requests, NEW expected, NotAdmitted(r, expected),
           UNCHANGED <<written, workerRestarts>>
    PROVE  WorkerInv' /\ Rises
<1>1. CASE FenceQuietly(r)
  BY <1>1, FenceQuietlyStep
<1>2. CASE Refuse(r, expected)
  <2>1. CASE UNCHANGED accepted
    BY <1>2, <2>1, AnswerStep DEF Refuse
  <2>2. CASE r.epoch >= accepted[r.worker] /\ Accept(r.worker, r.epoch)
    BY <1>2, <2>2, AcceptedAnswerStep DEF Refuse
  <2> QED BY <1>2, <2>1, <2>2 DEF Refuse
<1> QED BY <1>1, <1>2 DEF NotAdmitted

LEMMA CheckStep ==
    ASSUME WorkerInv, CountRuns, NEW r \in requests, NEW expected, Check(r, expected),
           UNCHANGED <<written, workerRestarts>>
    PROVE  WorkerInv' /\ Rises
<1>1. CASE NotAdmitted(r, expected)
  BY <1>1, NotAdmittedStep
<1>2. CASE ~NotAdmitted(r, expected)
  BY <1>2, AcceptedAnswerStep DEF Check, Admitted, OkOrHostError
<1> QED BY <1>1, <1>2

\* A handler that passed the checks and waits: it needs what HandlerOK says of it.
LEMMA StartWorkStep ==
    ASSUME WorkerInv, CountRuns, NEW r \in requests, r.stage = "sent", StartWork(r),
           r.epoch >= accepted[r.worker],
           UNCHANGED <<record, host, written, workerRestarts>>,
           HandlerOK(r.worker, r)',
           \A p \in At(r.worker) : Apart(r.worker, p, r) /\ Apart(r.worker, r, p)
    PROVE  WorkerInv' /\ Rises
<1>0. AloneTypeOK /\ RestTypeOK /\ written \in Nat
  BY Types, WorkerBoundsAssumption DEF WorkerInv, AloneTypeOK, RestTypeOK
<1>1. accepted' \in [Workers -> Nat] /\ \A v \in Workers : accepted'[v] >= accepted[v]
  BY RequestTypes, AcceptType DEF WorkerInv, StartWork
<1>2. RestTypeOK'
  BY <1>0, <1>1 DEF RestTypeOK, record, host
<1>3. ASSUME NEW v \in Workers PROVE Calm(v)
  BY <1>0, <1>1, Untouched DEF record, host
<1>4. \A p \in At(r.worker) : Apart(r.worker, p, r)' /\ Apart(r.worker, r, p)'
  BY DEF Apart, record
<1> QED BY <1>0, <1>2, <1>3, <1>4, AwaitStep DEF StartWork

-----------------------------------------------------------------------------
(* The handlers that only check or answer, and those that begin to wait.   *)

LEMMA SentFacts ==
    ASSUME WorkerInv, NEW op, NEW r \in Sent(op)
    PROVE  /\ r \in requests /\ r.op = op /\ r.stage = "sent"
           /\ r.worker \in Workers /\ r \in Request
BY RequestTypes DEF Sent

LEMMA RunningFacts ==
    ASSUME WorkerInv, NEW op, NEW r \in Running(op)
    PROVE  /\ r \in requests /\ r.op = op /\ r.stage = "running"
           /\ r.worker \in Workers /\ r \in Request
           /\ r \in At(r.worker) /\ HandlerOK(r.worker, r) /\ StateOK(r.worker)
BY RequestTypes DEF Running, At, WorkerInv, HandlersOK

\* A worker whose record is there has no reservation under way; one without has no other.
LEMMA ReservationIsAlone ==
    ASSUME WorkerInv, NEW w \in Workers, NEW p \in At(w)
    PROVE  /\ rec[w].state # "none" => p.op # "prestage"
           /\ rec[w].state = "none" => p.op = "prestage" /\ occupied[w] /\ vm[w] = "none"
BY DEF WorkerInv, HandlersOK, HandlerOK

\* An admitted call for a record: what every handler that waits needs first.
LEMMA AdmittedFacts ==
    ASSUME WorkerInv, NEW r \in requests, NEW expected, Admitted(r, expected)
    PROVE  /\ r.epoch >= accepted[r.worker] /\ rec[r.worker].state \in expected
           /\ rec[r.worker].state # "fenced"
           /\ rec[r.worker].state \notin {"booting", "none"} => r.epoch = accepted[r.worker]
<1>1. rec[r.worker].state \in RecordStates \cup {"none"} /\ accepted[r.worker] \in Nat
      /\ r.epoch \in Nat
  BY RequestTypes DEF WorkerInv, AloneTypeOK, WorkerTypeOK
<1> QED BY <1>1 DEF Admitted, Superseded, Existing

LEMMA ReserveStep ==
    ASSUME WorkerInv, CountRuns, Reserve, UNCHANGED <<written, workerRestarts>>
    PROVE  WorkerInv' /\ Rises
<1>1. PICK r \in Sent("reserve") : Answer(r, TRUE)
  BY DEF Reserve
<1>2. r \in requests
  BY SentFacts
<1> QED BY <1>1, <1>2, AnswerStep DEF Answer

\* Probe, precopy, verify and expose.
LEMMA ChecksStep ==
    ASSUME WorkerInv, CountRuns, Probe \/ Precopy \/ Verify \/ Expose,
           UNCHANGED <<written, workerRestarts>>
    PROVE  WorkerInv' /\ Rises
<1>1. PICK r \in requests : \E expected : Check(r, expected)
  BY SentFacts DEF Probe, Precopy, Verify, Expose, Sent
<1>2. PICK expected : Check(r, expected)
  BY <1>1
<1> QED BY <1>1, <1>2, CheckStep

\* A pause, a snapshot or a transfer that is let in relies on the record being there.
LEMMA PlainWorkStep ==
    ASSUME WorkerInv, CountRuns, NEW r \in requests, r.stage = "sent",
           r.op \in {"pause", "snapshot", "transfer"}, NEW expected, "none" \notin expected,
           Admitted(r, expected), StartWork(r),
           UNCHANGED <<record, host, written, workerRestarts>>
    PROVE  WorkerInv' /\ Rises
<1>1. /\ r.epoch >= accepted[r.worker] /\ rec[r.worker].state # "none"
      /\ r.worker \in Workers /\ r.epoch \in Nat
  BY AdmittedFacts, RequestTypes
<1>2. accepted'[r.worker] = r.epoch
  BY <1>1 DEF StartWork, Accept, WorkerInv, AloneTypeOK, WorkerTypeOK
<1>3. HandlerOK(r.worker, r)'
  BY <1>1, <1>2 DEF HandlerOK, record, Resumes
<1>4. \A p \in At(r.worker) : Apart(r.worker, p, r) /\ Apart(r.worker, r, p)
  BY <1>1, ReservationIsAlone DEF Apart, Resumes
<1> QED BY <1>1, <1>3, <1>4, StartWorkStep

LEMMA BeginPauseStep ==
    ASSUME WorkerInv, CountRuns, BeginPause, UNCHANGED <<written, workerRestarts>>
    PROVE  WorkerInv' /\ Rises
<1>1. PICK r \in Sent("pause") :
         \/ Answer(r, TRUE)
         \/ NotAdmitted(r, RecordStates)
         \/ Admitted(r, RecordStates) /\ StartWork(r) /\ UNCHANGED <<record, host>>
  BY DEF BeginPause
<1>2. r \in requests /\ r.stage = "sent" /\ r.op = "pause" /\ "none" \notin RecordStates
  BY SentFacts DEF RecordStates
<1>3. CASE Answer(r, TRUE)
  BY <1>2, <1>3, AnswerStep DEF Answer
<1>4. CASE NotAdmitted(r, RecordStates)
  BY <1>2, <1>4, NotAdmittedStep
<1>5. CASE Admitted(r, RecordStates) /\ StartWork(r) /\ UNCHANGED <<record, host>>
  BY <1>2, <1>5, PlainWorkStep
<1> QED BY <1>1, <1>3, <1>4, <1>5

LEMMA BeginSnapshotStep ==
    ASSUME WorkerInv, CountRuns, BeginSnapshot, UNCHANGED <<written, workerRestarts>>
    PROVE  WorkerInv' /\ Rises
<1>1. PICK r \in Sent("snapshot") :
         \/ /\ \E entry \in manifests[r.worker] : Reply({r}, "ok", entry[2])
            /\ UNCHANGED <<record, host, accepted>>
         \/ NotAdmitted(r, {"paused"})
         \/ Admitted(r, {"paused"}) /\ StartWork(r) /\ UNCHANGED <<record, host>>
  BY DEF BeginSnapshot
<1>2. r \in requests /\ r.stage = "sent" /\ r.op = "snapshot" /\ r.worker \in Workers
  BY SentFacts
<1>3. CASE /\ \E entry \in manifests[r.worker] : Reply({r}, "ok", entry[2])
           /\ UNCHANGED <<record, host, accepted>>
  <2>1. PICK entry \in manifests[r.worker] : Reply({r}, "ok", entry[2])
    BY <1>3
  <2>2. entry[2] \in 0..MaxWrites
    BY <1>2, <2>1 DEF WorkerInv, AloneTypeOK, WorkerTypeOK
  <2>3. accepted' \in [Workers -> Nat] /\ \A v \in Workers : accepted'[v] >= accepted[v]
    BY <1>3 DEF WorkerInv, AloneTypeOK, WorkerTypeOK
  <2>4. {r} \in SUBSET requests
    BY <1>2
  <2> QED BY <1>3, <2>1, <2>2, <2>3, <2>4, QuietStep
<1>4. CASE NotAdmitted(r, {"paused"})
  BY <1>2, <1>4, NotAdmittedStep
<1>5. CASE Admitted(r, {"paused"}) /\ StartWork(r) /\ UNCHANGED <<record, host>>
  BY <1>2, <1>5, PlainWorkStep
<1> QED BY <1>1, <1>3, <1>4, <1>5

LEMMA BeginTransferStep ==
    ASSUME WorkerInv, CountRuns, BeginTransfer, UNCHANGED <<written, workerRestarts>>
    PROVE  WorkerInv' /\ Rises
<1>1. PICK r \in Sent("transfer") :
         \/ NotAdmitted(r, {"booting"})
         \/ /\ Admitted(r, {"booting"}) /\ Accept(r.worker, r.epoch)
            /\ Ok(r) \/ Error(r)
            /\ UNCHANGED <<record, host>>
         \/ Admitted(r, {"booting"}) /\ StartWork(r) /\ UNCHANGED <<record, host>>
  BY DEF BeginTransfer, OkOrHostError
<1>2. r \in requests /\ r.stage = "sent" /\ r.op = "transfer" /\ r.worker \in Workers
  BY SentFacts
<1>3. CASE NotAdmitted(r, {"booting"})
  BY <1>2, <1>3, NotAdmittedStep
<1>4. CASE /\ Admitted(r, {"booting"}) /\ Accept(r.worker, r.epoch) /\ (Ok(r) \/ Error(r))
           /\ UNCHANGED <<record, host>>
  BY <1>2, <1>4, AcceptedAnswerStep, AdmittedFacts
<1>5. CASE Admitted(r, {"booting"}) /\ StartWork(r) /\ UNCHANGED <<record, host>>
  BY <1>2, <1>5, PlainWorkStep
<1> QED BY <1>1, <1>3, <1>4, <1>5

\* A load that is let in finds files, and nothing of its snapshot that ran on the worker.
LEMMA BeginLoadStep ==
    ASSUME WorkerInv, CountRuns, BeginLoad, UNCHANGED <<written, workerRestarts>>
    PROVE  WorkerInv' /\ Rises
<1>1. PICK r \in Sent("load") :
         \/ Answer(r, FALSE) \/ Answer(r, TRUE)
         \/ NotAdmitted(r, {"booting"})
         \/ /\ Admitted(r, {"booting"}) /\ Accept(r.worker, r.epoch) /\ Error(r)
            /\ UNCHANGED <<record, host>>
         \/ /\ Admitted(r, {"booting"}) /\ registered[r.worker] = Descriptor(r.image)
            /\ StartWork(r) /\ UNCHANGED <<record, host>>
  BY DEF BeginLoad
<1>2. r \in requests /\ r.stage = "sent" /\ r.op = "load" /\ r.worker \in Workers
  BY SentFacts
<1>3. CASE Answer(r, FALSE) \/ Answer(r, TRUE)
  BY <1>2, <1>3, AnswerStep DEF Answer
<1>4. CASE NotAdmitted(r, {"booting"})
  BY <1>2, <1>4, NotAdmittedStep
<1>5. CASE /\ Admitted(r, {"booting"}) /\ Accept(r.worker, r.epoch) /\ Error(r)
           /\ UNCHANGED <<record, host>>
  BY <1>2, <1>5, AcceptedAnswerStep, AdmittedFacts
<1>6. CASE /\ Admitted(r, {"booting"}) /\ registered[r.worker] = Descriptor(r.image)
           /\ StartWork(r) /\ UNCHANGED <<record, host>>
  <2> DEFINE w == r.worker
  <2>0. /\ StateOK(w) /\ AloneTypeOK /\ r.m \in Migrations /\ r.image \in 0..MaxWrites
        /\ r.epoch \in Nat /\ r.epoch = Journey[r.m].epoch + 1
        /\ Journey[r.m].epoch \in Nat /\ accepted[w] \in Nat
    BY <1>2, RequestTypes, TypesAt DEF WorkerInv, SourceCalls
  <2>1. r.epoch >= accepted[w] /\ rec[w].state = "booting"
    BY <1>2, <1>6, AdmittedFacts
  <2>2. accepted'[w] = r.epoch
    BY <1>2, <1>6 DEF StartWork, Accept, WorkerInv, AloneTypeOK, WorkerTypeOK
  <2>3. files[w] # NoFiles
    BY <1>6, <2>0, WorkerBoundsAssumption DEF Descriptor, NoFiles, StateOK, FilesOK
  <2>4. vm[w] = "idle" => restored[w][r.m] = 0
    BY <1>2, <2>0, <2>1, TypesAt DEF StateOK, SnapshotOK, Spent
  <2>5. starts' = starts /\ restored' = restored
    BY <1>6, NoneRuns DEF host, WorkerInv
  <2>6. HandlerOK(w, r)'
    BY <1>2, <1>6, <2>0, <2>1, <2>2, <2>3, <2>4, <2>5 DEF HandlerOK, record, host, Resumes
  <2>7. \A p \in At(w) : Apart(w, p, r) /\ Apart(w, r, p)
    BY <1>2, <2>1, ReservationIsAlone DEF Apart, Resumes, WorkerInv, HandlersOK, HandlerOK
  <2> QED BY <1>2, <1>6, <2>1, <2>6, <2>7, StartWorkStep
<1> QED BY <1>1, <1>3, <1>4, <1>5, <1>6

\* A resume or rollback that is let in marks the snapshot before it waits.
LEMMA BeginResumeSandboxStep ==
    ASSUME WorkerInv, CountRuns, NEW r \in requests, r.stage = "sent", r.op \in Resumes,
           BeginResumeSandbox(r), UNCHANGED <<written, workerRestarts>>
    PROVE  WorkerInv' /\ Rises
<1> DEFINE w == r.worker
<1>0. w \in Workers
  BY RequestTypes
<1>1. CASE NotAdmitted(r, {"paused"})
  BY <1>1, NotAdmittedStep
<1>2. CASE /\ Admitted(r, {"paused"}) /\ Accept(w, r.epoch) /\ Error(r)
           /\ UNCHANGED <<record, host>>
  BY <1>2, AcceptedAnswerStep, AdmittedFacts
<1>3. CASE /\ Admitted(r, {"paused"}) /\ rec[w].loaded \notin consumed[w]
           /\ consumed' = [consumed EXCEPT ![w] = @ \cup ({rec[w].loaded} \ {None})]
           /\ StartWork(r)
           /\ UNCHANGED <<rec, prepared, registered, manifests, host>>
  <2>0. /\ StateOK(w) /\ AloneTypeOK /\ RestTypeOK /\ written \in Nat
        /\ r.epoch \in Nat /\ accepted[w] \in Nat
        /\ consumed[w] \subseteq Migrations /\ rec[w].loaded \in Migrations \cup {None}
    BY <1>0, RequestTypes, TypesAt, Types DEF WorkerInv, AloneTypeOK
  <2>1. r.epoch >= accepted[w] /\ rec[w].state = "paused"
    BY <1>3, AdmittedFacts
  <2>2. /\ accepted' \in [Workers -> Nat] /\ \A v \in Workers : accepted'[v] >= accepted[v]
        /\ accepted'[w] = r.epoch
    BY <1>0, <1>3, <2>0, <2>1, AcceptType DEF StartWork
  <2>3. /\ consumed' \in [Workers -> SUBSET Migrations]
        /\ \A v \in Workers : v # w => consumed'[v] = consumed[v]
        /\ consumed'[w] = consumed[w] \cup ({rec[w].loaded} \ {None})
    BY <1>0, <1>3, <2>0 DEF RestTypeOK
  <2>4. RestTypeOK'
    BY <1>3, <2>0, <2>2, <2>3 DEF RestTypeOK, host
  <2>5. vm[w] # "idle"
    BY <2>0, <2>1 DEF StateOK, RecordOK, Unloaded
  <2>6. ASSUME NEW v \in Workers PROVE Calm(v)
    <3>1. CASE v # w
      BY <1>3, <2>0, <2>2, <2>3, <3>1, Untouched DEF host
    <3>2. CASE v = w
      <4>1. FilesOK(w)'
        BY <1>3, <2>0 DEF StateOK, FilesOK, NoFiles, host
      <4>2. rec[w].epoch <= accepted'[w]
        BY <1>0, <2>0, <2>1, <2>2, TypesAt DEF StateOK, RecordOK
      <4> QED BY <1>3, <2>1, <2>2, <2>3, <2>5, <3>2, <4>1, <4>2 DEF Calm, host
    <3> QED BY <3>1, <3>2
  <2>7. starts' = starts /\ restored' = restored
    BY <1>3, <2>0, NoneRuns DEF host
  <2>8. ASSUME NEW m \in Migrations, rec[w].loaded = m
        PROVE  m \in consumed'[w] /\ starts[w][m] = 0
    <3>1. m # None
      BY WorkerNoneAssumption
    <3> QED BY <1>3, <2>0, <2>3, <2>8, <3>1 DEF StateOK, SnapshotOK
  <2>9. HandlerOK(w, r)'
    BY <1>3, <2>0, <2>1, <2>2, <2>5, <2>7, <2>8 DEF HandlerOK, host, Resumes
  <2>10. ASSUME NEW p \in At(w) PROVE Apart(w, p, r)' /\ Apart(w, r, p)'
    <3>1. p.op # "prestage" /\ HandlerOK(w, p)
      BY <1>0, <2>1, ReservationIsAlone DEF WorkerInv, HandlersOK
    <3>2. p.op \in Resumes => rec[w].loaded = None
      BY <1>3, <2>0, <3>1 DEF HandlerOK
    <3> QED BY <1>3, <3>1, <3>2 DEF Apart, Resumes
  <2> QED BY <1>3, <2>4, <2>6, <2>9, <2>10, AwaitStep DEF StartWork
<1> QED BY <1>1, <1>2, <1>3 DEF BeginResumeSandbox

LEMMA BeginResumesStep ==
    ASSUME WorkerInv, CountRuns, BeginResume \/ BeginRollback,
           UNCHANGED <<written, workerRestarts>>
    PROVE  WorkerInv' /\ Rises
<1>1. CASE BeginResume
  <2>1. PICK r \in Sent("resume") : Answer(r, TRUE) \/ BeginResumeSandbox(r)
    BY <1>1 DEF BeginResume
  <2>2. r \in requests /\ r.stage = "sent" /\ r.op \in Resumes
    BY <2>1, SentFacts DEF Resumes
  <2>3. CASE Answer(r, TRUE)
    BY <2>2, <2>3, AnswerStep DEF Answer
  <2> QED BY <2>1, <2>2, <2>3, BeginResumeSandboxStep
<1>2. CASE BeginRollback
  <2>1. PICK r \in Sent("rollback") :
           \/ Answer(r, FALSE)
           \/ OkOrHostError(r) /\ UNCHANGED <<record, host, accepted>>
           \/ BeginResumeSandbox(r)
    BY <1>2 DEF BeginRollback
  <2>2. r \in requests /\ r.stage = "sent" /\ r.op \in Resumes
    BY <2>1, SentFacts DEF Resumes
  <2>3. CASE Answer(r, FALSE) \/ (OkOrHostError(r) /\ UNCHANGED <<record, host, accepted>>)
    BY <2>2, <2>3, AnswerStep DEF Answer, OkOrHostError
  <2> QED BY <2>1, <2>2, <2>3, BeginResumeSandboxStep
<1> QED BY <1>1, <1>2

\* A snapshot that is on w, or on its way there by a load, came under an epoch that a fence
\* which w accepts is past: a worker does not give a sandbox up under the epoch it got it by.
LEMMA FenceIsLater ==
    ASSUME WorkerInv, NEW r \in requests, r.op = "fence", r.epoch >= accepted[r.worker],
           NEW m \in Migrations, Journey[m].destination = r.worker,
           accepted[r.worker] > Journey[m].epoch
    PROVE  r.epoch > Journey[m].epoch + 1
<1>1. /\ r.worker \in Workers /\ r.epoch \in Nat /\ r.m \in Migrations
      /\ r.worker = Journey[r.m].source /\ r.epoch = Journey[r.m].epoch + 1
  BY RequestTypes DEF SourceCalls
<1>2. accepted[r.worker] \in Nat /\ Journey[m].epoch \in Nat /\ Journey[r.m].epoch \in Nat
  BY <1>1, TypesAt DEF WorkerInv
<1>3. Journey[m].epoch # Journey[r.m].epoch
  BY <1>1, JourneyMoves
<1> QED BY <1>1, <1>2, <1>3

\* A fence marks the record before it waits.
LEMMA BeginFenceStep ==
    ASSUME WorkerInv, CountRuns, BeginFence, UNCHANGED <<written, workerRestarts>>
    PROVE  WorkerInv' /\ Rises
<1>1. PICK r \in Sent("fence") :
         \/ Answer(r, FALSE) \/ Answer(r, TRUE)
         \/ /\ rec[r.worker].state \notin {"none", "quarantined"} /\ r.epoch >= accepted[r.worker]
            /\ rec' = [rec EXCEPT ![r.worker].state = "fenced", ![r.worker].epoch = r.epoch]
            /\ StartWork(r)
            /\ UNCHANGED <<prepared, consumed, registered, manifests, host>>
  BY DEF BeginFence
<1>2. r \in requests /\ r.stage = "sent" /\ r.op = "fence" /\ r.worker \in Workers
  BY SentFacts
<1>3. CASE Answer(r, FALSE) \/ Answer(r, TRUE)
  BY <1>2, <1>3, AnswerStep DEF Answer
<1>4. CASE /\ rec[r.worker].state \notin {"none", "quarantined"}
           /\ r.epoch >= accepted[r.worker]
           /\ rec' = [rec EXCEPT ![r.worker].state = "fenced", ![r.worker].epoch = r.epoch]
           /\ StartWork(r)
           /\ UNCHANGED <<prepared, consumed, registered, manifests, host>>
  <2> DEFINE w == r.worker
  <2>0. /\ StateOK(w) /\ AloneTypeOK /\ RestTypeOK /\ written \in Nat /\ w \in Workers
        /\ r.epoch \in Nat /\ accepted[w] \in Nat
    BY <1>2, RequestTypes, TypesAt, Types DEF WorkerInv, AloneTypeOK
  <2>1. /\ accepted' \in [Workers -> Nat] /\ \A v \in Workers : accepted'[v] >= accepted[v]
        /\ accepted'[w] = r.epoch
    BY <1>4, <2>0, AcceptType DEF StartWork
  <2>2. /\ rec' \in [Workers -> [state : RecordStates \cup {"none"}, epoch : Nat,
                                 loaded : Migrations \cup {None}]]
        /\ \A v \in Workers : v # w => rec'[v] = rec[v]
        /\ rec'[w].state = "fenced" /\ rec'[w].epoch = r.epoch
        /\ rec'[w].loaded = rec[w].loaded
    BY <1>4, <2>0, RecordMoves DEF RecordStates
  <2>3. RestTypeOK'
    BY <1>4, <2>0, <2>1, <2>2 DEF RestTypeOK, host
  <2>4. ASSUME NEW v \in Workers PROVE Calm(v)
    <3>1. CASE v # w
      BY <1>4, <2>0, <2>1, <2>2, <3>1, Untouched DEF host
    <3>2. CASE v = w
      <4>1. FilesOK(w)'
        BY <1>4, <2>0 DEF StateOK, FilesOK, NoFiles, host
      <4> QED BY <1>4, <2>0, <2>1, <2>2, <3>2, <4>1 DEF Calm, host, Unloaded
    <3> QED BY <3>1, <3>2
  <2>5. starts' = starts /\ restored' = restored
    BY <1>4, <2>0, NoneRuns DEF host
  <2>6. ASSUME NEW m \in Migrations, restored[w][m] > 0 \/ rec[w].loaded = m
        PROVE  r.epoch > Journey[m].epoch + 1
    BY <1>2, <1>4, <2>0, <2>6, FenceIsLater DEF StateOK, SnapshotOK
  <2>7. HandlerOK(w, r)'
    BY <1>2, <2>0, <2>1, <2>2, <2>5, <2>6 DEF HandlerOK, Resumes
  <2>8. ASSUME NEW p \in At(w) PROVE Apart(w, p, r)' /\ Apart(w, r, p)'
    <3>1. p.op # "prestage" /\ HandlerOK(w, p) /\ p \in requests
      BY <1>4, <2>0, ReservationIsAlone DEF WorkerInv, HandlersOK, At
    <3>2. p.op = "load" => r.epoch > Journey[p.m].epoch + 1
      <4>1. ASSUME p.op = "load"
            PROVE  /\ p.m \in Migrations /\ Journey[p.m].destination = w
                   /\ p.epoch = Journey[p.m].epoch + 1 /\ p.epoch <= accepted[w]
                   /\ Journey[p.m].epoch \in Nat
        BY <2>0, <3>1, <4>1, RequestTypes, TypesAt DEF SourceCalls, At, HandlerOK
      <4> QED BY <1>2, <1>4, <2>0, <4>1, FenceIsLater
    <3> QED BY <1>2, <3>1, <3>2 DEF Apart, Resumes
  <2> QED BY <1>2, <1>4, <2>3, <2>4, <2>7, <2>8, AwaitStep DEF StartWork
<1> QED BY <1>1, <1>3, <1>4

-----------------------------------------------------------------------------
(* Reservations.                                                           *)

\* A handler that ends after its wait as it began: it failed, or found nothing to do.
LEMMA WorkFailsStep ==
    ASSUME WorkerInv, CountRuns, NEW r \in requests, WorkFails(r),
           UNCHANGED <<written, workerRestarts>>
    PROVE  WorkerInv' /\ Rises
BY AnswerStep DEF WorkFails

\* A second call joins the reservation that is being prepared.
LEMMA JoinStep ==
    ASSUME WorkerInv, CountRuns, NEW r \in requests, r.stage = "sent", r.op = "prestage",
           Preparing(r.worker, r.m) # {}, Await(r),
           UNCHANGED <<record, host, accepted, written, workerRestarts>>
    PROVE  WorkerInv' /\ Rises
<1> DEFINE w == r.worker
<1>0. w \in Workers /\ AloneTypeOK /\ RestTypeOK /\ written \in Nat
  BY RequestTypes, Types, WorkerBoundsAssumption DEF WorkerInv, AloneTypeOK, RestTypeOK
<1>1. PICK p \in At(w) : p.op = "prestage" /\ p.m = r.m /\ p \in requests
  BY DEF Preparing, Running, At
<1>2. RestTypeOK'
  BY <1>0 DEF RestTypeOK, record, host
<1>3. ASSUME NEW v \in Workers PROVE Calm(v)
  <2>1. accepted'[v] \in Nat /\ accepted'[v] >= accepted[v]
    BY <1>0, TypesAt
  <2> QED BY <1>0, <2>1, Untouched DEF record, host
<1>4. starts' = starts /\ restored' = restored
  BY <1>0, NoneRuns DEF host
<1>5. HandlerOK(w, p) /\ p.epoch = r.epoch
  BY <1>0, <1>1, RequestTypes DEF WorkerInv, HandlersOK, SourceCalls
<1>6. HandlerOK(w, r)'
  BY <1>1, <1>4, <1>5 DEF HandlerOK, Spent, Resumes, record, host
<1>7. ASSUME NEW q \in At(w) PROVE Apart(w, q, r)' /\ Apart(w, r, q)'
  <2>1. q.op = "prestage" /\ q.m = r.m
    BY <1>0, <1>1 DEF WorkerInv, HandlersOK, Apart
  <2> QED BY <2>1 DEF Apart, Resumes
<1> QED BY <1>0, <1>2, <1>3, <1>6, <1>7, AwaitStep

\* A reservation that claims the directory finds nobody at work on the worker.
LEMMA ClaimStep ==
    ASSUME WorkerInv, CountRuns, NEW r \in requests, r.stage = "sent", r.op = "prestage",
           rec[r.worker].state = "none", r.epoch >= accepted[r.worker], ~occupied[r.worker],
           occupied' = [occupied EXCEPT ![r.worker] = TRUE], StartWork(r),
           UNCHANGED <<record, vm, image, files, written, workerRestarts>>
    PROVE  WorkerInv' /\ Rises
<1> DEFINE w == r.worker
<1>0. /\ w \in Workers /\ AloneTypeOK /\ RestTypeOK /\ StateOK(w) /\ written \in Nat
      /\ r.epoch \in Nat /\ accepted[w] \in Nat
  BY RequestTypes, Types, TypesAt DEF WorkerInv, AloneTypeOK
<1>1. /\ accepted' \in [Workers -> Nat] /\ \A v \in Workers : accepted'[v] >= accepted[v]
      /\ accepted'[w] = r.epoch
  BY <1>0, AcceptType DEF StartWork
<1>2. occupied' \in [Workers -> BOOLEAN] /\ occupied'[w]
  BY <1>0 DEF RestTypeOK
<1>3. \A v \in Workers : v # w => occupied'[v] = occupied[v]
  BY <1>0 DEF RestTypeOK
<1>4. RestTypeOK'
  BY <1>0, <1>1, <1>2 DEF RestTypeOK, record
<1>5. vm[w] = "none"
  <2>1. ~occupied[w]
    OBVIOUS
  <2> QED BY <1>0, <2>1 DEF StateOK, RecordOK
<1>6. ASSUME NEW v \in Workers PROVE Calm(v)
  <2>1. CASE v # w
    <3>1. /\ occupied'[v] = occupied[v] /\ rec'[v] = rec[v] /\ vm'[v] = vm[v]
          /\ image'[v] = image[v] /\ files'[v] = files[v] /\ registered'[v] = registered[v]
          /\ consumed'[v] = consumed[v]
      BY <1>3, <2>1 DEF record
    <3>2. accepted'[v] \in Nat /\ accepted'[v] >= accepted[v] /\ written' >= written
      BY <1>0, <1>1
    <3> QED BY <1>0, <3>1, <3>2, Untouched
  <2>2. CASE v = w
    <3>1. FilesOK(w)'
      BY <1>0 DEF StateOK, FilesOK, NoFiles, record
    <3>2. rec[w].epoch <= accepted'[w]
      BY <1>0, <1>1, TypesAt DEF StateOK, RecordOK
    <3> QED BY <1>0, <1>1, <1>2, <1>5, <2>2, <3>1, <3>2 DEF Calm, record
  <2> QED BY <2>1, <2>2
<1>7. starts' = starts /\ restored' = restored
  BY <1>0, NoneRuns
<1>8. \A m \in Migrations : Spent(w, m)'
  BY <1>0, <1>1, <1>7, TypesAt DEF StateOK, SnapshotOK, Spent
<1>9. HandlerOK(w, r)'
  BY <1>0, <1>1, <1>2, <1>5, <1>8 DEF HandlerOK, Resumes, record
<1>10. At(w) = {}
  BY <1>0, ReservationIsAlone
<1> QED BY <1>0, <1>4, <1>6, <1>9, <1>10, AwaitStep DEF StartWork

\* A reservation that finds the sandbox's record takes it for its own.
LEMMA MatchStep ==
    ASSUME WorkerInv, CountRuns, NEW r \in requests,
           prepared' = [prepared EXCEPT ![r.worker] = @ \cup {r.m}], Ok(r) \/ Error(r),
           UNCHANGED <<rec, consumed, registered, manifests, host, accepted, written,
                       workerRestarts>>
    PROVE  WorkerInv' /\ Rises
<1>0. /\ AloneTypeOK /\ RestTypeOK /\ written \in Nat
      /\ r.worker \in Workers /\ r.m \in Migrations
  BY RequestTypes, Types, WorkerBoundsAssumption DEF WorkerInv, AloneTypeOK, RestTypeOK
<1>1. prepared' \in [Workers -> SUBSET Migrations]
  BY <1>0 DEF RestTypeOK
<1>2. RestTypeOK'
  BY <1>0, <1>1 DEF RestTypeOK, host
<1>3. ASSUME NEW v \in Workers PROVE Calm(v)
  <2>1. accepted'[v] \in Nat /\ accepted'[v] >= accepted[v]
    BY <1>0, TypesAt
  <2> QED BY <1>0, <2>1, Untouched DEF host
<1>4. {r} \in SUBSET requests /\ 0 \in 0..MaxWrites
  BY WorkerBoundsAssumption
<1>5. PICK status \in {"ok", "error"} : Reply({r}, status, 0)
  BY DEF Ok, Error
<1> QED BY <1>0, <1>2, <1>3, <1>4, <1>5, ReplyStep

LEMMA BeginPrestageStep ==
    ASSUME WorkerInv, CountRuns, BeginPrestage, UNCHANGED <<written, workerRestarts>>
    PROVE  WorkerInv' /\ Rises
<1>1. PICK r \in Sent("prestage") :
         \/ Answer(r, vm[r.worker] # "none")
         \/ /\ Preparing(r.worker, r.m) # {} /\ Await(r)
            /\ UNCHANGED <<record, host, accepted>>
         \/ /\ prepared' = [prepared EXCEPT ![r.worker] = @ \cup {r.m}]
            /\ Ok(r) \/ Error(r)
            /\ UNCHANGED <<rec, consumed, registered, manifests, host, accepted>>
         \/ Answer(r, FALSE)
         \/ /\ r.epoch >= accepted[r.worker] /\ Accept(r.worker, r.epoch) /\ Error(r)
            /\ UNCHANGED <<record, host>>
         \/ /\ rec[r.worker].state = "none" /\ r.epoch >= accepted[r.worker]
            /\ ~occupied[r.worker] /\ occupied' = [occupied EXCEPT ![r.worker] = TRUE]
            /\ StartWork(r)
            /\ UNCHANGED <<record, vm, image, files>>
  BY DEF BeginPrestage
<1>2. r \in requests /\ r.stage = "sent" /\ r.op = "prestage"
  BY SentFacts
<1>3. CASE Answer(r, vm[r.worker] # "none") \/ Answer(r, FALSE)
  <2>1. (Ok(r) \/ Error(r)) /\ UNCHANGED <<record, host, accepted>>
    BY <1>3 DEF Answer
  <2> QED BY <1>2, <2>1, AnswerStep
<1>4. CASE /\ Preparing(r.worker, r.m) # {} /\ Await(r)
           /\ UNCHANGED <<record, host, accepted>>
  BY <1>2, <1>4, JoinStep
<1>5. CASE /\ prepared' = [prepared EXCEPT ![r.worker] = @ \cup {r.m}]
           /\ Ok(r) \/ Error(r)
           /\ UNCHANGED <<rec, consumed, registered, manifests, host, accepted>>
  BY <1>2, <1>5, MatchStep
<1>6. CASE /\ r.epoch >= accepted[r.worker] /\ Accept(r.worker, r.epoch) /\ Error(r)
           /\ UNCHANGED <<record, host>>
  BY <1>2, <1>6, AcceptedAnswerStep
<1>7. CASE /\ rec[r.worker].state = "none" /\ r.epoch >= accepted[r.worker]
           /\ ~occupied[r.worker] /\ occupied' = [occupied EXCEPT ![r.worker] = TRUE]
           /\ StartWork(r)
           /\ UNCHANGED <<record, vm, image, files>>
  BY <1>2, <1>7, ClaimStep
<1> QED BY <1>1, <1>3, <1>4, <1>5, <1>6, <1>7

\* A reservation ends with all calls that joined it: nobody else was at work on the worker.
LEMMA EndPrestageStep ==
    ASSUME WorkerInv, CountRuns, EndPrestage, UNCHANGED <<written, workerRestarts>>
    PROVE  WorkerInv' /\ Rises
<1>1. PICK r \in Running("prestage") :
         \/ /\ vm' = [vm EXCEPT ![r.worker] = "idle"]
            /\ rec' = [rec EXCEPT ![r.worker] =
                         [state |-> "booting", epoch |-> r.epoch, loaded |-> None]]
            /\ prepared' = [prepared EXCEPT ![r.worker] = @ \cup {r.m}]
            /\ registered' = [registered EXCEPT ![r.worker] = NoFiles]
            /\ files' = [files EXCEPT ![r.worker] = NoFiles]
            /\ Reply(Preparing(r.worker, r.m), "ok", 0)
            /\ UNCHANGED <<occupied, image, consumed, manifests, accepted>>
         \/ /\ occupied' = [occupied EXCEPT ![r.worker] = FALSE]
            /\ Reply(Preparing(r.worker, r.m), "error", 0)
            /\ UNCHANGED <<record, vm, image, files, accepted>>
  BY DEF EndPrestage
<1> DEFINE w == r.worker
           done == Preparing(w, r.m)
<1>2. /\ r \in At(w) /\ r.op = "prestage" /\ w \in Workers /\ HandlerOK(w, r) /\ StateOK(w)
      /\ r.epoch \in Nat /\ r.m \in Migrations
  BY RunningFacts DEF Request
<1>3. done \in SUBSET requests /\ 0 \in 0..MaxWrites /\ GetOn(w, done)
  <2>1. ASSUME NEW p \in At(w) PROVE p \in done
    <3>1. p.op = "prestage" /\ p.m = r.m
      BY <1>2 DEF WorkerInv, HandlersOK, Apart
    <3> QED BY <3>1 DEF At, Preparing, Running
  <2>2. At(w) \ done = {}
    BY <2>1
  <2> QED BY <2>2, WorkerBoundsAssumption DEF GetOn, Preparing, Running
<1>4. /\ AloneTypeOK /\ RestTypeOK /\ written \in Nat /\ written' = written
      /\ accepted[w] \in Nat /\ r.epoch <= accepted[w]
      /\ rec[w].state = "none" /\ consumed[w] = {} /\ vm[w] = "none" /\ occupied[w]
      /\ \A m \in Migrations : Spent(w, m)
  BY <1>2, Types, TypesAt DEF WorkerInv, AloneTypeOK, HandlerOK, StateOK, RecordOK
<1>5. CASE /\ vm' = [vm EXCEPT ![w] = "idle"]
           /\ rec' = [rec EXCEPT ![w] =
                        [state |-> "booting", epoch |-> r.epoch, loaded |-> None]]
           /\ prepared' = [prepared EXCEPT ![w] = @ \cup {r.m}]
           /\ registered' = [registered EXCEPT ![w] = NoFiles]
           /\ files' = [files EXCEPT ![w] = NoFiles]
           /\ Reply(done, "ok", 0)
           /\ UNCHANGED <<occupied, image, consumed, manifests, accepted>>
  <2>1. NoFiles \in 0..NoFiles
    BY WorkerBoundsAssumption DEF NoFiles
  <2>2. [state |-> "booting", epoch |-> r.epoch, loaded |-> None] \in
           [state : RecordStates \cup {"none"}, epoch : Nat, loaded : Migrations \cup {None}]
    BY <1>2 DEF RecordStates
  <2>3. RestTypeOK'
    BY <1>2, <1>4, <1>5, <2>1, <2>2 DEF RestTypeOK
  <2>4. ASSUME NEW v \in Workers, v # w PROVE Calm(v)
    <3>1. /\ rec'[v] = rec[v] /\ vm'[v] = vm[v] /\ files'[v] = files[v]
          /\ registered'[v] = registered[v]
      BY <1>4, <1>5, <2>4 DEF RestTypeOK
    <3> QED BY <1>4, <1>5, <3>1, Untouched, TypesAt
  <2>5. /\ vm'[w] = "idle" /\ rec'[w].state = "booting" /\ rec'[w].epoch = r.epoch
        /\ rec'[w].loaded = None /\ registered'[w] = NoFiles /\ files'[w] = NoFiles
    BY <1>2, <1>4, <1>5 DEF RestTypeOK
  <2>6. Unrun(w)
    BY <1>2, <1>4, <2>5, NoRun
  <2>7. StateOK(w)'
    <3>1. FilesOK(w)'
      BY <1>2, <1>4, <1>5, <2>5 DEF StateOK, FilesOK
    <3>2. RecordOK(w)'
      BY <1>4, <1>5, <2>5 DEF RecordOK, Unloaded
    <3>3. ASSUME NEW m \in Migrations PROVE SnapshotOK(w, m)'
      BY <1>2, <1>4, <1>5, <2>5, <2>6, WorkerNoneAssumption
      DEF Unrun, StateOK, SnapshotOK, Spent
    <3> QED BY <3>1, <3>2, <3>3 DEF StateOK
  <2>8. accepted'[w] >= accepted[w] /\ written' >= written
    BY <1>4, <1>5
  <2>9. w \in Workers /\ Reply(done, "ok", 0)
    BY <1>2, <1>5
  <2> QED BY <1>3, <2>3, <2>4, <2>7, <2>8, <2>9, ReplyStepAt
<1>6. CASE /\ occupied' = [occupied EXCEPT ![w] = FALSE]
           /\ Reply(done, "error", 0)
           /\ UNCHANGED <<record, vm, image, files, accepted>>
  <2>1. RestTypeOK'
    BY <1>2, <1>4, <1>6 DEF RestTypeOK, record
  <2>2. ASSUME NEW v \in Workers, v # w PROVE Calm(v)
    <3>1. /\ occupied'[v] = occupied[v] /\ rec'[v] = rec[v] /\ vm'[v] = vm[v]
          /\ image'[v] = image[v] /\ files'[v] = files[v] /\ registered'[v] = registered[v]
          /\ consumed'[v] = consumed[v]
      BY <1>4, <1>6, <2>2 DEF RestTypeOK, record
    <3>2. accepted'[v] \in Nat /\ accepted'[v] >= accepted[v] /\ written' >= written
      BY <1>4, <1>6, TypesAt
    <3> QED BY <1>4, <3>1, <3>2, Untouched
  <2>3. Unrun(w)
    BY <1>2, <1>4, <1>6, NoRun
  <2>4. StateOK(w)'
    <3>1. FilesOK(w)'
      BY <1>2, <1>4, <1>6 DEF StateOK, FilesOK, record, NoFiles
    <3>2. RecordOK(w)'
      BY <1>2, <1>4, <1>6 DEF StateOK, RecordOK, record
    <3>3. ASSUME NEW m \in Migrations PROVE SnapshotOK(w, m)'
      BY <1>2, <1>4, <1>6, <2>3 DEF Unrun, StateOK, SnapshotOK, Spent, record
    <3> QED BY <3>1, <3>2, <3>3 DEF StateOK
  <2>5. accepted'[w] >= accepted[w] /\ written' >= written
    BY <1>4, <1>6
  <2>6. w \in Workers /\ Reply(done, "error", 0)
    BY <1>2, <1>6
  <2> QED BY <1>3, <2>1, <2>2, <2>4, <2>5, <2>6, ReplyStepAt
<1> QED BY <1>1, <1>5, <1>6

-----------------------------------------------------------------------------
(* Handlers that go on after the host's answer.                            *)

\* Nothing happened to worker v.
SameAt(v) ==
    /\ rec'[v] = rec[v] /\ accepted'[v] = accepted[v] /\ occupied'[v] = occupied[v]
    /\ vm'[v] = vm[v] /\ image'[v] = image[v] /\ files'[v] = files[v]
    /\ registered'[v] = registered[v] /\ consumed'[v] = consumed[v]

LEMMA SameIsCalm ==
    ASSUME WorkerInv, NEW v \in Workers, SameAt(v), written' = written
    PROVE  Calm(v)
<1>1. written' \in Nat /\ written' >= written /\ accepted'[v] \in Nat /\ accepted'[v] >= accepted[v]
  BY TypesAt DEF WorkerInv, SameAt
<1> QED BY <1>1, Untouched DEF SameAt

\* The handler of r returns, and its worker stays calm.
LEMMA CalmEnd ==
    ASSUME WorkerInv, CountRuns, NEW r \in requests, NEW status \in {"ok", "error"},
           NEW img \in 0..MaxWrites, Reply({r}, status, img), RestTypeOK', written' = written,
           Calm(r.worker), \A v \in Workers : v # r.worker => SameAt(v)
    PROVE  WorkerInv' /\ Rises
<1>1. ASSUME NEW v \in Workers PROVE Calm(v)
  BY <1>1, SameIsCalm
<1>2. {r} \in SUBSET requests /\ written' >= written
  BY WorkerBoundsAssumption DEF WorkerInv, AloneTypeOK, WorkerTypeOK
<1> QED BY <1>1, <1>2, ReplyStep

\* The handler of r returns, and its worker is left as the handlers there can go on with.
LEMMA LoudEnd ==
    ASSUME WorkerInv, CountRuns, NEW r \in requests, NEW status \in {"ok", "error"},
           NEW img \in 0..MaxWrites, Reply({r}, status, img), RestTypeOK', written' = written,
           accepted' = accepted, AloneTypeOK' => StateOK(r.worker)', GetOn(r.worker, {r}),
           \A v \in Workers : v # r.worker => SameAt(v)
    PROVE  WorkerInv' /\ Rises
<1>1. ASSUME NEW v \in Workers, v # r.worker PROVE Calm(v)
  BY <1>1, SameIsCalm
<1>2. {r} \in SUBSET requests /\ written' >= written /\ r.worker \in Workers
  BY WorkerBoundsAssumption, RequestTypes DEF WorkerInv, AloneTypeOK, WorkerTypeOK
<1>3. accepted'[r.worker] >= accepted[r.worker]
  BY <1>2, TypesAt DEF WorkerInv
<1> QED BY <1>1, <1>2, <1>3, ReplyStepAt

LEMMA EndPauseStep ==
    ASSUME WorkerInv, CountRuns, EndPause, UNCHANGED <<written, workerRestarts>>
    PROVE  WorkerInv' /\ Rises
<1>1. PICK r \in Running("pause") :
         \/ /\ vm[r.worker] \in {"running", "paused"}
            /\ vm' = [vm EXCEPT ![r.worker] = "paused"]
            /\ \/ rec' = [rec EXCEPT ![r.worker].state = "paused"] /\ Ok(r)
               \/ Error(r) /\ UNCHANGED rec
            /\ UNCHANGED <<prepared, consumed, registered, manifests, occupied, image, files,
                           accepted>>
         \/ WorkFails(r)
  BY DEF EndPause, AtFirecracker
<1> DEFINE w == r.worker
<1>2. /\ r \in requests /\ r.op = "pause" /\ w \in Workers /\ HandlerOK(w, r) /\ StateOK(w)
      /\ AloneTypeOK /\ RestTypeOK
  BY RunningFacts, Types DEF WorkerInv, AloneTypeOK
<1>3. CASE WorkFails(r)
  BY <1>2, <1>3, WorkFailsStep
<1>4. CASE /\ vm[r.worker] \in {"running", "paused"}
           /\ vm' = [vm EXCEPT ![r.worker] = "paused"]
           /\ \/ rec' = [rec EXCEPT ![r.worker].state = "paused"] /\ Ok(r)
              \/ Error(r) /\ UNCHANGED rec
           /\ UNCHANGED <<prepared, consumed, registered, manifests, occupied, image, files,
                          accepted>>
  <2>1. /\ rec' \in [Workers -> [state : RecordStates \cup {"none"}, epoch : Nat,
                                 loaded : Migrations \cup {None}]]
        /\ \A v \in Workers : v # w => rec'[v] = rec[v]
        /\ rec'[w].epoch = rec[w].epoch /\ rec'[w].loaded = rec[w].loaded
        /\ rec'[w].state = "paused" \/ rec'[w] = rec[w]
    <3>1. CASE rec' = [rec EXCEPT ![w].state = "paused"]
      BY <1>2, <3>1 DEF RestTypeOK, RecordStates
    <3>2. CASE UNCHANGED rec
      BY <1>2, <3>2 DEF RestTypeOK
    <3> QED BY <1>4, <3>1, <3>2
  <2>2. /\ vm' \in [Workers -> {"none", "idle", "running", "paused"}] /\ vm'[w] = "paused"
        /\ \A v \in Workers : v # w => vm'[v] = vm[v]
    BY <1>2, <1>4 DEF RestTypeOK
  <2>3. RestTypeOK'
    BY <1>2, <1>4, <2>1, <2>2 DEF RestTypeOK
  <2>4. FilesOK(w)'
    BY <1>2, <1>4 DEF StateOK, FilesOK, NoFiles
  <2>5. accepted'[w] >= accepted[w] /\ rec'[w].epoch <= accepted'[w]
    BY <1>2, <1>4, <2>1, TypesAt DEF StateOK, RecordOK
  <2>6. rec[w].state # "none"
    BY <1>2 DEF HandlerOK
  <2>7. Calm(w)
    BY <1>4, <2>1, <2>2, <2>4, <2>5, <2>6 DEF Calm
  <2>8. \A v \in Workers : v # w => SameAt(v)
    BY <1>4, <2>1, <2>2 DEF SameAt
  <2>9. PICK status \in {"ok", "error"} : Reply({r}, status, 0)
    BY <1>4 DEF Ok, Error
  <2>10. 0 \in 0..MaxWrites
    BY WorkerBoundsAssumption
  <2> QED BY <1>2, <2>3, <2>7, <2>8, <2>9, <2>10, CalmEnd
<1> QED BY <1>1, <1>3, <1>4

\* Firecracker writes what its guest has, and its other callers move up: nothing else happens.
LEMMA TakeSnapshotStep ==
    ASSUME WorkerInv, CountRuns, TakeSnapshot, UNCHANGED <<written, workerRestarts>>
    PROVE  WorkerInv' /\ Rises
<1>1. PICK r \in AtFirecracker("snapshot") :
         \/ /\ requests' = {MovedUp(q, {r}) : q \in requests \ {r}} \cup
                            {[r EXCEPT !.turn = 0, !.image = image[r.worker]]}
            /\ UNCHANGED <<record, host, accepted, replies>>
         \/ WorkFails(r)
  BY DEF TakeSnapshot
<1> DEFINE w == r.worker
<1>2. /\ r \in requests /\ r \in At(w) /\ r \in Request /\ w \in Workers /\ r.op = "snapshot"
      /\ r.stage = "running" /\ StateOK(w) /\ HandlersOK(w) /\ AloneTypeOK /\ RestTypeOK
  BY RunningFacts, Types DEF AtFirecracker, WorkerInv, AloneTypeOK
<1>3. CASE WorkFails(r)
  BY <1>2, <1>3, WorkFailsStep
<1>4. CASE /\ requests' = {MovedUp(q, {r}) : q \in requests \ {r}} \cup
                            {[r EXCEPT !.turn = 0, !.image = image[r.worker]]}
           /\ UNCHANGED <<record, host, accepted, replies>>
  <2>1. PICK kept : kept = requests \ {r}
    OBVIOUS
  <2>2. PICK f : /\ GoOn(kept, f) /\ IsFiniteSet({f[p] : p \in kept})
                 /\ {MovedUp(p, {r}) : p \in kept} = {f[p] : p \in kept}
    <3>1. {r} \in SUBSET requests
      BY <1>2
    <3>2. \E f : /\ GoOn(requests \ {r}, f)
                 /\ {MovedUp(p, {r}) : p \in requests \ {r}} = {f[p] : p \in requests \ {r}}
                 /\ IsFiniteSet({f[p] : p \in requests \ {r}})
      BY <3>1, MovingUp
    <3> QED BY <2>1, <3>2
  <2>3. PICK n : n = [r EXCEPT !.turn = 0, !.image = image[w]]
    OBVIOUS
  <2>4. requests' = {f[p] : p \in kept} \cup {n}
    BY <1>4, <2>1, <2>2, <2>3
  <2>5. image[w] \in 0..MaxWrites /\ image[w] <= written
    BY <1>2 DEF RestTypeOK, StateOK, FilesOK
  <2>6. /\ n \in Request /\ n.op = r.op /\ n.m = r.m /\ n.worker = w /\ n.epoch = r.epoch
        /\ n.stage = r.stage /\ n.image <= written
    BY <1>2, <2>3, <2>5 DEF Request
  <2>7. RequestsTypeOK' /\ IsFiniteSet(requests')
    <3>1. requests' \subseteq Request
      BY <2>2, <2>4, <2>6 DEF GoOn
    <3>2. replies' \in [Migrations -> [status : {"none", "ok", "error"}, image : 0..MaxWrites]]
      BY <1>2, <1>4 DEF AloneTypeOK, WorkerTypeOK
    <3>3. IsFiniteSet(requests')
      BY <2>2, <2>4, FS_AddElement
    <3> QED BY <3>1, <3>2, <3>3 DEF RequestsTypeOK
  <2>8. RestTypeOK'
    BY <1>2, <1>4 DEF RestTypeOK, record, host
  <2>9. AloneTypeOK'
    BY <1>2, <2>7, <2>8, TypesNext, HistoryType DEF AloneTypeOK
  <2>10. CallsOK'
    <3>1. ASSUME NEW q \in requests'
          PROVE  \E p \in requests : /\ q.op = p.op /\ q.m = p.m /\ q.worker = p.worker
                                     /\ q.epoch = p.epoch /\ q.image <= written
      <4>1. CASE q = n
        BY <1>2, <2>6, <4>1
      <4>2. ASSUME NEW p \in kept, q = f[p]
            PROVE  /\ p \in requests /\ q.op = p.op /\ q.m = p.m /\ q.worker = p.worker
                   /\ q.epoch = p.epoch /\ q.image <= written
        BY <2>1, <2>2, <4>2, RequestTypes DEF GoOn, Same
      <4> QED BY <2>4, <4>1, <4>2
    <3> QED BY <2>7, <3>1 DEF WorkerInv, CallsOK
  <2>11. After(kept, f, {n})
    BY <2>2, <2>4 DEF After
  <2>12. ASSUME NEW v \in Workers PROVE Calm(v) /\ Joins(v, kept, {n})
    <3>1. Calm(v)
      BY <1>2, <1>4, TypesAt, Untouched DEF record, host
    <3>2. ASSUME n.worker = v
          PROVE  /\ HandlerOK(v, n)'
                 /\ \A p \in kept : p \in At(v) => Apart(v, p, n)' /\ Apart(v, n, p)'
      <4>1. HandlerOK(w, r) /\ v = w
        BY <1>2, <2>6, <3>2 DEF HandlersOK
      <4>2. restored' = restored /\ starts' = starts
        BY <1>2, <1>4, NoneRuns DEF host
      <4>3. HandlerOK(v, n)'
        BY <1>2, <1>4, <2>6, <4>1, <4>2 DEF HandlerOK, Spent, Resumes, record, host
      <4>4. ASSUME NEW p \in kept, p \in At(v) PROVE Apart(v, p, n)' /\ Apart(v, n, p)'
        <5>1. Apart(w, p, r) /\ Apart(w, r, p)
          BY <1>2, <2>1, <4>1, <4>4 DEF HandlersOK
        <5> QED BY <1>4, <2>6, <4>1, <5>1 DEF Apart, record
      <4> QED BY <4>3, <4>4
    <3>3. Joins(v, kept, {n})
      BY <2>4, <3>2 DEF Joins
    <3> QED BY <3>1, <3>3
  <2>13. ASSUME NEW v \in Workers PROVE StateOK(v)' /\ HandlersOK(v)'
    BY <2>9, <2>11, <2>12, CalmWorker
  <2> QED BY <2>9, <2>10, <2>12, <2>13 DEF WorkerInv, Rises, Calm
<1> QED BY <1>1, <1>3, <1>4

LEMMA EndSnapshotStep ==
    ASSUME WorkerInv, CountRuns, EndSnapshot, UNCHANGED <<written, workerRestarts>>
    PROVE  WorkerInv' /\ Rises
<1>1. PICK r \in SnapshotWritten :
         \/ /\ files' = [files EXCEPT ![r.worker] = r.image]
            /\ registered' = [registered EXCEPT ![r.worker] = Descriptor(r.image)]
            /\ manifests' = [manifests EXCEPT ![r.worker] =
                               {entry \in @ : entry[1] # r.m} \cup {<<r.m, r.image>>}]
            /\ Reply({r}, "ok", r.image)
            /\ UNCHANGED <<rec, prepared, consumed, occupied, vm, image, accepted>>
         \/ WorkFails(r)
  BY DEF EndSnapshot
<1> DEFINE w == r.worker
<1>2. /\ r \in requests /\ r.op = "snapshot" /\ w \in Workers /\ HandlerOK(w, r) /\ StateOK(w)
      /\ r.m \in Migrations /\ AloneTypeOK /\ RestTypeOK
  BY RunningFacts, RequestTypes, Types DEF SnapshotWritten, WorkerInv, AloneTypeOK
<1>3. CASE WorkFails(r)
  BY <1>2, <1>3, WorkFailsStep
<1>4. CASE /\ files' = [files EXCEPT ![r.worker] = r.image]
           /\ registered' = [registered EXCEPT ![r.worker] = Descriptor(r.image)]
           /\ manifests' = [manifests EXCEPT ![r.worker] =
                              {entry \in @ : entry[1] # r.m} \cup {<<r.m, r.image>>}]
           /\ Reply({r}, "ok", r.image)
           /\ UNCHANGED <<rec, prepared, consumed, occupied, vm, image, accepted>>
  <2>0. r.image \in 0..MaxWrites /\ MaxWrites \in Nat /\ r.image <= written /\ written \in Nat
    BY <1>2, TypesAt, RequestTypes, WorkerBoundsAssumption
  <2>1. /\ files' \in [Workers -> 0..NoFiles] /\ files'[w] = r.image
        /\ \A v \in Workers : v # w => files'[v] = files[v]
    <3>1. r.image \in 0..NoFiles
      BY <2>0 DEF NoFiles
    <3> QED BY <1>2, <1>4, <3>1 DEF RestTypeOK
  <2>2. /\ registered' \in [Workers -> 0..NoFiles]
        /\ \A v \in Workers : v # w => registered'[v] = registered[v]
    <3>1. Descriptor(r.image) \in 0..NoFiles
      BY <2>0 DEF Descriptor, NoFiles
    <3> QED BY <1>2, <1>4, <3>1 DEF RestTypeOK
  <2>3. manifests' \in [Workers -> SUBSET (Migrations \X (0..MaxWrites))]
    <3>1. /\ manifests[w] \subseteq Migrations \X (0..MaxWrites)
          /\ <<r.m, r.image>> \in Migrations \X (0..MaxWrites)
      BY <1>2, <2>0 DEF RestTypeOK
    <3>2. PICK new : new = {entry \in manifests[w] : entry[1] # r.m} \cup {<<r.m, r.image>>}
      OBVIOUS
    <3>3. new \in SUBSET (Migrations \X (0..MaxWrites))
      BY <3>1, <3>2
    <3>4. manifests' = [manifests EXCEPT ![w] = new]
      BY <1>2, <1>4, <3>2 DEF RestTypeOK
    <3> QED BY <1>2, <3>3, <3>4 DEF RestTypeOK
  <2>4. RestTypeOK'
    BY <1>2, <1>4, <2>1, <2>2, <2>3 DEF RestTypeOK
  <2>5. FilesOK(w)' /\ files'[w] # NoFiles
    BY <1>2, <1>4, <2>0, <2>1 DEF StateOK, FilesOK, NoFiles
  <2>6. accepted'[w] >= accepted[w] /\ rec'[w].epoch <= accepted'[w]
    BY <1>2, <1>4, TypesAt DEF StateOK, RecordOK
  <2>7. Calm(w)
    BY <1>2, <1>4, <2>5, <2>6 DEF Calm, StateOK, RecordOK
  <2>8. \A v \in Workers : v # w => SameAt(v)
    BY <1>4, <2>1, <2>2 DEF SameAt
  <2>9. "ok" \in {"ok", "error"} /\ Reply({r}, "ok", r.image)
    BY <1>4
  <2> QED BY <1>2, <2>0, <2>4, <2>7, <2>8, <2>9, CalmEnd
<1> QED BY <1>1, <1>3, <1>4

LEMMA EndTransferStep ==
    ASSUME WorkerInv, CountRuns, EndTransfer, UNCHANGED <<written, workerRestarts>>
    PROVE  WorkerInv' /\ Rises
<1>1. PICK r \in Running("transfer") :
         \/ /\ files' = [files EXCEPT ![r.worker] = r.image]
            /\ registered' = [registered EXCEPT ![r.worker] = Descriptor(r.image)]
            /\ Ok(r) \/ Error(r)
            /\ UNCHANGED <<rec, prepared, consumed, manifests, occupied, vm, image, accepted>>
         \/ WorkFails(r)
  BY DEF EndTransfer, OkOrHostError
<1> DEFINE w == r.worker
<1>2. /\ r \in requests /\ w \in Workers /\ StateOK(w) /\ AloneTypeOK /\ RestTypeOK
  BY RunningFacts, Types DEF WorkerInv, AloneTypeOK
<1>3. CASE WorkFails(r)
  BY <1>2, <1>3, WorkFailsStep
<1>4. CASE /\ files' = [files EXCEPT ![r.worker] = r.image]
           /\ registered' = [registered EXCEPT ![r.worker] = Descriptor(r.image)]
           /\ Ok(r) \/ Error(r)
           /\ UNCHANGED <<rec, prepared, consumed, manifests, occupied, vm, image, accepted>>
  <2>0. r.image \in 0..MaxWrites /\ MaxWrites \in Nat /\ r.image <= written /\ written \in Nat
    BY <1>2, TypesAt, WorkerBoundsAssumption, RequestTypes
  <2>1. /\ files' \in [Workers -> 0..NoFiles] /\ files'[w] = r.image
        /\ \A v \in Workers : v # w => files'[v] = files[v]
    <3>1. r.image \in 0..NoFiles
      BY <2>0 DEF NoFiles
    <3> QED BY <1>2, <1>4, <3>1 DEF RestTypeOK
  <2>2. /\ registered' \in [Workers -> 0..NoFiles]
        /\ \A v \in Workers : v # w => registered'[v] = registered[v]
    <3>1. Descriptor(r.image) \in 0..NoFiles
      BY <2>0 DEF Descriptor, NoFiles
    <3> QED BY <1>2, <1>4, <3>1 DEF RestTypeOK
  <2>3. RestTypeOK'
    BY <1>2, <1>4, <2>1, <2>2 DEF RestTypeOK
  <2>4. FilesOK(w)' /\ files'[w] # NoFiles
    BY <1>2, <1>4, <2>0, <2>1 DEF StateOK, FilesOK, NoFiles
  <2>5. accepted'[w] >= accepted[w] /\ rec'[w].epoch <= accepted'[w]
    BY <1>2, <1>4, TypesAt DEF StateOK, RecordOK
  <2>6. Calm(w)
    BY <1>2, <1>4, <2>4, <2>5 DEF Calm, StateOK, RecordOK
  <2>7. \A v \in Workers : v # w => SameAt(v)
    BY <1>4, <2>1, <2>2 DEF SameAt
  <2>8. PICK status \in {"ok", "error"} : Reply({r}, status, 0)
    BY <1>4 DEF Ok, Error
  <2>9. 0 \in 0..MaxWrites /\ written' = written
    BY WorkerBoundsAssumption
  <2> QED BY <1>2, <2>3, <2>6, <2>7, <2>8, <2>9, CalmEnd
<1> QED BY <1>1, <1>3, <1>4

\* What is loaded was not restored on the worker before; a fence that waits is past it.
LEMMA LoadedStep ==
    ASSUME WorkerInv, CountRuns, NEW r \in Running("load"), vm[r.worker] = "idle",
           vm' = [vm EXCEPT ![r.worker] = "paused"],
           image' = [image EXCEPT ![r.worker] = files[r.worker]],
           \/ rec' = [rec EXCEPT ![r.worker].loaded = r.m, ![r.worker].state = "paused"] /\ Ok(r)
           \/ Error(r) /\ UNCHANGED rec,
           UNCHANGED <<prepared, consumed, registered, manifests, occupied, files, accepted,
                       written, workerRestarts>>
    PROVE  WorkerInv' /\ Rises
<1> DEFINE w == r.worker
<1>1. /\ r \in requests /\ r.op = "load" /\ r \in At(w)
      /\ w \in Workers /\ HandlerOK(w, r) /\ StateOK(w) /\ HandlersOK(w)
      /\ r.m \in Migrations /\ AloneTypeOK /\ RestTypeOK
  BY RunningFacts, RequestTypes, Types DEF WorkerInv, AloneTypeOK
<1>2. ASSUME NEW p \in At(w), p.op = "load"
      PROVE  /\ p.m \in Migrations /\ w = Journey[p.m].destination
             /\ accepted[w] > Journey[p.m].epoch
             /\ files[w] # NoFiles /\ restored[w][p.m] = 0 /\ starts[w][p.m] = 0
             /\ \A q \in At(w) : q.op = "fence" => q.epoch > Journey[p.m].epoch + 1
  <2>1. HandlerOK(w, p) /\ p \in requests
    BY <1>1, <1>2 DEF HandlersOK, At
  <2>2. /\ p.epoch \in Nat /\ p.epoch = Journey[p.m].epoch + 1 /\ p.worker = w
        /\ p.m \in Migrations /\ p.worker = Journey[p.m].destination
        /\ Journey[p.m].epoch \in Nat /\ accepted[w] \in Nat
    BY <1>1, <1>2, <2>1, RequestTypes, TypesAt DEF SourceCalls, At
  <2>3. restored[w][p.m] = 0 /\ starts[w][p.m] = 0
    BY <1>1, <1>2, <2>1, <2>2 DEF HandlerOK, StateOK, SnapshotOK
  <2>4. ASSUME NEW q \in At(w), q.op = "fence" PROVE q.epoch > Journey[p.m].epoch + 1
    BY <1>1, <1>2, <2>4 DEF HandlersOK, Apart
  <2> QED BY <1>2, <2>1, <2>2, <2>3, <2>4 DEF HandlerOK
<1>3. /\ vm' \in [Workers -> {"none", "idle", "running", "paused"}] /\ vm'[w] = "paused"
      /\ \A v \in Workers : v # w => vm'[v] = vm[v]
  BY <1>1 DEF RestTypeOK
<1>4. /\ image' \in [Workers -> 0..MaxWrites] /\ image'[w] = files[w]
      /\ \A v \in Workers : v # w => image'[v] = image[v]
  <2>1. files[w] \in 0..MaxWrites
    <3>1. files[w] \in 0..(MaxWrites + 1) /\ files[w] # MaxWrites + 1
      BY <1>1, <1>2 DEF RestTypeOK, NoFiles
    <3> QED BY <3>1, WorkerBoundsAssumption
  <2> QED BY <1>1, <2>1 DEF RestTypeOK
<1>5. FilesOK(w)'
  BY <1>1, <1>2, <1>4 DEF StateOK, FilesOK, NoFiles
<1>6. /\ rec' \in [Workers -> [state : RecordStates \cup {"none"}, epoch : Nat,
                               loaded : Migrations \cup {None}]]
      /\ \A v \in Workers : v # w => rec'[v] = rec[v]
      /\ rec'[w].epoch = rec[w].epoch
      /\ \/ rec'[w].loaded = r.m /\ rec'[w].state = "paused"
         \/ rec'[w].loaded = rec[w].loaded /\ rec'[w].state = rec[w].state
  <2>1. CASE rec' = [rec EXCEPT ![w].loaded = r.m, ![w].state = "paused"]
    BY <1>1, <2>1 DEF RestTypeOK, RecordStates
  <2>2. CASE UNCHANGED rec
    BY <1>1, <2>2 DEF RestTypeOK
  <2> QED BY <2>1, <2>2
<1>7. RestTypeOK'
  BY <1>1, <1>3, <1>4, <1>6 DEF RestTypeOK
<1>8. \A m \in Migrations : starts'[w][m] = starts[w][m]
  BY <1>1, <1>3 DEF CountRuns, Starts
\* What is restored in this step is a load's that waits: there may be no other.
<1>9. ASSUME NEW m \in Migrations
      PROVE  \/ restored'[w][m] = restored[w][m]
             \/ restored'[w][m] = 1 /\ \E p \in At(w) : p.op = "load" /\ p.m = m
  <2>1. restored'[w][m] = restored[w][m] + (IF Restores(w, m) THEN 1 ELSE 0)
    BY <1>1 DEF CountRuns
  <2>2. CASE Restores(w, m)
    <3>1. PICK p \in At(w) : p.op = "load" /\ p.m = m
      BY <2>2 DEF Restores, AtFirecracker, Running, At
    <3> QED BY <1>2, <2>1, <2>2, <3>1
  <2>3. CASE ~Restores(w, m)
    BY <1>1, <2>1, <2>3, TypesAt
  <2> QED BY <2>2, <2>3
<1>10. RecordOK(w)'
  <2>1. rec[w].state # "none" /\ RecordOK(w)
    BY <1>1 DEF StateOK, HandlerOK
  <2> QED BY <1>3, <1>6, <2>1 DEF RecordOK
<1>11. ASSUME NEW m \in Migrations PROVE SnapshotOK(w, m)'
  <2>1. SnapshotOK(w, m) /\ occupied'[w] /\ vm'[w] # "idle"
    BY <1>1, <1>3 DEF StateOK, RecordOK
  <2>2. CASE \E p \in At(w) : p.op = "load" /\ p.m = m
    <3>1. /\ starts[w][m] = 0 /\ restored[w][m] = 0
          /\ w = Journey[m].destination /\ accepted[w] > Journey[m].epoch
      BY <1>2, <2>2
    <3> QED BY <1>8, <1>9, <2>1, <3>1 DEF SnapshotOK
  <2>3. CASE ~\E p \in At(w) : p.op = "load" /\ p.m = m
    <3>1. m # r.m /\ restored'[w][m] = restored[w][m]
      BY <1>1, <1>9, <2>3
    <3> QED BY <1>6, <1>8, <2>1, <3>1 DEF SnapshotOK
  <2> QED BY <2>2, <2>3
<1>12. StateOK(w)'
  BY <1>5, <1>10, <1>11 DEF StateOK
<1>13. ASSUME NEW p \in At(w) \ {r} PROVE HandlerOK(w, p)' /\ p.op \notin Resumes
  <2>1. HandlerOK(w, p) /\ p.op # "prestage" /\ p.op \notin Resumes
    BY <1>1 DEF HandlersOK, HandlerOK
  <2>2. ASSUME p.op = "fence", NEW m \in Migrations, restored'[w][m] > 0 \/ rec'[w].loaded = m
        PROVE  p.epoch > Journey[m].epoch + 1
    <3>1. CASE \E q \in At(w) : q.op = "load" /\ q.m = m
      BY <1>2, <2>2, <3>1
    <3>2. CASE ~\E q \in At(w) : q.op = "load" /\ q.m = m
      <4>1. restored[w][m] > 0 \/ rec[w].loaded = m
        BY <1>1, <1>6, <1>9, <2>2, <3>2
      <4> QED BY <2>1, <2>2, <4>1 DEF HandlerOK
    <3> QED BY <3>1, <3>2
  <2>3. p.op = "load" => files'[w] # NoFiles'
    BY <2>1 DEF HandlerOK, NoFiles
  <2> QED BY <1>3, <1>6, <2>1, <2>2, <2>3 DEF HandlerOK
<1>14. GetOn(w, {r})
  <2>1. ASSUME NEW p \in At(w) \ {r}, NEW q \in At(w) \ {r}, p # q PROVE Apart(w, p, q)'
    <3>1. Apart(w, p, q)
      BY <1>1, <2>1 DEF HandlersOK
    <3> QED BY <1>13, <3>1 DEF Apart
  <2> QED BY <1>13, <2>1 DEF GetOn
<1>15. \A v \in Workers : v # w => SameAt(v)
  BY <1>3, <1>4, <1>6 DEF SameAt
<1>16. PICK status \in {"ok", "error"} : Reply({r}, status, 0)
  BY DEF Ok, Error
<1>17. 0 \in 0..MaxWrites
  BY WorkerBoundsAssumption
<1> QED BY <1>1, <1>7, <1>12, <1>14, <1>15, <1>16, <1>17, LoudEnd

LEMMA EndLoadStep ==
    ASSUME WorkerInv, CountRuns, EndLoad, UNCHANGED <<written, workerRestarts>>
    PROVE  WorkerInv' /\ Rises
<1>1. PICK r \in Running("load") :
         \/ /\ vm[r.worker] = "idle"
            /\ vm' = [vm EXCEPT ![r.worker] = "paused"]
            /\ image' = [image EXCEPT ![r.worker] = files[r.worker]]
            /\ \/ /\ rec' = [rec EXCEPT ![r.worker].loaded = r.m, ![r.worker].state = "paused"]
                  /\ Ok(r)
               \/ Error(r) /\ UNCHANGED rec
            /\ UNCHANGED <<prepared, consumed, registered, manifests, occupied, files, accepted>>
         \/ WorkFails(r)
  BY DEF EndLoad, AtFirecracker
<1>2. r \in requests
  BY <1>1, RunningFacts
<1>3. CASE WorkFails(r)
  BY <1>2, <1>3, WorkFailsStep
<1>4. CASE ~WorkFails(r)
  BY <1>1, <1>4, LoadedStep
<1> QED BY <1>3, <1>4

\* A resume that ends finds its snapshot marked and never run before; no other resume waits.
LEMMA ResumedStep ==
    ASSUME WorkerInv, CountRuns, NEW r \in requests, r.stage = "running", r.op \in Resumes,
           vm[r.worker] \in {"running", "paused"},
           vm' = [vm EXCEPT ![r.worker] = "running"],
           \/ rec' = [rec EXCEPT ![r.worker].state = "running", ![r.worker].epoch = r.epoch]
           \/ UNCHANGED rec,
           Ok(r) \/ Error(r),
           UNCHANGED <<prepared, consumed, registered, manifests, occupied, image, files,
                       accepted, written, workerRestarts>>
    PROVE  WorkerInv' /\ Rises
<1> DEFINE w == r.worker
<1>1. /\ r \in At(w) /\ w \in Workers /\ HandlerOK(w, r) /\ StateOK(w) /\ HandlersOK(w)
      /\ AloneTypeOK /\ RestTypeOK /\ r.epoch \in Nat /\ r.op # "prestage"
  BY RequestTypes, Types DEF WorkerInv, AloneTypeOK, At, HandlersOK, Resumes
<1>2. /\ rec' \in [Workers -> [state : RecordStates \cup {"none"}, epoch : Nat,
                               loaded : Migrations \cup {None}]]
      /\ \A v \in Workers : v # w => rec'[v] = rec[v]
      /\ rec'[w].loaded = rec[w].loaded
      /\ \/ rec'[w].state = "running" /\ rec'[w].epoch = r.epoch
         \/ rec'[w] = rec[w]
  <2>1. CASE rec' = [rec EXCEPT ![w].state = "running", ![w].epoch = r.epoch]
    BY <1>1, <2>1, SMTT(30) DEF RestTypeOK, RecordStates
  <2>2. CASE UNCHANGED rec
    BY <1>1, <2>2 DEF RestTypeOK
  <2> QED BY <2>1, <2>2
<1>3. /\ vm' \in [Workers -> {"none", "idle", "running", "paused"}] /\ vm'[w] = "running"
      /\ \A v \in Workers : v # w => vm'[v] = vm[v]
  BY <1>1 DEF RestTypeOK
<1>4. RestTypeOK'
  BY <1>1, <1>2, <1>3 DEF RestTypeOK
<1>5. /\ rec[w].state # "none" /\ r.epoch <= accepted[w]
      /\ rec[w].epoch <= accepted[w] /\ accepted'[w] = accepted[w]
      /\ \A m \in Migrations : rec[w].loaded = m => m \in consumed[w] /\ starts[w][m] = 0
  BY <1>1 DEF HandlerOK, StateOK, RecordOK
<1>6. ASSUME NEW m \in Migrations
      PROVE  /\ restored'[w][m] = restored[w][m]
             /\ \/ starts'[w][m] = starts[w][m]
                \/ restored[w][m] > 0 /\ starts'[w][m] = starts[w][m] + 1
  <2>1. ~Restores(w, m) /\ restored[w][m] \in Nat
    BY <1>1, TypesAt DEF Restores
  <2> QED BY <1>1, <2>1 DEF CountRuns
<1>7. FilesOK(w)'
  BY <1>1 DEF StateOK, FilesOK, NoFiles
<1>8. RecordOK(w)'
  BY <1>1, <1>2, <1>3, <1>5 DEF StateOK, RecordOK
<1>9. ASSUME NEW m \in Migrations PROVE SnapshotOK(w, m)'
  <2>1. SnapshotOK(w, m) /\ occupied'[w]
    BY <1>1 DEF StateOK, RecordOK
  <2> QED BY <1>2, <1>3, <1>5, <1>6, <2>1 DEF SnapshotOK
<1>10. StateOK(w)'
  BY <1>7, <1>8, <1>9 DEF StateOK
<1>11. ASSUME NEW p \in At(w) \ {r} PROVE HandlerOK(w, p)'
  <2>1. /\ HandlerOK(w, p) /\ p.op # "prestage"
        /\ p.op \in Resumes => rec[w].loaded = None
    <3>1. HandlerOK(w, p) /\ Apart(w, r, p)
      BY <1>1 DEF HandlersOK
    <3> QED BY <1>5, <3>1 DEF HandlerOK, Apart
  <2>2. p.op = "load" => files'[w] # NoFiles
    BY <2>1 DEF HandlerOK, NoFiles
  <2>3. p.op \in Resumes => \A m \in Migrations : rec'[w].loaded # m
    BY <1>2, <2>1, WorkerNoneAssumption
  <2>4. p.op = "fence" => /\ rec'[w].state # "booting"
                          /\ \A m \in Migrations : restored'[w][m] > 0 \/ rec'[w].loaded = m =>
                                p.epoch > Journey[m].epoch + 1
    BY <1>2, <1>6, <2>1 DEF HandlerOK
  <2>5. p.epoch <= accepted'[w] /\ rec'[w].state # "none"
    BY <1>2, <1>5, <2>1 DEF HandlerOK
  <2> QED BY <1>3, <2>1, <2>2, <2>3, <2>4, <2>5 DEF HandlerOK
<1>12. GetOn(w, {r})
  <2>1. ASSUME NEW p \in At(w) \ {r}, NEW q \in At(w) \ {r}, p # q PROVE Apart(w, p, q)'
    <3>1. Apart(w, p, q)
      BY <1>1, <2>1 DEF HandlersOK
    <3> QED BY <1>2, <3>1 DEF Apart
  <2> QED BY <1>11, <2>1 DEF GetOn
<1>13. \A v \in Workers : v # w => SameAt(v)
  BY <1>2, <1>3 DEF SameAt
<1>14. PICK status \in {"ok", "error"} : Reply({r}, status, 0)
  BY DEF Ok, Error
<1>15. 0 \in 0..MaxWrites
  BY WorkerBoundsAssumption
<1> QED BY <1>4, <1>10, <1>12, <1>13, <1>14, <1>15, LoudEnd

LEMMA EndResumesStep ==
    ASSUME WorkerInv, CountRuns, EndResume \/ EndRollback,
           UNCHANGED <<written, workerRestarts>>
    PROVE  WorkerInv' /\ Rises
<1>1. PICK r \in requests : r.stage = "running" /\ r.op \in Resumes /\ EndResumeSandbox(r)
  BY DEF EndResume, EndRollback, AtFirecracker, Running, Resumes
<1>2. CASE WorkFails(r)
  BY <1>2, WorkFailsStep
<1>3. CASE ~WorkFails(r)
  BY <1>1, <1>3, ResumedStep DEF EndResumeSandbox, OkOrHostError
<1> QED BY <1>2, <1>3

\* A fence that ends well leaves no process, and the epoch of what ran there has passed.
LEMMA FencedStep ==
    ASSUME WorkerInv, CountRuns, NEW r \in Running("fence"),
           rec[r.worker].state # "quarantined",
           vm' = [vm EXCEPT ![r.worker] = "none"],
           occupied' = [occupied EXCEPT ![r.worker] = FALSE],
           rec' = [rec EXCEPT ![r.worker].state = "quarantined", ![r.worker].epoch = r.epoch],
           Ok(r),
           UNCHANGED <<prepared, consumed, registered, manifests, image, files, accepted,
                       written, workerRestarts>>
    PROVE  WorkerInv' /\ Rises
<1> DEFINE w == r.worker
<1>1. /\ r \in requests /\ r.op = "fence" /\ r \in At(w)
      /\ w \in Workers /\ HandlerOK(w, r) /\ StateOK(w) /\ HandlersOK(w)
      /\ AloneTypeOK /\ RestTypeOK /\ r.epoch \in Nat /\ accepted[w] \in Nat
  BY RunningFacts, RequestTypes, TypesAt, Types DEF WorkerInv, AloneTypeOK
<1>2. /\ rec[w].state # "none" /\ r.epoch <= accepted[w]
      /\ \A m \in Migrations : restored[w][m] > 0 \/ rec[w].loaded = m =>
            r.epoch > Journey[m].epoch + 1
  BY <1>1 DEF HandlerOK
<1>3. /\ rec' \in [Workers -> [state : RecordStates \cup {"none"}, epoch : Nat,
                               loaded : Migrations \cup {None}]]
      /\ \A v \in Workers : v # w => rec'[v] = rec[v]
      /\ rec'[w].state = "quarantined" /\ rec'[w].epoch = r.epoch
      /\ rec'[w].loaded = rec[w].loaded
  BY <1>1, RecordMoves DEF RecordStates
<1>4. /\ vm' \in [Workers -> {"none", "idle", "running", "paused"}] /\ vm'[w] = "none"
      /\ \A v \in Workers : v # w => vm'[v] = vm[v]
      /\ occupied' \in [Workers -> BOOLEAN]
      /\ \A v \in Workers : v # w => occupied'[v] = occupied[v]
  BY <1>1 DEF RestTypeOK
<1>5. RestTypeOK'
  BY <1>1, <1>3, <1>4 DEF RestTypeOK
<1>6. Unrun(w)
  BY <1>1, <1>4, NoRun
<1>7. StateOK(w)'
  <2>1. FilesOK(w)'
    BY <1>1 DEF StateOK, FilesOK, NoFiles
  <2>2. RecordOK(w)'
    BY <1>1, <1>2, <1>3, <1>4 DEF RecordOK
  <2>3. ASSUME NEW m \in Migrations PROVE SnapshotOK(w, m)'
    <3>1. SnapshotOK(w, m) /\ accepted'[w] = accepted[w]
      BY <1>1 DEF StateOK
    <3>2. Journey[m].epoch \in Nat /\ restored[w][m] \in Nat
      BY <1>1, TypesAt
    <3> QED BY <1>1, <1>2, <1>3, <1>4, <1>6, <3>1, <3>2 DEF Unrun, SnapshotOK, Spent
  <2> QED BY <2>1, <2>2, <2>3 DEF StateOK
<1>8. ASSUME NEW p \in At(w) \ {r} PROVE HandlerOK(w, p)'
  <2>1. HandlerOK(w, p) /\ p.op # "prestage"
    BY <1>1, <1>2 DEF HandlersOK, HandlerOK
  <2>2. files'[w] = files[w] /\ consumed'[w] = consumed[w] /\ accepted'[w] = accepted[w]
    OBVIOUS
  <2>3. p.op = "load" => files'[w] # NoFiles'
    BY <2>1, <2>2 DEF HandlerOK, NoFiles
  <2> QED BY <1>3, <1>4, <1>6, <2>1, <2>2, <2>3 DEF Unrun, HandlerOK
<1>9. GetOn(w, {r})
  <2>1. ASSUME NEW p \in At(w) \ {r}, NEW q \in At(w) \ {r}, p # q PROVE Apart(w, p, q)'
    <3>1. Apart(w, p, q)
      BY <1>1, <2>1 DEF HandlersOK
    <3> QED BY <1>3, <3>1 DEF Apart
  <2> QED BY <1>8, <2>1 DEF GetOn
<1>10. \A v \in Workers : v # w => SameAt(v)
  BY <1>3, <1>4 DEF SameAt
<1>11. "ok" \in {"ok", "error"} /\ Reply({r}, "ok", 0) /\ 0 \in 0..MaxWrites
  BY WorkerBoundsAssumption DEF Ok
<1> QED BY <1>1, <1>5, <1>7, <1>9, <1>10, <1>11, LoudEnd

\* One that fails may have paused or killed the guest.
LEMMA UnfencedStep ==
    ASSUME WorkerInv, CountRuns, NEW r \in Running("fence"),
           NEW left, left \in {vm[r.worker], "none"}
                           \cup (IF vm[r.worker] = "running" THEN {"paused"} ELSE {}),
           vm' = [vm EXCEPT ![r.worker] = left], Error(r),
           UNCHANGED <<record, occupied, image, files, accepted, written, workerRestarts>>
    PROVE  WorkerInv' /\ Rises
<1> DEFINE w == r.worker
<1>1. /\ r \in requests /\ w \in Workers /\ StateOK(w) /\ AloneTypeOK /\ RestTypeOK
  BY RunningFacts, Types DEF WorkerInv, AloneTypeOK
<1>2. left = vm[w] \/ left = "none" \/ (vm[w] = "running" /\ left = "paused")
  OBVIOUS
<1>3. /\ vm' \in [Workers -> {"none", "idle", "running", "paused"}] /\ vm'[w] = left
      /\ \A v \in Workers : v # w => vm'[v] = vm[v]
  BY <1>1, <1>2 DEF RestTypeOK
<1>4. RestTypeOK'
  BY <1>1, <1>3 DEF RestTypeOK, record
<1>5. FilesOK(w)'
  BY <1>1 DEF StateOK, FilesOK, NoFiles, record
<1>6. accepted'[w] >= accepted[w] /\ rec'[w].epoch <= accepted'[w]
  BY <1>1, TypesAt DEF StateOK, RecordOK, record
<1>7. Calm(w)
  BY <1>1, <1>2, <1>3, <1>5, <1>6 DEF Calm, StateOK, RecordOK, record
<1>8. \A v \in Workers : v # w => SameAt(v)
  BY <1>3 DEF SameAt, record
<1>9. "error" \in {"ok", "error"} /\ Reply({r}, "error", 0) /\ 0 \in 0..MaxWrites
  BY WorkerBoundsAssumption DEF Error
<1> QED BY <1>1, <1>4, <1>7, <1>8, <1>9, CalmEnd

LEMMA EndFenceStep ==
    ASSUME WorkerInv, CountRuns, EndFence, UNCHANGED <<written, workerRestarts>>
    PROVE  WorkerInv' /\ Rises
<1>1. PICK r \in Running("fence") :
         \/ Answer(r, TRUE)
         \/ /\ rec[r.worker].state # "quarantined"
            /\ vm' = [vm EXCEPT ![r.worker] = "none"]
            /\ occupied' = [occupied EXCEPT ![r.worker] = FALSE]
            /\ rec' = [rec EXCEPT ![r.worker].state = "quarantined",
                                  ![r.worker].epoch = r.epoch]
            /\ Ok(r)
            /\ UNCHANGED <<prepared, consumed, registered, manifests, image, files, accepted>>
         \/ /\ \E left \in {vm[r.worker], "none"}
                        \cup (IF vm[r.worker] = "running" THEN {"paused"} ELSE {}) :
                  vm' = [vm EXCEPT ![r.worker] = left]
            /\ Error(r)
            /\ UNCHANGED <<record, occupied, image, files, accepted>>
  BY DEF EndFence
<1>2. CASE Answer(r, TRUE)
  BY <1>2, RunningFacts, AnswerStep DEF Answer
<1>3. CASE /\ rec[r.worker].state # "quarantined"
           /\ vm' = [vm EXCEPT ![r.worker] = "none"]
           /\ occupied' = [occupied EXCEPT ![r.worker] = FALSE]
           /\ rec' = [rec EXCEPT ![r.worker].state = "quarantined",
                                 ![r.worker].epoch = r.epoch]
           /\ Ok(r)
           /\ UNCHANGED <<prepared, consumed, registered, manifests, image, files, accepted>>
  BY <1>3, FencedStep
<1>4. CASE /\ \E left \in {vm[r.worker], "none"}
                       \cup (IF vm[r.worker] = "running" THEN {"paused"} ELSE {}) :
                 vm' = [vm EXCEPT ![r.worker] = left]
           /\ Error(r)
           /\ UNCHANGED <<record, occupied, image, files, accepted>>
  BY <1>4, UnfencedStep
<1> QED BY <1>1, <1>2, <1>3, <1>4

-----------------------------------------------------------------------------
(* The guest, restarts, and calls.                                         *)

LEMMA GuestWriteStep ==
    ASSUME WorkerInv, CountRuns, NEW w \in Workers, GuestWrite(w)
    PROVE  WorkerInv' /\ Rises
<1>1. /\ StateOK(w) /\ AloneTypeOK /\ RestTypeOK /\ CallsOK
      /\ written \in Nat /\ MaxWrites \in Nat /\ written < MaxWrites /\ written' = written + 1
      /\ requests \subseteq Request
  BY Types, TypesAt, WorkerBoundsAssumption
  DEF WorkerInv, AloneTypeOK, WorkerTypeOK, GuestWrite
<1>2. /\ image' \in [Workers -> 0..MaxWrites] /\ image'[w] <= written'
      /\ \A v \in Workers : v # w => image'[v] = image[v]
  <2>1. image[w] \in Nat /\ image[w] <= written
    BY <1>1, TypesAt DEF StateOK, FilesOK
  <2>2. image[w] + 1 \in 0..MaxWrites /\ image[w] + 1 <= written'
    BY <1>1, <2>1
  <2> QED BY <1>1, <2>2 DEF RestTypeOK, GuestWrite
<1>3. RestTypeOK'
  BY <1>1, <1>2 DEF RestTypeOK, GuestWrite, record
<1>4. ASSUME NEW v \in Workers PROVE Calm(v)
  <2>0. StateOK(v) /\ accepted[v] \in Nat /\ files[v] \in Nat /\ image[v] \in Nat
    BY <1>1, TypesAt DEF WorkerInv
  <2>1. FilesOK(v)'
    <3>1. image'[v] <= written'
      BY <1>1, <1>2, <2>0 DEF StateOK, FilesOK
    <3>2. files'[v] = files[v] /\ registered'[v] = registered[v]
      BY DEF GuestWrite, record
    <3> QED BY <1>1, <2>0, <3>1, <3>2 DEF StateOK, FilesOK, NoFiles
  <2>2. accepted'[v] >= accepted[v] /\ rec'[v].epoch <= accepted'[v]
    BY <2>0 DEF StateOK, RecordOK, GuestWrite, record
  <2> QED BY <2>0, <2>1, <2>2 DEF Calm, StateOK, RecordOK, GuestWrite, record
<1>5. CallsOK'
  <2>1. ASSUME NEW p \in requests PROVE p.image <= written'
    BY <1>1 DEF CallsOK, Request
  <2> QED BY <1>1, <2>1 DEF CallsOK, GuestWrite
<1>6. PICK new : new = {}
  OBVIOUS
<1>7. /\ requests' = requests \cup new /\ replies' = replies /\ new \subseteq Request
      /\ (\A n1, n2 \in new : n1 = n2) /\ \A n \in new : n.stage = "sent"
  BY <1>6 DEF GuestWrite
<1> QED BY <1>3, <1>4, <1>5, <1>7, CallStep

\* A restart takes every handler of the worker away; what ran there is still counted.
LEMMA WorkerRestartStep ==
    ASSUME WorkerInv, CountRuns, NEW w \in Workers, WorkerRestart(w)
    PROVE  WorkerInv' /\ Rises
<1>1. /\ StateOK(w) /\ AloneTypeOK /\ RestTypeOK /\ written' = written /\ written \in Nat
      /\ accepted' = accepted
  BY Types, TypesAt DEF WorkerInv, AloneTypeOK, WorkerRestart
<1>2. PICK left \in {vm[w], "none"} : vm' = [vm EXCEPT ![w] = left]
  BY DEF WorkerRestart
<1>3. /\ vm' \in [Workers -> {"none", "idle", "running", "paused"}]
      /\ vm'[w] = vm[w] \/ vm'[w] = "none"
      /\ \A v \in Workers : v # w => vm'[v] = vm[v]
  BY <1>1, <1>2 DEF RestTypeOK
<1>4. /\ rec' \in [Workers -> [state : RecordStates \cup {"none"}, epoch : Nat,
                               loaded : Migrations \cup {None}]]
      /\ rec'[w] = NoRecord /\ \A v \in Workers : v # w => rec'[v] = rec[v]
  <2>1. NoRecord \in [state : RecordStates \cup {"none"}, epoch : Nat,
                      loaded : Migrations \cup {None}]
    BY DEF NoRecord
  <2> QED BY <1>1, <2>1 DEF RestTypeOK, WorkerRestart
<1>5. /\ registered' \in [Workers -> 0..NoFiles] /\ registered'[w] = NoFiles
      /\ consumed' \in [Workers -> SUBSET Migrations] /\ consumed'[w] = {}
      /\ \A v \in Workers : v # w => registered'[v] = registered[v] /\ consumed'[v] = consumed[v]
  <2>1. NoFiles \in 0..NoFiles
    BY WorkerBoundsAssumption DEF NoFiles
  <2> QED BY <1>1, <2>1 DEF RestTypeOK, WorkerRestart
<1>6. /\ manifests' \in [Workers -> SUBSET (Migrations \X (0..MaxWrites))]
      /\ prepared' \in [Workers -> SUBSET Migrations]
      /\ workerRestarts' \in 0..MaxWorkerRestarts
  BY <1>1, WorkerBoundsAssumption DEF RestTypeOK, WorkerRestart
<1>7. RestTypeOK'
  BY <1>1, <1>3, <1>4, <1>5, <1>6 DEF RestTypeOK, WorkerRestart
<1>8. Unrun(w)
  BY <1>1, <1>3, NoRun
<1>9. StateOK(w)'
  <2>0. occupied'[w] = occupied[w] /\ image'[w] = image[w] /\ files'[w] = files[w]
    BY DEF WorkerRestart
  <2>1. FilesOK(w)'
    BY <1>1, <1>5, <2>0 DEF StateOK, FilesOK, NoFiles
  <2>2. RecordOK(w)'
    BY <1>1, <1>3, <1>4, <1>5, <2>0, TypesAt DEF StateOK, RecordOK, NoRecord, Unloaded
  <2>3. ASSUME NEW m \in Migrations PROVE SnapshotOK(w, m)'
    <3>1. SnapshotOK(w, m) /\ rec'[w].loaded # m
      BY <1>1, <1>4, WorkerNoneAssumption DEF StateOK, NoRecord
    <3> QED BY <1>1, <1>3, <1>8, <2>0, <3>1 DEF Unrun, SnapshotOK, Spent
  <2> QED BY <2>1, <2>2, <2>3 DEF StateOK
<1>10. PICK done : done = {r \in requests : r.worker = w /\ r.stage = "running"}
  OBVIOUS
<1>11. done \in SUBSET requests /\ Reply(done, "error", 0) /\ GetOn(w, done)
  <2>1. At(w) \ done = {}
    BY <1>10 DEF At
  <2> QED BY <1>10, <2>1 DEF WorkerRestart, GetOn
<1>12. ASSUME NEW v \in Workers, v # w PROVE Calm(v)
  <2>1. SameAt(v)
    BY <1>3, <1>4, <1>5, <1>12 DEF SameAt, WorkerRestart
  <2> QED BY <1>1, <2>1, SameIsCalm
<1>13. /\ accepted'[w] >= accepted[w] /\ written' >= written /\ 0 \in 0..MaxWrites
       /\ "error" \in {"ok", "error"}
  BY <1>1, TypesAt, WorkerBoundsAssumption
<1> QED BY <1>7, <1>9, <1>11, <1>12, <1>13, ReplyStepAt

LEMMA AnyCallStep ==
    ASSUME WorkerInv, CountRuns, AnyCall
    PROVE  WorkerInv' /\ Rises
<1>1. PICK op \in Operations, m \in Migrations, img \in 0..written : Call(op, m, img)
  BY DEF AnyCall
<1>2. /\ AloneTypeOK /\ RestTypeOK /\ CallsOK /\ written \in 0..MaxWrites /\ MaxWrites \in Nat
      /\ requests \subseteq Request
  BY Types, WorkerBoundsAssumption DEF WorkerInv, AloneTypeOK, WorkerTypeOK
<1>3. PICK n : n = [op |-> op, m |-> m, source |-> Journey[m].source,
           worker  |-> IF op \in SourceCalls THEN Journey[m].source ELSE Journey[m].destination,
           epoch   |-> IF op \in SourceCalls \ {"fence"} THEN Journey[m].epoch
                                                         ELSE Journey[m].epoch + 1,
           image   |-> img, awaited |-> FALSE, stage |-> "sent", turn |-> 0]
  OBVIOUS
<1>4. n \in Request
  <2>1. Journey[m].source \in Workers /\ Journey[m].destination \in Workers
        /\ Journey[m].epoch \in Nat
    BY JourneyAssumption
  <2>2. img \in 0..MaxWrites
    BY <1>2
  <2> QED BY <1>3, <2>1, <2>2 DEF Request
<1>5. PICK new : new = {n}
  OBVIOUS
<1>6. /\ requests' = requests \cup new /\ replies' = replies /\ new \subseteq Request
      /\ (\A n1, n2 \in new : n1 = n2) /\ \A q \in new : q.stage = "sent"
  BY <1>1, <1>3, <1>4, <1>5 DEF Call
<1>7. RestTypeOK' /\ written' = written
  BY <1>1, <1>2 DEF RestTypeOK, Call
<1>8. CallsOK'
  <2>1. IsFiniteSet(requests')
    BY <1>2, <1>5, <1>6, FS_AddElement DEF CallsOK
  <2>2. /\ n.worker = IF n.op \in SourceCalls THEN Journey[n.m].source
                                              ELSE Journey[n.m].destination
        /\ n.epoch = IF n.op \in SourceCalls \ {"fence"} THEN Journey[n.m].epoch
                                                         ELSE Journey[n.m].epoch + 1
        /\ n.image <= written
    BY <1>2, <1>3
  <2> QED BY <1>2, <1>5, <1>6, <1>7, <2>1, <2>2 DEF CallsOK
<1>9. ASSUME NEW v \in Workers PROVE Calm(v)
  <2>1. SameAt(v)
    BY <1>1 DEF Call, SameAt
  <2> QED BY <1>7, <2>1, SameIsCalm
<1> QED BY <1>6, <1>7, <1>8, <1>9, CallStep

-----------------------------------------------------------------------------
(* The theorems.                                                           *)

LEMMA InitHolds == AloneInit => WorkerInv
<1> SUFFICES ASSUME AloneInit PROVE WorkerInv
  OBVIOUS
<1>1. PICK home \in Workers : WorkerInit(home)
  BY DEF AloneInit
<1>2. RequestsTypeOK
  BY <1>1, WorkerBoundsAssumption DEF WorkerInit, RequestsTypeOK, NoReply
<1>3. RestTypeOK
  <2>1. /\ [state |-> "running", epoch |-> 1, loaded |-> None] \in
              [state : RecordStates \cup {"none"}, epoch : Nat, loaded : Migrations \cup {None}]
        /\ NoRecord \in
              [state : RecordStates \cup {"none"}, epoch : Nat, loaded : Migrations \cup {None}]
        /\ NoFiles \in 0..NoFiles /\ 0 \in 0..MaxWrites /\ 0 \in 0..MaxWorkerRestarts
    BY WorkerBoundsAssumption DEF NoRecord, RecordStates, NoFiles
  <2> QED BY <1>1, <2>1 DEF WorkerInit, RestTypeOK
<1>4. AloneTypeOK
  BY <1>2, <1>3, Types DEF AloneInit, AloneTypeOK
<1>5. requests = {}
  BY <1>1 DEF WorkerInit
<1>6. CallsOK
  BY <1>5, FS_EmptySet DEF CallsOK
<1>7. ASSUME NEW w \in Workers PROVE StateOK(w) /\ HandlersOK(w)
  <2>1. FilesOK(w)
    BY <1>1 DEF WorkerInit, FilesOK
  <2>2. RecordOK(w)
    <3>1. CASE w = home
      <4>1. /\ rec[w] = [state |-> "running", epoch |-> 1, loaded |-> None]
            /\ accepted[w] = 1 /\ vm[w] = "running"
        BY <1>1, <3>1 DEF WorkerInit
      <4>2. occupied[w] = (w = home)
        BY <1>1 DEF WorkerInit
      <4>3. occupied[w]
        BY <3>1, <4>2
      <4> QED BY <4>1, <4>3 DEF RecordOK
    <3>2. CASE w # home
      <4>1. /\ rec[w] = NoRecord /\ accepted[w] = 0 /\ vm[w] = "none" /\ consumed[w] = {}
        BY <1>1, <3>2 DEF WorkerInit
      <4> QED BY <4>1 DEF RecordOK, NoRecord
    <3> QED BY <3>1, <3>2
  <2>3. ASSUME NEW m \in Migrations PROVE SnapshotOK(w, m)
    <3>1. starts[w][m] = 0 /\ restored[w][m] = 0 /\ rec[w].loaded # m
      BY <1>1, WorkerNoneAssumption DEF AloneInit, WorkerInit, NoRecord
    <3> QED BY <3>1 DEF SnapshotOK, Spent
  <2>4. HandlersOK(w)
    BY <1>5 DEF HandlersOK, At
  <2> QED BY <2>1, <2>2, <2>3, <2>4 DEF StateOK
<1> QED BY <1>4, <1>6, <1>7 DEF WorkerInv

LEMMA NextHolds == WorkerInv /\ AloneNext => WorkerInv' /\ Rises
<1> SUFFICES ASSUME WorkerInv, AloneNext PROVE WorkerInv' /\ Rises
  OBVIOUS
<1>0. CountRuns
  BY DEF AloneNext
<1>1. CASE AnyCall
  BY <1>0, <1>1, AnyCallStep
<1>2. CASE Handler /\ UNCHANGED <<written, workerRestarts>>
  <2>1. CASE Reserve
    BY <1>0, <1>2, <2>1, ReserveStep
  <2>2. CASE BeginPrestage
    BY <1>0, <1>2, <2>2, BeginPrestageStep
  <2>3. CASE EndPrestage
    BY <1>0, <1>2, <2>3, EndPrestageStep
  <2>4. CASE Probe \/ Precopy \/ Verify \/ Expose
    BY <1>0, <1>2, <2>4, ChecksStep
  <2>5. CASE BeginPause
    BY <1>0, <1>2, <2>5, BeginPauseStep
  <2>6. CASE EndPause
    BY <1>0, <1>2, <2>6, EndPauseStep
  <2>7. CASE BeginSnapshot
    BY <1>0, <1>2, <2>7, BeginSnapshotStep
  <2>8. CASE EndSnapshot
    BY <1>0, <1>2, <2>8, EndSnapshotStep
  <2>9. CASE BeginTransfer
    BY <1>0, <1>2, <2>9, BeginTransferStep
  <2>10. CASE EndTransfer
    BY <1>0, <1>2, <2>10, EndTransferStep
  <2>11. CASE BeginLoad
    BY <1>0, <1>2, <2>11, BeginLoadStep
  <2>12. CASE EndLoad
    BY <1>0, <1>2, <2>12, EndLoadStep
  <2>13. CASE BeginResume \/ BeginRollback
    BY <1>0, <1>2, <2>13, BeginResumesStep
  <2>14. CASE EndResume \/ EndRollback
    BY <1>0, <1>2, <2>14, EndResumesStep
  <2>15. CASE BeginFence
    BY <1>0, <1>2, <2>15, BeginFenceStep
  <2>16. CASE EndFence
    BY <1>0, <1>2, <2>16, EndFenceStep
  <2>17. CASE TakeSnapshot
    BY <1>0, <1>2, <2>17, TakeSnapshotStep
  <2> QED BY <1>2, <2>1, <2>2, <2>3, <2>4, <2>5, <2>6, <2>7, <2>8, <2>9, <2>10, <2>11, <2>12,
             <2>13, <2>14, <2>15, <2>16, <2>17 DEF Handler
<1>3. ASSUME NEW w \in Workers, GuestWrite(w) PROVE WorkerInv' /\ Rises
  BY <1>0, <1>3, GuestWriteStep
<1>4. ASSUME NEW w \in Workers, WorkerRestart(w) PROVE WorkerInv' /\ Rises
  BY <1>0, <1>4, WorkerRestartStep
<1> QED BY <1>1, <1>2, <1>3, <1>4 DEF AloneNext, WorkerStep

LEMMA StutterHolds == WorkerInv /\ UNCHANGED aloneVars => WorkerInv'
<1> SUFFICES ASSUME WorkerInv, UNCHANGED aloneVars PROVE WorkerInv'
  OBVIOUS
<1>1. AloneTypeOK' /\ CallsOK'
  BY DEF WorkerInv, AloneTypeOK, WorkerTypeOK, CallsOK, aloneVars, workerVars
<1>2. ASSUME NEW w \in Workers PROVE StateOK(w)' /\ HandlersOK(w)'
  <2>1. StateOK(w)'
    BY DEF WorkerInv, StateOK, FilesOK, RecordOK, SnapshotOK, Spent, aloneVars, workerVars
  <2>2. HandlersOK(w)'
    BY DEF WorkerInv, HandlersOK, HandlerOK, Apart, At, Spent, aloneVars, workerVars
  <2> QED BY <2>1, <2>2
<1> QED BY <1>1, <1>2 DEF WorkerInv

\* The inductive invariant: what each worker's record, process, directory and fence say of one
\* another, and what a handler that waits for the host may rely on when it goes on.
THEOREM WorkerInvariant == AloneSpec => []WorkerInv
<1>1. WorkerInv /\ [AloneNext]_aloneVars => WorkerInv'
  BY NextHolds, StutterHolds
<1> QED BY <1>1, InitHolds, PTL DEF AloneSpec

\* The workers' state keeps its types, for any number of workers, migrations and requests.
THEOREM WorkerTypes == AloneSpec => []WorkerTypeOK
<1>1. WorkerInv => WorkerTypeOK
  BY DEF WorkerInv, AloneTypeOK
<1> QED BY <1>1, WorkerInvariant, PTL

\* No snapshot is restored twice on a worker, even when the answer to the load is lost or the
\* worker restarts (a fence empties the directory only under a later epoch than the loads of
\* what ran there), and a guest whose record names its snapshot begins to run at most once
\* (resumeSandbox marks it before it waits, loadSnapshot refuses one that is marked).
THEOREM SnapshotNeverRunsTwice == AloneSpec => []SnapshotRunsOnce
<1>1. WorkerInv => SnapshotRunsOnce
  BY DEF WorkerInv, StateOK, SnapshotOK, SnapshotRunsOnce
<1> QED BY <1>1, WorkerInvariant, PTL

\* A Firecracker process keeps the sandbox's directory (claimed by prepareMigration, moved away
\* by fenceAndCleanup once the process is dead), also over a restart that forgets its record.
THEOREM ProcessAlwaysHoldsDirectory == AloneSpec => []ProcessHoldsDirectory
<1>1. WorkerInv => ProcessHoldsDirectory
  BY DEF WorkerInv, StateOK, RecordOK, ProcessHoldsDirectory
<1> QED BY <1>1, WorkerInvariant, PTL

\* No step of a worker moves its fence back or leaves a record beyond it: mutableRecord, the
\* reservation and the fence only ever accept an epoch that is not below it.
THEOREM FenceAlwaysRises == AloneSpec => FenceOnlyRises
<1>1. WorkerInv' => \A w \in Workers : rec'[w].epoch <= accepted'[w]
  BY DEF WorkerInv, StateOK, RecordOK
<1>2. WorkerInv /\ WorkerInv' /\ [AloneNext]_aloneVars =>
         [\A w \in Workers : /\ accepted'[w] >= accepted[w]
                             /\ rec'[w].epoch <= accepted'[w]]_aloneVars
  BY <1>1, NextHolds DEF Rises
<1> QED BY <1>2, WorkerInvariant, PTL DEF AloneSpec, FenceOnlyRises
=============================================================================
