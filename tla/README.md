# Firemig in TLA+

Firemig moves a running Firecracker microVM (a *sandbox*) from one worker host
to another while the client's TCP connection stays open. This directory holds
its model: TLA+ modules, the TLC configurations that check them, and proofs for
TLAPS. Paths below are relative to the repository; `CO` is
`services/coordinator/lib/firemig_coordinator`, `AG` is `packages/agent/src`, `PX` is
`services/proxy/lib/firemig_proxy`.

## The system

| Part | State | Operations | Talks to |
|---|---|---|---|
| Coordinator store (`CO/migrations`) | SQLite rows: sandbox, migration, migration_events | start, transition, issue_resume, complete_cutover, each one immediate transaction | – |
| Coordinator runners (`CO/migrations/runner`, `orchestration`) | one process per migration, nothing but the row's phase | drive a phase: call, then a transaction; failure handling; reconciler at boot | workers and proxy over HTTP, no retries, timeouts of 10 to 180 s |
| Worker (`AG/worker`, `AG/platform`, `AG/server`) | record of each sandbox (memory), epochs.json and directories (disk), Firecracker process | prestage, pause, snapshot, transfer, load, resume, verify, rollback, fence | Firecracker, the guest agent, other workers (artifacts) |
| Proxy (`PX`) | a route manager per sandbox, a session process per client | begin_cutover, update_endpoint; registering, connecting, forwarding, buffering | the guest's port on the owning worker |
| Command queue (`CO/commands`, the sandbox channel) | queued_commands rows (SQLite), one partition of Redpanda | submit, publish during a migration, replay after it or when a client repeats a command, `ensure_mutable` | workers, broker |
| Event stream and SDK (`migration_controller.ex`, `packages/sdk`) | last event id, subscriptions | backlog then live events, reconnect | coordinator |
| SDK channel (`packages/sdk/src/phoenix`, `websocket.ts`) | one socket, its joins, pending replies by ref | connect, join, push, wait for a result, abort, close | the coordinator's channels |
| Artifact pulls (`AG/artifacts`) | a `.partial` and a published file per artifact, the record's descriptors | ranged fetch, resume, verify, rename, register | the source worker |
| Epoch store (`AG/platform/epochs.ts`) | a map, in memory and in one file | accept: compare, write beside, sync, rename, sync | file system |
| Port exposure (`CO/sandboxes/exposure.ex`, `AG/runtime/relay.ts`, `PX/route`) | ports rows, port owners, relays in a Map per sandbox, a route | expose, allocate and listen, create a route, stop | owner worker, proxy |
| Guest agent (`guest/agent.py`) | boot id, sequence counter | ping, run, write, clock sync | worker over vsock |

What is hard about it:

* **The resume boundary.** Until the intent to resume the destination is durable
  the source may be resumed; after that it must never be. Crashes, timeouts and
  repeated drives happen on both sides of it.
* **Calls that outlive their caller.** A call that timed out, or whose runner
  died, goes on in the worker. The runner has decided something else meanwhile.
* **Handlers that wait.** A worker's handler checks the record, waits for
  Firecracker, and writes the record after that, whatever happened in between.
* **Fencing.** A worker accepts a call by its epoch; the epoch is durable, the
  record is not.
* **Mailboxes.** A session's timers, self-sent messages, socket events and the
  route manager's messages arrive in any order.
* **Requests that span three services.** Exposing a port reads a row, starts a relay
  and makes a route, one after the other and without a lock, while a migration may
  move all three.
* **Files.** What a crash, a failed sync or a second writer leaves behind is what the
  next call starts from.

What makes each part correct: the rows of the store agree and the phase
machine is obeyed; a destination is resumed at most once; the guest runs in at
most one place with all its writes; the route ends at the owner; no session is
left behind, no client byte is skipped, no route waits forever; a queued command
is never lost between table and broker, is tried in its order, and gets an outcome; a
client that watches a migration sees its events once, in order and to the end; a call
over a channel is settled by its own reply or by the loss of its socket; the artifact a
record describes is what its file holds; an epoch that was answered for is not
forgotten; an exposed port leads to the sandbox, wherever it is, and to nothing after it
has left.

## The modules

| Module | Models | State and actions |
|---|---|---|
| `MigrationState` | `migration_state.ex`, `migration_recovery.ex` | pure: phases, transitions, what a failure or a restart decides |
| `Coordinator` | store, runners, reconciler, supervisor | `sandbox`, `migration`, `events` are the rows; `call[m]` is the call the runner of `m` is blocked in. An action is "an answer arrives, the transaction commits, the next call goes out", which is what a runner does between two calls. Peers are not modelled: any call succeeds or fails |
| `Worker` | the worker's handlers for one sandbox on every worker | a handler is one action, or `Begin…`/`End…` around its wait for the host; a snapshot waits for Firecracker and then for the disk, with `TakeSnapshot` between the two. `requests` and `replies` are the network |
| `WorkerAlone` | `Worker` with any caller | any call of a set of migrations, any number of times, in any order. `restored` and `starts` count what Firecracker did, not what the records say of it |
| `WorkerProofs` | – | theorems about `WorkerAlone` |
| `MovingGuest` | the promise of live migration | a guest that runs in at most one place and loses no write |
| `Migration` | `Coordinator` and `Worker` composed, with the proxy's route | a runner's call is a request; it is answered, refused, abandoned by a timeout or a crash. `Guest!Spec` is the refinement to `MovingGuest` |
| `MigrationProofs` | – | theorems about `Coordinator`, alone and in `Migration`, and about `Migration` |
| `Proxy` | route manager and sessions | a session handles one message of its mailbox at a time; `conns` are its open connections, `got` what guests received |
| `ProxyProofs` | – | theorems about `Proxy` |
| `Commands` | the sandbox channel, `commands.ex`, `queued_commands.ex`, the replayer and the broker | `channel[h]` and `task[t]` say what a process is doing, `row[c]` is a command's row, `log` the broker's partition, in which other sandboxes' commands are, too, and `Fetched` what one answer returns of it. The migration is what commands see of it: the sandbox row and which copy of the guest answers |
| `CommandsProofs` | – | theorems about `Commands` |
| `Channel` | one PhoenixSocket client of the SDK, its calls, and the channels that answer it | `ready[s]`, `up[s]`, `down[s]` are a socket and its frames; `pending` the replies waited for; `call[c]` where a call is. What a settled promise's continuations do belongs to the event that settles it |
| `ChannelProofs` | – | theorems about `Channel` |
| `Transfer` | `transferMigration` and `pullArtifact`, from a source that snapshots again and writes its disk | a byte is its content and place, a digest the bytes hashed; `pull[c][k]` is call `c`'s pull of artifact `k`, with the file it has open |
| `TransferProofs` | – | theorems about `Transfer` |
| `EpochStore` | `EpochStore.accept` and its file | `memory`, `disk`, what the disk may fall back to (`stale`), and the `write` under way |
| `Exposure` | `POST …/ports` through coordinator, worker and proxy, with the part of a migration that meets it; extends `EpochStore` | `caller[k]` is a request, the migration's runner or `transferMigration`, which exposes the ports of its manifest, `task[k]` its handler on a worker, `maps` the Map objects of `RelayLifecycle` |
| `ExposureProofs` | – | theorems about `EpochStore`, alone and in `Exposure`, and about `Exposure` |
| `EventStream` | the event table and its broadcasts, the SSE handler, the SDK's `watch()` | `log` is the table, `stream` and `mailbox` the handler, `wire` the connection, `seen` what `watch()` yielded. A handler's lookup, subscription and backlog are steps of their own |
| `EventStreamProofs` | – | theorems about `EventStream` |

`MC*.tla` give the constants their values; each `.cfg` is one run. Definitions
named `Mutant…` are wrong variants of the definition that follows them, kept to
show that the properties notice the difference; no specification uses them.

Abstractions: contents of messages are left out except the epoch, the migration
and, for snapshots, *how many of the guest's writes they hold* (`image`,
`files`, `manifest`), which is what "no write lost" is about. An artifact
descriptor is that number when it carries a hash, and a constant when a shared
worker root makes it a size (`Descriptor`). The sandbox table starts with booted
sandboxes. The idempotency key only selects a row: a replayed request changes
nothing. In `Proxy` an endpoint is named by the epoch it belongs to, and client
data are numbered chunks, each of which may fill the buffer, as the listening
socket delivers at most `buffer_bytes` at a time. In `Commands` a command is its
id (an id used again for another command is refused and changes nothing), offsets
count from 1, and the copies of the guest are numbered by the changes of owner: a
worker runs a command only if it is the copy that answers. In `Exposure` a worker is
named for the epoch at which it owns the sandbox. `Transfer` and `Exposure` take the
rest of a migration as given: the first what a source does to its files, the second the
transfer's exposures and the steps from the repoint to the cleanup. A cleanup is driven
again there when the one before has ended, not while it runs.

A call to Firecracker that the agent's own client gives up (its timeout, `unix-http.ts`) is
in `Worker` like a call whose caller stopped waiting: an error now, and the effect when
Firecracker gets to it, without one on the record. The calls that wait at a Firecracker
which outlives its agent are taken to die with the agent. A `command_result` that reports a
failure before the push's reply rejects a promise nobody handles yet (`websocket.ts:44`),
which by Node's default ends the process; `Channel` goes on, as a browser does.

External assumptions, from how the code uses them: Firecracker serves the API
of one process one call at a time, in the order they came; loading a snapshot
restores a paused guest; SQLite transactions are atomic and durable; a killed
Firecracker process is gone; a worker that restarts finds its epochs and
directories, and its Firecracker processes may or may not be alive; OTP's
supervisor allows three restarts in five seconds; the broker keeps its records, in
order; a guest command whose call failed may have run.

## The runs

| Run | Question | Bounds |
|---|---|---|
| `coordinator` | do the rows stay consistent, is the resume boundary kept, does every migration end | 2 sandboxes (one exposed), 2 workers and an unknown destination, 2 migrations and keys, 1 crash, supervisor limit 2 |
| `migration_guest` | is the guest one guest; does the route end at its owner | 2 workers, 2 migrations, 1 write, 1 coordinator crash, 1 worker restart, any host call failing, timeouts, 1 abandoned request at a time |
| `worker_alone` | what does a worker guarantee to any caller | A→B and B→A, a shared worker root, 2 requests in flight (one being handled, one on its way), 1 restart |
| `proxy` | is the session moved, are its client's bytes kept, in order; does the route settle | 1 client, 2 epochs, 2 chunks, 1 failing send, buffer of 1 chunk |
| `commands` | are queued commands tried in their order, is DONE true, do table and broker agree, does a repeated command finish | 2 commands and 1 record of another sandbox, 1 channel, 1 replay at a time, 1 migration, 1 unanswered publication or crash, a window of 2 records |
| `channel` | does a reply settle its own push; is every call answered | 2 commands of 2 topics, one awaited, 2 sockets, 3 calls, 1 abort, close, broken connection or crashed channel |
| `transfer` | is what a record describes what its file holds; does a repeated transfer complete | 2 artifacts of 2 and 1 (memory) and 2 and 2 bytes (disk), 2 snapshots, 2 calls at a time, 1 fault |
| `exposure` | do route, row and relay agree; does anything of the sandbox stay behind on its source | 2 requests and a migration, which exposes 1 port at its destination, 2 guest and 2 host ports with one preference, 2 sandboxes, 1 failing call, handler or process, or failing write or crash of the epoch store (`OneFault`) |
| `event_stream` | does a client see every event, once and in order, and the end | 4 events, 2 reconnections (the default), 4 cut, broken or refused connections or crashes, 1 killed runner |
| `coordinator_unknown`, `migration_late`, `migration_return` | what the documents say and the code does not do | see below |

Why the bounds are enough: every rule of the store is about one migration, or
two of the same sandbox. Two migrations give a worker both roles, and a way there and
back. One write tells an old image from a new one. One crash suffices for each place of
a runner, as a crash leaves nothing but rows. One client meets the route's rules; two
sessions differ in the route's count only. Two requests, with the migration as a third
caller of the destination, are every pair that can meet at a worker, a port or a row;
both guest ports prefer the same host port, so that they collide. An artifact of two
bytes can be cut in between, and one that shrinks finds a partial file that is too
long. Two sockets are a lost one and its successor. `Window`, the records the broker
returns at once, is shorter than the log can be: a record of another sandbox, or a second
one of a command, pushes the last command out of it.

Larger instances were checked when the models were written: three migrations of a
sandbox without liveness, `migration_guest` without a route and with two crashes or a
restart of a worker (1.5 million states), `worker_alone` with a repeated migration
instead of a return, two clients or three epochs of `proxy` (4.5 million states), two
channels, a replay and an unanswered publication of `commands` (21 million states),
whose invariants are proved for any number of them besides, `exposure` with a fault of each
kind (7.3 million states). The inductive invariants of
the proofs were checked as invariants before they were proved: that of `Proxy` with two
clients (2.1 million states), of `Exposure` with three requests (6 million), of
`WorkerAlone` with two restarts, with other journeys, and without a shared root.

A run without deadlock checking is one of a system that may stop: all
migrations ended, all clients gone.

Fairness. `Coordinator`: a runner's call returns or times out (every client
has a timeout) and a started process is scheduled; the reconciler runs after a boot.
Crashes are not fair, and bounded: a run has fewer crashes than the supervisor
tolerates, and `MigrationsSettle` excepts what an unknown destination does to it, which
`coordinator_unknown` shows. `Proxy`: processes handle their messages, timers fire, DOWN
messages arrive; connecting succeeds if it is tried again and again (strong
fairness of `ConnectSucceeds`): nothing in the proxy makes a guest listen.
`Commands`: channels, replays and the runner take their steps, and a migration ends
(what `MigrationsSettle` says); the broker answers a request that is made again and
again, and a client repeats its command, which is what the code asks of both: it never
retries on its own. No fairness brings a record into the broker's window, so
`RepeatedCommandsFinish` is about the commands it holds. `EventStream`: the handler, the client and a runner that has stored an
event take their steps; the migration itself need not end, as `WatchEnds` is about one that
has. `Channel`: a socket opens or fails, its frames arrive, the server answers what
reaches it; nobody has to call, close or abort, and a queued command may wait for ever.
`Transfer`: a pull goes on, an aborted one ends, and a transfer that has failed is asked
for again, as the reconciler and the next migration do. `Exposure` has safety only: its
requests are not retried by anyone.

### Properties

`Coordinator`: `ActiveRowAgrees`, `NoRollbackAfterResume`, `ResumeSentOnce`,
`ResumeEpochsDiffer`, `OwnerFollowsCutover`, `EventLogFaithful`, and
`MigrationsSettle`. `Migration`: `OneGuest` (the refinement), `OnlyOwnerRuns`,
`DoneMeansSourceGone`, `RouteFollowsOwner`. `WorkerAlone`: `SnapshotRunsOnce`,
`ProcessHoldsDirectory`, `FenceOnlyRises`. `Proxy`: `NoSessionLeftBehind`,
`PendingWillReport`, `BufferNeverOverflows`, `ClientBytesInOrder`, `NothingDropped`,
`RouteSettles`. `Commands`: `DoneHasRun`, `QueueAgreesWithTable`, `ReplayRunsOnce`,
`QueueOrder`, `RepeatedCommandsFinish`. `EventStream`: `SeenInOrder`, `NoEventSkipped`,
`WatchEnds`. `Channel`: `RepliesMatch`, `PendingHasSocket`, `JoinedIsServed`,
`CompletedHasRun`, `CallsSettle`. `Transfer`: `RegisteredIsPublished`,
`RetriedTransferCompletes`. `Exposure`: `RouteReachesRelay`, `RowHasRoute`,
`RouteFollowsCutover`, `RelaysStop`, and `FenceNeverReopens` of `EpochStore`. Each is
stated in words above its definition, with its exceptions: an exception is something
the code does and is described below; most are held in a history variable of their own.

The modules also define their type invariants; all but that of `Migration` are proved.

`BufferNeverOverflows` says something the code does not show at a glance: the
client's socket is armed for one message and armed again only after the buffer
was written, so a session never holds more than one message, and
`buffer_limit_exceeded` is unreachable.

### Where code and documents differ

* `coordinator_unknown`: a request may name a destination that is not
  configured. Its runner crashes in the worker client until the supervisor gives
  up, with all other runners; nothing starts those again before the next boot.
* `migration_late`: `OneGuest` needs that a request a dead runner left behind
  is not delivered later. If it is, a rollback of a first migration resumes the
  source in the middle of a second one: both carry the same `epoch_before`.
* `migration_return`: A → B → A is refused, without any fault, by the record
  the first migration left on A under its old epoch.

Behaviours of a worker and of a session that the same actions show, and no run
states: a load that took effect with its answer lost leaves a record that knows of no
restored snapshot (`worker-lifecycle.ts:53`), so a pause and a resume let that guest go on,
again and again, where a record that knew would refuse (it is still the one guest: the
snapshot is not restored again, as `SnapshotRunsOnce` says); a restored sandbox refuses every rollback of its next migration
(`worker-verify.ts:42`), which then ends as `FAILED`, its row `running`, with the guest paused; a pause that timed out can
complete after the rollback was answered, so that the migration is `ROLLED_BACK` and
the guest paused; a second `:connect_internal` that fails leaves a session in mode
`connected` without a socket, and client data then crash it; a session
whose connection attempt or retry timer is pending at `begin_cutover` connects to
the old worker again (`session.ex:81`); two `:connect_internal` messages leave a
connection open and unread (`flow.ex:66`); a guest connection that ends between the
repoint and the guest's first data leaves the session in `waiting_endpoint` for good
(`flow.ex:48`); a rollback tells the proxy nothing, so its route stays in `cutover`
and the next migration's `begin_cutover` is refused. With `sharedWorkerRoot` an
artifact's descriptor is its size (`worker-files.ts:23`): a destination that still
has the files of a rolled back migration takes them for those of the next one, so
`OneGuest` is checked with hashes only.

Behaviours of the command queue, likewise shown by its actions:

* A queued command is not always replayed after `DONE` (`README.md:201`). A channel
  that read the sandbox as migrating may queue after the replay read the rows, the
  coordinator may crash between `DONE` and the replay, and a migration that fails or
  is rolled back starts none. The command then waits for its client to repeat it,
  which is why `RepeatedCommandsFinish` assumes that.
* A replay reads rows in status `publishing` too. It can finish a command whose
  publisher then sets the row to `pending` (`queued_commands.ex:81`): it runs again.
* A replay whose command meets the barrier of a later migration marks it `failed`.
* A command that ran directly leaves no row, so repeating it runs it again.
* The broker is always read from offset 0 up to `redpanda_max_bytes`, one partition for all
  sandboxes (`redpanda_http.ex:40`). A command whose records lie beyond that is never
  replayed, however often it is repeated, although `README.md:201` promises it;
  `RepeatedCommandsFinish` excepts it.
* A command that is run while a migration pauses its worker may be reported as failed
  although it ran, or still runs (`sandboxes.ex:80`): only success says what happened.
* The code starts any number of replays; in the model one waits for a free task.

Behaviours of the event stream:

* A runner that dies with its supervisor after it stored an event and before it
  broadcast it (`events.ex:35`) leaves a gap in the open streams. If the event was the
  last, the handler sends keep-alives for ever and `watch()` does not end. `silent`
  holds these events, and `NoEventSkipped` and `WatchEnds` except them.
* `watch()` resumes after a stream that ended, and polls when a stream cannot be opened.
  A stream that breaks makes it throw, without either (`migration.ts:37`): a crash of the
  coordinator ends every watch.

Behaviours of a transfer (`RegisteredIsPublished` excepts them):

* Two calls that run at a time, as after a restart of the coordinator, write one
  `.partial` file. Each verifies the stream it has hashed and not the file
  (`transfer.ts:111`, `artifact-partial.ts:35`), so a file that neither call received
  can be renamed into place and registered.
* A directory sync that fails after the rename (`artifact-partial.ts:61`) fails the
  pull: the file is of the new snapshot, the record still describes the old one.
* A partial file of another snapshot, or a disk the resumed source writes while it
  serves it, fails the verification, and the file is discarded: the next call starts
  from nothing.

Behaviours of an exposed port (`exposure` excepts them where a property would meet them):

* A second exposure of a port that is being started listens on the same host port,
  fails with `EADDRINUSE`, and frees the port although the first relay holds it
  (`worker-guest-ops.ts:77`). Another guest port may then be given it, and fails too.
* A handler that finds its guest port's relay in the Map (`relay.ts:68`) records the host
  port it was given itself (`worker-guest-ops.ts:69`), where nothing listens when that is
  another one: it takes four requests at a time, two of which fail as above (`shifted`).
* Two handlers that start a sandbox's first relays each make a Map; the later one
  replaces the other, whose relay nothing stops any more (`relay.ts:67`).
* A handler that was let in before the fence goes on after it: its relay and its host
  port outlive the sandbox on that worker.
* Two requests for different ports may leave the route of one and the row of the other;
  the cutover then moves the route to the row's port.
* A row that is stored after the runner read the ports is not repointed: its route stays
  at the source.
* A request that finds the route before its listener has told its port stores no row and
  fails (`exposure.ex:66`).
* The processes of a route restart with the endpoint it was created with
  (`route_supervisor.ex:37`): after a migration that is the old worker's, at the old epoch.

Behaviour of the epoch store: a process that dies between the rename and the sync of the
directory leaves a file that its successor takes for durable; a power cut after that can
still undo an epoch that was answered for (`adopted`).

Behaviours of the SDK's channel:

* `connect()` replaces a socket that is closing without rejecting what was pending on it
  (`replaced`): those calls wait until the new socket goes.
* A channel process that dies over a command leaves it unanswered; the client gets
  `phx_error`, which it does not handle (`unanswered`).
* A call that awaits a queued command's result is not told of a lost socket, and the
  topic is not joined again on its own: the result goes unheard.
* A command repeated after its replay ended is answered as queued, and no result is
  announced again (`commands.ex:40`): awaiting it does not end.
* A join that waits for a connection is rejected with it when `close()` was called and
  the old socket fails, although a new one is being asked for.

## The proofs

`MigrationProofs` proves of `Coordinator`, for every set of sandboxes, workers, destinations, keys
and migrations and every bound, from `NoneAssumption`, `WorkersAssumption` and
`BoundsAssumption`:

| Theorem | Says |
|---|---|
| `TypeCorrect` | `Spec => []TypeOK` |
| `NeverRollsBackAfterResume` | `Spec => []NoRollbackAfterResume` |
| `ActiveRowsAgree` | `Spec => []ActiveRowAgrees` |
| `OwnerAlwaysFollowsCutover` | `Spec => []OwnerFollowsCutover` |
| `ResumeIsSentOnce` | `Spec => []ResumeSentOnce` |
| `ResumeEpochsAlwaysDiffer` | `Spec => []ResumeEpochsDiffer` |
| `EventLogsAreFaithful` | `Spec => []EventLogFaithful` |

The argument. Nearly every step of a runner is "commit a transition, enter the
call of the new phase", so lemmas say once what `Transition`, `IssueResume`,
`CompleteCutover` and `Continue` change, and each theorem goes through the actions
with them. None of the properties but the type invariant is inductive as it
stands. `NoRollbackAfterResume` needs that a blocked runner's call belongs to its
row's phase, and that `resumeIssued` holds exactly in the phases after the boundary;
`ResumeSentOnce` needs further that a resume was counted only for a row whose
snapshot is consumed, that a runner about to send it (`issued`) has not sent one, and that
no runner in `RESUMING` starts over; `ActiveRowAgrees`
carries the other two (a transition of the active migration is the only way to free
a sandbox); `ResumeEpochsDiffer` rests on `ActiveRowAgrees` and on `epochAfter =
epochBefore + 1` with `epochBefore` the sandbox's epoch while the boundary is not
crossed. `EventLogFaithful` counts the logs that moved a sandbox. `LogsFollowRows` makes
it inductive: there are finitely many rows (one more at each start, so no constant need
be finite), only rows have a log, and a log with `CLEANUP` in it belongs to a row that
cannot come to `CLEANUP` again; the count then grows by one exactly at a cutover.

and of `Migration`, for one sandbox and any number of workers, migrations, guest's writes,
crashes of the coordinator, restarts of workers and abandoned requests, from the same and
from `OneSandboxAssumption`, `DestinationsAssumption`, `MigrationBoundsAssumption` and
`ExposedAssumption`:

| Theorem | Says |
|---|---|
| `MigrationImplementsCoordinator` | `MigrationSpec => Spec` |
| `CoordinatorInvariant`, `SystemInvariant` | `MigrationSpec => []CoordinatorInv`, `[]SystemInv` |
| `RouteAlwaysFollowsOwner` | `MigrationSpec => []RouteFollowsOwner` |
| `LiveInvariant` | `~LateDelivery /\ MigrationSpec => []LiveInv` |
| `OneVMIsLive` | `~LateDelivery /\ MigrationSpec => []OneLiveVM` |
| `OnlyTheOwnerRuns` | `~LateDelivery /\ MigrationSpec => []OnlyOwnerRuns` |
| `GoneInvariant` | `~LateDelivery /\ MigrationSpec => []GoneInv` |
| `DoneLeavesNothing` | `~LateDelivery /\ MigrationSpec => []DoneMeansSourceGone` |

`LateDelivery` is the constant that lets a request arrive after its caller gave up on it;
with it `OneLiveVM` is false, which `migration_late` shows. A handler that took its
request goes on in either case, however late, and those are what the proof is about.

The argument. A step of `Migration` is a step of `Coordinator` or leaves its variables
alone, so all that is proved of the coordinator holds in the composition. `RowAgrees` ties
a row to its sandbox: which epoch, state and owner go with each phase. `RequestsInv` says
that a request carries what its row says, that at most one request of a migration is waited
for, and that the handlers at a Firecracker process have distinct turns without a gap
beyond their number. `HandlerEffect` then goes through the workers' handlers once and finds
that each one *takes* its request and waits, has its snapshot *written* and waits on, or
*returns* with others of its call: only a resume or a rollback that returns lets a guest
run, and only a snapshot taken or found answers as one. What follows needs no handler any more.

`RouteInv` holds the route to the epoch of the sandbox: the one that `repoint` raises it to
is that of the last resume, whose migration nothing but its own cutover ends. The guest
*may run* (`MayRun`) on one worker: the destination of the last resume and, before any, the
owner. `OnePlace` says that the guest, and each handler about to let it run, is there. The
place moves at the one step that issues a resume, and then nothing runs and no such
handler is left (`SnapshotStops`). This is so because the source's snapshot found the guest
paused, and because a handler of an earlier rollback, which its runner may have given up
on, stands before the snapshot at the process (`SnapshotsLast`); Firecracker therefore
writes the snapshot after it, and the handler that has it written (`SnapshotWritten`) needs
nothing but the disk. That Firecracker serves one call at a time is what it rests on.

`GoneInv` is what `DoneMeansSourceGone` needs, and it follows the epochs and records of the
workers. `EpochsAccepted`: no worker is behind the epoch of its record, of a request that
checks its epoch, or of a handler that waits; so these calls change no accepted epoch, and
only reservations and fences do. `HandlersApart`: a reservation waits on a worker without a
record, all else on one that has a record. `FencesOK`: a fence goes to a worker that the
guest has left and that no migration has reserved since (`InUse`), so that a quarantined
record never belongs to a guest that runs. `Journeys`: migrations that leave one epoch leave
one owner, so a reservation at the source of a migration that is done comes under a higher
epoch than that migration's, and then the worker has accepted it. The fence's answer says
that the source is clear (`SourcesGone`), and the proof is that it stays so. A step of a
worker or the proxy is described by what it does to requests, answers and one worker
(`Moves`), `MovesKeep` proves once that such a step keeps the invariant, and each handler is
then shown to be one: those that check their epoch first together (`GuardedBegin`,
`GuardedEnd`), the reservation, the fence and the restart each on its own.

`CommandsProofs` proves for every set of command ids, channels and replay tasks and
every bound, from `CommandBounds` and `OtherAssumption` (the bounds and the broker's window
are numbers; the window may be smaller than the log, of which others may have any part):

| Theorem | Says |
|---|---|
| `CommandsTypeCorrect` | `CommandsSpec => []CommandsTypeOK` |
| `EveryReplayRunsOnce` | `CommandsSpec => []ReplayRunsOnce` |
| `QueueAlwaysAgrees` | `CommandsSpec => []QueueAgreesWithTable` |
| `DoneHasAlwaysRun` | `CommandsSpec => []DoneHasRun` |
| `CommandsStayInOrder` | `CommandsSpec => []QueueOrder` |

The argument. The types need two facts more: the owner changes at most once in a
migration, so a copy's number stays within `MaxMigrations + 1` (`CopyBound`), and
the records a task has left are in the log (`TodoInLog`), so that its next record
exists. `LogKept`, `RecordsKept`, `RowsKept`, `EarlierKept` and `HistoryGrows` then
say once what a step may do to each part of the state. `ReplayRunsOnce` rests on
them only. `QueueAgreesWithTable` is inductive with `Publishing`: a channel between
its publication and its update holds an offset at which its own record is. `DoneHasRun`
needs that a task about to mark `done` has run its command. `QueueOrder` is the longest:
a row has an outcome only once a replay tried it; a command's records all come
after a record of every command queued earlier; a task that fetches waits for all
earlier commands that are not yet tried; and a task with records left has, for each
of them, the earlier commands tried already or at a smaller offset of its own.
The broker's window cannot break that, since it cuts the log at its end.

`ExposureProofs` proves of `EpochStore`, for every set of sandboxes and every number of
failing writes and crashes, from `StoreBound` alone:

| Theorem | Says |
|---|---|
| `EpochStoreTypeCorrect` | `StoreSpec => []EpochStoreTypeOK` |
| `AnsweredIsAlwaysKept` | `StoreSpec => []AnsweredIsKept` |
| `FenceNeverOpens` | `StoreSpec => FenceNeverReopens` |

and of `Exposure`, for any number of requests and ports besides, from `ExposureConstants`:

| Theorem | Says |
|---|---|
| `FenceStaysShut` | `ExposureSpec => FenceNeverReopens` |
| `ExposureInvariant`, `ExposureTypes` | `ExposureSpec => []ExposureInv`, `[]ExposureTypeOK` |
| `RouteIsServed` | `ExposureSpec => []RouteReachesRelay` |
| `StoredPortIsTheRoutes` | `ExposureSpec => []RowHasRoute` |
| `CutoverMovesRoute` | `ExposureSpec => []RouteFollowsCutover` |
| `SourceRelaysStop` | `ExposureSpec => []RelaysStop` |

The store's argument is about what memory goes back to. `Settled` is memory without the epoch
that is being written. `FilesKeepSettled` says that an answered epoch is at most that, and
that every file a restart may find holds at least that: a failing write then takes memory
back to `Settled` and loses no answer, and a restart can only find more. `WriteOK` adds
that the epoch being written is above the one it replaces, and that after the rename the
file is memory, so that what becomes settled at the sync is already on disk.
`AnsweredIsKept` is not checked by a run: it follows from the invariant, and
`FenceNeverReopens`, which the run `exposure` checks in a store that a fence and another
sandbox share, is its consequence for callers. Each step of `Exposure` is a step of the
store or leaves it alone, so that the same invariant does.

The relays' argument is that nothing which names a relay goes stale while its worker runs
the sandbox. `Served` says that a port's relay listens there; `CallerOK`, `RouteOK` and
`MoverOK` say it of what a request has heard, of the route and the attributes it restarts
with, and of the migration. `Keeps` is what makes it last: relays are only taken away
from a worker that stops running the sandbox. `OneMap` is about handlers that have not met:
all relays are in the current Map, so the fence, which closes that one, closes all.
Proving it found `shifted`, an exception no run of two requests can reach.

`WorkerProofs` proves for every set of workers and migrations, any number of requests in
flight, writes and restarts, with and without a shared root and for any operations that
fail, from the assumptions of `Worker` and `WorkerAlone`:

| Theorem | Says |
|---|---|
| `WorkerInvariant`, `WorkerTypes` | `AloneSpec => []WorkerInv`, `[]WorkerTypeOK` |
| `SnapshotNeverRunsTwice` | `AloneSpec => []SnapshotRunsOnce` |
| `ProcessAlwaysHoldsDirectory` | `AloneSpec => []ProcessHoldsDirectory` |
| `FenceAlwaysRises` | `AloneSpec => FenceOnlyRises` |

A handler changes the worker after a wait in which anything may have happened to it, so the
invariant says what a waiting handler may rely on (`HandlerOK`) and which two may wait
together (`Apart`): one reservation at a time and nobody beside it, one resume of a loaded
guest, and no load that a fence is not past. `SnapshotRunsOnce` counts what Firecracker
does, whether or not its answer arrived, and needs the epochs: what was restored on a worker
came under `epoch + 1`; only a fence takes it away, under an epoch above that
(`Spent`); and by then the worker accepts no load of the same migration, even one that a
restart has made it forget. `JourneyMoves` is what makes the fence's epoch higher: two
migrations that leave one epoch leave one owner, and none goes where it comes from, so a
worker never hands a sandbox on under the epoch it got it by. Without it the property is
false. Most steps leave the other workers and handlers alone; `Calm` says what such a step
may change and is enough for all they rely on, so each action is proved against it, and
only a load, a resume, a fence and a reservation against the invariant itself.

`ProxyProofs` proves for every set of sessions, any number of epochs, chunks and faults and
any buffer of at least one chunk, from `ProxyBounds`:

| Theorem | Says |
|---|---|
| `ProxyInvariant`, `ProxyTypes` | `ProxySpec => []ProxyInv`, `[]ProxyTypeOK` |
| `PendingIsCounted` | `ProxySpec => []PendingCounted` |
| `EverySessionFollows` | `ProxySpec => []NoSessionLeftBehind` |
| `PendingSessionIsOnItsWay` | `ProxySpec => []PendingWillReport` |
| `BufferHoldsOneRead` | `ProxySpec => []BufferNeverOverflows` |
| `BytesArriveInOrder` | `ProxySpec => []ClientBytesInOrder` |
| `NothingIsDropped` | `ProxySpec => []NothingDropped` |

The invariant is about the mailbox. `EpochOK`: the endpoints in it come in order and end at
the route's epoch, or the session has that. `ReportOK` is `PendingWillReport` with the
report that a session sends itself along the way. `DeliveredOK`: the mailbox holds at most
one message of data, the last chunk read, and only while the buffer is empty and the
socket is not armed; all chunks before it are delivered, in order. Data are then never
met by a full buffer, which is `BufferHoldsOneRead`.

`EventStreamProofs` proves for any number of events, reconnections and faults, from
`EventStreamBounds`:

| Theorem | Says |
|---|---|
| `EventStreamInvariant`, `EventStreamTypes` | `EventStreamSpec => []EventStreamInv`, `[]EventStreamTypeOK` |
| `WatchNeverGoesBack` | `EventStreamSpec => []SeenInOrder` |
| `WatchHasNoGaps` | `EventStreamSpec => []NoEventSkipped` |
| `WatchEndsAsStored` | `EventStreamSpec => []EndsAsStored` |

An event is, at any time, stored, in the handler's mailbox, on the wire or read, and the
invariant says that none falls between: `WireOK` that the wire goes on where `watch()` is,
`StreamOK` that the handler's position is that of the last event on the wire, `MailboxOK`
that all events after it are in the mailbox or not announced yet. That the handler subscribes before it reads the
backlog is what carries the last one over the step to `live`.

`TransferProofs` proves for any artifacts, sizes, snapshots, calls and faults, from
`TransferConstants`:

| Theorem | Says |
|---|---|
| `TransferInvariant`, `TransferTypes` | `TransferSpec => []TransferInv`, `[]TransferTypeOK` |
| `RegisteredArtifactIsPublished` | `TransferSpec => []RegisteredIsPublished` |

The theorem is about calls that follow one another: interrupted and asked for again, from a
source that snapshots again. `Downloads` is the invariant of a pull that runs alone: up to the rename its partial file is
what it has hashed, and from then on the published file is what its manifest says, though a
resumed pull takes the partial file over from one that died. Calls that met and a failed
directory sync are excepted, as in the property.

`ChannelProofs` proves for any commands, topics, sockets, calls and faults, from
`ChannelConstants`:

| Theorem | Says |
|---|---|
| `ChannelInvariant`, `ChannelTypes` | `ChannelSpec => []ChannelInv`, `[]ChannelTypeOK` |
| `RepliesFindTheirPush` | `ChannelSpec => []RepliesMatch` |
| `PendingIsOnASocket` | `ChannelSpec => []PendingHasSocket` |
| `JoinedTopicIsServed` | `ChannelSpec => []JoinedIsServed` |
| `ResolvedHasRun` | `ChannelSpec => []CompletedHasRun` |

`RefsOK` says that a ref, once given, belongs to one push on one socket, wherever the frames
that carry it are, so that a late reply of a lost socket finds no push of another one.
`Truthful` says that each frame under way tells what is so: a result that a command has
run, a join's reply that its topic has a channel.

Only model-checked: the refinement of `MovingGuest`, whose second half, that no write is
lost, may not hold in every instance: with three workers and two abandoned transfers at one of
them at a time, which takes four migrations, a late transfer could replace the files that a
load is about to read; and all liveness, which the prover does not do.

## Not modelled, and the plan

Not modelled:

* Terraform and scripts, the demo and load generator, the guest agent's own loop,
  serialization, logging, authentication: no state machine of the program's own, or
  pure I/O.
* Validation of manifests and the host preflight: pure checks of values the models
  leave abstract.
* The first boot of a sandbox with its host commands, the network allocator, the replay of a stored
  response by the idempotency table, deletion of a route (nothing but the admin API
  deletes one), and file writes, which take the path of a command.
* In `Transfer`: a body longer than its range (refused before it is written), a
  destination that restarts (its record is gone, and with it what `registered` is
  about). The hard links of a shared worker root are in `Worker`, where an artifact is its size.
* In `Channel`: heartbeats, whose loss is a broken connection, and malformed frames.

Planned, in this order:

1. `Proxy` and `Migration` together: the rollback that leaves the route in `cutover`.
2. Pure algorithms: `SequenceFilter.feed`, `Backoff.delay`, `analyzeSequence`.
