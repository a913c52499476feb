------------------------------ MODULE Commands ------------------------------
(***************************************************************************)
(* The commands of one sandbox: the channel processes that take them from  *)
(* clients, the queued_commands table, the partition of the broker, and    *)
(* the tasks that replay queued commands.  While the sandbox migrates its  *)
(* commands are queued; the runner that brings the migration to DONE, and  *)
(* a client that repeats a queued command, start a replay.                 *)
(*                                                                         *)
(* Every sandbox publishes to that one partition, and a replay reads it    *)
(* from its first record, as far as one answer of the broker goes.         *)
(*                                                                         *)
(* The migration is seen as commands see it: the row they read, and which  *)
(* copy of the guest answers.  Copies are numbered by the changes of       *)
(* owner.  A call to a worker names the copy of the row it was made from.  *)
(***************************************************************************)
EXTENDS Naturals, Sequences, FiniteSets, FiniteSetsExt

CONSTANTS
    Ids,              \* command ids: each names one payload of one user
    Channels,         \* SandboxChannel processes
    Other,            \* the record of a command of another sandbox
    Tasks,            \* bound: replay tasks at any one time (the code starts any number)
    Window,           \* records the broker returns from offset 0 (redpanda_max_bytes)
    MaxOthers,        \* bound: records of other sandboxes
    MaxMigrations,    \* bound: migrations of the sandbox
    MaxFaults         \* bound: publish requests the broker takes but does not answer, and
                      \* crashes of the coordinator

ASSUME CommandBounds == /\ Window \in Nat /\ MaxOthers \in Nat /\ MaxMigrations \in Nat
                        /\ MaxFaults \in Nat
ASSUME OtherAssumption == Other \notin Ids

VARIABLES
    sandbox,    \* the sandbox row: its migration's stage, and the copy it names
    live,       \* the copy of the guest that answers, or NoCopy
    moves,      \* migrations started
    row,        \* row[c]: the queued_commands row of c
    log,        \* the broker's partition: the ids of this sandbox's records, and Other
    channel,    \* channel[h]: what h is doing
    task,       \* task[t]: what t is doing
    finishing,  \* TRUE: a runner has stored DONE and not replayed yet
    faults,
    ran,        \* the commands a guest has run (history)
    tried,      \* the queued commands a replay has tried (history)
    earlier     \* earlier[c]: the commands that were queued when c's row was made (history)

life        == <<sandbox, live, moves, finishing>>
history     == <<ran, tried, earlier>>
commandVars == <<life, row, log, channel, task, faults, history>>

NoCopy   == 0
NoOffset == 0
Copies   == 1..(MaxMigrations + 1)

\* Before the barrier phases; in them; there with the resume issued; with the owner changed.
Migrating == {"open", "barrier", "resumed", "moved"}
Stages    == Migrating \cup {"settled", "orphaned"}

NoRow == [status |-> "none", offset |-> NoOffset]
Idle  == [at |-> "idle"]
Free  == [at |-> "free"]

ChannelStates ==
    {Idle} \cup
    [at : {"route"}, id : Ids, settled : BOOLEAN] \cup
    [at : {"insert", "publish"}, id : Ids, settled : BOOLEAN, again : BOOLEAN] \cup
    [at : {"update"}, id : Ids, settled : BOOLEAN, again : BOOLEAN, offset : Nat] \cup
    [at : {"run"}, id : Ids] \cup
    [at : {"call"}, id : Ids, copy : Copies]

TaskStates ==
    {Free} \cup
    [at : {"fetch"}, pending : SUBSET Ids] \cup
    [at : {"run"}, todo : SUBSET Nat] \cup
    [at : {"call"}, todo : SUBSET Nat, copy : Copies] \cup
    [at : {"mark"}, todo : SUBSET Nat, result : {"done", "failed"}]

CommandsTypeOK ==
    /\ sandbox \in [stage : Stages, copy : Copies]
    /\ live \in Copies \cup {NoCopy}
    /\ moves \in 0..MaxMigrations
    /\ row \in [Ids -> [status : {"none", "publishing", "pending", "done", "failed"},
                        offset : Nat]]
    /\ log \in Seq(Ids \cup {Other})
    /\ channel \in [Channels -> ChannelStates]
    /\ task \in [Tasks -> TaskStates]
    /\ finishing \in BOOLEAN
    /\ faults \in 0..MaxFaults
    /\ ran \in SUBSET Ids
    /\ tried \in SUBSET Ids
    /\ earlier \in [Ids -> SUBSET Ids]

CommandsInit ==
    /\ sandbox = [stage |-> "settled", copy |-> 1]
    /\ live = 1
    /\ moves = 0
    /\ row = [c \in Ids |-> NoRow]
    /\ log = <<>>
    /\ channel = [h \in Channels |-> Idle]
    /\ task = [t \in Tasks |-> Free]
    /\ finishing = FALSE
    /\ faults = 0
    /\ ran = {} /\ tried = {} /\ earlier = [c \in Ids |-> {}]

-----------------------------------------------------------------------------
(* The migration.                                                          *)

Stage(from, to) ==
    /\ sandbox.stage \in from
    /\ sandbox' = [sandbox EXCEPT !.stage = to]

StartMigration ==
    /\ moves < MaxMigrations
    /\ Stage({"settled"}, "open")
    /\ moves' = moves + 1
    /\ UNCHANGED <<live, finishing>>

FailEarly == Stage({"open"}, "settled") /\ UNCHANGED <<live, moves, finishing>>

RaiseBarrier == Stage({"open"}, "barrier") /\ UNCHANGED <<live, moves, finishing>>

PauseSource ==
    /\ sandbox.stage = "barrier" /\ live # NoCopy
    /\ live' = NoCopy
    /\ UNCHANGED <<sandbox, moves, finishing>>

\* The rollback resumes the source, or fails and leaves it as it is.
RollBack ==
    /\ Stage({"barrier"}, "settled")
    /\ live' \in {live, sandbox.copy}
    /\ UNCHANGED <<moves, finishing>>

\* The resume is issued; it may fail.
ResumeDestination ==
    /\ live = NoCopy
    /\ Stage({"barrier"}, "resumed")
    /\ live' \in {NoCopy, sandbox.copy + 1}
    /\ UNCHANGED <<moves, finishing>>

ChangeOwner ==
    /\ sandbox.stage = "resumed" /\ live # NoCopy
    /\ sandbox' = [stage |-> "moved", copy |-> sandbox.copy + 1]
    /\ UNCHANGED <<live, moves, finishing>>

GiveUp == Stage({"resumed", "moved"}, "orphaned") /\ UNCHANGED <<live, moves, finishing>>

\* The runner stores DONE. What it does next is ReplayAfterDone.
Finish ==
    /\ ~finishing
    /\ Stage({"moved"}, "settled")
    /\ finishing' = TRUE
    /\ UNCHANGED <<live, moves>>

MigrationStep ==
    /\ \/ StartMigration \/ FailEarly \/ RaiseBarrier \/ PauseSource \/ RollBack
       \/ ResumeDestination \/ ChangeOwner \/ GiveUp \/ Finish
    /\ UNCHANGED <<row, log, channel, task, faults, history>>

-----------------------------------------------------------------------------
(* Replays.                                                                *)

Replayable == {c \in Ids : row[c].status \in {"publishing", "pending"}}

\* replay/1: the caller has read these rows and starts a task for them. (Here it waits for one
\* of Tasks, where the code has as many as it needs.)
Replay(pending) ==
    IF pending = {} THEN UNCHANGED task
    ELSE \E t \in Tasks : /\ task[t] = Free
                          /\ task' = [task EXCEPT ![t] = [at |-> "fetch", pending |-> pending]]

ReplayAfterDone ==
    /\ finishing
    /\ finishing' = FALSE
    /\ Replay(Replayable)
    /\ UNCHANGED <<sandbox, live, moves, row, log, channel, faults, history>>

\* The offsets of the records the broker returns: the first Window of them, whoever's they are.
Fetched == {i \in 1..Len(log) : i <= Window}

\* Mutant: a command that was published twice is not filtered out.
MutantFirstRecords(pending) == {i \in Fetched : log[i] \in pending}

\* filter/3: the first record of each pending command among them.
FirstRecords(pending) ==
    {i \in Fetched : /\ log[i] \in pending
                     /\ \A j \in 1..(i - 1) : log[j] # log[i]}

\* The task goes on with the records left, in the order of their offsets.
GoOn(t, todo) ==
    task' = [task EXCEPT ![t] = IF todo = {} THEN Free ELSE [at |-> "run", todo |-> todo]]

\* Mutant: the records are sorted the other way round.
MutantNextOffset(t) == Max(task[t].todo)

NextOffset(t) == Min(task[t].todo)

Current(t) == log[NextOffset(t)]

FetchSucceeds(t) ==
    /\ task[t].at = "fetch"
    /\ GoOn(t, FirstRecords(task[t].pending))
    /\ UNCHANGED <<life, row, log, channel, faults, history>>

FetchFails(t) ==
    /\ task[t].at = "fetch"
    /\ task' = [task EXCEPT ![t] = Free]
    /\ UNCHANGED <<life, row, log, channel, faults, history>>

\* ensure_mutable/1: a migration behind its barrier.
Blocked == sandbox.stage \in {"barrier", "resumed", "moved"}

\* Sandboxes.run_command/2 up to its call. Its reads of the two rows are one step: a sandbox
\* row that is stale by the second read names a copy that does not answer.
TryCommand(t) ==
    /\ task[t].at = "run"
    /\ tried' = tried \cup {Current(t)}
    /\ task' = [task EXCEPT ![t] =
                  IF Blocked
                  THEN [at |-> "mark", todo |-> task[t].todo, result |-> "failed"]
                  ELSE [at |-> "call", todo |-> task[t].todo, copy |-> sandbox.copy]]
    /\ UNCHANGED <<life, row, log, channel, faults, ran, earlier>>

\* A call reaches the guest if the copy it names is the one that answers. A call that fails
\* may have run the command all the same.
MayRun(copy, c) == ran' \in {ran, IF live = copy THEN ran \cup {c} ELSE ran}

\* Mutant: a refusal is taken for a result.
MutantCommandAnswered(t) ==
    /\ task[t].at = "call"
    /\ MayRun(task[t].copy, Current(t))
    /\ task' = [task EXCEPT ![t] = [at |-> "mark", todo |-> task[t].todo, result |-> "done"]]
    /\ UNCHANGED <<life, row, log, channel, faults, tried, earlier>>

CommandAnswered(t) ==
    /\ task[t].at = "call"
    /\ MayRun(task[t].copy, Current(t))
    /\ \E result \in {"done", "failed"} :
          /\ result = "done" => live = task[t].copy /\ Current(t) \in ran'
          /\ task' = [task EXCEPT ![t] =
                        [at |-> "mark", todo |-> task[t].todo, result |-> result]]
    /\ UNCHANGED <<life, row, log, channel, faults, tried, earlier>>

\* mark_done/2 and mark_failed/2, whatever became of the row since it was read.
MarkCommand(t) ==
    /\ task[t].at = "mark"
    /\ row' = [row EXCEPT ![Current(t)].status = task[t].result]
    /\ GoOn(t, task[t].todo \ {NextOffset(t)})
    /\ UNCHANGED <<life, log, channel, faults, history>>

TaskStep(t) == \/ FetchSucceeds(t) \/ FetchFails(t) \/ TryCommand(t)
               \/ CommandAnswered(t) \/ MarkCommand(t)

-----------------------------------------------------------------------------
(* Channels.                                                               *)

\* h turns to its next step, or has answered its client.
Turns(h, to) == channel' = [channel EXCEPT ![h] = to]
Answers(h)   == Turns(h, Idle)

\* Mutant: a repeated command does not start a replay.
MutantMaybeReplay(settled, pending) == UNCHANGED task

\* maybe_replay/1, with the sandbox row as it was read at the start.
MaybeReplay(settled, pending) == IF settled THEN Replay(pending) ELSE UNCHANGED task

\* submit/3 reads the sandbox row, then the row of the command. (A command that uses the id
\* of another one is refused; nothing changes.)
Submit(h, c) ==
    /\ channel[h] = Idle
    /\ Turns(h, [at |-> "route", id |-> c, settled |-> sandbox.stage = "settled"])
    /\ UNCHANGED <<life, row, log, task, faults, history>>

Route(h) ==
    /\ channel[h].at = "route"
    /\ LET c == channel[h].id
           settled == channel[h].settled
       IN \/ /\ row[c].status = "none" /\ settled
             /\ Turns(h, [at |-> "run", id |-> c])
             /\ UNCHANGED task
          \/ /\ row[c].status = "none" /\ ~settled
             /\ Turns(h, [at |-> "insert", id |-> c, settled |-> settled, again |-> FALSE])
             /\ UNCHANGED task
          \/ /\ row[c].status = "publishing"
             /\ Turns(h, [at |-> "insert", id |-> c, settled |-> settled, again |-> TRUE])
             /\ UNCHANGED task
          \/ /\ row[c].status = "pending"
             /\ MaybeReplay(settled, Replayable)
             /\ Answers(h)
          \/ /\ row[c].status \in {"done", "failed"}
             /\ Answers(h)
             /\ UNCHANGED task
    /\ UNCHANGED <<life, row, log, faults, history>>

\* Only a command that was there before is replayed by the channel that publishes it.
Published(h, pending) ==
    /\ Answers(h)
    /\ MaybeReplay(channel[h].again /\ channel[h].settled, pending)

Queued == {c \in Ids : row[c].status \in {"pending", "done", "failed"}}

\* create_or_fetch/1, one transaction, and what its outcome decides.
Insert(h) ==
    /\ channel[h].at = "insert"
    /\ LET c == channel[h].id IN
       \/ /\ row[c].status = "none"
          /\ row' = [row EXCEPT ![c].status = "publishing"]
          /\ earlier' = [earlier EXCEPT ![c] = Queued]
          /\ Turns(h, [channel[h] EXCEPT !.at = "publish"])
          /\ UNCHANGED task
       \/ /\ row[c].status = "publishing"
          /\ Turns(h, [channel[h] EXCEPT !.at = "publish"])
          /\ UNCHANGED <<row, task, earlier>>
       \/ /\ c \in Queued
          /\ Published(h, Replayable)
          /\ UNCHANGED <<row, earlier>>
    /\ UNCHANGED <<life, log, faults, ran, tried>>

\* Mutant: the offset of the record before.
MutantPublishAnswered(h) ==
    /\ channel[h].at = "publish"
    /\ log' = Append(log, channel[h].id)
    /\ Turns(h, [at |-> "update", id |-> channel[h].id, settled |-> channel[h].settled,
                 again |-> channel[h].again, offset |-> Len(log)])
    /\ UNCHANGED <<life, row, task, faults, history>>

PublishAnswered(h) ==
    /\ channel[h].at = "publish"
    /\ log' = Append(log, channel[h].id)
    /\ Turns(h, [at |-> "update", id |-> channel[h].id, settled |-> channel[h].settled,
                 again |-> channel[h].again, offset |-> Len(log')])
    /\ UNCHANGED <<life, row, task, faults, history>>

PublishRefused(h) ==
    /\ channel[h].at = "publish"
    /\ Answers(h)
    /\ UNCHANGED <<life, row, log, task, faults, history>>

\* The request times out, or its answer is lost, after the broker stored the record.
PublishUnanswered(h) ==
    /\ channel[h].at = "publish" /\ faults < MaxFaults
    /\ log' = Append(log, channel[h].id)
    /\ faults' = faults + 1
    /\ Answers(h)
    /\ UNCHANGED <<life, row, task, history>>

\* The status goes to pending, whatever became of the row since it was read.
UpdatePublished(h) ==
    /\ channel[h].at = "update"
    /\ row' = [row EXCEPT ![channel[h].id] =
                 [status |-> "pending", offset |-> channel[h].offset]]
    /\ Published(h, Replayable \cup {channel[h].id})
    /\ UNCHANGED <<life, log, faults, history>>

\* Sandboxes.run_command/2 of a command that was not queued.
RunDirectly(h) ==
    /\ channel[h].at = "run"
    /\ IF Blocked THEN Answers(h)
       ELSE Turns(h, [at |-> "call", id |-> channel[h].id, copy |-> sandbox.copy])
    /\ UNCHANGED <<life, row, log, task, faults, history>>

DirectAnswered(h) ==
    /\ channel[h].at = "call"
    /\ MayRun(channel[h].copy, channel[h].id)
    /\ Answers(h)
    /\ UNCHANGED <<life, row, log, task, faults, tried, earlier>>

ChannelStep(h) == \/ Route(h) \/ Insert(h) \/ PublishAnswered(h) \/ PublishRefused(h)
                  \/ PublishUnanswered(h) \/ UpdatePublished(h)
                  \/ RunDirectly(h) \/ DirectAnswered(h)

-----------------------------------------------------------------------------

\* A channel of another sandbox publishes a command: every sandbox's records are in one
\* partition.
OtherPublishes ==
    /\ Cardinality({i \in 1..Len(log) : log[i] = Other}) < MaxOthers
    /\ log' = Append(log, Other)
    /\ UNCHANGED <<life, row, channel, task, faults, history>>

\* The processes are gone; the tables and the broker stay. A runner that starts again finds
\* a DONE migration, and has nothing to do.
CoordinatorCrash ==
    /\ faults < MaxFaults
    /\ faults' = faults + 1
    /\ channel' = [h \in Channels |-> Idle]
    /\ task' = [t \in Tasks |-> Free]
    /\ finishing' = FALSE
    /\ UNCHANGED <<sandbox, live, moves, row, log, history>>

CommandsNext ==
    \/ MigrationStep
    \/ ReplayAfterDone
    \/ \E t \in Tasks : TaskStep(t)
    \/ \E h \in Channels : (\E c \in Ids : Submit(h, c)) \/ ChannelStep(h)
    \/ OtherPublishes
    \/ CoordinatorCrash

CommandsSpec == CommandsInit /\ [][CommandsNext]_commandVars

\* Processes take their steps; a migration ends. The broker answers a request that is made
\* again and again, and the client repeats a command until it has an outcome.
CommandsFairSpec ==
    /\ CommandsSpec
    /\ WF_commandVars(MigrationStep /\ sandbox'.stage # "open")
    /\ WF_commandVars(ReplayAfterDone)
    /\ \A t \in Tasks : /\ WF_commandVars(TaskStep(t))
                        /\ SF_commandVars(FetchSucceeds(t))
    /\ \A h \in Channels : /\ WF_commandVars(ChannelStep(h))
                           /\ SF_commandVars(PublishAnswered(h))
    /\ \A c \in Ids : SF_commandVars(\E h \in Channels : Submit(h, c))

-----------------------------------------------------------------------------
(* Properties.                                                             *)

\* A command reported as done has run.
DoneHasRun == \A c \in Ids : row[c].status = "done" => c \in ran

\* The table and the broker agree: a queued command has its record at the offset its row
\* names, and the broker holds no record of a command the table does not know.
QueueAgreesWithTable ==
    /\ \A c \in Ids : row[c].status = "pending" =>
          row[c].offset \in 1..Len(log) /\ log[row[c].offset] = c
    /\ \A i \in 1..Len(log) : log[i] \in Ids => row[log[i]].status # "none"

\* One replay runs a command once, however often it was published.
ReplayRunsOnce ==
    \A t \in Tasks : task[t].at \in {"run", "call", "mark"} =>
        \A i, j \in task[t].todo : log[i] = log[j] => i = j

\* Queued commands are tried in the order in which clients could see them queued: when one
\* is tried, every command that was queued before it was accepted has been tried.
QueueOrder == \A c \in tried : earlier[c] \subseteq tried

\* A command that was queued gets an outcome if its client repeats it, the sandbox does not
\* wait for an operator, and the broker returns a record of it.  That last condition is not
\* the client's to meet: a replay always reads from offset 0 of the partition of all
\* sandboxes, so a command whose records lie beyond the first Window ones stays pending,
\* however often it is repeated.
RepeatedCommandsFinish ==
    \A c \in Ids : row[c].status = "pending" /\ (\E i \in Fetched : log[i] = c) ~>
                      row[c].status \in {"done", "failed"} \/ sandbox.stage = "orphaned"
=============================================================================
